------------------------------ MODULE Lifecycle ------------------------------
(***************************************************************************)
(* Start and end of the daemon (cmd/devproxy/daemon.go), of its network    *)
(* runtime (internal/daemon/network.go), of its admin server               *)
(* (internal/adminapi/server.go) and of its dashboard, for several daemon  *)
(* processes on one machine.  They share the ports and the path of the     *)
(* admin socket.  Serving goroutines are scheduled at any time after they  *)
(* are created, also after the server was shut down.                       *)
(***************************************************************************)
EXTENDS Integers, FiniteSets, Sequences

CONSTANTS
  IssueLimit,   \* admin.SessionIssueLimit
  MaxDaemons,   \* bound: daemon processes started
  Busy,         \* bound: the roles that get requests that take their time
  MaxFaults     \* bound: foreign programs on a port, failed steps, kills, other issues

ASSUME BoundsAssumption == MaxDaemons \in Nat /\ MaxFaults \in Nat
ASSUME LimitAssumption == IssueLimit \in Nat \ {0}

Daemons == 1..MaxDaemons   \* in the order in which they are started
None == 0

Web == {"http", "https"}
Ports == Web \cup {"dns", "dashboard"}
Roles == Web \cup {"dns", "admin"}
Kinds == Web \cup {"dashboard", "other"}   \* of issues

ASSUME BusyAssumption == Busy \subseteq Web \cup {"admin"}

VARIABLES
  port,     \* the process that holds each port
  path,     \* the process whose listener made the socket file, or None
  pc,       \* per process: the next step of Start or Close
  srv,      \* per process and role: "none", "bound" or "serving"
  bound,    \* NetworkRuntimeHealth: roles reported as bound
  down,     \* roles whose server was shut down
  reqs,     \* roles with requests in flight
  server,   \* App.server is set
  issues,   \* App.issues, the oldest first
  faults,
  \* history, read by no action
  alone,    \* it took the DNS port when no other process had got so far
  early,    \* the DNS server was shut down before it was serving
  lost      \* roles whose issue newer ones have pushed out of the log

osVars      == <<port, path>>
processVars == <<srv, bound, down, reqs, server, issues>>
historyVars == <<alone, early, lost>>
vars == <<osVars, pc, processVars, faults, historyVars>>

Gone(d) == pc[d] \in {"off", "dead"}

Init ==
  /\ port = [l \in Ports |-> None] /\ path = None
  /\ pc = [d \in Daemons |-> "off"]
  /\ srv = [d \in Daemons |-> [l \in Roles |-> "none"]]
  /\ bound = [d \in Daemons |-> {}] /\ down = [d \in Daemons |-> {}]
  /\ reqs = [d \in Daemons |-> {}] /\ issues = [d \in Daemons |-> <<>>]
  /\ server = [d \in Daemons |-> FALSE]
  /\ faults = 0
  /\ alone = [d \in Daemons |-> FALSE] /\ early = [d \in Daemons |-> FALSE]
  /\ lost = [d \in Daemons |-> {}]

Goto(d, l) == pc' = [pc EXCEPT ![d] = l]
Fault == faults < MaxFaults /\ faults' = faults + 1
SetSrv(d, l, s) == srv' = [srv EXCEPT ![d][l] = s]
Add(f, d, l) == [f EXCEPT ![d] = @ \cup {l}]
Drop(f, d, l) == [f EXCEPT ![d] = @ \ {l}]

\* recordIssue keeps the newest IssueLimit issues.
recordIssue(d, k) ==
  IF Len(issues[d]) < IssueLimit
    THEN issues' = [issues EXCEPT ![d] = Append(@, k)] /\ UNCHANGED lost
    ELSE /\ issues' = [issues EXCEPT ![d] = Append(Tail(@), k)]
         /\ lost' = [lost EXCEPT ![d] = @ \cup ({Head(issues[d])} \cap Web)]

(***************************************************************************)
(* App.Start                                                               *)
(***************************************************************************)
Launch(d) ==
  /\ pc[d] = "off"
  /\ \A e \in 1..(d - 1) : pc[e] # "off"
  /\ Goto(d, "boot")
  /\ UNCHANGED <<osVars, processVars, faults, historyVars>>

\* EnsureMKCert or NewNetworkRuntime fails: Start returns with nothing to close.
BootFails(d) ==
  /\ pc[d] = "boot"
  /\ Fault
  /\ Goto(d, "exit")
  /\ UNCHANGED <<osVars, processVars, historyVars>>

NoteAlone(d) ==
  alone' = [alone EXCEPT ![d] = \A e \in Daemons \ {d} : pc[e] \in {"off", "boot", "dead"}]

\* The issues of the steps up to there, of the Docker events, of certificate
\* refreshes and of startup requests.
OtherIssue(d) ==
  /\ pc[d] = "boot" \/ (server[d] /\ ~Gone(d))
  /\ Fault
  /\ recordIssue(d, "other")
  /\ UNCHANGED <<osVars, pc, srv, bound, down, reqs, server, alone, early>>

\* Mutant of BindDNS: a DNS port in use is recorded like the other ports.
BindDNSOptional(d) ==
  /\ pc[d] = "boot"
  /\ IF port["dns"] = None
       THEN /\ port' = [port EXCEPT !["dns"] = d]
            /\ SetSrv(d, "dns", "bound")
            /\ bound' = Add(bound, d, "dns")
            /\ UNCHANGED <<issues, lost>>
       ELSE recordIssue(d, "dns") /\ UNCHANGED <<port, srv, bound>>
  /\ Goto(d, "http")
  /\ NoteAlone(d)
  /\ UNCHANGED <<path, down, reqs, server, faults, early>>

\* NetworkRuntime.Start cannot do without its DNS port.
BindDNS(d) ==
  /\ pc[d] = "boot"
  /\ IF port["dns"] = None
       THEN /\ port' = [port EXCEPT !["dns"] = d]
            /\ SetSrv(d, "dns", "bound")
            /\ bound' = Add(bound, d, "dns")
            /\ Goto(d, "http")
       ELSE Goto(d, "exit") /\ UNCHANGED <<port, srv, bound>>
  /\ NoteAlone(d)
  /\ UNCHANGED <<path, down, reqs, server, issues, faults, early, lost>>

\* Mutant of BindWeb: a port that cannot be bound is passed over.
BindWebQuiet(d, l) ==
  /\ pc[d] = l
  /\ Goto(d, IF l = "http" THEN "https" ELSE "unlink")
  /\ IF port[l] = None
       THEN /\ port' = [port EXCEPT ![l] = d]
            /\ SetSrv(d, l, "bound")
            /\ bound' = Add(bound, d, l)
       ELSE UNCHANGED <<port, srv, bound>>
  /\ UNCHANGED <<path, down, reqs, server, issues, faults, historyVars>>

\* HTTP and HTTPS ports may be missing; recordNetworkListenerIssues records it.
BindWeb(d, l) ==
  /\ pc[d] = l
  /\ Goto(d, IF l = "http" THEN "https" ELSE "unlink")
  /\ \/ /\ port[l] = None
        /\ port' = [port EXCEPT ![l] = d]
        /\ SetSrv(d, l, "bound")
        /\ bound' = Add(bound, d, l)
        /\ UNCHANGED <<issues, lost, faults>>
     \/ /\ (port[l] # None /\ UNCHANGED faults) \/ Fault
        /\ recordIssue(d, l)
        /\ UNCHANGED <<port, srv, bound>>
  /\ UNCHANGED <<path, down, reqs, server, alone, early>>

\* adminapi.Server.Start: removeStaleSocket looks what is at the path.  What it
\* may not remove, and any other failure, ends Start.
StatSocket(d) ==
  /\ pc[d] = "unlink"
  /\ \/ Goto(d, IF path = None THEN "listen" ELSE "remove") /\ UNCHANGED faults
     \/ Goto(d, "stop dns") /\ Fault
  /\ UNCHANGED <<osVars, processVars, historyVars>>

\* removeStaleSocket takes it away, whoever's it is; a path that has vanished
\* meanwhile is a failure.
RemoveStaleSocket(d) ==
  /\ pc[d] = "remove"
  /\ \/ path # None /\ path' = None /\ Goto(d, "listen") /\ UNCHANGED faults
     \/ /\ (path = None /\ UNCHANGED faults) \/ Fault
        /\ Goto(d, "stop dns") /\ UNCHANGED path
  /\ UNCHANGED <<port, processVars, historyVars>>

\* net.Listen makes the socket file, unless there is one again.
ListenAdmin(d) ==
  /\ pc[d] = "listen"
  /\ \/ /\ path = None /\ path' = d
        /\ SetSrv(d, "admin", "bound")
        /\ Goto(d, "access")
        /\ UNCHANGED faults
     \/ /\ (path # None /\ UNCHANGED faults) \/ Fault
        /\ Goto(d, "stop dns") /\ UNCHANGED <<path, srv>>
  /\ UNCHANGED <<port, bound, down, reqs, server, issues, historyVars>>

\* setAdminSocketAccess; then App.server is set and the dashboard started (its
\* goroutine shares nothing with the others and is taken to run at once).  A
\* failure closes the listener, which unlinks the path, and the network runtime.
GrantAccess(d) ==
  /\ pc[d] = "access"
  /\ \/ /\ Goto(d, "running")
        /\ server' = [server EXCEPT ![d] = TRUE]
        /\ IF port["dashboard"] = None
             THEN port' = [port EXCEPT !["dashboard"] = d] /\ UNCHANGED <<issues, lost>>
             ELSE recordIssue(d, "dashboard") /\ UNCHANGED port
        /\ UNCHANGED <<path, srv, faults>>
     \/ /\ Fault
        /\ path' = None
        /\ SetSrv(d, "admin", "none")
        /\ Goto(d, "stop dns")
        /\ UNCHANGED <<port, server, issues, lost>>
  /\ UNCHANGED <<bound, down, reqs, alone, early>>

(***************************************************************************)
(* Serving goroutines and requests                                         *)
(***************************************************************************)
\* ActivateAndServe: it does not know of a Shutdown that came too early.
ServeDNS(d) ==
  /\ srv[d]["dns"] = "bound"
  /\ SetSrv(d, "dns", "serving")
  /\ UNCHANGED <<osVars, pc, bound, down, reqs, server, issues, faults, historyVars>>

\* http.Server.Serve closes its listener if the server was shut down before.
ServeHTTP(d, l) ==
  /\ srv[d][l] = "bound"
  /\ IF l \in down[d]
       THEN SetSrv(d, l, "none") /\ port' = [port EXCEPT ![l] = None]
       ELSE SetSrv(d, l, "serving") /\ UNCHANGED port
  /\ UNCHANGED <<path, pc, bound, down, reqs, server, issues, faults, historyVars>>

\* Likewise; closing a Unix listener unlinks its path, whoever made the file.
ServeAdmin(d) ==
  /\ srv[d]["admin"] = "bound"
  /\ server[d]
  /\ IF "admin" \in down[d]
       THEN SetSrv(d, "admin", "none") /\ path' = None
       ELSE SetSrv(d, "admin", "serving") /\ UNCHANGED path
  /\ UNCHANGED <<port, pc, bound, down, reqs, server, issues, faults, historyVars>>

RequestArrives(d, l) ==
  /\ srv[d][l] = "serving"
  /\ reqs' = Add(reqs, d, l)
  /\ reqs' # reqs
  /\ UNCHANGED <<osVars, pc, srv, bound, down, server, issues, faults, historyVars>>

RequestEnds(d, l) ==
  /\ l \in reqs[d]
  /\ reqs' = Drop(reqs, d, l)
  /\ UNCHANGED <<osVars, pc, srv, bound, down, server, issues, faults, historyVars>>

(***************************************************************************)
(* App.Close, from App.Run and once more deferred by the command           *)
(***************************************************************************)
CancelDashboard(d) ==
  port' = [port EXCEPT !["dashboard"] = IF @ = d THEN None ELSE @]

\* SIGINT or SIGTERM.  Start goes on to its end before Run looks at the context.
BeginClose(d) ==
  /\ pc[d] = "running"
  /\ Goto(d, "stop admin")
  /\ CancelDashboard(d)
  /\ UNCHANGED <<path, processVars, faults, historyVars>>

\* http.Server.Shutdown of the admin server: its listener first ...
StopAdmin(d) ==
  /\ pc[d] = "stop admin"
  /\ down' = Add(down, d, "admin")
  /\ IF srv[d]["admin"] = "serving"
       THEN SetSrv(d, "admin", "none") /\ path' = None
       ELSE UNCHANGED <<srv, path>>
  /\ Goto(d, "drain admin")
  /\ UNCHANGED <<port, bound, reqs, server, issues, faults, historyVars>>

\* ... then its requests, and at last os.Remove of the path.
DrainAdmin(d) ==
  /\ pc[d] = "drain admin"
  /\ "admin" \notin reqs[d]
  /\ path' = None
  /\ Goto(d, "stop dns")
  /\ UNCHANGED <<port, processVars, faults, historyVars>>

\* Mutant of StopDNS: the server is forgotten without Shutdown.
StopDNSForgets(d) ==
  /\ pc[d] = "stop dns"
  /\ bound' = Drop(bound, d, "dns")
  /\ Goto(d, "stop http")
  /\ UNCHANGED <<osVars, srv, down, reqs, server, issues, faults, historyVars>>

\* stopDNSServerLocked: "dns: server not started" is taken for success.
StopDNS(d) ==
  /\ pc[d] = "stop dns"
  /\ IF srv[d]["dns"] = "serving"
       THEN SetSrv(d, "dns", "none") /\ port' = [port EXCEPT !["dns"] = None]
       ELSE UNCHANGED <<srv, port>>
  /\ early' = [early EXCEPT ![d] = srv[d]["dns"] = "bound"]
  /\ bound' = Drop(bound, d, "dns")
  /\ Goto(d, "stop http")
  /\ UNCHANGED <<path, down, reqs, server, issues, faults, alone, lost>>

\* Shutdown of the HTTP and HTTPS servers that exist: listener first ...
StopWeb(d, l) ==
  /\ pc[d] = IF l = "http" THEN "stop http" ELSE "stop https"
  /\ down' = IF l \in bound[d] THEN Add(down, d, l) ELSE down
  /\ IF srv[d][l] = "serving"
       THEN SetSrv(d, l, "none") /\ port' = [port EXCEPT ![l] = None]
       ELSE UNCHANGED <<srv, port>>
  /\ Goto(d, IF l = "http" THEN "drain http" ELSE "drain https")
  /\ UNCHANGED <<path, bound, reqs, server, issues, faults, historyVars>>

\* ... then its requests, for as long as they take.
DrainWeb(d, l) ==
  /\ pc[d] = IF l = "http" THEN "drain http" ELSE "drain https"
  /\ l \notin reqs[d]
  /\ bound' = Drop(bound, d, l)
  /\ Goto(d, IF l = "http" THEN "stop https" ELSE "close again")
  /\ UNCHANGED <<osVars, srv, down, reqs, server, issues, faults, historyVars>>

\* Mutant of CloseAgain: the first Close has left the runtime's mutex locked.
CloseAgainLocked(d) ==
  /\ pc[d] = "close again"
  /\ ~server[d]
  /\ Goto(d, "exit")
  /\ UNCHANGED <<osVars, processVars, faults, historyVars>>

\* The deferred second Close: the admin server removes the path once more, the
\* network runtime finds nothing left to do.
CloseAgain(d) ==
  /\ pc[d] = "close again"
  /\ path' = IF server[d] THEN None ELSE path
  /\ Goto(d, "exit")
  /\ UNCHANGED <<port, processVars, faults, historyVars>>

Dies(d) ==
  /\ Goto(d, "dead")
  /\ port' = [l \in Ports |-> IF port[l] = d THEN None ELSE port[l]]
  /\ srv' = [srv EXCEPT ![d] = [l \in Roles |-> "none"]]
  /\ bound' = [bound EXCEPT ![d] = {}]
  /\ reqs' = [reqs EXCEPT ![d] = {}]
  /\ issues' = [issues EXCEPT ![d] = <<>>]
  /\ lost' = [lost EXCEPT ![d] = {}]
  /\ UNCHANGED <<path, down, server, alone, early>>

Exit(d) == pc[d] = "exit" /\ Dies(d) /\ UNCHANGED faults

\* SIGKILL or a crash: the socket file stays.
Killed(d) == ~Gone(d) /\ Fault /\ Dies(d)

StartStep(d) ==
  \/ BindDNS(d) \/ \E l \in Web : BindWeb(d, l)
  \/ StatSocket(d) \/ RemoveStaleSocket(d) \/ ListenAdmin(d) \/ GrantAccess(d)

CloseStep(d) ==
  \/ StopAdmin(d) \/ DrainAdmin(d) \/ StopDNS(d)
  \/ \E l \in Web : StopWeb(d, l) \/ DrainWeb(d, l)
  \/ CloseAgain(d) \/ Exit(d)

ServeStep(d) ==
  ServeDNS(d) \/ (\E l \in Web : ServeHTTP(d, l)) \/ ServeAdmin(d)

Next ==
  \/ \E d \in Daemons :
       \/ Launch(d) \/ BootFails(d) \/ StartStep(d) \/ ServeStep(d) \/ OtherIssue(d)
       \/ \E l \in Busy : RequestArrives(d, l) \/ RequestEnds(d, l)
       \/ BeginClose(d) \/ CloseStep(d) \/ Killed(d)
  \/ (\A d \in Daemons : pc[d] = "dead") /\ UNCHANGED vars

Spec == Init /\ [][Next]_vars

(***************************************************************************)
(* The main goroutine of a process is scheduled.  Nothing makes a request  *)
(* end: Shutdown is called without a deadline.                             *)
(***************************************************************************)
FairSpec == Spec /\ \A d \in Daemons : WF_vars(StartStep(d) \/ CloseStep(d))

(***************************************************************************)
(* Properties                                                              *)
(***************************************************************************)
Starting == {"http", "https", "unlink", "remove", "listen", "access"}
Closing == {"stop admin", "drain admin", "stop dns", "stop http", "drain http", "stop https",
            "drain https", "close again"}
Labels == {"off", "boot", "running", "exit", "dead"} \cup Starting \cup Closing

TypeOK ==
  /\ port \in [Ports -> Daemons \cup {None}]
  /\ path \in Daemons \cup {None}
  /\ pc \in [Daemons -> Labels]
  /\ srv \in [Daemons -> [Roles -> {"none", "bound", "serving"}]]
  /\ bound \in [Daemons -> SUBSET (Web \cup {"dns"})]
  /\ down \in [Daemons -> SUBSET (Web \cup {"admin"})]
  /\ reqs \in [Daemons -> SUBSET (Web \cup {"admin"})]
  /\ issues \in [Daemons -> Seq(Kinds)]
  /\ \A d \in Daemons : Len(issues[d]) <= IssueLimit
  /\ server \in [Daemons -> BOOLEAN]
  /\ faults \in 0..MaxFaults
  /\ alone \in [Daemons -> BOOLEAN] /\ early \in [Daemons -> BOOLEAN]
  /\ lost \in [Daemons -> SUBSET Web]

\* A daemon that took the DNS port while no other was running or closing keeps
\* the admin socket and the ports it bound until it is told to stop: daemons
\* started beside it fail on the DNS port before they touch the socket.
FirstIsUndisturbed ==
  \A d \in Daemons :
    alone[d] /\ pc[d] = "running" => path = d /\ \A l \in bound[d] : port[l] = d

\* The kinds of the issues in the log.
Logged(d) == {issues[d][i] : i \in DOMAIN issues[d]}

\* A running daemon serves what it reports.  What is missing is in its log until
\* IssueLimit newer issues have pushed it out; after that the newest are there.
DegradedIsRecorded ==
  \A d \in Daemons : pc[d] = "running" =>
    \A l \in Web \cup {"dns"} :
      IF l \in bound[d] THEN port[l] = d
      ELSE l \in Logged(d) \/ (l \in lost[d] /\ Len(issues[d]) = IssueLimit)

\* After stopDNSServerLocked the DNS port is free, unless Close came before the
\* serving goroutine ran: then the port stays open until the process ends.
DNSPortReleased ==
  \A d \in Daemons : port["dns"] = d /\ "dns" \notin bound[d] => early[d]

\* The socket file of a running daemon disappears only by the second Close of
\* another daemon, or by a serving goroutine of it that ran too late.
SocketLostOnlyToLateClose ==
  [][\A d \in Daemons : pc[d] = "running" /\ pc'[d] = "running" /\ path = d /\ path' # d =>
       \E e \in Daemons \ {d} :
         \/ pc[e] = "close again" /\ pc'[e] = "exit"
         \/ "admin" \in down[e] /\ srv[e]["admin"] # srv'[e]["admin"]]_vars

\* A start ends in a running daemon or in the end of the process, and a daemon
\* that is told to stop exits, unless a request stays in flight for good.
StopWaitsOnlyForRequests ==
  \A d \in Daemons :
    (pc[d] \notin {"off", "running"}) ~> (pc[d] \in {"running", "dead"} \/ [](reqs[d] # {}))
==============================================================================
