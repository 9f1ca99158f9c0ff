--------------------------- MODULE LifecycleProofs ---------------------------
(***************************************************************************)
(* Proofs about Lifecycle, for any number of daemon processes, faults and  *)
(* kinds of requests.                                                      *)
(***************************************************************************)
EXTENDS Lifecycle, TLAPS

Listeners == Web \cup {"dns"}

(***************************************************************************)
(* The inductive invariant                                                 *)
(***************************************************************************)
\* A process holds a port exactly as long as it has a listener there.
PortInv(d) == \A l \in Listeners : port[l] = d <=> srv[d][l] # "none"

\* A process that has not begun, or has ended, holds nothing.
IdleInv(d) ==
  /\ pc[d] \in {"off", "boot", "dead"} => \A l \in Roles : srv[d][l] = "none"
  /\ pc[d] \in {"off", "boot"} => bound[d] = {} /\ down[d] = {}

\* Until Close every listener that health reports as bound exists, and no server
\* was shut down.
UpInv(d) ==
  pc[d] \in Starting \cup {"running"} =>
    down[d] = {} /\ \A l \in bound[d] : srv[d][l] # "none"

\* From BindDNS to StopDNS the process has its DNS listener: whoever else is
\* between these steps at the same time would have it too.
HasDNS(d) == pc[d] \in Starting \cup {"running", "stop admin", "drain admin", "stop dns"}
DNSInv(d) == HasDNS(d) => "dns" \in bound[d] /\ srv[d]["dns"] # "none"

\* What the issue log holds, or has held before newer issues filled it.
Told(d) == Logged(d) \cup lost[d]
LogInv(d) == lost[d] # {} => Len(issues[d]) = IssueLimit

\* A port of the proxy is bound, or an issue says that it is not, once Start has
\* tried it.
RecordedInv(d) ==
  /\ pc[d] \in (Starting \ {"http"}) \cup {"running"} => "http" \in bound[d] \cup Told(d)
  /\ pc[d] \in (Starting \ {"http", "https"}) \cup {"running"} =>
       "https" \in bound[d] \cup Told(d)

\* The DNS listener outlives StopDNS only if its goroutine had not run yet.
ReleasedInv(d) == srv[d]["dns"] # "none" => "dns" \in bound[d] \/ early[d]

\* Beside a daemon that started alone there are only processes that have not
\* come as far as their listeners, or have failed to, and no goroutine of an
\* earlier one that could still close a listener on the socket's path.
AloneInv(d) ==
  alone[d] /\ pc[d] \in Starting \cup {"running"} =>
    /\ \A e \in Daemons \ {d} :
         pc[e] \in {"off", "boot", "exit", "dead"} /\ srv[e]["admin"] = "none"
    /\ pc[d] \in {"access", "running"} => path = d

ProcessInv(d) ==
  /\ PortInv(d) /\ IdleInv(d) /\ UpInv(d) /\ DNSInv(d) /\ RecordedInv(d) /\ ReleasedInv(d)
  /\ LogInv(d) /\ AloneInv(d)

LifeInv == TypeOK /\ \A d \in Daemons : ProcessInv(d)

(***************************************************************************)
(* Type correctness                                                        *)
(***************************************************************************)
USE BoundsAssumption, BusyAssumption

\* The steps of one process.
Step(d) ==
  \/ Launch(d) \/ BootFails(d) \/ StartStep(d) \/ ServeStep(d) \/ OtherIssue(d)
  \/ \E l \in Busy : RequestArrives(d, l) \/ RequestEnds(d, l)
  \/ BeginClose(d) \/ CloseStep(d) \/ Killed(d)

LEMMA InitTypes == Init => TypeOK
<1> SUFFICES ASSUME Init PROVE TypeOK
  OBVIOUS
<1>1. issues \in [Daemons -> Seq(Kinds)] /\ \A d \in Daemons : Len(issues[d]) <= IssueLimit
  BY LimitAssumption DEF Init
<1> QED
  BY <1>1 DEF Init, TypeOK, Labels, None

\* recordIssue tells of one issue more and forgets of none, but for other issues.
LEMMA Recording ==
  ASSUME TypeOK, NEW d \in Daemons, NEW k \in Kinds, recordIssue(d, k)
  PROVE  /\ issues' \in [Daemons -> Seq(Kinds)]
         /\ \A e \in Daemons : Len(issues'[e]) <= IssueLimit
         /\ lost' \in [Daemons -> SUBSET Web]
         /\ \A e \in Daemons \ {d} : issues'[e] = issues[e] /\ lost'[e] = lost[e]
         /\ Told(d) \cap Web \subseteq Told(d)' /\ k \in Told(d)'
         /\ LogInv(d) => LogInv(d)'
<1> DEFINE log == issues[d]
<1>1. /\ issues \in [Daemons -> Seq(Kinds)] /\ lost \in [Daemons -> SUBSET Web]
      /\ \A e \in Daemons : Len(issues[e]) <= IssueLimit
  BY DEF TypeOK
<1>2. log \in Seq(Kinds) /\ Len(log) \in Nat /\ Len(log) <= IssueLimit
  BY <1>1
<1>3. CASE Len(log) < IssueLimit
  <2>1. issues' = [issues EXCEPT ![d] = Append(log, k)] /\ lost' = lost
    BY <1>3 DEF recordIssue
  <2>2. /\ issues'[d] = Append(log, k)
        /\ \A e \in Daemons \ {d} : issues'[e] = issues[e]
        /\ issues' \in [Daemons -> Seq(Kinds)]
    BY <1>1, <1>2, <2>1
  <2> HIDE DEF log
  <2>3. /\ Len(issues'[d]) = Len(log) + 1 /\ issues'[d][Len(log) + 1] = k
        /\ \A i \in 1..Len(log) : issues'[d][i] = log[i]
        /\ DOMAIN log = 1..Len(log) /\ DOMAIN issues'[d] = 1..Len(log) + 1
    BY <1>2, <2>2
  <2>4. Len(issues'[d]) <= IssueLimit
    BY <1>2, <1>3, <2>3, LimitAssumption
  <2>5. Logged(d) \subseteq Logged(d)' /\ k \in Logged(d)'
    BY <1>2, <2>3 DEF Logged, log
  <2>6. LogInv(d) => lost'[d] = {}
    BY <1>2, <1>3, <2>1, LimitAssumption DEF LogInv, log
  <2>7. \A e \in Daemons : Len(issues'[e]) <= IssueLimit
    BY <1>1, <2>2, <2>4
  <2> QED
    BY <1>1, <2>1, <2>2, <2>5, <2>6, <2>7 DEF Told, LogInv
<1>4. CASE Len(log) >= IssueLimit
  <2>1. /\ issues' = [issues EXCEPT ![d] = Append(Tail(log), k)]
        /\ lost' = [lost EXCEPT ![d] = @ \cup ({Head(log)} \cap Web)]
    BY <1>2, <1>4, LimitAssumption DEF recordIssue
  <2>2. Len(log) = IssueLimit /\ Len(log) # 0
    BY <1>2, <1>4, LimitAssumption
  <2>3. log # <<>>
    BY <2>2
  <2>4. /\ Tail(log) \in Seq(Kinds) /\ Len(Tail(log)) = Len(log) - 1 /\ Head(log) = log[1]
        /\ \A i \in 1..Len(log) - 1 : Tail(log)[i] = log[i + 1]
    BY <1>2, <2>3
  <2>5. /\ issues'[d] = Append(Tail(log), k)
        /\ \A e \in Daemons \ {d} : issues'[e] = issues[e]
        /\ issues' \in [Daemons -> Seq(Kinds)]
    BY <1>1, <2>1, <2>4
  <2> HIDE DEF log
  <2>6. /\ Len(issues'[d]) = Len(log) /\ issues'[d][Len(log)] = k
        /\ \A i \in 1..Len(log) - 1 : issues'[d][i] = log[i + 1]
        /\ DOMAIN log = 1..Len(log) /\ DOMAIN issues'[d] = 1..Len(log)
    BY <1>2, <2>2, <2>4, <2>5
  <2>7. lost'[d] = lost[d] \cup ({log[1]} \cap Web) /\ \A e \in Daemons \ {d} : lost'[e] = lost[e]
    BY <1>1, <2>1, <2>4
  <2>8. ASSUME NEW i \in 1..Len(log) PROVE log[i] \in {log[1]} \cup Logged(d)'
    <3>1. i = 1 \/ (i - 1 \in 1..Len(log) - 1 /\ i - 1 \in 1..Len(log) /\ (i - 1) + 1 = i)
      BY <1>2
    <3> QED
      BY <2>6, <3>1 DEF Logged
  <2>9. Logged(d) \subseteq {log[1]} \cup Logged(d)' /\ k \in Logged(d)'
    <3>1. Len(log) \in 1..Len(log)
      BY <1>2, <2>2
    <3> QED
      BY <2>6, <2>8, <3>1 DEF Logged, log
  <2>10. lost' \in [Daemons -> SUBSET Web]
    BY <1>1, <2>1
  <2>11. ASSUME NEW e \in Daemons PROVE Len(issues'[e]) <= IssueLimit
    <3>1. CASE e = d
      BY <1>2, <2>6, <3>1
    <3>2. CASE e # d
      BY <1>1, <2>5, <3>2
    <3> QED
      BY <3>1, <3>2
  <2>12. LogInv(d)'
    BY <2>2, <2>6 DEF LogInv
  <2> QED
    BY <2>5, <2>7, <2>9, <2>10, <2>11, <2>12 DEF Told
<1> QED
  BY <1>2, <1>3, <1>4, LimitAssumption

LEMMA ToldKept ==
  ASSUME NEW d \in Daemons, issues'[d] = issues[d], lost'[d] = lost[d]
  PROVE  Told(d)' = Told(d) /\ LogInv(d)' = LogInv(d)
  BY DEF Told, Logged, LogInv

LEMMA SetSrvType ==
  ASSUME TypeOK, NEW d \in Daemons, NEW l \in Roles, NEW v \in {"none", "bound", "serving"},
         SetSrv(d, l, v)
  PROVE  /\ srv' \in [Daemons -> [Roles -> {"none", "bound", "serving"}]]
         /\ \A e \in Daemons \ {d} : srv'[e] = srv[e]
         /\ srv'[d] = [srv[d] EXCEPT ![l] = v]
  BY DEF TypeOK, SetSrv

LEMMA GotoType ==
  ASSUME TypeOK, NEW d \in Daemons, NEW l \in Labels, Goto(d, l)
  PROVE  /\ pc' \in [Daemons -> Labels]
         /\ \A e \in Daemons \ {d} : pc'[e] = pc[e]
         /\ pc'[d] = l
  BY DEF TypeOK, Goto

LEMMA FaultType == ASSUME TypeOK, Fault PROVE faults' \in 0..MaxFaults
  BY DEF TypeOK, Fault

LEMMA BoundType ==
  ASSUME TypeOK, NEW d \in Daemons, NEW l \in Web \cup {"dns"}
  PROVE  /\ Add(bound, d, l) \in [Daemons -> SUBSET (Web \cup {"dns"})]
         /\ Drop(bound, d, l) \in [Daemons -> SUBSET (Web \cup {"dns"})]
<1>1. bound \in [Daemons -> SUBSET (Web \cup {"dns"})]
  BY DEF TypeOK
<1> QED
  BY <1>1 DEF Add, Drop

LEMMA DownType ==
  ASSUME TypeOK, NEW d \in Daemons, NEW l \in Web \cup {"admin"}
  PROVE  /\ Add(down, d, l) \in [Daemons -> SUBSET (Web \cup {"admin"})]
         /\ Drop(down, d, l) \in [Daemons -> SUBSET (Web \cup {"admin"})]
<1>1. down \in [Daemons -> SUBSET (Web \cup {"admin"})]
  BY DEF TypeOK
<1> QED
  BY <1>1 DEF Add, Drop

LEMMA ReqsType ==
  ASSUME TypeOK, NEW d \in Daemons, NEW l \in Web \cup {"admin"}
  PROVE  /\ Add(reqs, d, l) \in [Daemons -> SUBSET (Web \cup {"admin"})]
         /\ Drop(reqs, d, l) \in [Daemons -> SUBSET (Web \cup {"admin"})]
<1>1. reqs \in [Daemons -> SUBSET (Web \cup {"admin"})]
  BY DEF TypeOK
<1> QED
  BY <1>1 DEF Add, Drop

\* Start keeps the types.
LEMMA StartTypes ==
  ASSUME TypeOK, NEW d \in Daemons, Launch(d) \/ BootFails(d) \/ StartStep(d)
  PROVE  TypeOK'
<1> USE DEF Labels, Starting, Closing
<1>1. CASE Launch(d)
  BY <1>1, GotoType DEF Launch, TypeOK, osVars, processVars, historyVars
<1>2. CASE BootFails(d)
  BY <1>2, GotoType, FaultType DEF BootFails, TypeOK, osVars, processVars, historyVars
<1>3. CASE BindDNS(d)
  <2>1. pc' \in [Daemons -> Labels]
    BY <1>3, GotoType DEF BindDNS
  <2>2. srv' \in [Daemons -> [Roles -> {"none", "bound", "serving"}]]
    BY <1>3, SetSrvType DEF BindDNS, TypeOK, Roles
  <2>3. port' \in [Ports -> Daemons \cup {None}]
    BY <1>3 DEF BindDNS, TypeOK
  <2>4. bound' \in [Daemons -> SUBSET (Web \cup {"dns"})]
    <3>1. bound' = bound \/ bound' = Add(bound, d, "dns")
      BY <1>3 DEF BindDNS
    <3>2. bound \in [Daemons -> SUBSET (Web \cup {"dns"})]
      BY DEF TypeOK
    <3> QED
      BY <3>1, <3>2 DEF Add
  <2>5. alone' \in [Daemons -> BOOLEAN]
    <3>1. (\A e \in Daemons \ {d} : pc[e] \in {"off", "boot", "dead"}) \in BOOLEAN
      BY Zenon
    <3> QED
      BY <1>3, <3>1 DEF BindDNS, NoteAlone, TypeOK
  <2> QED
    BY <1>3, <2>1, <2>2, <2>3, <2>4, <2>5 DEF BindDNS, TypeOK
<1>4. ASSUME NEW l \in Web, BindWeb(d, l) PROVE TypeOK'
  <2>1. pc' \in [Daemons -> Labels]
    BY <1>4, GotoType DEF BindWeb
  <2>2. srv' \in [Daemons -> [Roles -> {"none", "bound", "serving"}]]
    BY <1>4, SetSrvType DEF BindWeb, TypeOK, Roles
  <2>3. port' \in [Ports -> Daemons \cup {None}]
    BY <1>4 DEF BindWeb, TypeOK
  <2>4. bound' \in [Daemons -> SUBSET (Web \cup {"dns"})]
    <3>1. bound' = bound \/ bound' = Add(bound, d, l)
      BY <1>4 DEF BindWeb
    <3>2. bound \in [Daemons -> SUBSET (Web \cup {"dns"})]
      BY DEF TypeOK
    <3> QED
      BY <3>1, <3>2 DEF Add
  <2>5. /\ issues' \in [Daemons -> Seq(Kinds)] /\ lost' \in [Daemons -> SUBSET Web]
        /\ \A e \in Daemons : Len(issues'[e]) <= IssueLimit
    <3>1. UNCHANGED <<issues, lost>> \/ recordIssue(d, l)
      BY <1>4 DEF BindWeb
    <3> QED
      BY <3>1, Recording DEF TypeOK, Kinds
  <2>6. faults' \in 0..MaxFaults
    BY <1>4, FaultType DEF BindWeb, TypeOK
  <2> QED
    BY <1>4, <2>1, <2>2, <2>3, <2>4, <2>5, <2>6 DEF BindWeb, TypeOK, historyVars
<1>5. CASE RemoveStaleSocket(d)
  <2>1. pc' \in [Daemons -> Labels]
    BY <1>5, GotoType DEF RemoveStaleSocket
  <2>2. faults' \in 0..MaxFaults /\ path' \in Daemons \cup {None}
    BY <1>5, FaultType DEF RemoveStaleSocket, TypeOK
  <2> QED
    BY <1>5, <2>1, <2>2 DEF RemoveStaleSocket, TypeOK, processVars, historyVars
<1>6. CASE StatSocket(d)
  <2>1. pc' \in [Daemons -> Labels]
    BY <1>6, GotoType DEF StatSocket
  <2>2. faults' \in 0..MaxFaults
    BY <1>6, FaultType DEF StatSocket, TypeOK
  <2> QED
    BY <1>6, <2>1, <2>2 DEF StatSocket, TypeOK, osVars, processVars, historyVars
<1>7. CASE ListenAdmin(d)
  <2>1. pc' \in [Daemons -> Labels]
    BY <1>7, GotoType DEF ListenAdmin
  <2>2. srv' \in [Daemons -> [Roles -> {"none", "bound", "serving"}]]
    BY <1>7, SetSrvType DEF ListenAdmin, TypeOK, Roles
  <2>3. faults' \in 0..MaxFaults /\ path' \in Daemons \cup {None}
    BY <1>7, FaultType DEF ListenAdmin, TypeOK
  <2> QED
    BY <1>7, <2>1, <2>2, <2>3 DEF ListenAdmin, TypeOK, historyVars
<1>8. CASE GrantAccess(d)
  <2>1. pc' \in [Daemons -> Labels]
    BY <1>8, GotoType DEF GrantAccess
  <2>2. srv' \in [Daemons -> [Roles -> {"none", "bound", "serving"}]]
    BY <1>8, SetSrvType DEF GrantAccess, TypeOK, Roles
  <2>3. port' \in [Ports -> Daemons \cup {None}]
    <3>1. port' = port \/ port' = [port EXCEPT !["dashboard"] = d]
      BY <1>8 DEF GrantAccess
    <3> QED
      BY <3>1 DEF TypeOK, Ports
  <2>4. /\ issues' \in [Daemons -> Seq(Kinds)] /\ lost' \in [Daemons -> SUBSET Web]
        /\ \A e \in Daemons : Len(issues'[e]) <= IssueLimit
    <3>1. UNCHANGED <<issues, lost>> \/ recordIssue(d, "dashboard")
      BY <1>8 DEF GrantAccess
    <3> QED
      BY <3>1, Recording DEF TypeOK, Kinds
  <2>5. faults' \in 0..MaxFaults
    BY <1>8, FaultType DEF GrantAccess, TypeOK
  <2>6. server' \in [Daemons -> BOOLEAN] /\ path' \in Daemons \cup {None}
    BY <1>8 DEF GrantAccess, TypeOK
  <2> QED
    BY <1>8, <2>1, <2>2, <2>3, <2>4, <2>5, <2>6 DEF GrantAccess, TypeOK, historyVars
<1> QED
  BY <1>1, <1>2, <1>3, <1>4, <1>5, <1>6, <1>7, <1>8 DEF StartStep

\* The other goroutines and requests keep the types.
LEMMA ServeTypes ==
  ASSUME TypeOK, NEW d \in Daemons,
         \/ ServeStep(d) \/ OtherIssue(d)
         \/ \E l \in Busy : RequestArrives(d, l) \/ RequestEnds(d, l)
  PROVE  TypeOK'
<1>1. CASE ServeDNS(d)
  BY <1>1, SetSrvType DEF ServeDNS, TypeOK, Roles, osVars, historyVars
<1>2. ASSUME NEW l \in Web, ServeHTTP(d, l) PROVE TypeOK'
  <2>1. srv' \in [Daemons -> [Roles -> {"none", "bound", "serving"}]]
    BY <1>2, SetSrvType DEF ServeHTTP, Roles
  <2>2. port' \in [Ports -> Daemons \cup {None}]
    BY <1>2 DEF ServeHTTP, TypeOK
  <2> QED
    BY <1>2, <2>1, <2>2 DEF ServeHTTP, TypeOK, historyVars
<1>3. CASE ServeAdmin(d)
  <2>1. srv' \in [Daemons -> [Roles -> {"none", "bound", "serving"}]]
    BY <1>3, SetSrvType DEF ServeAdmin, Roles
  <2> QED
    BY <1>3, <2>1 DEF ServeAdmin, TypeOK, historyVars
<1>4. ASSUME NEW l \in Busy, RequestArrives(d, l) \/ RequestEnds(d, l) PROVE TypeOK'
  <2>1. reqs' \in [Daemons -> SUBSET (Web \cup {"admin"})]
    BY <1>4, ReqsType DEF RequestArrives, RequestEnds, TypeOK
  <2> QED
    BY <1>4, <2>1 DEF RequestArrives, RequestEnds, TypeOK, osVars, historyVars
<1>5. CASE OtherIssue(d)
  <2>1. /\ issues' \in [Daemons -> Seq(Kinds)] /\ lost' \in [Daemons -> SUBSET Web]
        /\ \A e \in Daemons : Len(issues'[e]) <= IssueLimit
    BY <1>5, Recording DEF OtherIssue, Kinds
  <2> QED
    BY <1>5, <2>1, FaultType DEF OtherIssue, TypeOK, osVars
<1> QED
  BY <1>1, <1>2, <1>3, <1>4, <1>5 DEF ServeStep

\* Close and the end of the process keep the types.
LEMMA CloseTypes ==
  ASSUME TypeOK, NEW d \in Daemons, BeginClose(d) \/ CloseStep(d) \/ Killed(d)
  PROVE  TypeOK'
<1> USE DEF Labels, Starting, Closing
<1>1. CASE BeginClose(d)
  <2>1. port' \in [Ports -> Daemons \cup {None}]
    BY <1>1 DEF BeginClose, CancelDashboard, TypeOK
  <2> QED
    BY <1>1, <2>1, GotoType DEF BeginClose, TypeOK, processVars, historyVars
<1>2. CASE StopAdmin(d)
  <2>1. srv' \in [Daemons -> [Roles -> {"none", "bound", "serving"}]]
    BY <1>2, SetSrvType DEF StopAdmin, TypeOK, Roles
  <2>2. down' \in [Daemons -> SUBSET (Web \cup {"admin"})]
    BY <1>2, DownType DEF StopAdmin, TypeOK
  <2> QED
    BY <1>2, <2>1, <2>2, GotoType DEF StopAdmin, TypeOK, historyVars
<1>3. CASE DrainAdmin(d)
  BY <1>3, GotoType DEF DrainAdmin, TypeOK, processVars, historyVars
<1>4. CASE StopDNS(d)
  <2>1. srv' \in [Daemons -> [Roles -> {"none", "bound", "serving"}]]
    BY <1>4, SetSrvType DEF StopDNS, TypeOK, Roles
  <2>2. port' \in [Ports -> Daemons \cup {None}]
    BY <1>4 DEF StopDNS, TypeOK
  <2>3. bound' \in [Daemons -> SUBSET (Web \cup {"dns"})]
    BY <1>4, BoundType DEF StopDNS, TypeOK
  <2>4. early' \in [Daemons -> BOOLEAN]
    <3>1. (srv[d]["dns"] = "bound") \in BOOLEAN
      BY Zenon
    <3> QED
      BY <1>4, <3>1 DEF StopDNS, TypeOK
  <2> QED
    BY <1>4, <2>1, <2>2, <2>3, <2>4, GotoType DEF StopDNS, TypeOK
<1>5. ASSUME NEW l \in Web, StopWeb(d, l) PROVE TypeOK'
  <2>1. srv' \in [Daemons -> [Roles -> {"none", "bound", "serving"}]]
    BY <1>5, SetSrvType DEF StopWeb, TypeOK, Roles
  <2>2. port' \in [Ports -> Daemons \cup {None}]
    BY <1>5 DEF StopWeb, TypeOK
  <2>3. down' \in [Daemons -> SUBSET (Web \cup {"admin"})]
    BY <1>5, DownType DEF StopWeb, TypeOK
  <2>4. pc' \in [Daemons -> Labels]
    BY <1>5, GotoType DEF StopWeb
  <2> QED
    BY <1>5, <2>1, <2>2, <2>3, <2>4 DEF StopWeb, TypeOK, historyVars
<1>6. ASSUME NEW l \in Web, DrainWeb(d, l) PROVE TypeOK'
  <2>1. bound' \in [Daemons -> SUBSET (Web \cup {"dns"})]
    BY <1>6, BoundType DEF DrainWeb, TypeOK
  <2>2. pc' \in [Daemons -> Labels]
    BY <1>6, GotoType DEF DrainWeb
  <2> QED
    BY <1>6, <2>1, <2>2 DEF DrainWeb, TypeOK, osVars, historyVars
<1>7. CASE CloseAgain(d)
  BY <1>7, GotoType DEF CloseAgain, TypeOK, processVars, historyVars
<1>8. ASSUME Dies(d), faults' \in 0..MaxFaults PROVE TypeOK'
  <2>1. srv' \in [Daemons -> [Roles -> {"none", "bound", "serving"}]]
    BY <1>8 DEF Dies, TypeOK
  <2>2. port' \in [Ports -> Daemons \cup {None}]
    BY <1>8 DEF Dies, TypeOK
  <2>3. bound' \in [Daemons -> SUBSET (Web \cup {"dns"})]
    BY <1>8 DEF Dies, TypeOK
  <2>4. reqs' \in [Daemons -> SUBSET (Web \cup {"admin"})]
    BY <1>8 DEF Dies, TypeOK
  <2>5. /\ issues' \in [Daemons -> Seq(Kinds)] /\ lost' \in [Daemons -> SUBSET Web]
        /\ \A e \in Daemons : Len(issues'[e]) <= IssueLimit
    <3>1. /\ issues' = [issues EXCEPT ![d] = <<>>] /\ lost' = [lost EXCEPT ![d] = {}]
          /\ issues \in [Daemons -> Seq(Kinds)] /\ lost \in [Daemons -> SUBSET Web]
          /\ \A e \in Daemons : Len(issues[e]) <= IssueLimit
      BY <1>8 DEF Dies, TypeOK
    <3>2. <<>> \in Seq(Kinds) /\ Len(<<>>) <= IssueLimit
      BY LimitAssumption
    <3>3. issues' \in [Daemons -> Seq(Kinds)]
      BY <3>1, <3>2
    <3>4. \A e \in Daemons : issues'[e] = issues[e] \/ issues'[e] = <<>>
      BY <3>1
    <3> QED
      BY <3>1, <3>2, <3>3, <3>4
  <2> QED
    BY <1>8, <2>1, <2>2, <2>3, <2>4, <2>5, GotoType DEF Dies, TypeOK
<1>9. CASE Exit(d) \/ Killed(d)
  BY <1>8, <1>9, FaultType DEF Exit, Killed, TypeOK
<1> QED
  BY <1>1, <1>2, <1>3, <1>4, <1>5, <1>6, <1>7, <1>9 DEF CloseStep

LEMMA StepTypes == ASSUME TypeOK, NEW d \in Daemons, Step(d) PROVE TypeOK'
  BY StartTypes, ServeTypes, CloseTypes DEF Step

(***************************************************************************)
(* A step of one process and the other processes                           *)
(***************************************************************************)
\* What a process records about itself is changed by its own steps only.
LEMMA OthersUntouched ==
  ASSUME TypeOK, NEW d \in Daemons, Step(d), NEW e \in Daemons \ {d}
  PROVE  /\ pc'[e] = pc[e] /\ srv'[e] = srv[e] /\ bound'[e] = bound[e] /\ down'[e] = down[e]
         /\ issues'[e] = issues[e] /\ lost'[e] = lost[e]
         /\ alone'[e] = alone[e] /\ early'[e] = early[e]
<1> USE DEF osVars, processVars, historyVars
<1>1. pc'[e] = pc[e]
  BY DEF TypeOK, Step, Launch, BootFails, StartStep, BindDNS, BindWeb, StatSocket,
         RemoveStaleSocket, OtherIssue, ListenAdmin, GrantAccess, ServeStep, ServeDNS, ServeHTTP,
         ServeAdmin, RequestArrives, RequestEnds, BeginClose, CloseStep, StopAdmin, DrainAdmin,
         StopDNS, StopWeb, DrainWeb, CloseAgain, Exit, Killed, Dies, Goto
<1>2. srv'[e] = srv[e]
  BY DEF TypeOK, Step, Launch, BootFails, StartStep, BindDNS, BindWeb, StatSocket,
         RemoveStaleSocket, OtherIssue, ListenAdmin, GrantAccess, ServeStep, ServeDNS, ServeHTTP,
         ServeAdmin, RequestArrives, RequestEnds, BeginClose, CloseStep, StopAdmin, DrainAdmin,
         StopDNS, StopWeb, DrainWeb, CloseAgain, Exit, Killed, Dies, SetSrv
<1>3. bound'[e] = bound[e] /\ down'[e] = down[e]
  BY DEF TypeOK, Step, Launch, BootFails, StartStep, BindDNS, BindWeb, StatSocket,
         RemoveStaleSocket, OtherIssue, ListenAdmin, GrantAccess, ServeStep, ServeDNS, ServeHTTP,
         ServeAdmin, RequestArrives, RequestEnds, BeginClose, CloseStep, StopAdmin, DrainAdmin,
         StopDNS, StopWeb, DrainWeb, CloseAgain, Exit, Killed, Dies, Add, Drop
<1>4. alone'[e] = alone[e] /\ early'[e] = early[e]
  BY DEF TypeOK, Step, Launch, BootFails, StartStep, BindDNS, BindWeb, StatSocket,
         RemoveStaleSocket, OtherIssue, ListenAdmin, GrantAccess, ServeStep, ServeDNS, ServeHTTP,
         ServeAdmin, RequestArrives, RequestEnds, BeginClose, CloseStep, StopAdmin, DrainAdmin,
         StopDNS, StopWeb, DrainWeb, CloseAgain, Exit, Killed, Dies, NoteAlone
<1>5. issues'[e] = issues[e] /\ lost'[e] = lost[e]
  <2>1. \/ UNCHANGED <<issues, lost>> \/ \E k \in Kinds : recordIssue(d, k)
        \/ issues' = [issues EXCEPT ![d] = <<>>] /\ lost' = [lost EXCEPT ![d] = {}]
    <3>1. Web \subseteq Kinds /\ "dashboard" \in Kinds /\ "other" \in Kinds
      BY DEF Kinds
    <3> QED
      BY <3>1 DEF Step, Launch, BootFails, StartStep, BindDNS, BindWeb, StatSocket,
         RemoveStaleSocket, OtherIssue, ListenAdmin, GrantAccess, ServeStep, ServeDNS, ServeHTTP,
         ServeAdmin, RequestArrives, RequestEnds, BeginClose, CloseStep, StopAdmin, DrainAdmin,
         StopDNS, StopWeb, DrainWeb, CloseAgain, Exit, Killed, Dies
  <2> QED
    BY <2>1, Recording DEF TypeOK
<1> QED
  BY <1>1, <1>2, <1>3, <1>4, <1>5

(***************************************************************************)
(* Ports and listeners                                                     *)
(***************************************************************************)
\* The process takes the port l, gives it up, or leaves ports and listeners as
\* they are but for the state of a listener it has.
Takes(d, l) ==
  /\ port[l] = None /\ port' = [port EXCEPT ![l] = d] /\ SetSrv(d, l, "bound")
GivesUp(d, l) ==
  /\ srv[d][l] # "none" /\ port' = [port EXCEPT ![l] = None] /\ SetSrv(d, l, "none")
Keeps(d) ==
  \A l \in Listeners : port'[l] = port[l] /\ (srv'[d][l] = "none" <=> srv[d][l] = "none")

LEMMA PortSteps ==
  ASSUME TypeOK, NEW d \in Daemons, Step(d)
  PROVE  Keeps(d) \/ Dies(d) \/ \E l \in Listeners : Takes(d, l) \/ GivesUp(d, l)
<1> USE DEF Listeners
<1>1. /\ srv \in [Daemons -> [Roles -> {"none", "bound", "serving"}]]
      /\ port \in [Ports -> Daemons \cup {None}]
  BY DEF TypeOK
<1>2. ASSUME UNCHANGED <<port, srv>> PROVE Keeps(d)
  BY <1>2 DEF Keeps
<1>3. ASSUME UNCHANGED port, NEW v, SetSrv(d, "admin", v) PROVE Keeps(d)
  BY <1>1, <1>3 DEF Keeps, SetSrv, Web
<1>4. ASSUME UNCHANGED port, NEW l \in Listeners, srv[d][l] # "none", SetSrv(d, l, "serving")
      PROVE  Keeps(d)
  BY <1>1, <1>4 DEF Keeps, SetSrv, Roles
<1>5. ASSUME UNCHANGED srv, NEW v, port' = [port EXCEPT !["dashboard"] = v] PROVE Keeps(d)
  BY <1>1, <1>5 DEF Keeps, Web
<1>6. CASE Launch(d) \/ BootFails(d)
  BY <1>2, <1>6 DEF Launch, BootFails, osVars, processVars
<1>7. CASE BindDNS(d)
  BY <1>2, <1>7 DEF BindDNS, Takes
<1>8. ASSUME NEW l \in Web, BindWeb(d, l)
      PROVE  Keeps(d) \/ \E k \in Listeners : Takes(d, k) \/ GivesUp(d, k)
  BY <1>2, <1>8 DEF BindWeb, Takes
<1>9. CASE StatSocket(d) \/ RemoveStaleSocket(d) \/ OtherIssue(d)
  BY <1>2, <1>9 DEF StatSocket, RemoveStaleSocket, OtherIssue, osVars, processVars
<1>10. CASE ListenAdmin(d)
  BY <1>2, <1>3, <1>10 DEF ListenAdmin
<1>11. CASE GrantAccess(d)
  <2>1. \/ UNCHANGED port /\ (UNCHANGED srv \/ SetSrv(d, "admin", "none"))
        \/ UNCHANGED srv /\ port' = [port EXCEPT !["dashboard"] = d]
    BY <1>11 DEF GrantAccess
  <2> QED
    BY <1>2, <1>3, <1>5, <2>1
<1>12. CASE ServeDNS(d)
  BY <1>4, <1>12 DEF ServeDNS, osVars
<1>13. ASSUME NEW l \in Web, ServeHTTP(d, l)
       PROVE  Keeps(d) \/ \E k \in Listeners : Takes(d, k) \/ GivesUp(d, k)
  BY <1>4, <1>13 DEF ServeHTTP, GivesUp
<1>14. CASE ServeAdmin(d)
  BY <1>3, <1>14 DEF ServeAdmin
<1>15. ASSUME NEW l \in Busy, RequestArrives(d, l) \/ RequestEnds(d, l) PROVE Keeps(d)
  BY <1>2, <1>15 DEF RequestArrives, RequestEnds, osVars
<1>16. CASE BeginClose(d)
  BY <1>5, <1>16 DEF BeginClose, CancelDashboard, processVars
<1>17. CASE StopAdmin(d)
  BY <1>2, <1>3, <1>17 DEF StopAdmin
<1>18. CASE DrainAdmin(d) \/ CloseAgain(d)
  BY <1>2, <1>18 DEF DrainAdmin, CloseAgain, processVars
<1>19. CASE StopDNS(d)
  BY <1>2, <1>19 DEF StopDNS, GivesUp
<1>20. ASSUME NEW l \in Web, StopWeb(d, l) \/ DrainWeb(d, l)
       PROVE  Keeps(d) \/ \E k \in Listeners : Takes(d, k) \/ GivesUp(d, k)
  BY <1>2, <1>20 DEF StopWeb, DrainWeb, GivesUp, osVars
<1> QED
  BY <1>6, <1>7, <1>8, <1>9, <1>10, <1>11, <1>12, <1>13, <1>14, <1>15, <1>16, <1>17, <1>18,
     <1>19, <1>20 DEF Step, StartStep, ServeStep, CloseStep, Exit, Killed

\* A listener is where its port is, and no process touches the port of another.
LEMMA PortStep ==
  ASSUME TypeOK, NEW d \in Daemons, PortInv(d), Step(d)
  PROVE  /\ PortInv(d)'
         /\ \A e \in Daemons \ {d}, l \in Listeners : port'[l] = e <=> port[l] = e
<1> USE DEF Listeners
<1>1. /\ srv \in [Daemons -> [Roles -> {"none", "bound", "serving"}]]
      /\ port \in [Ports -> Daemons \cup {None}]
      /\ Listeners \subseteq Ports /\ Listeners \subseteq Roles
      /\ \A e \in Daemons : e # None
  <2>1. Listeners \subseteq Ports /\ Listeners \subseteq Roles
    BY DEF Ports, Roles
  <2>2. \A e \in Daemons : e # None
    BY DEF Daemons, None
  <2> QED
    BY <2>1, <2>2 DEF TypeOK
<1>2. CASE Keeps(d)
  BY <1>2 DEF Keeps, PortInv
<1>3. ASSUME NEW l \in Listeners, Takes(d, l)
      PROVE  /\ PortInv(d)'
             /\ \A e \in Daemons \ {d}, k \in Listeners : port'[k] = e <=> port[k] = e
  BY <1>1, <1>3 DEF Takes, SetSrv, PortInv
<1>4. ASSUME NEW l \in Listeners, GivesUp(d, l)
      PROVE  /\ PortInv(d)'
             /\ \A e \in Daemons \ {d}, k \in Listeners : port'[k] = e <=> port[k] = e
  BY <1>1, <1>4 DEF GivesUp, SetSrv, PortInv
<1>5. CASE Dies(d)
  BY <1>1, <1>5 DEF Dies, PortInv
<1> QED
  BY <1>2, <1>3, <1>4, <1>5, PortSteps

(***************************************************************************)
(* What a process has brought up, step by step of Start and Close          *)
(***************************************************************************)
\* The parts of the invariant about one process and its own records.
OwnInv(d) ==
  /\ IdleInv(d) /\ UpInv(d) /\ DNSInv(d) /\ RecordedInv(d) /\ ReleasedInv(d) /\ LogInv(d)

LEMMA OthersOwnInv ==
  ASSUME TypeOK, NEW d \in Daemons, Step(d), NEW e \in Daemons \ {d}, OwnInv(e)
  PROVE  OwnInv(e)'
<1>1. /\ pc'[e] = pc[e] /\ srv'[e] = srv[e] /\ bound'[e] = bound[e] /\ down'[e] = down[e]
      /\ early'[e] = early[e] /\ Told(e)' = Told(e) /\ LogInv(e)' = LogInv(e)
  BY OthersUntouched, ToldKept
<1> QED
  BY <1>1 DEF OwnInv, IdleInv, UpInv, DNSInv, HasDNS, RecordedInv, ReleasedInv

LEMMA StartOwnInv ==
  ASSUME TypeOK, NEW d \in Daemons, OwnInv(d), Launch(d) \/ BootFails(d) \/ StartStep(d)
  PROVE  OwnInv(d)'
<1> USE DEF Starting
<1>1. /\ srv \in [Daemons -> [Roles -> {"none", "bound", "serving"}]]
      /\ pc \in [Daemons -> Labels]
      /\ bound \in [Daemons -> SUBSET (Web \cup {"dns"})]
  BY DEF TypeOK
<1>2. CASE Launch(d) \/ BootFails(d)
  <2>1. /\ pc[d] \in {"off", "boot"} /\ pc'[d] \in {"boot", "exit"}
        /\ UNCHANGED <<srv, bound, down, issues, lost, early>>
    BY <1>1, <1>2 DEF Launch, BootFails, Goto, processVars, historyVars
  <2>2. Told(d)' = Told(d) /\ LogInv(d)' = LogInv(d)
    BY <2>1, ToldKept
  <2> QED
    BY <2>1, <2>2 DEF OwnInv, IdleInv, UpInv, DNSInv, HasDNS, RecordedInv, ReleasedInv
<1>3. CASE BindDNS(d)
  <2>1. pc[d] = "boot" /\ bound[d] = {} /\ down[d] = {} /\ \A l \in Roles : srv[d][l] = "none"
    BY <1>3 DEF BindDNS, OwnInv, IdleInv
  <2>2. UNCHANGED <<down, early>> /\ Told(d)' = Told(d) /\ LogInv(d)' = LogInv(d)
    BY <1>3, ToldKept DEF BindDNS
  <2>3. CASE port["dns"] = None
    <3>1. pc'[d] = "http" /\ srv'[d]["dns"] = "bound" /\ bound'[d] = {"dns"}
      BY <1>1, <1>3, <2>1, <2>3 DEF BindDNS, Goto, SetSrv, Add, Roles
    <3> QED
      BY <2>1, <2>2, <3>1 DEF OwnInv, IdleInv, UpInv, DNSInv, HasDNS, RecordedInv, ReleasedInv
  <2>4. CASE port["dns"] # None
    <3>1. pc'[d] = "exit" /\ UNCHANGED <<srv, bound>>
      BY <1>1, <1>3, <2>4 DEF BindDNS, Goto
    <3> QED
      BY <2>2, <3>1
      DEF OwnInv, IdleInv, UpInv, DNSInv, HasDNS, RecordedInv, ReleasedInv
  <2> QED
    BY <2>3, <2>4
<1>4. ASSUME NEW l \in Web, BindWeb(d, l) PROVE OwnInv(d)'
  <2>1. /\ pc[d] = l /\ l \in {"http", "https"}
        /\ pc'[d] = IF l = "http" THEN "https" ELSE "unlink"
        /\ UNCHANGED <<down, early>>
    BY <1>1, <1>4 DEF BindWeb, Goto, Web
  <2>2. /\ down[d] = {} /\ \A k \in bound[d] : srv[d][k] # "none"
        /\ "dns" \in bound[d] /\ srv[d]["dns"] # "none"
        /\ l = "https" => "http" \in bound[d] \cup Told(d)
    BY <2>1 DEF OwnInv, UpInv, DNSInv, HasDNS, RecordedInv
  <2>3. /\ bound[d] \subseteq bound'[d] /\ Told(d) \cap Web \subseteq Told(d)'
        /\ l \in bound'[d] \cup Told(d)'
        /\ LogInv(d)'
        /\ srv'[d]["dns"] = srv[d]["dns"]
        /\ \A k \in bound'[d] : srv'[d][k] # "none"
    <3>1. CASE SetSrv(d, l, "bound") /\ bound' = Add(bound, d, l) /\ UNCHANGED <<issues, lost>>
      <4>1. Told(d)' = Told(d) /\ LogInv(d)'
        BY <3>1, ToldKept DEF OwnInv
      <4> QED
        BY <1>1, <2>1, <2>2, <3>1, <4>1 DEF SetSrv, Add, Roles, Web
    <3>2. CASE recordIssue(d, l) /\ UNCHANGED <<srv, bound>>
      <4>1. Told(d) \cap Web \subseteq Told(d)' /\ l \in Told(d)' /\ LogInv(d)'
        BY <3>2, Recording DEF OwnInv, Kinds
      <4> QED
        BY <1>1, <2>2, <3>2, <4>1
    <3> QED
      BY <1>4, <3>1, <3>2 DEF BindWeb
  <2>4. "http" \in Web /\ "https" \in Web
    BY DEF Web
  <2> QED
    BY <2>1, <2>2, <2>3, <2>4 DEF OwnInv, IdleInv, UpInv, DNSInv, HasDNS, RecordedInv, ReleasedInv
<1>5. CASE StatSocket(d) \/ RemoveStaleSocket(d)
  <2>1. /\ pc[d] \in {"unlink", "remove"} /\ pc'[d] \in {"remove", "listen", "stop dns"}
        /\ UNCHANGED <<srv, bound, down, issues, lost, early>>
    BY <1>1, <1>5 DEF StatSocket, RemoveStaleSocket, Goto, processVars, historyVars
  <2>2. Told(d)' = Told(d) /\ LogInv(d)' = LogInv(d)
    BY <2>1, ToldKept
  <2> QED
    BY <2>1, <2>2 DEF OwnInv, IdleInv, UpInv, DNSInv, HasDNS, RecordedInv, ReleasedInv
<1>6. CASE ListenAdmin(d) \/ GrantAccess(d)
  <2>1. /\ pc[d] \in {"listen", "access"} /\ pc'[d] \in {"access", "running", "stop dns"}
        /\ UNCHANGED <<bound, down, early>>
    BY <1>1, <1>6 DEF ListenAdmin, GrantAccess, Goto, historyVars
  <2>2. \A k \in Listeners : srv'[d][k] = srv[d][k]
    <3>1. UNCHANGED srv \/ \E v \in {"none", "bound"} : SetSrv(d, "admin", v)
      BY <1>6 DEF ListenAdmin, GrantAccess
    <3> QED
      BY <1>1, <3>1 DEF SetSrv, Listeners, Roles, Web
  <2>3. Told(d) \cap Web \subseteq Told(d)' /\ LogInv(d)'
    <3>1. UNCHANGED <<issues, lost>> \/ recordIssue(d, "dashboard")
      BY <1>6 DEF ListenAdmin, GrantAccess, historyVars
    <3>2. LogInv(d) /\ "dashboard" \in Kinds
      BY DEF OwnInv, Kinds
    <3> QED
      BY <3>1, <3>2, Recording, ToldKept
  <2>4. bound[d] \subseteq Listeners /\ "dns" \in Listeners /\ "http" \in Web /\ "https" \in Web
    BY <1>1 DEF Listeners, Web
  <2> QED
    BY <2>1, <2>2, <2>3, <2>4
    DEF OwnInv, IdleInv, UpInv, DNSInv, HasDNS, RecordedInv, ReleasedInv
<1> QED
  BY <1>2, <1>3, <1>4, <1>5, <1>6 DEF StartStep

LEMMA ServeOwnInv ==
  ASSUME TypeOK, NEW d \in Daemons, OwnInv(d),
         \/ ServeStep(d) \/ OtherIssue(d)
         \/ \E l \in Busy : RequestArrives(d, l) \/ RequestEnds(d, l)
  PROVE  OwnInv(d)'
<1> USE DEF Starting
<1>1. srv \in [Daemons -> [Roles -> {"none", "bound", "serving"}]]
  BY DEF TypeOK
<1>2. /\ UNCHANGED <<pc, bound, down, early>>
      /\ Told(d) \cap Web \subseteq Told(d)' /\ LogInv(d)'
  <2>1. UNCHANGED <<issues, lost>> \/ recordIssue(d, "other")
    BY DEF ServeStep, ServeDNS, ServeHTTP, ServeAdmin, OtherIssue, RequestArrives, RequestEnds,
           historyVars
  <2>2. LogInv(d) /\ "other" \in Kinds
    BY DEF OwnInv, Kinds
  <2>3. UNCHANGED <<pc, bound, down, early>>
    BY DEF ServeStep, ServeDNS, ServeHTTP, ServeAdmin, OtherIssue, RequestArrives, RequestEnds,
           historyVars
  <2> QED
    BY <2>1, <2>2, <2>3, Recording, ToldKept
<1>3. ASSUME NEW l \in Roles, srv[d][l] = "bound", NEW v, SetSrv(d, l, v),
             v = "none" => l \in down[d] /\ l # "dns"
      PROVE  OwnInv(d)'
  <2>1. /\ srv'[d][l] = v
        /\ \A k \in Roles \ {l} : srv'[d][k] = srv[d][k]
    BY <1>1, <1>3 DEF SetSrv
  <2>2. pc[d] \notin {"off", "boot", "dead"}
    BY <1>3 DEF OwnInv, IdleInv
  <2>3. srv'[d]["dns"] # "none" <=> srv[d]["dns"] # "none"
    BY <1>3, <2>1 DEF Roles
  <2>4. ASSUME pc[d] \in Starting \cup {"running"}, NEW k \in bound[d]
        PROVE  srv'[d][k] # "none"
    <3>1. down[d] = {} /\ srv[d][k] # "none" /\ k \in Roles
      BY <2>4 DEF OwnInv, UpInv, TypeOK, Roles
    <3> QED
      BY <1>3, <2>1, <3>1
  <2>5. "http" \in Web /\ "https" \in Web
    BY DEF Web
  <2> QED
    BY <1>2, <2>2, <2>3, <2>4, <2>5
    DEF OwnInv, IdleInv, UpInv, DNSInv, HasDNS, RecordedInv, ReleasedInv
<1>4. ASSUME UNCHANGED srv PROVE OwnInv(d)'
  BY <1>2, <1>4 DEF Web, OwnInv, IdleInv, UpInv, DNSInv, HasDNS, RecordedInv, ReleasedInv
<1>5. CASE ServeDNS(d)
  BY <1>3, <1>5 DEF ServeDNS, Roles
<1>6. ASSUME NEW l \in Web, ServeHTTP(d, l) PROVE OwnInv(d)'
  <2>1. l \in Roles /\ l # "dns"
    BY DEF Roles, Web
  <2> QED
    BY <1>3, <1>6, <2>1 DEF ServeHTTP
<1>7. CASE ServeAdmin(d)
  BY <1>3, <1>7 DEF ServeAdmin, Roles
<1> QED
  BY <1>4, <1>5, <1>6, <1>7 DEF ServeStep, OtherIssue, RequestArrives, RequestEnds

LEMMA CloseOwnInv ==
  ASSUME TypeOK, NEW d \in Daemons, OwnInv(d), BeginClose(d) \/ CloseStep(d) \/ Killed(d)
  PROVE  OwnInv(d)'
<1> USE DEF Starting
<1>1. /\ srv \in [Daemons -> [Roles -> {"none", "bound", "serving"}]]
      /\ pc \in [Daemons -> Labels]
      /\ bound \in [Daemons -> SUBSET (Web \cup {"dns"})]
      /\ early \in [Daemons -> BOOLEAN]
  BY DEF TypeOK
<1>2. LogInv(d)'
  <2>1. /\ LogInv(d) /\ issues \in [Daemons -> Seq(Kinds)] /\ lost \in [Daemons -> SUBSET Web]
    BY DEF OwnInv, TypeOK
  <2>2. CASE UNCHANGED <<issues, lost>>
    BY <2>1, <2>2, ToldKept
  <2>3. CASE lost' = [lost EXCEPT ![d] = {}]
    BY <2>1, <2>3 DEF LogInv
  <2> QED
    BY <2>2, <2>3 DEF BeginClose, CloseStep, StopAdmin, DrainAdmin, StopDNS, StopWeb, DrainWeb,
       CloseAgain, Exit, Killed, Dies, processVars, historyVars
<1>3. CASE BeginClose(d) \/ DrainAdmin(d)
  <2>1. /\ pc[d] \in {"running", "drain admin"} /\ pc'[d] \in {"stop admin", "stop dns"}
        /\ UNCHANGED <<srv, bound, down, early>>
    BY <1>1, <1>3 DEF BeginClose, DrainAdmin, Goto, processVars, historyVars
  <2> QED
    BY <1>2, <2>1 DEF OwnInv, IdleInv, UpInv, DNSInv, HasDNS, RecordedInv, ReleasedInv
<1>4. CASE StopAdmin(d)
  <2>1. /\ pc[d] = "stop admin" /\ pc'[d] = "drain admin"
        /\ UNCHANGED <<bound, early>>
    BY <1>1, <1>4 DEF StopAdmin, Goto, historyVars
  <2>2. srv'[d]["dns"] = srv[d]["dns"]
    <3>1. UNCHANGED srv \/ SetSrv(d, "admin", "none")
      BY <1>4 DEF StopAdmin
    <3> QED
      BY <1>1, <3>1 DEF SetSrv, Roles
  <2> QED
    BY <1>2, <2>1, <2>2 DEF OwnInv, IdleInv, UpInv, DNSInv, HasDNS, RecordedInv, ReleasedInv
<1>5. CASE StopDNS(d)
  <2>1. pc'[d] = "stop http"
    BY <1>1, <1>5 DEF StopDNS, Goto
  <2>2. srv'[d]["dns"] # "none" => early'[d]
    <3>1. CASE srv[d]["dns"] = "serving"
      <4>1. SetSrv(d, "dns", "none")
        BY <1>5, <3>1 DEF StopDNS
      <4> QED
        BY <1>1, <4>1 DEF SetSrv, Roles
    <3>2. CASE srv[d]["dns"] # "serving"
      <4>1. UNCHANGED srv /\ early'[d] = (srv[d]["dns"] = "bound")
        BY <1>1, <1>5, <3>2 DEF StopDNS
      <4>2. srv[d]["dns"] \in {"none", "bound", "serving"}
        BY <1>1 DEF Roles
      <4> QED
        BY <3>2, <4>1, <4>2
    <3> QED
      BY <3>1, <3>2
  <2> QED
    BY <1>2, <2>1, <2>2 DEF OwnInv, IdleInv, UpInv, DNSInv, HasDNS, RecordedInv, ReleasedInv
<1>6. ASSUME NEW l \in Web, StopWeb(d, l) \/ DrainWeb(d, l) PROVE OwnInv(d)'
  <2>1. pc'[d] \in {"drain http", "stop https", "drain https", "close again"} /\ UNCHANGED early
    BY <1>1, <1>6 DEF StopWeb, DrainWeb, Goto, historyVars
  <2>2. srv'[d]["dns"] = srv[d]["dns"]
    <3>1. UNCHANGED srv \/ SetSrv(d, l, "none")
      BY <1>6 DEF StopWeb, DrainWeb
    <3> QED
      BY <1>1, <3>1 DEF SetSrv, Roles, Web
  <2>3. "dns" \in bound[d] => "dns" \in bound'[d]
    <3>1. UNCHANGED bound \/ bound' = Drop(bound, d, l)
      BY <1>6 DEF StopWeb, DrainWeb
    <3> QED
      BY <1>1, <3>1 DEF Drop, Web
  <2> QED
    BY <1>2, <2>1, <2>2, <2>3 DEF OwnInv, IdleInv, UpInv, DNSInv, HasDNS, RecordedInv, ReleasedInv
<1>7. CASE CloseAgain(d)
  <2>1. pc'[d] = "exit" /\ UNCHANGED <<srv, bound, early>>
    BY <1>1, <1>7 DEF CloseAgain, Goto, processVars, historyVars
  <2> QED
    BY <1>2, <2>1 DEF OwnInv, IdleInv, UpInv, DNSInv, HasDNS, RecordedInv, ReleasedInv
<1>8. CASE Exit(d) \/ Killed(d)
  <2>1. pc'[d] = "dead" /\ srv'[d] = [l \in Roles |-> "none"]
    BY <1>1, <1>8 DEF Exit, Killed, Dies, Goto
  <2>2. srv'[d]["dns"] = "none" /\ \A l \in Roles : srv'[d][l] = "none"
    BY <2>1 DEF Roles
  <2> QED
    BY <1>2, <2>1, <2>2 DEF OwnInv, IdleInv, UpInv, DNSInv, HasDNS, RecordedInv, ReleasedInv
<1> QED
  BY <1>3, <1>4, <1>5, <1>6, <1>7, <1>8 DEF CloseStep

(***************************************************************************)
(* A daemon that started alone                                             *)
(***************************************************************************)
\* The DNS port tells at most one process apart.
LEMMA OneHasDNS ==
  ASSUME LifeInv, NEW d \in Daemons, NEW e \in Daemons, HasDNS(d), HasDNS(e)
  PROVE  d = e
  BY DEF LifeInv, ProcessInv, PortInv, DNSInv, Listeners

\* Its own steps.
LEMMA AloneOwnStep ==
  ASSUME LifeInv, NEW d \in Daemons, Step(d), TypeOK'
  PROVE  AloneInv(d)'
<1> USE DEF Starting
<1>1. /\ TypeOK /\ AloneInv(d) /\ UpInv(d) /\ IdleInv(d)
      /\ pc \in [Daemons -> Labels] /\ alone \in [Daemons -> BOOLEAN]
  BY DEF LifeInv, ProcessInv, TypeOK
<1>2. \A e \in Daemons \ {d} : pc'[e] = pc[e] /\ srv'[e] = srv[e]
  BY <1>1, OthersUntouched
<1>3. CASE BindDNS(d)
  <2>1. pc'[d] \in {"http", "exit"}
    BY <1>1, <1>3 DEF BindDNS, Goto
  <2>2. alone'[d] => \A e \in Daemons \ {d} : pc[e] \in {"off", "boot", "dead"}
    BY <1>1, <1>3 DEF BindDNS, NoteAlone
  <2>3. \A e \in Daemons : pc[e] \in {"off", "boot", "dead"} => srv[e]["admin"] = "none"
    BY DEF LifeInv, ProcessInv, IdleInv, Roles
  <2> QED
    BY <1>2, <2>1, <2>2, <2>3 DEF AloneInv
<1>4. ASSUME pc'[d] \notin Starting \cup {"running"} PROVE AloneInv(d)'
  BY <1>4 DEF AloneInv
<1>5. ASSUME UNCHANGED alone, pc[d] \in Starting \cup {"running"},
             pc'[d] \in {"access", "running"} =>
               path' = d \/ (pc[d] \in {"access", "running"} /\ UNCHANGED path)
      PROVE  AloneInv(d)'
  BY <1>1, <1>2, <1>5 DEF AloneInv
<1>6. ASSUME NEW l \in Web, BindWeb(d, l) PROVE AloneInv(d)'
  <2>1. pc[d] \in {"http", "https"} /\ pc'[d] \in {"https", "unlink"} /\ UNCHANGED alone
    BY <1>1, <1>6 DEF BindWeb, Goto, Web
  <2> QED
    BY <1>5, <2>1
<1>7. CASE StatSocket(d) \/ RemoveStaleSocket(d)
  <2>1. /\ pc[d] \in {"unlink", "remove"} /\ pc'[d] \in {"remove", "listen", "stop dns"}
        /\ UNCHANGED alone
    BY <1>1, <1>7 DEF StatSocket, RemoveStaleSocket, Goto, historyVars
  <2> QED
    BY <1>4, <1>5, <2>1
<1>8. CASE ListenAdmin(d)
  <2>1. /\ pc[d] = "listen" /\ UNCHANGED alone
        /\ (pc'[d] = "access" /\ path' = d) \/ pc'[d] = "stop dns"
    BY <1>1, <1>8 DEF ListenAdmin, Goto, historyVars
  <2> QED
    BY <1>4, <1>5, <2>1
<1>9. CASE GrantAccess(d)
  <2>1. /\ pc[d] = "access" /\ UNCHANGED alone
        /\ (pc'[d] = "running" /\ UNCHANGED path) \/ pc'[d] = "stop dns"
    BY <1>1, <1>9 DEF GrantAccess, Goto, historyVars
  <2> QED
    BY <1>4, <1>5, <2>1
<1>10. CASE \/ ServeStep(d) \/ OtherIssue(d)
            \/ \E l \in Busy : RequestArrives(d, l) \/ RequestEnds(d, l)
  <2>1. UNCHANGED <<pc, alone>>
    BY <1>10 DEF ServeStep, ServeDNS, ServeHTTP, ServeAdmin, OtherIssue, RequestArrives,
                 RequestEnds, historyVars
  <2>2. pc[d] \in Starting \cup {"running"} => UNCHANGED path
    BY <1>1, <1>10 DEF UpInv, ServeStep, ServeDNS, ServeHTTP, ServeAdmin, OtherIssue,
                       RequestArrives, RequestEnds, osVars
  <2> QED
    BY <1>1, <1>2, <2>1, <2>2 DEF AloneInv
<1>11. CASE \/ Launch(d) \/ BootFails(d) \/ BeginClose(d) \/ CloseStep(d) \/ Killed(d)
  <2>1. pc'[d] \notin Starting \cup {"running"}
    BY <1>1, <1>11 DEF Launch, BootFails, BeginClose, CloseStep, StopAdmin, DrainAdmin, StopDNS,
                       StopWeb, DrainWeb, CloseAgain, Exit, Killed, Dies, Goto
  <2> QED
    BY <1>4, <2>1
<1> QED
  BY <1>3, <1>6, <1>7, <1>8, <1>9, <1>10, <1>11 DEF Step, StartStep

\* The steps of the others: they get no further than the DNS port.
LEMMA AloneOtherStep ==
  ASSUME LifeInv, NEW d \in Daemons, Step(d), NEW e \in Daemons \ {d}
  PROVE  AloneInv(e)'
<1> USE DEF Starting
<1>1. TypeOK /\ AloneInv(e) /\ pc \in [Daemons -> Labels]
  BY DEF LifeInv, ProcessInv, TypeOK
<1>2. \A c \in Daemons \ {d} : pc'[c] = pc[c] /\ srv'[c] = srv[c] /\ alone'[c] = alone[c]
  BY <1>1, OthersUntouched
<1>3. SUFFICES ASSUME alone[e], pc[e] \in Starting \cup {"running"}
      PROVE  /\ pc'[d] \in {"off", "boot", "exit", "dead"} /\ srv'[d]["admin"] = "none"
             /\ UNCHANGED path
  BY <1>1, <1>2 DEF AloneInv
<1>4. pc[d] \in {"off", "boot", "exit", "dead"} /\ srv[d]["admin"] = "none"
  BY <1>1, <1>3 DEF AloneInv
<1>5. port["dns"] = e
  BY <1>3 DEF LifeInv, ProcessInv, PortInv, DNSInv, HasDNS, Listeners
<1>6. e # None
  BY DEF Daemons, None
<1>7. CASE Launch(d) \/ BootFails(d)
  BY <1>1, <1>4, <1>7 DEF Launch, BootFails, Goto, osVars, processVars
<1>8. CASE BindDNS(d)
  BY <1>1, <1>4, <1>5, <1>6, <1>8 DEF BindDNS, Goto
<1>9. CASE OtherIssue(d)
  BY <1>4, <1>9 DEF OtherIssue, osVars
<1>10. CASE ServeStep(d)
  <2>1. srv \in [Daemons -> [Roles -> {"none", "bound", "serving"}]]
    BY <1>1 DEF TypeOK
  <2>2. UNCHANGED <<pc, path>>
    BY <1>4, <1>10 DEF ServeStep, ServeDNS, ServeHTTP, ServeAdmin, osVars
  <2>3. srv'[d]["admin"] = srv[d]["admin"]
    BY <1>4, <1>10, <2>1 DEF ServeStep, ServeDNS, ServeHTTP, ServeAdmin, SetSrv, Roles, Web
  <2> QED
    BY <1>4, <2>2, <2>3
<1>11. CASE \E l \in Busy : RequestArrives(d, l) \/ RequestEnds(d, l)
  BY <1>4, <1>11 DEF RequestArrives, RequestEnds, osVars
<1>12. CASE Exit(d) \/ Killed(d)
  <2>1. srv \in [Daemons -> [Roles -> {"none", "bound", "serving"}]]
    BY <1>1 DEF TypeOK
  <2> QED
    BY <1>1, <1>12, <2>1 DEF Exit, Killed, Dies, Goto, Roles
<1> QED
  BY <1>4, <1>7, <1>8, <1>9, <1>10, <1>11, <1>12
  DEF Step, StartStep, BindWeb, StatSocket, RemoveStaleSocket, ListenAdmin, GrantAccess,
      BeginClose, CloseStep, StopAdmin, DrainAdmin, StopDNS, StopWeb, DrainWeb, CloseAgain, Web

(***************************************************************************)
(* The invariant is inductive                                              *)
(***************************************************************************)
LEMMA InitInv == Init => LifeInv
<1> SUFFICES ASSUME Init, NEW d \in Daemons PROVE TypeOK /\ ProcessInv(d)
  BY InitTypes DEF LifeInv
<1>1. /\ pc[d] = "off" /\ bound[d] = {} /\ down[d] = {}
      /\ \A l \in Roles : srv[d][l] = "none"
      /\ \A l \in Ports : port[l] = None
      /\ d # None /\ lost[d] = {}
  BY DEF Init, Daemons, None
<1>2. Listeners \subseteq Roles /\ Listeners \subseteq Ports /\ "dns" \in Listeners
  BY DEF Listeners, Roles, Ports
<1> QED
  BY <1>1, <1>2, InitTypes
  DEF ProcessInv, PortInv, IdleInv, UpInv, DNSInv, HasDNS, RecordedInv, ReleasedInv, LogInv,
      AloneInv, Starting

LEMMA StepInv == LifeInv /\ [Next]_vars => LifeInv'
<1> SUFFICES ASSUME LifeInv, [Next]_vars PROVE LifeInv'
  OBVIOUS
<1>1. CASE UNCHANGED vars
  <2>1. UNCHANGED <<port, path, pc, srv, bound, down, reqs, server, issues, faults, alone, early,
                    lost>>
    BY <1>1 DEF vars, osVars, processVars, historyVars
  <2>2. TypeOK'
    BY <2>1 DEF LifeInv, TypeOK
  <2>3. ASSUME NEW d \in Daemons PROVE ProcessInv(d)'
    <3>1. PortInv(d)' /\ AloneInv(d)'
      BY <2>1 DEF LifeInv, ProcessInv, PortInv, AloneInv
    <3>2. Told(d)' = Told(d) /\ LogInv(d)' = LogInv(d)
      BY <2>1, ToldKept
    <3>3. IdleInv(d)' /\ UpInv(d)' /\ DNSInv(d)' /\ RecordedInv(d)' /\ ReleasedInv(d)'
      BY <2>1, <3>2
      DEF LifeInv, ProcessInv, IdleInv, UpInv, DNSInv, HasDNS, RecordedInv, ReleasedInv
    <3> QED
      BY <3>1, <3>2, <3>3 DEF LifeInv, ProcessInv
  <2> QED
    BY <2>2, <2>3 DEF LifeInv
<1>2. ASSUME NEW d \in Daemons, Step(d) PROVE LifeInv'
  <2>1. TypeOK /\ TypeOK'
    BY <1>2, StepTypes DEF LifeInv
  <2>2. \A e \in Daemons : PortInv(e) /\ OwnInv(e)
    BY DEF LifeInv, ProcessInv, OwnInv
  <2>3. PortInv(d)' /\ OwnInv(d)' /\ AloneInv(d)'
    BY <1>2, <2>1, <2>2, PortStep, StartOwnInv, ServeOwnInv, CloseOwnInv, AloneOwnStep DEF Step
  <2>4. ASSUME NEW e \in Daemons \ {d} PROVE PortInv(e)' /\ OwnInv(e)' /\ AloneInv(e)'
    <3>1. srv'[e] = srv[e]
      BY <1>2, <2>1, OthersUntouched
    <3>2. \A l \in Listeners : port'[l] = e <=> port[l] = e
      BY <1>2, <2>1, <2>2, PortStep
    <3>3. PortInv(e)'
      BY <2>2, <3>1, <3>2 DEF PortInv
    <3> QED
      BY <1>2, <2>1, <2>2, <3>3, OthersOwnInv, AloneOtherStep
  <2> QED
    BY <2>1, <2>3, <2>4 DEF LifeInv, ProcessInv, OwnInv
<1> QED
  BY <1>1, <1>2 DEF Next, Step

\* LifeInv holds in every reachable state, for any number of daemons and faults.
THEOREM Invariance == Spec => []LifeInv
  BY InitInv, StepInv, PTL DEF Spec

(***************************************************************************)
(* The properties                                                          *)
(***************************************************************************)
\* The state of the processes, the ports and the socket keeps its types.
THEOREM TypeCorrect == Spec => []TypeOK
<1>1. LifeInv => TypeOK
  BY DEF LifeInv
<1> QED
  BY <1>1, Invariance, PTL

\* What NetworkRuntime's health reports as bound is, while the daemon runs.  What is
\* not has been recorded by recordNetworkListenerIssues, and is in the issue log
\* until recordIssue has filled that with newer ones.
THEOREM DegradedRecorded == Spec => []DegradedIsRecorded
<1>1. LifeInv => DegradedIsRecorded
  <2> SUFFICES ASSUME LifeInv, NEW d \in Daemons, pc[d] = "running", NEW l \in Listeners
               PROVE  IF l \in bound[d] THEN port[l] = d
                      ELSE l \in Logged(d) \/ (l \in lost[d] /\ Len(issues[d]) = IssueLimit)
    BY DEF DegradedIsRecorded, Listeners
  <2>1. PortInv(d) /\ UpInv(d) /\ DNSInv(d) /\ RecordedInv(d) /\ LogInv(d)
    BY DEF LifeInv, ProcessInv
  <2>2. l \in bound[d] \/ l \in Told(d)
    BY <2>1 DEF DNSInv, HasDNS, RecordedInv, Listeners, Web, Starting
  <2>3. l \in bound[d] => port[l] = d
    BY <2>1 DEF PortInv, UpInv
  <2> QED
    BY <2>1, <2>2, <2>3 DEF Told, LogInv
<1> QED
  BY <1>1, Invariance, PTL

\* stopDNSServerLocked leaves the port open only if the server was not serving.
THEOREM DNSReleased == Spec => []DNSPortReleased
<1>1. LifeInv => DNSPortReleased
  BY DEF LifeInv, ProcessInv, PortInv, ReleasedInv, DNSPortReleased, Listeners
<1> QED
  BY <1>1, Invariance, PTL

\* Daemons started beside one that runs alone fail on the DNS port and never
\* touch its socket or its ports.
THEOREM FirstUndisturbed == Spec => []FirstIsUndisturbed
<1>1. LifeInv => FirstIsUndisturbed
  <2> SUFFICES ASSUME LifeInv, NEW d \in Daemons, alone[d], pc[d] = "running"
               PROVE  path = d /\ \A l \in bound[d] : port[l] = d
    BY DEF FirstIsUndisturbed
  <2>1. PortInv(d) /\ UpInv(d) /\ AloneInv(d) /\ bound[d] \subseteq Listeners
    BY DEF LifeInv, ProcessInv, TypeOK, Listeners
  <2> QED
    BY <2>1 DEF PortInv, UpInv, AloneInv
<1> QED
  BY <1>1, Invariance, PTL

\* Of all the ways a step takes the socket file from a running daemon, only the
\* second Close of another and a late serving goroutine of another are left.
THEOREM SocketLost == Spec => SocketLostOnlyToLateClose
<1> DEFINE Late(e) ==
      \/ pc[e] = "close again" /\ pc'[e] = "exit"
      \/ "admin" \in down[e] /\ srv[e]["admin"] # srv'[e]["admin"]
<1>1. ASSUME LifeInv, [Next]_vars, NEW d \in Daemons, pc[d] = "running", pc'[d] = "running",
             path = d, path' # d
      PROVE  \E e \in Daemons \ {d} : Late(e)
  <2>1. PICK e \in Daemons : Step(e)
    BY <1>1 DEF Next, Step, vars, osVars
  <2>2. /\ pc \in [Daemons -> Labels]
        /\ srv \in [Daemons -> [Roles -> {"none", "bound", "serving"}]]
    BY <1>1 DEF LifeInv, TypeOK
  <2>3. down[d] = {}
    BY <1>1 DEF LifeInv, ProcessInv, UpInv
  <2>4. e # d => ~HasDNS(e)
    BY <1>1, OneHasDNS DEF HasDNS
  <2>5. pc[e] \notin {"unlink", "remove", "listen", "access", "stop admin", "drain admin"}
    BY <1>1, <2>4 DEF HasDNS, Starting
  <2>6. CloseAgain(e) \/ (ServeAdmin(e) /\ "admin" \in down[e])
    BY <1>1, <2>1, <2>5
    DEF Step, Launch, BootFails, StartStep, BindDNS, BindWeb, StatSocket, RemoveStaleSocket,
        ListenAdmin, OtherIssue, GrantAccess, ServeStep, ServeDNS, ServeHTTP, ServeAdmin,
        RequestArrives, RequestEnds,
        BeginClose, CloseStep, StopAdmin, DrainAdmin, StopDNS, StopWeb, DrainWeb, CloseAgain,
        Exit, Killed, Dies, osVars
  <2>7. e # d /\ Late(e)
    <3>1. CASE CloseAgain(e)
      <4>1. pc[e] = "close again" /\ pc'[e] = "exit"
        BY <2>2, <3>1 DEF CloseAgain, Goto
      <4> QED
        BY <1>1, <4>1
    <3>2. CASE ServeAdmin(e) /\ "admin" \in down[e]
      <4>1. srv[e]["admin"] = "bound" /\ SetSrv(e, "admin", "none")
        BY <3>2 DEF ServeAdmin
      <4>2. srv'[e]["admin"] = "none"
        BY <2>2, <4>1 DEF SetSrv, Roles
      <4> QED
        BY <2>3, <3>2, <4>1, <4>2
    <3> QED
      BY <2>6, <3>1, <3>2
  <2> QED
    BY <2>7
<1>2. LifeInv /\ [Next]_vars =>
        [\A d \in Daemons : pc[d] = "running" /\ pc'[d] = "running" /\ path = d /\ path' # d =>
           \E e \in Daemons \ {d} : Late(e)]_vars
  BY <1>1
<1> QED
  BY <1>2, Invariance, PTL DEF Spec, SocketLostOnlyToLateClose
==============================================================================
