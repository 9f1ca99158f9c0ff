------------------------------- MODULE Watcher -------------------------------
(***************************************************************************)
(* How devproxy keeps its routing snapshot in step with Docker             *)
(* (internal/daemon: app.go, events.go, reconciler.go; docker_runtime.go). *)
(*                                                                         *)
(* Docker's container set is abstracted to a revision number: every change *)
(* of a container makes a new revision.  A scan ("docker ps" and then      *)
(* "docker inspect") reflects at least every change made before it began,  *)
(* so it is recorded as the revision at which it began.  A snapshot is the *)
(* revision its scan reflects and the sequence number of the Builder.      *)
(*                                                                         *)
(* Actors are goroutines: Loop is App.Start followed by watchDockerEvents, *)
(* each member of Clients is an admin API request that runs App.Refresh.   *)
(* They share the reconciler's snapshot and the watcher's Connected flag,  *)
(* each behind its own mutex; nothing is locked across scan and install.   *)
(***************************************************************************)
EXTENDS Integers, Sequences, Functions

CONSTANTS
  Loop,          \* the goroutine that starts the daemon and watches Docker
  Clients,       \* concurrent POST /refresh requests
  MaxRev,        \* bound: revisions Docker goes through
  MaxFaults,     \* bound: failed scans, failed connects, broken streams, ...
  MaxRefreshes,  \* bound: refresh requests in one behaviour
  IssueLimit     \* admin.SessionIssueLimit (25 in the code)

ASSUME ActorsAssumption == Loop \notin Clients
ASSUME BoundsAssumption ==
  /\ MaxRev \in Nat \ {0}
  /\ MaxFaults \in Nat
  /\ MaxRefreshes \in Nat
  /\ IssueLimit \in Nat \ {0}

Actors == {Loop} \cup Clients

VARIABLES
  \* Docker and the "docker events" process
  rev,        \* current revision of the container set
  stream,     \* the event stream the loop holds
  queue,      \* events written by Docker and not yet received by the loop
  faults,     \* failures so far
  refreshes,  \* refresh requests so far
  \* goroutines
  pc, task, hand, scan, built,
  \* shared state of the daemon
  seq,        \* registry.Builder.seq
  snap,       \* Reconciler.snapshot
  connected,  \* Watcher.health.Connected
  issues,     \* App.issues
  cancelled,  \* the daemon's context is done
  \* history, read by no action
  overtaken,  \* per actor: a snapshot was installed since its scan began
  blind,      \* revisions made before the stream was subscribed
  gap,        \* revisions whose event no stream delivered
  failed,     \* revisions whose event was received but not synchronised
  rolled      \* revisions undone by an older scan

envVars     == <<rev, stream, queue, faults, refreshes>>
actorVars   == <<pc, task, hand, scan, built>>
sharedVars  == <<seq, snap, connected, issues, cancelled>>
historyVars == <<overtaken, blind, gap, failed, rolled>>
vars == <<envVars, actorVars, sharedVars, historyVars>>

\* An event whose action is not in supportedDockerEvents.
Unsupported == 0

Causes == {"ping", "scan", "events-connect", "events-stream", "event-sync",
           "reconnect-sync", "certificate-refresh"}

(***************************************************************************)
(* Shared state                                                            *)
(***************************************************************************)
\* Mutant of recordIssue: nothing is dropped.
recordIssueUntrimmed(log, cause) == Append(log, cause)

\* App.recordIssue: the oldest entry makes room when the limit is exceeded.
recordIssue(log, cause) ==
  LET all == Append(log, cause)
  IN  IF Len(all) > IssueLimit
        THEN SubSeq(all, Len(all) - IssueLimit + 1, Len(all))
        ELSE all

\* Mutant of recordWatcherIssue: the entry without OnDisconnect.
recordWatcherIssueOnly(cause) ==
  /\ issues' = recordIssue(issues, cause)
  /\ UNCHANGED connected

\* App.recordWatcherIssue: OnDisconnect and an entry in the issue log.
recordWatcherIssue(cause) ==
  /\ connected' = FALSE
  /\ issues' = recordIssue(issues, cause)

\* The entry a failed scan of actor a leaves.  Refresh and start-up go through
\* refreshFromDocker, the loop through handleDockerEvent or resyncWatcher.
ScanCause(a) ==
  IF a # Loop \/ task = "startup" THEN "scan"
  ELSE IF task = "event" THEN "event-sync" ELSE "reconnect-sync"

Init ==
  /\ rev = 1 /\ stream = "none" /\ queue = <<>> /\ faults = 0 /\ refreshes = 0
  /\ pc = [a \in Actors |-> IF a = Loop THEN "ping" ELSE "idle"]
  /\ task = "startup" /\ hand = 0
  /\ scan = [a \in Actors |-> 0] /\ built = [a \in Actors |-> 0]
  /\ seq = 0 /\ snap = [rev |-> 0, seq |-> 0]
  /\ connected = TRUE /\ issues = <<>> /\ cancelled = FALSE
  /\ overtaken = [a \in Actors |-> FALSE]
  /\ blind = {1} /\ gap = {} /\ failed = {} /\ rolled = {}

Goto(a, l) == pc' = [pc EXCEPT ![a] = l]

\* Failures draw on a budget, except that everything the daemon's context
\* governs fails freely once that context is done.
Fault ==
  /\ faults < MaxFaults
  /\ faults' = faults + 1

LoopFault == Fault \/ (cancelled /\ UNCHANGED faults)

(***************************************************************************)
(* Docker                                                                  *)
(***************************************************************************)
\* A container starts, stops, is renamed, ...: the change is announced on the
\* stream if "docker events" has subscribed by then, and to nobody otherwise.
DockerChange ==
  /\ rev < MaxRev
  /\ rev' = rev + 1
  /\ queue' = IF stream = "live" THEN Append(queue, rev + 1) ELSE queue
  /\ blind' = IF stream \in {"none", "opening"} THEN blind \cup {rev + 1} ELSE blind
  /\ gap'   = IF stream \in {"ended", "closed"} THEN gap \cup {rev + 1} ELSE gap
  /\ UNCHANGED <<stream, faults, refreshes, actorVars, sharedVars,
                 overtaken, failed, rolled>>

\* An event the daemon does not care for (at most one queued at a time).
DockerNoise ==
  /\ stream = "live"
  /\ Unsupported \notin Range(queue)
  /\ queue' = Append(queue, Unsupported)
  /\ UNCHANGED <<rev, stream, faults, refreshes, actorVars, sharedVars, historyVars>>

\* The process DefaultDockerEvents started reaches Docker and subscribes.
StreamSubscribed ==
  /\ stream = "opening"
  /\ stream' = "live"
  /\ UNCHANGED <<rev, queue, faults, refreshes, actorVars, sharedVars, historyVars>>

\* The process ends, or a line of its output cannot be decoded.  The reader
\* goroutine delivers what it has read before it reports the error.
StreamEnded ==
  /\ stream \in {"opening", "live"}
  /\ stream' = "ended"
  /\ LoopFault
  /\ UNCHANGED <<rev, queue, refreshes, actorVars, sharedVars, historyVars>>

(***************************************************************************)
(* A scan and what follows it, common to all actors                        *)
(***************************************************************************)
InFlight == {"scan", "handle", "reconnect"}

\* Mutant of StartScan: containers are scanned once and remembered.
StartScanCached(a) ==
  /\ Goto(a, "scan")
  /\ scan' = [scan EXCEPT ![a] = IF @ = 0 THEN rev ELSE @]
  /\ overtaken' = [overtaken EXCEPT ![a] = FALSE]

StartScan(a) ==
  /\ Goto(a, "scan")
  /\ scan' = [scan EXCEPT ![a] = rev]
  /\ overtaken' = [overtaken EXCEPT ![a] = FALSE]

\* Mutant of ScanOk: Builder.Build does not count.
ScanOkUncounted(a) ==
  /\ pc[a] = "scan"
  /\ built' = [built EXCEPT ![a] = seq]
  /\ Goto(a, IF a = Loop /\ task = "event" /\ connected THEN "handle" ELSE "reconnect")
  /\ UNCHANGED <<envVars, task, hand, scan, seq, snap, connected, issues, cancelled,
                 historyVars>>

\* DockerScan returns and Builder.Build takes a sequence number.  The loop's
\* event handler looks at Connected first: when it is set the snapshot is
\* rebuilt by HandleEvent, which leaves the flag alone, else by OnReconnect.
ScanOk(a) ==
  /\ pc[a] = "scan"
  /\ seq' = seq + 1
  /\ built' = [built EXCEPT ![a] = seq + 1]
  /\ Goto(a, IF a = Loop /\ task = "event" /\ connected THEN "handle" ELSE "reconnect")
  /\ UNCHANGED <<envVars, task, hand, scan, snap, connected, issues, cancelled,
                 historyVars>>

\* Mutant of Install: HandleEvent's snapshot is built and not published.
InstallReconnectOnly(a) ==
  /\ pc[a] \in {"handle", "reconnect"}
  /\ snap' = IF pc[a] = "handle" THEN snap ELSE [rev |-> scan[a], seq |-> built[a]]
  /\ Goto(a, IF pc[a] = "handle" THEN "certs" ELSE "mark")
  /\ overtaken' = [b \in Actors |-> b # a /\ pc[b] \in InFlight]
  /\ UNCHANGED <<envVars, task, hand, scan, built, seq, connected, issues,
                 cancelled, blind, gap, failed, rolled>>

\* The critical section of RebuildSnapshot.
Install(a) ==
  /\ pc[a] \in {"handle", "reconnect"}
  /\ snap' = [rev |-> scan[a], seq |-> built[a]]
  /\ Goto(a, IF pc[a] = "handle" THEN "certs" ELSE "mark")
  /\ overtaken' = [b \in Actors |-> b # a /\ pc[b] \in InFlight]
  /\ rolled' = rolled \cup (scan[a] + 1 .. snap.rev)
  /\ UNCHANGED <<envVars, task, hand, scan, built, seq, connected, issues,
                 cancelled, blind, gap, failed>>

\* The second critical section of OnReconnect.  Start-up has no network
\* runtime to synchronise yet and goes on to open the event stream.
MarkConnected(a) ==
  /\ pc[a] = "mark"
  /\ connected' = TRUE
  /\ Goto(a, IF a = Loop /\ task = "startup" THEN "connect" ELSE "certs")
  /\ UNCHANGED <<envVars, task, hand, scan, built, seq, snap, issues, cancelled,
                 historyVars>>

\* App.syncNetworkCertificates; the certificates themselves are not part of
\* this module.
SyncCertificates(a) ==
  /\ pc[a] = "certs"
  /\ Goto(a, IF a = Loop THEN "select" ELSE "idle")
  /\ \/ UNCHANGED <<faults, issues>>
     \/ Fault /\ issues' = recordIssue(issues, "certificate-refresh")
  /\ UNCHANGED <<rev, stream, queue, refreshes, task, hand, scan, built, seq,
                 snap, connected, cancelled, historyVars>>

(***************************************************************************)
(* App.Start                                                               *)
(***************************************************************************)
\* DockerPing; its failure is recorded and start-up goes on with the scan.
StartPing ==
  /\ pc[Loop] = "ping"
  /\ \/ UNCHANGED <<faults, connected, issues>>
     \/ LoopFault /\ recordWatcherIssue("ping")
  /\ StartScan(Loop)
  /\ UNCHANGED <<rev, stream, queue, refreshes, task, hand, built, seq, snap,
                 cancelled, blind, gap, failed, rolled>>

(***************************************************************************)
(* App.watchDockerEvents                                                   *)
(***************************************************************************)
\* DockerEvents starts the "docker events" process; exec.Cmd.Start refuses to
\* once the context is done.
Connect ==
  /\ pc[Loop] = "connect"
  /\ ~cancelled
  /\ stream' = "opening"
  /\ Goto(Loop, "check")
  /\ UNCHANGED <<rev, queue, faults, refreshes, task, hand, scan, built,
                 sharedVars, historyVars>>

\* Mutant of ConnectFailed: the loop returns instead of retrying.
ConnectFailedReturns ==
  /\ pc[Loop] = "connect"
  /\ LoopFault
  /\ Goto(Loop, "done")
  /\ recordWatcherIssue("events-connect")
  /\ UNCHANGED <<rev, stream, queue, refreshes, task, hand, scan, built, seq,
                 snap, cancelled, historyVars>>

\* The process cannot be started: retry later, or stop if the daemon does.
ConnectFailed ==
  /\ pc[Loop] = "connect"
  /\ LoopFault
  /\ IF cancelled
       THEN Goto(Loop, "done") /\ UNCHANGED <<connected, issues>>
       ELSE Goto(Loop, "wait") /\ recordWatcherIssue("events-connect")
  /\ UNCHANGED <<rev, stream, queue, refreshes, task, hand, scan, built, seq,
                 snap, cancelled, historyVars>>

\* Mutant of CheckConnected: no resync after a reconnect.
CheckConnectedNever ==
  /\ pc[Loop] = "check"
  /\ Goto(Loop, "select")
  /\ UNCHANGED <<envVars, task, hand, scan, built, sharedVars, historyVars>>

\* A loop that finds the watcher connected consumes events without a resync.
CheckConnected ==
  /\ pc[Loop] = "check"
  /\ Goto(Loop, IF connected THEN "select" ELSE "begin")
  /\ task' = IF connected THEN task ELSE "resync"
  /\ UNCHANGED <<envVars, hand, scan, built, sharedVars, historyVars>>

\* Mutant of ReceiveEvent: an action is missing from supportedDockerEvents.
ReceiveEventUnlisted ==
  /\ pc[Loop] = "select"
  /\ queue # <<>>
  /\ queue' = Tail(queue)
  /\ UNCHANGED <<rev, stream, faults, refreshes, actorVars, sharedVars, historyVars>>

\* consumeDockerEvents receives an event; handleDockerEvent drops the ones
\* that are not supported before it scans.
ReceiveEvent ==
  /\ pc[Loop] = "select"
  /\ queue # <<>>
  /\ queue' = Tail(queue)
  /\ IF Head(queue) = Unsupported
       THEN UNCHANGED <<pc, task, hand>>
       ELSE Goto(Loop, "begin") /\ task' = "event" /\ hand' = Head(queue)
  /\ UNCHANGED <<rev, stream, faults, refreshes, scan, built, sharedVars, historyVars>>

LoopScan ==
  /\ pc[Loop] = "begin"
  /\ StartScan(Loop)
  /\ UNCHANGED <<envVars, task, hand, built, sharedVars, blind, gap, failed, rolled>>

\* A failed scan of the loop.  An event is dropped with its scan; a resync
\* that fails also closes the stream, with the events it holds; start-up goes
\* on without a snapshot.
LoopScanFailed ==
  /\ pc[Loop] = "scan"
  /\ LoopFault
  /\ recordWatcherIssue(ScanCause(Loop))
  /\ Goto(Loop, CASE task = "startup" -> "connect"
                  [] task = "event"   -> "select"
                  [] task = "resync"  -> "wait")
  /\ failed' = IF task = "event" THEN failed \cup {hand} ELSE failed
  /\ IF task = "resync"
       THEN /\ stream' = "closed"
            /\ queue' = <<>>
            /\ gap' = gap \cup (Range(queue) \ {Unsupported})
       ELSE UNCHANGED <<stream, queue, gap>>
  /\ UNCHANGED <<rev, refreshes, task, hand, scan, built, seq, snap, cancelled,
                 overtaken, blind, rolled>>

\* Mutant of StreamError: the error overtakes the events read before it.
StreamErrorFirst ==
  /\ pc[Loop] = "select"
  /\ stream = "ended"
  /\ stream' = "closed"
  /\ queue' = <<>>
  /\ Goto(Loop, IF cancelled THEN "done" ELSE "wait")
  /\ recordWatcherIssue("events-stream")
  /\ UNCHANGED <<rev, faults, refreshes, task, hand, scan, built, seq,
                 snap, cancelled, historyVars>>

\* consumeDockerEvents receives the error of a stream that has ended.
StreamError ==
  /\ pc[Loop] = "select"
  /\ stream = "ended"
  /\ queue = <<>>
  /\ stream' = "closed"
  /\ IF cancelled
       THEN Goto(Loop, "done") /\ UNCHANGED <<connected, issues>>
       ELSE Goto(Loop, "wait") /\ recordWatcherIssue("events-stream")
  /\ UNCHANGED <<rev, queue, faults, refreshes, task, hand, scan, built, seq,
                 snap, cancelled, historyVars>>

\* waitForWatcherRetry: the 200 ms timer fires.
RetryTimer ==
  /\ pc[Loop] = "wait"
  /\ Goto(Loop, "connect")
  /\ UNCHANGED <<envVars, task, hand, scan, built, sharedVars, historyVars>>

\* Mutant of LoopDone: consumeDockerEvents does not select on ctx.Done().
LoopDoneWaiting ==
  /\ pc[Loop] = "wait"
  /\ cancelled
  /\ Goto(Loop, "done")
  /\ UNCHANGED <<envVars, task, hand, scan, built, sharedVars, historyVars>>

\* <-ctx.Done() in consumeDockerEvents and in waitForWatcherRetry.
LoopDone ==
  /\ pc[Loop] \in {"select", "wait"}
  /\ cancelled
  /\ Goto(Loop, "done")
  /\ UNCHANGED <<envVars, task, hand, scan, built, sharedVars, historyVars>>

(***************************************************************************)
(* App.Refresh, called by an admin API request                             *)
(***************************************************************************)
\* The admin server answers only after Start's own scan.
Started == task # "startup" \/ pc[Loop] \notin {"ping", "scan", "reconnect", "mark"}

RefreshRequest(c) ==
  /\ pc[c] = "idle"
  /\ Started
  /\ refreshes < MaxRefreshes
  /\ refreshes' = refreshes + 1
  /\ StartScan(c)
  /\ UNCHANGED <<rev, stream, queue, faults, task, hand, built, sharedVars,
                 blind, gap, failed, rolled>>

\* The scan fails, or the client gives up and its request context kills it.
RefreshFailed(c) ==
  /\ pc[c] = "scan"
  /\ Fault
  /\ recordWatcherIssue(ScanCause(c))
  /\ Goto(c, "idle")
  /\ UNCHANGED <<rev, stream, queue, refreshes, task, hand, scan, built, seq,
                 snap, cancelled, historyVars>>

\* The process is told to stop.
Cancel ==
  /\ ~cancelled
  /\ cancelled' = TRUE
  /\ UNCHANGED <<envVars, actorVars, seq, snap, connected, issues, historyVars>>

Terminated ==
  /\ cancelled
  /\ pc[Loop] = "done"
  /\ \A c \in Clients : pc[c] = "idle"
  /\ UNCHANGED vars

ActorStep(a) == ScanOk(a) \/ Install(a) \/ MarkConnected(a) \/ SyncCertificates(a)

LoopStep ==
  \/ StartPing \/ Connect \/ ConnectFailed \/ CheckConnected \/ ReceiveEvent
  \/ LoopScan \/ LoopScanFailed \/ StreamError \/ RetryTimer \/ LoopDone

ClientStep(c) == RefreshRequest(c) \/ RefreshFailed(c)

DockerStep == DockerChange \/ DockerNoise \/ StreamSubscribed \/ StreamEnded

Next ==
  \/ \E a \in Actors : ActorStep(a)
  \/ LoopStep
  \/ \E c \in Clients : ClientStep(c)
  \/ DockerStep
  \/ Cancel
  \/ Terminated

Spec == Init /\ [][Next]_vars

(***************************************************************************)
(* Fairness.  Goroutines are scheduled, a docker command returns, the      *)
(* "docker events" process subscribes unless it ends.  Go's select picks   *)
(* at random among ready cases, so a done context is not ignored forever.  *)
(***************************************************************************)
Fairness ==
  /\ WF_vars(LoopStep \/ ActorStep(Loop))
  /\ WF_vars(LoopDone)
  /\ WF_vars(StreamSubscribed)
  /\ \A c \in Clients : WF_vars(ActorStep(c))

FairSpec == Spec /\ Fairness

(***************************************************************************)
(* Properties                                                              *)
(***************************************************************************)
Labels == {"ping", "connect", "check", "select", "begin", "scan", "handle",
           "reconnect", "mark", "certs", "wait", "done", "idle"}
ClientLabels == {"idle", "scan", "reconnect", "mark", "certs"}

\* Types of the watcher's state; the issue log never exceeds its limit and no
\* snapshot is ahead of Docker.
TypeOK ==
  /\ rev \in 1..MaxRev
  /\ stream \in {"none", "opening", "live", "ended", "closed"}
  /\ queue \in Seq(0..rev)
  /\ faults \in 0..MaxFaults
  /\ refreshes \in 0..MaxRefreshes
  /\ pc \in [Actors -> Labels]
  /\ \A c \in Clients : pc[c] \in ClientLabels
  /\ task \in {"startup", "resync", "event"}
  /\ hand \in IF task = "event" THEN 1..rev ELSE 0..rev
  /\ scan \in [Actors -> 0..rev]
  /\ seq \in Nat
  /\ built \in [Actors -> 0..seq]
  /\ snap \in [rev : 0..rev, seq : 0..seq]
  /\ connected \in BOOLEAN
  /\ cancelled \in BOOLEAN
  /\ issues \in Seq(Causes)
  /\ Len(issues) <= IssueLimit
  /\ overtaken \in [Actors -> BOOLEAN]
  /\ blind \subseteq 1..rev
  /\ gap \subseteq 1..rev
  /\ failed \subseteq 1..rev
  /\ rolled \subseteq 1..rev

\* The revision of the event that handleDockerEvent is working on, if any.
InHand ==
  IF task = "event" /\ pc[Loop] \in {"begin", "scan", "handle", "reconnect"}
    THEN {hand} ELSE {}

\* No change of a container is forgotten silently: it is in the snapshot, or its
\* event is queued or being handled, or it fell into one of the four holes of
\* watchDockerEvents: it came before the stream was subscribed (blind), while
\* there was no stream (gap), its event's scan failed (failed), or an older
\* scan was installed over it (rolled).
EveryChangeAccounted ==
  \A r \in 1..rev :
    \/ r <= snap.rev
    \/ r \in Range(queue) \cup InHand
    \/ r \in blind \cup gap \cup failed \cup rolled

\* RebuildSnapshot goes back to an older state of Docker only when another
\* goroutine's snapshot was installed while it was scanning or building.
OnlyOvertakenScansRollBack ==
  [][snap'.rev < snap.rev =>
       \E a \in Actors : /\ pc[a] \in {"handle", "reconnect"}
                         /\ pc'[a] # pc[a]
                         /\ overtaken[a]]_vars

Installing == {a \in Actors : pc[a] \in {"handle", "reconnect"}}

\* Builder.seq gives every snapshot a version of its own: those about to be
\* installed differ from each other and from the one that is served.
VersionsUnique ==
  \A a \in Installing :
    /\ built[a] # snap.seq
    /\ \A b \in Installing : built[a] = built[b] => a = b

\* A change that no stream delivered, or whose event could not be synchronised,
\* and that the snapshot lacks, shows as a disconnected watcher, unless the
\* loop has yet to read the error of the broken stream or has been stopped.
LossIsSurfaced ==
  \A r \in gap \cup failed :
    \/ r <= snap.rev
    \/ ~connected
    \/ r \in gap /\ stream = "ended"
    \/ pc[Loop] = "done"

\* watchDockerEvents takes up a new stream without a resync only if the changes
\* made while it had none are in the snapshot.
ReconnectResyncs ==
  [][(pc[Loop] = "check" /\ pc'[Loop] = "select" /\ stream # "ended") =>
       \A r \in gap : r <= snap.rev]_vars

Settled ==
  /\ pc[Loop] = "select" /\ stream = "live" /\ queue = <<>> /\ connected
  /\ \A c \in Clients : pc[c] = "idle"
  /\ \A r \in blind \cup gap \cup failed : r <= snap.rev

\* When the daemon has handled every event, lost none and reports itself
\* connected, the snapshot it serves is that of the current containers.
SettledIsFresh == Settled => snap.rev = rev

\* A broken stream is replaced and the watcher connected again, unless the
\* daemon is stopped.
StreamRepaired ==
  (stream \in {"ended", "closed"}) ~>
    (cancelled \/ (connected /\ pc[Loop] = "select" /\ stream \in {"opening", "live"}))

\* A delivered event ends up in the snapshot, or its scan or its stream failed,
\* unless the daemon is stopped.
EventsReachSnapshot ==
  \A r \in 1..MaxRev :
    (r \in Range(queue)) ~> (cancelled \/ r <= snap.rev \/ r \in failed \cup gap)

\* When the daemon's context is done the watch loop returns.
LoopStops == cancelled ~> (pc[Loop] = "done")
==============================================================================
