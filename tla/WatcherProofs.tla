---------------------------- MODULE WatcherProofs ----------------------------
(***************************************************************************)
(* Proofs about Watcher, for every set of refresh requests and every bound *)
(***************************************************************************)
EXTENDS Watcher, TLAPS

USE ActorsAssumption, BoundsAssumption

(***************************************************************************)
(* The issue log                                                           *)
(***************************************************************************)
\* App.recordIssue keeps the log a sequence of causes within its limit.
LEMMA RecordIssueType ==
  ASSUME NEW log \in Seq(Causes), Len(log) <= IssueLimit, NEW cause \in Causes
  PROVE  /\ recordIssue(log, cause) \in Seq(Causes)
         /\ Len(recordIssue(log, cause)) <= IssueLimit
<1> DEFINE all == Append(log, cause)
<1>1. all \in Seq(Causes) /\ Len(all) = Len(log) + 1
  OBVIOUS
<1>2. CASE Len(all) > IssueLimit
  <2>1. /\ Len(all) - IssueLimit + 1 \in 1..Len(all)
        /\ Len(all) \in Nat
    BY <1>1, <1>2
  <2>2. SubSeq(all, Len(all) - IssueLimit + 1, Len(all)) \in Seq(Causes)
    BY <1>1, <2>1
  <2>3. Len(SubSeq(all, Len(all) - IssueLimit + 1, Len(all))) = IssueLimit
    BY <1>1, <2>1
  <2> QED
    BY <1>2, <2>2, <2>3 DEF recordIssue
<1>3. CASE ~(Len(all) > IssueLimit)
  BY <1>1, <1>3 DEF recordIssue
<1> QED
  BY <1>2, <1>3

\* The causes Watcher's actions record are causes.
LEMMA ScanCauseType == ASSUME NEW a \in Actors PROVE ScanCause(a) \in Causes
  BY DEF ScanCause, Causes

\* What recordWatcherIssue leaves behind has the right types.
LEMMA WatcherIssueType ==
  ASSUME TypeOK, NEW cause \in Causes, recordWatcherIssue(cause)
  PROVE  /\ connected' \in BOOLEAN
         /\ issues' \in Seq(Causes)
         /\ Len(issues') <= IssueLimit
  BY RecordIssueType DEF TypeOK, recordWatcherIssue

\* The fault counter stays within its bound.
LEMMA FaultType == ASSUME TypeOK, LoopFault PROVE faults' \in 0..MaxFaults
  BY DEF TypeOK, LoopFault, Fault

(***************************************************************************)
(* Type correctness                                                        *)
(***************************************************************************)
\* Every step of an actor keeps the types.
LEMMA ActorStepType ==
  ASSUME TypeOK, NEW a \in Actors, ActorStep(a)
  PROVE  TypeOK'
<1>1. CASE ScanOk(a)
  BY SMTT(30), <1>1 DEF TypeOK, ScanOk, Goto, Labels, ClientLabels, Actors, envVars, historyVars
<1>2. CASE Install(a)
  <2>1. pc' \in [Actors -> Labels] /\ \A c \in Clients : pc'[c] \in ClientLabels
    BY <1>2 DEF TypeOK, Install, Goto, Labels, ClientLabels, Actors
  <2>2. overtaken' \in [Actors -> BOOLEAN]
    BY <1>2, Zenon DEF Install
  <2>3. rolled' \subseteq 1..rev
    <3>1. scan[a] \in 0..rev /\ snap.rev \in 0..rev /\ rev \in Nat
      BY DEF TypeOK
    <3>2. (scan[a] + 1 .. snap.rev) \subseteq 1..rev
      BY <3>1
    <3> QED
      BY <1>2, <3>2 DEF TypeOK, Install
  <2>4. snap' \in [rev : 0..rev, seq : 0..seq]
    BY <1>2 DEF TypeOK, Install
  <2> QED
    BY <1>2, <2>1, <2>2, <2>3, <2>4 DEF TypeOK, Install, envVars
<1>3. CASE MarkConnected(a)
  BY <1>3 DEF TypeOK, MarkConnected, Goto, Labels, ClientLabels, Actors, envVars, historyVars
<1>4. CASE SyncCertificates(a)
  <2>1. issues' \in Seq(Causes) /\ Len(issues') <= IssueLimit
    BY <1>4, RecordIssueType DEF TypeOK, SyncCertificates, Causes
  <2>2. faults' \in 0..MaxFaults
    BY <1>4 DEF TypeOK, SyncCertificates, Fault
  <2> QED
    BY <1>4, <2>1, <2>2
    DEF TypeOK, SyncCertificates, Goto, Labels, ClientLabels, Actors, historyVars
<1> QED
  BY <1>1, <1>2, <1>3, <1>4 DEF ActorStep

\* Every other step of the loop keeps the types.
LEMMA LoopStepType ==
  ASSUME TypeOK, LoopStep
  PROVE  TypeOK'
<1> Loop \in Actors
  BY DEF Actors
<1>1. CASE StartPing
  <2>1. faults' \in 0..MaxFaults
    BY <1>1 DEF TypeOK, StartPing, LoopFault, Fault
  <2>2. /\ connected' \in BOOLEAN
        /\ issues' \in Seq(Causes)
        /\ Len(issues') <= IssueLimit
    BY <1>1, WatcherIssueType DEF TypeOK, StartPing, Causes
  <2> QED
    BY SMTT(30), <1>1, <2>1, <2>2
    DEF TypeOK, StartPing, StartScan, Goto, Labels, ClientLabels, Actors
<1>2. CASE Connect
  BY <1>2 DEF TypeOK, Connect, Goto, Labels, ClientLabels, Actors, sharedVars, historyVars
<1>3. CASE ConnectFailed
  <2>1. faults' \in 0..MaxFaults
    BY SMTT(30), <1>3 DEF TypeOK, ConnectFailed, LoopFault, Fault
  <2>2. /\ connected' \in BOOLEAN
        /\ issues' \in Seq(Causes)
        /\ Len(issues') <= IssueLimit
    BY <1>3, WatcherIssueType DEF TypeOK, ConnectFailed, Causes
  <2> QED
    BY <1>3, <2>1, <2>2
    DEF TypeOK, ConnectFailed, Goto, Labels, ClientLabels, Actors, historyVars
<1>4. CASE CheckConnected
  BY SMTT(30), <1>4 DEF TypeOK, CheckConnected, Goto, Labels, ClientLabels, Actors, envVars,
              sharedVars, historyVars
<1>5. CASE ReceiveEvent
  <2>1. Head(queue) \in 0..rev /\ Tail(queue) \in Seq(0..rev)
    BY SMTT(30), <1>5 DEF TypeOK, ReceiveEvent
  <2>2. /\ task' \in {"startup", "resync", "event"}
        /\ hand' \in IF task' = "event" THEN 1..rev ELSE 0..rev
    BY SMTT(30), <1>5, <2>1 DEF TypeOK, ReceiveEvent, Unsupported
  <2> QED
    BY <1>5, <2>1, <2>2 DEF TypeOK, ReceiveEvent, Goto, Labels, ClientLabels, Actors,
                      sharedVars, historyVars
<1>6. CASE LoopScan
  BY <1>6 DEF TypeOK, LoopScan, StartScan, Goto, Labels, ClientLabels, Actors, envVars,
              sharedVars
<1>7. CASE LoopScanFailed
  <2>1. faults' \in 0..MaxFaults
    BY <1>7, FaultType DEF LoopScanFailed
  <2>2. /\ connected' \in BOOLEAN
        /\ issues' \in Seq(Causes)
        /\ Len(issues') <= IssueLimit
    BY <1>7, WatcherIssueType, ScanCauseType DEF LoopScanFailed
  <2>3. Range(queue) \ {Unsupported} \subseteq 1..rev
    BY DEF TypeOK, Range, Unsupported
  <2>4. /\ stream' \in {"none", "opening", "live", "ended", "closed"}
        /\ queue' \in Seq(0..rev)
        /\ gap' \subseteq 1..rev
    <3>1. CASE task = "resync"
      BY <1>7, <2>3, <3>1 DEF TypeOK, LoopScanFailed
    <3>2. CASE task # "resync"
      BY <1>7, <3>2 DEF TypeOK, LoopScanFailed
    <3> QED
      BY <3>1, <3>2
  <2>5. failed' \subseteq 1..rev
    BY <1>7 DEF TypeOK, LoopScanFailed
  <2>6. pc' \in [Actors -> Labels] /\ \A c \in Clients : pc'[c] \in ClientLabels
    BY <1>7 DEF TypeOK, LoopScanFailed, Goto, Labels, Actors
  <2> QED
    BY <1>7, <2>1, <2>2, <2>4, <2>5, <2>6 DEF TypeOK, LoopScanFailed
<1>8. CASE StreamError
  <2>1. /\ connected' \in BOOLEAN
        /\ issues' \in Seq(Causes)
        /\ Len(issues') <= IssueLimit
    BY <1>8, WatcherIssueType DEF TypeOK, StreamError, Causes
  <2> QED
    BY <1>8, <2>1
    DEF TypeOK, StreamError, Goto, Labels, ClientLabels, Actors, historyVars
<1>9. CASE RetryTimer
  BY <1>9 DEF TypeOK, RetryTimer, Goto, Labels, ClientLabels, Actors, envVars,
              sharedVars, historyVars
<1>10. CASE LoopDone
  BY <1>10 DEF TypeOK, LoopDone, Goto, Labels, ClientLabels, Actors, envVars,
               sharedVars, historyVars
<1> QED
  BY <1>1, <1>2, <1>3, <1>4, <1>5, <1>6, <1>7, <1>8, <1>9, <1>10 DEF LoopStep

\* Steps of Docker, of the refresh requests and of the process keep the types.
LEMMA OtherStepType ==
  ASSUME TypeOK,
         \/ DockerStep
         \/ \E c \in Clients : ClientStep(c)
         \/ Cancel
         \/ UNCHANGED vars
  PROVE  TypeOK'
<1>1. CASE DockerChange
  <2>1. rev' = rev + 1 /\ rev' \in 1..MaxRev
    BY <1>1 DEF TypeOK, DockerChange
  <2>2. queue' \in Seq(0..rev')
    <3>1. queue \in Seq(0..rev') /\ rev + 1 \in 0..rev'
      BY <2>1 DEF TypeOK
    <3>2. Append(queue, rev + 1) \in Seq(0..rev')
      BY <3>1
    <3> QED
      BY <1>1, <3>1, <3>2 DEF DockerChange
  <2>3. blind' \subseteq 1..rev' /\ gap' \subseteq 1..rev'
    BY <1>1, <2>1 DEF TypeOK, DockerChange
  <2>4. /\ snap \in [rev : 0..rev', seq : 0..seq]
        /\ scan \in [Actors -> 0..rev']
        /\ hand \in IF task = "event" THEN 1..rev' ELSE 0..rev'
    BY <2>1 DEF TypeOK
  <2> QED
    BY SMTT(30), <1>1, <2>1, <2>2, <2>3, <2>4 DEF TypeOK, DockerChange, actorVars, sharedVars
<1>2. CASE DockerNoise
  BY <1>2 DEF TypeOK, DockerNoise, Unsupported, actorVars, sharedVars, historyVars
<1>3. CASE StreamSubscribed
  BY <1>3 DEF TypeOK, StreamSubscribed, actorVars, sharedVars, historyVars
<1>4. CASE StreamEnded
  BY <1>4, FaultType DEF TypeOK, StreamEnded, actorVars, sharedVars, historyVars
<1>5. ASSUME NEW c \in Clients, RefreshRequest(c) PROVE TypeOK'
  <2>1. c \in Actors /\ Loop \in Actors /\ c # Loop
    BY <1>5 DEF Actors
  <2>2. pc' \in [Actors -> Labels] /\ \A d \in Clients : pc'[d] \in ClientLabels
    BY <1>5, <2>1 DEF TypeOK, RefreshRequest, StartScan, Goto, Labels, ClientLabels, Actors
  <2>3. scan' \in [Actors -> 0..rev] /\ overtaken' \in [Actors -> BOOLEAN]
    BY <1>5, <2>1 DEF TypeOK, RefreshRequest, StartScan
  <2> QED
    BY SMTT(30), <1>5, <2>2, <2>3 DEF TypeOK, RefreshRequest, sharedVars
<1>6. ASSUME NEW c \in Clients, RefreshFailed(c) PROVE TypeOK'
  <2>1. /\ connected' \in BOOLEAN
        /\ issues' \in Seq(Causes)
        /\ Len(issues') <= IssueLimit
    BY <1>6, WatcherIssueType, ScanCauseType DEF RefreshFailed, Actors
  <2>2. faults' \in 0..MaxFaults
    BY <1>6 DEF TypeOK, RefreshFailed, Fault
  <2> QED
    BY <1>6, <2>1, <2>2
    DEF TypeOK, RefreshFailed, Goto, Labels, ClientLabels, Actors, historyVars
<1>7. CASE Cancel
  BY <1>7 DEF TypeOK, Cancel, envVars, actorVars, historyVars
<1>8. CASE UNCHANGED vars
  BY <1>8 DEF TypeOK, vars, envVars, actorVars, sharedVars, historyVars
<1> QED
  BY <1>1, <1>2, <1>3, <1>4, <1>5, <1>6, <1>7, <1>8 DEF DockerStep, ClientStep

\* The types of the watcher's state hold in every reachable state, for any
\* number of concurrent refresh requests.
THEOREM TypeCorrect == Spec => []TypeOK
<1>1. Init => TypeOK
  <2> SUFFICES ASSUME Init PROVE TypeOK
    OBVIOUS
  <2>1. pc \in [Actors -> Labels] /\ \A c \in Clients : pc[c] \in ClientLabels
    BY DEF Init, Labels, ClientLabels, Actors
  <2>2. queue \in Seq(0..rev) /\ issues \in Seq(Causes) /\ Len(issues) <= IssueLimit
    BY DEF Init
  <2>3. /\ rev \in 1..MaxRev
        /\ faults \in 0..MaxFaults
        /\ refreshes \in 0..MaxRefreshes
        /\ hand \in IF task = "event" THEN 1..rev ELSE 0..rev
        /\ scan \in [Actors -> 0..rev]
        /\ seq \in Nat
        /\ built \in [Actors -> 0..seq]
        /\ snap \in [rev : 0..rev, seq : 0..seq]
    BY DEF Init
  <2>4. /\ overtaken \in [Actors -> BOOLEAN]
        /\ connected \in BOOLEAN
        /\ cancelled \in BOOLEAN
    BY Zenon DEF Init
  <2>5. blind \subseteq 1..rev /\ gap = {} /\ failed = {} /\ rolled = {}
    BY DEF Init
  <2>6. /\ stream \in {"none", "opening", "live", "ended", "closed"}
        /\ task \in {"startup", "resync", "event"}
    BY DEF Init
  <2> QED
    BY <2>1, <2>2, <2>3, <2>4, <2>5, <2>6 DEF TypeOK
<1>2. TypeOK /\ [Next]_vars => TypeOK'
  <2> SUFFICES ASSUME TypeOK, [Next]_vars PROVE TypeOK'
    OBVIOUS
  <2>1. ASSUME NEW a \in Actors, ActorStep(a) PROVE TypeOK'
    BY <2>1, ActorStepType
  <2>2. CASE LoopStep
    BY <2>2, LoopStepType
  <2>3. CASE DockerStep \/ (\E c \in Clients : ClientStep(c)) \/ Cancel \/ UNCHANGED vars
    BY <2>3, OtherStepType
  <2> QED
    BY <2>1, <2>2, <2>3 DEF Next, Terminated
<1> QED
  BY <1>1, <1>2, PTL DEF Spec

(***************************************************************************)
(* Accounting for every change, overtaking and versions                    *)
(***************************************************************************)
\* The scan for an event begins after the event was received.
ScanCoversEvent ==
  (task = "event" /\ pc[Loop] \in InFlight) => hand <= scan[Loop]

\* A goroutine that nobody has overtaken will not install anything older than
\* what is served.
NotOvertakenIsNewest ==
  \A a \in Actors : (pc[a] \in InFlight /\ ~overtaken[a]) => snap.rev <= scan[a]

\* App.Start runs before the first event or resync.
PingFirst == pc[Loop] = "ping" => task = "startup"

IInv ==
  /\ TypeOK
  /\ PingFirst
  /\ ScanCoversEvent
  /\ EveryChangeAccounted
  /\ NotOvertakenIsNewest
  /\ VersionsUnique

\* The elements of a sequence are its head and those of its tail.
LEMMA RangeHeadTail ==
  ASSUME NEW S, NEW q \in Seq(S), q # <<>>
  PROVE  Range(q) \subseteq {Head(q)} \cup Range(Tail(q))
<1> SUFFICES ASSUME NEW i \in DOMAIN q, q[i] # Head(q)
             PROVE  q[i] \in Range(Tail(q))
  BY DEF Range
<1>1. i - 1 \in DOMAIN Tail(q) /\ Tail(q)[i - 1] = q[i]
  OBVIOUS
<1> QED
  BY <1>1 DEF Range

\* Appending adds one element.
LEMMA RangeAppend ==
  ASSUME NEW S, NEW q \in Seq(S), NEW e \in S
  PROVE  Range(q) \cup {e} \subseteq Range(Append(q, e))
<1>1. Append(q, e)[Len(q) + 1] = e /\ Len(q) + 1 \in DOMAIN Append(q, e)
  OBVIOUS
<1>2. ASSUME NEW i \in DOMAIN q
      PROVE  Append(q, e)[i] = q[i] /\ i \in DOMAIN Append(q, e)
  OBVIOUS
<1> QED
  BY <1>1, <1>2 DEF Range

\* Every step keeps account of every change.
LEMMA AccountedStep ==
  ASSUME IInv, [Next]_vars
  PROVE  EveryChangeAccounted'
<1> Loop \in Actors
  BY DEF Actors
<1> USE DEF IInv
<1>1. ASSUME UNCHANGED <<rev, snap, queue, blind, gap, failed, rolled>>, InHand' = InHand
      PROVE  EveryChangeAccounted'
  BY <1>1 DEF EveryChangeAccounted
<1>2. ASSUME NEW a \in Actors, Install(a) PROVE EveryChangeAccounted'
  <2>1. /\ rev' = rev /\ queue' = queue /\ blind' = blind /\ gap' = gap /\ failed' = failed
        /\ rolled' = rolled \cup (scan[a] + 1 .. snap.rev)
        /\ snap'.rev = scan[a]
    BY <1>2 DEF Install, envVars
  <2>2. scan[a] \in Int /\ snap.rev \in Int /\ rev \in Int
    BY DEF TypeOK
  <2>3. ASSUME NEW r \in InHand PROVE r <= snap'.rev \/ r \in InHand'
    <3>1. CASE a = Loop
      BY <1>2, <2>1, <2>3, <3>1 DEF InHand, Install, ScanCoversEvent, InFlight
    <3>2. CASE a # Loop
      BY <1>2, <2>3, <3>2 DEF InHand, Install, Goto, TypeOK
    <3> QED
      BY <3>1, <3>2
  <2> SUFFICES ASSUME NEW r \in 1..rev'
               PROVE \/ r <= snap'.rev
                     \/ r \in Range(queue') \cup InHand'
                     \/ r \in blind' \cup gap' \cup failed' \cup rolled'
    BY DEF EveryChangeAccounted
  <2>4. CASE r <= snap.rev
    BY <2>1, <2>2, <2>4
  <2>5. CASE r \in InHand
    BY <2>3, <2>5
  <2>6. CASE r \in Range(queue) \cup blind \cup gap \cup failed \cup rolled
    BY <2>1, <2>6
  <2> QED
    BY <2>1, <2>4, <2>5, <2>6 DEF EveryChangeAccounted
<1>3. ASSUME NEW a \in Actors, ScanOk(a) \/ MarkConnected(a) \/ SyncCertificates(a)
      PROVE EveryChangeAccounted'
  <2>1. InHand' = InHand
    BY <1>3 DEF InHand, ScanOk, MarkConnected, SyncCertificates, Goto, TypeOK
  <2> QED
    BY <1>1, <1>3, <2>1 DEF ScanOk, MarkConnected, SyncCertificates, envVars, historyVars
<1>4. CASE ReceiveEvent
  <2>1. /\ InHand = {}
        /\ rev' = rev /\ snap' = snap /\ blind' = blind /\ gap' = gap
        /\ failed' = failed /\ rolled' = rolled /\ queue' = Tail(queue)
    BY <1>4 DEF InHand, ReceiveEvent, sharedVars, historyVars
  <2>2. Range(queue) \subseteq {Head(queue)} \cup Range(queue')
    BY <1>4, <2>1, RangeHeadTail DEF TypeOK, ReceiveEvent
  <2>3. Head(queue) = 0 \/ InHand' = {Head(queue)}
    BY <1>4 DEF ReceiveEvent, Unsupported, InHand, Goto, TypeOK
  <2> QED
    BY <2>1, <2>2, <2>3 DEF EveryChangeAccounted
<1>5. CASE LoopScanFailed
  <2>1. /\ rev' = rev /\ snap' = snap /\ blind' = blind /\ rolled' = rolled
    BY <1>5 DEF LoopScanFailed
  <2>2. Range(queue) \subseteq {0} \cup Range(queue') \cup gap'
    BY <1>5 DEF LoopScanFailed, Unsupported
  <2>3. InHand \subseteq failed'
    BY <1>5 DEF LoopScanFailed, InHand
  <2>4. failed \subseteq failed' /\ gap \subseteq gap'
    BY <1>5 DEF LoopScanFailed
  <2> QED
    BY <2>1, <2>2, <2>3, <2>4 DEF EveryChangeAccounted
<1>6. CASE DockerChange
  <2>1. /\ rev' = rev + 1 /\ snap' = snap /\ failed' = failed /\ rolled' = rolled
        /\ InHand' = InHand
        /\ rev \in Nat
    BY <1>6 DEF DockerChange, InHand, sharedVars, actorVars, TypeOK
  <2>2. Range(queue) \subseteq Range(queue') /\ blind \subseteq blind' /\ gap \subseteq gap'
    <3>1. queue \in Seq(Nat) /\ rev + 1 \in Nat
      BY <2>1 DEF TypeOK
    <3>2. Range(queue) \cup {rev + 1} \subseteq Range(Append(queue, rev + 1))
      BY <3>1, RangeAppend
    <3> QED
      BY <1>6, <3>2 DEF DockerChange
  <2>3. rev + 1 \in Range(queue') \cup blind' \cup gap'
    <3>1. queue \in Seq(Nat) /\ rev + 1 \in Nat
      BY <2>1 DEF TypeOK
    <3>2. rev + 1 \in Range(Append(queue, rev + 1))
      BY <3>1, RangeAppend
    <3> QED
      BY <1>6, <3>2 DEF DockerChange, TypeOK
  <2>4. \A r \in 1..rev' : r \in 1..rev \/ r = rev + 1
    BY <2>1
  <2> QED
    BY <2>1, <2>2, <2>3, <2>4 DEF EveryChangeAccounted
<1>7. CASE DockerNoise
  <2>1. /\ rev' = rev /\ snap' = snap /\ blind' = blind /\ gap' = gap
        /\ failed' = failed /\ rolled' = rolled /\ InHand' = InHand
    BY <1>7 DEF DockerNoise, InHand, sharedVars, actorVars, historyVars
  <2>2. Range(queue) \subseteq Range(queue')
    <3>1. queue \in Seq(0..rev) /\ 0 \in 0..rev
      BY DEF TypeOK
    <3>2. Range(queue) \subseteq Range(Append(queue, 0))
      BY <3>1, RangeAppend
    <3> QED
      BY <1>7, <3>2 DEF DockerNoise, Unsupported
  <2> QED
    BY <2>1, <2>2 DEF EveryChangeAccounted
<1>8. CASE \/ StartPing \/ Connect \/ ConnectFailed \/ CheckConnected \/ LoopScan
           \/ StreamError \/ RetryTimer \/ LoopDone
  <2>1. UNCHANGED <<rev, snap, queue, blind, gap, failed, rolled>>
    BY <1>8 DEF StartPing, StartScan, Connect, ConnectFailed, CheckConnected, LoopScan, StreamError,
                RetryTimer, LoopDone, envVars, sharedVars, historyVars
  <2>2. InHand' = InHand
    BY <1>8 DEF StartPing, Connect, ConnectFailed, CheckConnected, LoopScan, StreamError,
                RetryTimer, LoopDone, InHand, Goto, StartScan, TypeOK, PingFirst
  <2> QED
    BY <1>1, <2>1, <2>2
<1>9. ASSUME NEW c \in Clients, ClientStep(c) PROVE EveryChangeAccounted'
  <2>1. UNCHANGED <<rev, snap, queue, blind, gap, failed, rolled>>
    BY <1>9 DEF ClientStep, RefreshRequest, RefreshFailed, sharedVars, historyVars
  <2>2. InHand' = InHand
    BY <1>9 DEF ClientStep, RefreshRequest, RefreshFailed, StartScan, Goto, InHand, TypeOK
  <2> QED
    BY <1>1, <2>1, <2>2
<1>10. CASE StreamSubscribed \/ StreamEnded \/ Cancel \/ UNCHANGED vars
  <2>1. UNCHANGED <<rev, snap, queue, blind, gap, failed, rolled>>
    BY <1>10 DEF StreamSubscribed, StreamEnded, Cancel, vars, envVars, actorVars, sharedVars,
                 historyVars
  <2>2. InHand' = InHand
    BY <1>10 DEF StreamSubscribed, StreamEnded, Cancel, vars, envVars, actorVars, sharedVars,
                 historyVars, InHand
  <2> QED
    BY <1>1, <2>1, <2>2
<1> QED
  BY <1>2, <1>3, <1>4, <1>5, <1>6, <1>7, <1>8, <1>9, <1>10
  DEF Next, ActorStep, LoopStep, DockerStep, Terminated

\* Every step keeps the order of start-up, and of event and scan.
LEMMA EventScanStep ==
  ASSUME IInv, [Next]_vars
  PROVE  PingFirst' /\ ScanCoversEvent'
<1> Loop \in Actors
  BY DEF Actors
<1> USE DEF IInv
<1>1. ASSUME UNCHANGED <<pc, task, hand, scan>> PROVE PingFirst' /\ ScanCoversEvent'
  BY <1>1 DEF PingFirst, ScanCoversEvent
<1>2. ASSUME NEW a \in Actors, ActorStep(a) PROVE PingFirst' /\ ScanCoversEvent'
  BY <1>2 DEF ActorStep, ScanOk, Install, MarkConnected, SyncCertificates, Goto, TypeOK,
              PingFirst, ScanCoversEvent, InFlight
<1>3. CASE StartPing
  BY <1>3 DEF StartPing, StartScan, Goto, TypeOK, PingFirst, ScanCoversEvent
<1>4. CASE LoopScan
  BY <1>4 DEF LoopScan, StartScan, Goto, TypeOK, PingFirst, ScanCoversEvent, sharedVars
<1>5. CASE ReceiveEvent
  BY <1>5 DEF ReceiveEvent, Goto, TypeOK, PingFirst, ScanCoversEvent, InFlight
<1>6. CASE CheckConnected
  BY <1>6 DEF CheckConnected, Goto, TypeOK, PingFirst, ScanCoversEvent, InFlight
<1>7. CASE Connect \/ ConnectFailed \/ StreamError \/ RetryTimer \/ LoopDone
  <2>1. pc'[Loop] \notin InFlight \cup {"ping"}
    BY <1>7 DEF Connect, ConnectFailed, StreamError, RetryTimer, LoopDone, Goto, TypeOK, InFlight
  <2> QED
    BY <2>1 DEF PingFirst, ScanCoversEvent
<1>8. CASE LoopScanFailed
  <2>1. pc'[Loop] \notin InFlight \cup {"ping"}
    BY <1>8 DEF LoopScanFailed, Goto, TypeOK, InFlight
  <2> QED
    BY <2>1 DEF PingFirst, ScanCoversEvent
<1>9. ASSUME NEW c \in Clients, ClientStep(c) PROVE PingFirst' /\ ScanCoversEvent'
  BY <1>9 DEF ClientStep, RefreshRequest, RefreshFailed, StartScan, Goto, TypeOK, PingFirst,
              ScanCoversEvent
<1>10. CASE DockerStep \/ Cancel \/ UNCHANGED vars
  BY <1>1, <1>10 DEF DockerStep, DockerChange, DockerNoise, StreamSubscribed, StreamEnded,
                     Cancel, vars, actorVars
<1> QED
  BY <1>2, <1>3, <1>4, <1>5, <1>6, <1>7, <1>8, <1>9, <1>10
  DEF Next, LoopStep, Terminated

\* Every step keeps goroutines that nobody has overtaken up to date.
LEMMA OvertakeStep ==
  ASSUME IInv, [Next]_vars
  PROVE  NotOvertakenIsNewest'
<1> Loop \in Actors /\ Clients \subseteq Actors
  BY DEF Actors
<1> USE DEF IInv
<1>1. ASSUME UNCHANGED <<snap, scan, overtaken>>,
             \A b \in Actors : pc'[b] \in InFlight => pc[b] \in InFlight
      PROVE  NotOvertakenIsNewest'
  BY <1>1 DEF NotOvertakenIsNewest
<1>2. ASSUME NEW a \in Actors, StartScan(a), snap' = snap PROVE NotOvertakenIsNewest'
  BY <1>2 DEF StartScan, Goto, TypeOK, NotOvertakenIsNewest
<1>3. ASSUME NEW a \in Actors, Install(a) PROVE NotOvertakenIsNewest'
  <2>1. ASSUME NEW b \in Actors, pc'[b] \in InFlight PROVE overtaken'[b]
    BY <1>3, <2>1 DEF Install, Goto, TypeOK, InFlight
  <2> QED
    BY <2>1 DEF NotOvertakenIsNewest
<1>4. ASSUME NEW a \in Actors, ScanOk(a) \/ MarkConnected(a) \/ SyncCertificates(a)
      PROVE NotOvertakenIsNewest'
  <2>1. UNCHANGED <<snap, scan, overtaken>>
    BY <1>4 DEF ScanOk, MarkConnected, SyncCertificates, historyVars
  <2>2. \A b \in Actors : pc'[b] \in InFlight => pc[b] \in InFlight
    BY <1>4 DEF ScanOk, MarkConnected, SyncCertificates, Goto, TypeOK, InFlight
  <2> QED
    BY <1>1, <2>1, <2>2
<1>5. CASE StartPing \/ LoopScan
  BY <1>2, <1>5 DEF StartPing, LoopScan, sharedVars
<1>6. CASE \/ Connect \/ ConnectFailed \/ CheckConnected \/ ReceiveEvent
           \/ StreamError \/ RetryTimer \/ LoopDone
  <2>1. UNCHANGED <<snap, scan, overtaken>>
    BY <1>6 DEF Connect, ConnectFailed, CheckConnected, ReceiveEvent, StreamError, RetryTimer,
                LoopDone, sharedVars, historyVars
  <2>2. \A b \in Actors : pc'[b] \in InFlight => pc[b] \in InFlight
    BY <1>6 DEF Connect, ConnectFailed, CheckConnected, ReceiveEvent, StreamError, RetryTimer,
                LoopDone, Goto, TypeOK, InFlight
  <2> QED
    BY <1>1, <2>1, <2>2
<1>7. CASE LoopScanFailed
  <2>1. UNCHANGED <<snap, scan, overtaken>>
    BY <1>7 DEF LoopScanFailed
  <2>2. \A b \in Actors : pc'[b] \in InFlight => pc[b] \in InFlight
    BY <1>7 DEF LoopScanFailed, Goto, TypeOK, InFlight
  <2> QED
    BY <1>1, <2>1, <2>2
<1>8. ASSUME NEW c \in Clients, RefreshRequest(c) PROVE NotOvertakenIsNewest'
  BY <1>2, <1>8 DEF RefreshRequest, sharedVars
<1>9. ASSUME NEW c \in Clients, RefreshFailed(c) PROVE NotOvertakenIsNewest'
  BY <1>1, <1>9 DEF RefreshFailed, Goto, TypeOK, InFlight, historyVars
<1>10. CASE DockerStep \/ Cancel \/ UNCHANGED vars
  BY <1>1, <1>10 DEF DockerStep, DockerChange, DockerNoise, StreamSubscribed, StreamEnded,
                     Cancel, vars, actorVars, sharedVars, historyVars
<1> QED
  BY <1>3, <1>4, <1>5, <1>6, <1>7, <1>8, <1>9, <1>10
  DEF Next, ActorStep, ClientStep, LoopStep, Terminated

\* Every step keeps the versions distinct.
LEMMA VersionStep ==
  ASSUME IInv, [Next]_vars
  PROVE  VersionsUnique'
<1> Loop \in Actors /\ Clients \subseteq Actors
  BY DEF Actors
<1> USE DEF IInv
<1>1. ASSUME UNCHANGED <<snap, built>>, Installing' \subseteq Installing
      PROVE  VersionsUnique'
  BY <1>1 DEF VersionsUnique
<1>2. ASSUME NEW a \in Actors, ScanOk(a) PROVE VersionsUnique'
  <2>1. Installing' \subseteq Installing \cup {a}
    BY <1>2 DEF ScanOk, Goto, TypeOK, Installing
  <2>2. a \notin Installing /\ Installing \subseteq Actors
    BY <1>2 DEF ScanOk, Installing
  <2>3. \A b \in Actors : built[b] # seq + 1 /\ snap.seq # seq + 1
    BY DEF TypeOK
  <2>4. /\ built'[a] = seq + 1 /\ snap' = snap
        /\ \A b \in Actors \ {a} : built'[b] = built[b]
    BY <1>2 DEF ScanOk, TypeOK
  <2> QED
    BY <2>1, <2>2, <2>3, <2>4 DEF VersionsUnique
<1>3. ASSUME NEW a \in Actors, Install(a) PROVE VersionsUnique'
  <2>1. a \in Installing /\ Installing' = Installing \ {a}
    BY <1>3 DEF Install, Goto, TypeOK, Installing
  <2>2. built' = built /\ snap'.seq = built[a]
    BY <1>3 DEF Install
  <2> QED
    BY <2>1, <2>2 DEF VersionsUnique
<1>4. ASSUME NEW a \in Actors, MarkConnected(a) \/ SyncCertificates(a) PROVE VersionsUnique'
  <2>1. Installing' \subseteq Installing /\ UNCHANGED <<snap, built>>
    BY <1>4 DEF MarkConnected, SyncCertificates, Goto, TypeOK, Installing
  <2> QED
    BY <1>1, <2>1
<1>5. CASE LoopStep
  <2>1. UNCHANGED <<snap, built>>
    BY <1>5 DEF LoopStep, StartPing, Connect, ConnectFailed, CheckConnected, ReceiveEvent,
       LoopScan, LoopScanFailed, StreamError, RetryTimer, LoopDone, sharedVars
  <2>2. Installing' \subseteq Installing
    <3>1. pc'[Loop] \notin {"handle", "reconnect"} \/ pc'[Loop] = pc[Loop]
      BY <1>5 DEF LoopStep, StartPing, StartScan, Connect, ConnectFailed, CheckConnected,
         ReceiveEvent, LoopScan, LoopScanFailed, StreamError, RetryTimer, LoopDone, Goto, TypeOK
    <3>2. \A b \in Actors \ {Loop} : pc'[b] = pc[b]
      BY <1>5 DEF LoopStep, StartPing, StartScan, Connect, ConnectFailed, CheckConnected,
         ReceiveEvent, LoopScan, LoopScanFailed, StreamError, RetryTimer, LoopDone, Goto, TypeOK
    <3> QED
      BY <3>1, <3>2 DEF Installing
  <2> QED
    BY <1>1, <2>1, <2>2
<1>6. ASSUME NEW c \in Clients, ClientStep(c) PROVE VersionsUnique'
  <2>1. Installing' \subseteq Installing /\ UNCHANGED <<snap, built>>
    BY <1>6 DEF ClientStep, RefreshRequest, RefreshFailed, StartScan, Goto, TypeOK, Installing,
                sharedVars
  <2> QED
    BY <1>1, <2>1
<1>7. CASE DockerStep \/ Cancel \/ UNCHANGED vars
  <2>1. UNCHANGED <<snap, built, pc>>
    BY <1>7 DEF DockerStep, DockerChange, DockerNoise, StreamSubscribed, StreamEnded,
                Cancel, vars, actorVars, sharedVars
  <2> QED
    BY <1>1, <2>1 DEF Installing
<1> QED
  BY <1>2, <1>3, <1>4, <1>5, <1>6, <1>7 DEF Next, ActorStep, Terminated

\* The inductive invariant holds in every reachable state.
THEOREM Invariance == Spec => []IInv
<1>1. Init => PingFirst /\ ScanCoversEvent /\ NotOvertakenIsNewest /\ VersionsUnique
  <2> SUFFICES ASSUME Init
               PROVE  PingFirst /\ ScanCoversEvent /\ NotOvertakenIsNewest /\ VersionsUnique
    OBVIOUS
  <2>1. task = "startup" /\ \A a \in Actors : pc[a] \notin InFlight
    BY DEF Init, InFlight
  <2>2. Installing = {}
    BY <2>1 DEF Installing, InFlight
  <2> QED
    BY <2>1, <2>2 DEF PingFirst, ScanCoversEvent, NotOvertakenIsNewest, VersionsUnique
<1>2. Init => EveryChangeAccounted
  BY DEF Init, EveryChangeAccounted
<1>3. IInv /\ [Next]_vars /\ TypeOK' => IInv'
  BY AccountedStep, EventScanStep, OvertakeStep, VersionStep DEF IInv
<1> QED
  BY <1>1, <1>2, <1>3, TypeCorrect, PTL DEF Spec, IInv

\* Whatever refreshes run next to the watch loop, a container change that the
\* snapshot lacks is queued, being handled, or in one of the four known holes.
THEOREM ChangesAccounted == Spec => []EveryChangeAccounted
  BY Invariance, PTL DEF IInv

\* No two snapshots that are served or about to be carry the same version.
THEOREM VersionsDistinct == Spec => []VersionsUnique
  BY Invariance, PTL DEF IInv

\* The snapshot goes back to an older state of Docker only by a rebuild that
\* another one overtook.
THEOREM RollBackIsOvertaken == Spec => OnlyOvertakenScansRollBack
<1>1. ASSUME IInv, [Next]_vars, snap'.rev < snap.rev
      PROVE  \E a \in Actors : /\ pc[a] \in {"handle", "reconnect"}
                               /\ pc'[a] # pc[a]
                               /\ overtaken[a]
  <2>1. snap' # snap
    BY <1>1 DEF IInv, TypeOK
  <2>2. PICK a \in Actors : Install(a)
    BY <1>1, <2>1 DEF Next, ActorStep, ScanOk, MarkConnected, SyncCertificates,
       LoopStep, StartPing, Connect, ConnectFailed, CheckConnected, ReceiveEvent,
       LoopScan, LoopScanFailed, StreamError, RetryTimer, LoopDone,
       ClientStep, RefreshRequest, RefreshFailed,
       DockerStep, DockerChange, DockerNoise, StreamSubscribed, StreamEnded,
       Cancel, Terminated, vars, sharedVars
  <2>3. scan[a] < snap.rev
    BY <1>1, <2>2 DEF Install
  <2>4. overtaken[a]
    BY <1>1, <2>2, <2>3 DEF Install, IInv, NotOvertakenIsNewest, InFlight, TypeOK
  <2> QED
    BY <1>1, <2>2, <2>4 DEF Install, Goto, IInv, TypeOK
<1> QED
  BY <1>1, Invariance, PTL DEF Spec, OnlyOvertakenScansRollBack

\* What a settled daemon's snapshot lacks was in an earlier one.
StaleIsRolledBack == Settled => \A r \in snap.rev + 1 .. rev : r \in rolled

\* With any number of concurrent refreshes, a daemon that has handled every event and
\* lost none can serve old containers only because a refresh rolled its snapshot back.
THEOREM SettledUnlessRolledBack == Spec => []StaleIsRolledBack
<1>1. IInv => StaleIsRolledBack
  <2> SUFFICES ASSUME IInv, Settled, NEW r \in snap.rev + 1 .. rev PROVE r \in rolled
    BY DEF StaleIsRolledBack
  <2>1. Range(queue) = {} /\ InHand = {}
    BY DEF Settled, InHand, Range
  <2>2. r \in 1..rev /\ ~(r <= snap.rev)
    BY DEF IInv, TypeOK
  <2>3. r \in blind \cup gap \cup failed \cup rolled
    BY <2>1, <2>2 DEF IInv, EveryChangeAccounted
  <2> QED
    BY <2>2, <2>3 DEF Settled
<1> QED
  BY <1>1, Invariance, PTL

(***************************************************************************)
(* The watch loop alone                                                    *)
(***************************************************************************)
\* Where the loop can be for each state of its stream.
StreamPlaces ==
  /\ stream = "none" => /\ task = "startup"
                        /\ pc[Loop] \in {"ping", "scan", "reconnect", "mark", "connect",
                                        "wait", "done"}
  /\ (task = "startup" /\ pc[Loop] \in {"ping", "scan", "reconnect", "mark"}) => stream = "none"
  /\ pc[Loop] = "begin" => task # "startup"
  /\ stream = "closed" => pc[Loop] \in {"wait", "connect", "done"}
  /\ pc[Loop] \in {"wait", "connect"} => stream \in {"none", "closed"}

\* Without a stream the watcher says so.
ClosedIsDisconnected == stream = "closed" => (~connected \/ pc[Loop] = "done")

\* A scan of the loop covers all losses before it, but for the stream breaking
\* under it; nothing overtakes it.
LoopScanCoversLoss ==
  pc[Loop] \in InFlight \cup {"mark"} =>
    /\ \A r \in failed : r <= scan[Loop]
    /\ stream # "ended" => \A r \in gap : r <= scan[Loop]

MarkIsInstalled == pc[Loop] = "mark" => snap.rev = scan[Loop]

AloneInv ==
  /\ rolled = {}
  /\ ~overtaken[Loop]
  /\ StreamPlaces
  /\ ClosedIsDisconnected
  /\ LoopScanCoversLoss
  /\ MarkIsInstalled
  /\ LossIsSurfaced

\* Every step of a loop that runs alone keeps AloneInv.
LEMMA AloneStep ==
  ASSUME Clients = {}, IInv, AloneInv, [Next]_vars
  PROVE  AloneInv'
<1> Loop \in Actors /\ Actors = {Loop}
  BY DEF Actors
<1> USE DEF IInv, AloneInv, StreamPlaces, ClosedIsDisconnected, LoopScanCoversLoss,
            MarkIsInstalled, LossIsSurfaced, TypeOK, PingFirst, InFlight
<1>1. CASE StartPing
  <2>1. /\ pc[Loop] = "ping" /\ pc'[Loop] = "scan"
        /\ scan'[Loop] = rev /\ ~overtaken'[Loop]
        /\ connected' = connected \/ ~connected'
        /\ UNCHANGED <<task, rev, stream, snap, gap, failed, rolled>>
    BY <1>1 DEF StartPing, StartScan, Goto, recordWatcherIssue
  <2> QED
    BY <2>1
<1>2. CASE Connect
  BY <1>2 DEF Connect, Goto, sharedVars, historyVars
<1>3. CASE ConnectFailed
  BY <1>3 DEF ConnectFailed, recordWatcherIssue, Goto, historyVars
<1>4. CASE CheckConnected
  BY <1>4 DEF CheckConnected, Goto, envVars, sharedVars, historyVars
<1>5. CASE ReceiveEvent
  BY <1>5 DEF ReceiveEvent, Goto, sharedVars, historyVars
<1>6. CASE LoopScan
  BY <1>6 DEF LoopScan, StartScan, Goto, envVars, sharedVars
<1>7. CASE LoopScanFailed
  <2>1. /\ pc[Loop] = "scan" /\ ~connected'
        /\ UNCHANGED <<rev, snap, rolled, overtaken>>
    BY <1>7 DEF LoopScanFailed, recordWatcherIssue
  <2>2. CASE task = "resync"
    <3>1. pc'[Loop] = "wait" /\ stream' = "closed"
      BY <1>7, <2>2 DEF LoopScanFailed, Goto
    <3> QED
      BY <2>1, <3>1
  <2>3. CASE task # "resync"
    <3>1. pc'[Loop] = IF task = "startup" THEN "connect" ELSE "select"
      BY <1>7, <2>3 DEF LoopScanFailed, Goto
    <3>2. stream' = stream
      BY <1>7, <2>3 DEF LoopScanFailed
    <3>3. task' = task /\ (task = "startup" => stream = "none")
      BY <1>7, <2>1 DEF LoopScanFailed
    <3>4. StreamPlaces'
      BY <2>1, <3>1, <3>2, <3>3
    <3> QED
      BY <2>1, <3>1, <3>2, <3>4
  <2> QED
    BY <2>2, <2>3
<1>8. CASE StreamError
  BY <1>8 DEF StreamError, recordWatcherIssue, Goto, historyVars
<1>9. CASE RetryTimer
  BY <1>9 DEF RetryTimer, Goto, envVars, sharedVars, historyVars
<1>10. CASE LoopDone
  BY <1>10 DEF LoopDone, Goto, envVars, sharedVars, historyVars
<1>11. CASE DockerChange
  BY <1>11 DEF DockerChange, actorVars, sharedVars
<1>12. CASE DockerNoise
  BY <1>12 DEF DockerNoise, actorVars, sharedVars, historyVars
<1>13. CASE StreamSubscribed
  BY <1>13 DEF StreamSubscribed, actorVars, sharedVars, historyVars
<1>14. CASE StreamEnded
  BY <1>14 DEF StreamEnded, actorVars, sharedVars, historyVars
<1>15. CASE Cancel \/ UNCHANGED vars
  <2>1. UNCHANGED <<pc, task, scan, rev, stream, snap, connected, gap, failed, rolled, overtaken>>
    BY <1>15 DEF Cancel, vars, envVars, actorVars, sharedVars, historyVars
  <2> QED
    BY <2>1
<1>16. CASE ScanOk(Loop)
  <2>1. /\ pc[Loop] = "scan" /\ pc'[Loop] \in {"handle", "reconnect"}
        /\ task = "startup" => pc'[Loop] = "reconnect"
        /\ UNCHANGED <<task, scan, rev, stream, snap, connected, gap, failed, rolled, overtaken>>
    BY <1>16 DEF ScanOk, Goto, envVars, historyVars
  <2> QED
    BY <2>1
<1>17. CASE Install(Loop)
  <2>1. /\ pc[Loop] \in {"handle", "reconnect"}
        /\ pc'[Loop] = IF pc[Loop] = "handle" THEN "certs" ELSE "mark"
        /\ snap'.rev = scan[Loop] /\ rolled' = rolled \cup (scan[Loop] + 1 .. snap.rev)
        /\ ~overtaken'[Loop]
        /\ UNCHANGED <<task, scan, rev, stream, connected, gap, failed>>
    BY <1>17 DEF Install, Goto, envVars
  <2>2. snap.rev <= scan[Loop] /\ snap.rev \in Int /\ scan[Loop] \in Int
    BY <2>1 DEF NotOvertakenIsNewest
  <2>3. rolled' = {}
    BY <2>1, <2>2
  <2>4. LossIsSurfaced'
    BY <2>1, <2>2
  <2> QED
    BY <2>1, <2>3, <2>4
<1>18. CASE MarkConnected(Loop)
  <2>1. /\ pc[Loop] = "mark"
        /\ pc'[Loop] = IF task = "startup" THEN "connect" ELSE "certs"
        /\ UNCHANGED <<task, scan, rev, stream, snap, gap, failed, rolled, overtaken>>
    BY <1>18 DEF MarkConnected, Goto, envVars, historyVars
  <2>2. LossIsSurfaced'
    BY <2>1
  <2>3. StreamPlaces'
    BY <2>1
  <2> QED
    BY <2>1, <2>2, <2>3
<1>19. CASE SyncCertificates(Loop)
  BY <1>19 DEF SyncCertificates, Goto, historyVars
<1> QED
  BY <1>1, <1>2, <1>3, <1>4, <1>5, <1>6, <1>7, <1>8, <1>9, <1>10, <1>11, <1>12, <1>13, <1>14, <1>15, <1>16, <1>17, <1>18, <1>19
  DEF Next, ActorStep, LoopStep, DockerStep, Terminated

\* AloneInv holds in every reachable state of a loop that runs alone.
THEOREM AloneInvariance == ASSUME Clients = {} PROVE Spec => []AloneInv
<1>1. Init => AloneInv
  <2> SUFFICES ASSUME Init PROVE AloneInv
    OBVIOUS
  <2>1. /\ pc[Loop] = "ping" /\ ~overtaken[Loop] /\ stream = "none" /\ task = "startup"
        /\ rolled = {} /\ gap = {} /\ failed = {}
    BY DEF Init, Actors
  <2> QED
    BY <2>1 DEF AloneInv, StreamPlaces, ClosedIsDisconnected, LoopScanCoversLoss,
                MarkIsInstalled, LossIsSurfaced, InFlight
<1>2. IInv /\ AloneInv /\ [Next]_vars => AloneInv'
  BY AloneStep
<1> QED
  BY <1>1, <1>2, Invariance, PTL DEF Spec

\* Without concurrent refreshes, a lost change that the snapshot lacks always
\* shows as a disconnected watcher or as an error the loop is about to read.
THEOREM LossSurfaced == ASSUME Clients = {} PROVE Spec => []LossIsSurfaced
  BY AloneInvariance, PTL DEF AloneInv

\* Without concurrent refreshes, a stream is taken up without a resync only if
\* nothing was missed while there was none.
THEOREM ReconnectIsResync == ASSUME Clients = {} PROVE Spec => ReconnectResyncs
<1>1. ASSUME IInv, AloneInv, [Next]_vars,
             pc[Loop] = "check", pc'[Loop] = "select", stream # "ended"
      PROVE  \A r \in gap : r <= snap.rev
  <2>1. Loop \in Actors /\ pc \in [Actors -> Labels]
    BY <1>1 DEF Actors, IInv, TypeOK
  <2>2. CASE connected
    BY <1>1, <2>2 DEF AloneInv, LossIsSurfaced
  <2>3. CASE ~connected
    <3>1. CASE CheckConnected
      BY <1>1, <2>1, <2>3, <3>1 DEF CheckConnected, Goto
    <3>2. ~CheckConnected => pc' = pc
      BY <1>1, <2>1 DEF Next, ActorStep, ScanOk, Install, MarkConnected, SyncCertificates,
         LoopStep, StartPing, Connect, ConnectFailed, ReceiveEvent,
         LoopScan, LoopScanFailed, StreamError, RetryTimer, LoopDone,
         DockerStep, DockerChange, DockerNoise, StreamSubscribed, StreamEnded,
         Cancel, Terminated, vars, actorVars, Actors
    <3> QED
      BY <1>1, <3>1, <3>2
  <2> QED
    BY <2>2, <2>3
<1> QED
  BY <1>1, Invariance, AloneInvariance, PTL DEF Spec, ReconnectResyncs

\* Without concurrent refreshes, a daemon that has handled every event and lost
\* none serves the current containers.
THEOREM SettledFresh == ASSUME Clients = {} PROVE Spec => []SettledIsFresh
<1>1. IInv /\ AloneInv /\ StaleIsRolledBack => SettledIsFresh
  BY DEF SettledIsFresh, StaleIsRolledBack, AloneInv, IInv, TypeOK
<1> QED
  BY <1>1, Invariance, AloneInvariance, SettledUnlessRolledBack, PTL
==============================================================================
