---------------------------- MODULE ServingProofs ----------------------------
(***************************************************************************)
(* Proofs about Serving, for every set of hosts, upstreams, requests and   *)
(* pages and every bound.                                                  *)
(***************************************************************************)
EXTENDS Serving, TLAPS

(***************************************************************************)
(* The inductive invariant                                                 *)
(***************************************************************************)
\* The watch loop dates a snapshot with its version, and the certificates cover
\* what the inventory issues for from ReplaceCertificates on, until the next
\* Install, unless a refresh failed before; hosts without a root are never covered.
DaemonInv ==
  /\ lastSync = snapshot.version
  /\ sync = "commit" => mixed \/ Certifiable(snapshot) \subseteq covered
  /\ sync = "idle" /\ ready => mixed \/ Certifiable(snapshot) \subseteq covered
  /\ covered \cap Rootless = {}

\* The history of a request in flight ends with the route and the flag of now,
\* and a decision HandleHTTP has taken rests on something in the history.
RequestInv(r) ==
  /\ InFlight(r) => paused \in flagsSeen[r]
  /\ InFlight(r) /\ req[r].host \in Managed => snapshot.up[req[r].host] \in routesSeen[r]
  /\ req[r].at \in {"check", "forward", "forwarded"} => req[r].route \in routesSeen[r]
  /\ req[r].at = "noroute" => NoRoute \in routesSeen[r]
  /\ req[r].at \in {"forward", "forwarded", "noroute"} => FALSE \in flagsSeen[r]
  /\ req[r].at = "paused" => TRUE \in flagsSeen[r]

\* A page whose call has begun read a snapshot no newer than the one of now, and
\* if it is still this one, the hosts of this one.
CallInv(p) ==
  /\ page[p].at \in {"health", "sync"} =>
       /\ page[p].got.version <= snapshot.version
       /\ page[p].call = "routes" => page[p].status.lastSync <= page[p].got.version
  /\ page[p].at = "health" /\ page[p].got.version = snapshot.version =>
       page[p].got.hosts = Routed(snapshot)
  /\ page[p].at = "sync" /\ page[p].got.ready =>
       \/ page[p].got.behind \/ page[p].got.mixed
       \/ page[p].got.hosts \ Rootless \subseteq page[p].got.covered

\* The answers a page has put together so far.
AnswerInv(p) ==
  /\ page[p].call = "status" => page[p].routes = NoReading
  /\ page[p].status.version <= page[p].status.lastSync
  /\ page[p].status.lastSync <= snapshot.version
  /\ page[p].routes # NoReading => page[p].status.lastSync <= page[p].routes.version
  /\ page[p].routes.ready =>
       \/ page[p].routes.behind \/ page[p].routes.mixed
       \/ page[p].routes.hosts \ Rootless \subseteq page[p].routes.covered

ServingInv ==
  /\ TypeOK
  /\ DaemonInv
  /\ \A r \in Requests : RequestInv(r)
  /\ \A p \in Pages : CallInv(p) /\ AnswerInv(p)

(***************************************************************************)
(* Type correctness                                                        *)
(***************************************************************************)
USE ServingAssumption

LEMMA ReadingTypes == NoReading \in Readings
  BY DEF NoReading, Readings

LEMMA InitTypes == Init => TypeOK
<1> SUFFICES ASSUME Init PROVE TypeOK
  OBVIOUS
<1>1. req \in [Requests -> Exchanges]
  BY DEF Init, Exchanges, Over, Routes
<1>2. page \in [Pages -> PageLoads]
  BY ReadingTypes DEF Init, PageLoads
<1>3. snapshot \in [version : 1..MaxSyncs + 1, up : [Managed -> Routes]]
  BY DEF Init, Routes
<1>4. covered \in SUBSET Managed /\ ready \in BOOLEAN /\ failed \in BOOLEAN /\ mixed \in BOOLEAN
  BY <1>3 DEF Init, Routed, Certifiable
<1>5. \A r \in Requests : req[r].at \notin {"forward", "forwarded"}
  BY DEF Init
<1>6. routesSeen \in [Requests -> SUBSET Routes] /\ flagsSeen \in [Requests -> SUBSET BOOLEAN]
  BY DEF Init
<1>7. /\ lastSync \in 1..MaxSyncs + 1
      /\ clients \in 0..MaxClients /\ flips \in 0..MaxFlips /\ faults \in 0..MaxFaults
  BY DEF Init
<1>8. paused \in BOOLEAN /\ httpsBound \in BOOLEAN /\ sync \in {"idle", "refresh", "commit"}
  BY DEF Init
<1> QED
  BY <1>1, <1>2, <1>3, <1>4, <1>5, <1>6, <1>7, <1>8 DEF TypeOK

\* The watch loop and the admin API's pause and resume keep the types.
LEMMA DaemonStepTypes ==
  ASSUME TypeOK,
         \/ Install \/ ReplaceCertificates \/ CommitReady \/ RefreshFails
         \/ \E b \in BOOLEAN : SetRoutingPaused(b)
  PROVE  TypeOK'
<1>1. CASE Install
  <2>1. PICK up \in Routings :
          /\ snapshot' = [version |-> snapshot.version + 1, up |-> up]
          /\ routesSeen' = [r \in Requests |->
               IF InFlight(r) /\ req[r].host \in Managed
                 THEN routesSeen[r] \cup {up[req[r].host]} ELSE routesSeen[r]]
    BY <1>1 DEF Install
  <2>2. snapshot.version \in 1..MaxSyncs + 1 /\ snapshot.version <= MaxSyncs
    BY <1>1 DEF Install, TypeOK
  <2>3. /\ snapshot' \in [version : 1..MaxSyncs + 1, up : [Managed -> Routes]]
        /\ lastSync' \in 1..MaxSyncs + 1
    BY <1>1, <2>1, <2>2 DEF Install, Routes
  <2>4. routesSeen' \in [Requests -> SUBSET Routes]
    BY <2>1 DEF TypeOK, Routes
  <2> QED
    BY <1>1, <2>3, <2>4 DEF Install, TypeOK, clientVars
<1>2. CASE ReplaceCertificates
  BY <1>2 DEF ReplaceCertificates, TypeOK, clientVars, historyVars
<1>3. CASE CommitReady
  <2>1. ready' \in BOOLEAN
    BY <1>3, Zenon DEF CommitReady
  <2> QED
    BY <1>3, <2>1 DEF CommitReady, TypeOK, clientVars
<1>4. CASE RefreshFails
  <2>1. faults' \in 0..MaxFaults
    BY <1>4 DEF RefreshFails, TypeOK, Fault
  <2> QED
    BY <1>4, <2>1 DEF RefreshFails, TypeOK, clientVars
<1>5. ASSUME NEW b \in BOOLEAN, SetRoutingPaused(b) PROVE TypeOK'
  <2>1. flagsSeen' \in [Requests -> SUBSET BOOLEAN]
    BY <1>5 DEF SetRoutingPaused, TypeOK
  <2>2. flips' \in 0..MaxFlips
    BY <1>5 DEF SetRoutingPaused, TypeOK
  <2> QED
    BY <1>5, <2>1, <2>2 DEF SetRoutingPaused, TypeOK, clientVars
<1> QED
  BY <1>1, <1>2, <1>3, <1>4, <1>5

\* The steps of a request.
RequestStep(r) ==
  \/ \E h \in Hosts, tls \in BOOLEAN : Begin(r, h, tls)
  \/ BuildResponse(r) \/ GetCertificate(r) \/ ConnectionRefused(r)
  \/ LookupHostname(r) \/ CheckPaused(r) \/ Forward(r)

\* A request's step leaves the daemon and the pages alone, and of the requests
\* changes itself only.
LEMMA RequestStepFrame ==
  ASSUME TypeOK, NEW r \in Requests, RequestStep(r)
  PROVE  /\ UNCHANGED <<daemonVars, page, flips, faults>>
         /\ req' \in [Requests -> Exchanges]
         /\ \A s \in Requests \ {r} : /\ req'[s] = req[s]
                                      /\ routesSeen'[s] = routesSeen[s]
                                      /\ flagsSeen'[s] = flagsSeen[s]
<1>1. ASSUME NEW h \in Hosts, NEW tls \in BOOLEAN, Begin(r, h, tls)
      PROVE  req' \in [Requests -> Exchanges] /\ \A s \in Requests \ {r} : req'[s] = req[s]
  <2>1. PICK l \in {"query", "hello", "lookup"} :
          req' = [req EXCEPT ![r] = [at |-> l, tls |-> tls, host |-> h, route |-> NoRoute]]
    BY <1>1 DEF Begin
  <2>2. [at |-> l, tls |-> tls, host |-> h, route |-> NoRoute] \in Exchanges
    BY DEF Exchanges, Routes
  <2> QED
    BY <2>1, <2>2 DEF TypeOK
<1>2. CASE LookupHostname(r)
  <2>1. ASSUME IsManagedHost(req[r].host)
        PROVE  req' \in [Requests -> Exchanges] /\ \A s \in Requests \ {r} : req'[s] = req[s]
    <3>1. snapshot.up[req[r].host] \in Routes
      BY <2>1 DEF TypeOK, IsManagedHost
    <3>2. [req[r] EXCEPT !.at = "check", !.route = snapshot.up[req[r].host]] \in Exchanges
      <4>1. req[r] \in Exchanges
        BY DEF TypeOK
      <4> QED
        BY <3>1, <4>1 DEF Exchanges
    <3>3. req' = [req EXCEPT ![r] =
                    [req[r] EXCEPT !.at = "check", !.route = snapshot.up[req[r].host]]]
      BY <1>2, <2>1 DEF LookupHostname, TypeOK, Exchanges
    <3> QED
      BY <3>2, <3>3 DEF TypeOK
  <2>2. ASSUME ~IsManagedHost(req[r].host)
        PROVE  req' \in [Requests -> Exchanges] /\ \A s \in Requests \ {r} : req'[s] = req[s]
    BY <1>2, <2>2 DEF LookupHostname, Goto, TypeOK, Exchanges, Over
  <2> QED
    BY <1>2, <2>1, <2>2 DEF LookupHostname, requestFrame, daemonVars, historyVars
<1>3. ASSUME NEW l \in Over \cup {"hello", "lookup", "forward"}, Goto(r, l)
      PROVE  req' \in [Requests -> Exchanges] /\ \A s \in Requests \ {r} : req'[s] = req[s]
  BY SMTT(30), <1>3 DEF Goto, TypeOK, Exchanges
<1>4. CASE BuildResponse(r)
  BY <1>3, <1>4 DEF BuildResponse, requestFrame, daemonVars, historyVars, Over
<1>5. CASE GetCertificate(r)
  BY <1>3, <1>5 DEF GetCertificate, requestFrame, daemonVars, historyVars, Over
<1>6. CASE ConnectionRefused(r)
  BY <1>3, <1>6 DEF ConnectionRefused, requestFrame, daemonVars, historyVars, Over
<1>7. CASE CheckPaused(r)
  BY <1>3, <1>7 DEF CheckPaused, requestFrame, daemonVars, historyVars, Over
<1>8. CASE Forward(r)
  BY <1>3, <1>8 DEF Forward, requestFrame, daemonVars, historyVars, Over
<1>9. ASSUME NEW h \in Hosts, NEW tls \in BOOLEAN, Begin(r, h, tls)
      PROVE  /\ UNCHANGED <<daemonVars, page, flips, faults>>
             /\ \A s \in Requests \ {r} : /\ routesSeen'[s] = routesSeen[s]
                                          /\ flagsSeen'[s] = flagsSeen[s]
  BY <1>9 DEF Begin, daemonVars, TypeOK
<1> QED
  BY <1>1, <1>2, <1>4, <1>5, <1>6, <1>7, <1>8, <1>9 DEF RequestStep

LEMMA RequestStepTypes ==
  ASSUME TypeOK, NEW r \in Requests, RequestStep(r)
  PROVE  TypeOK'
<1>1. /\ UNCHANGED <<daemonVars, page, flips, faults>>
      /\ req' \in [Requests -> Exchanges]
      /\ \A s \in Requests \ {r} : req'[s] = req[s]
  BY RequestStepFrame
<1>2. clients' \in 0..MaxClients
  BY DEF RequestStep, Begin, Served, BuildResponse, GetCertificate, ConnectionRefused,
         LookupHostname, CheckPaused, Forward, requestFrame, TypeOK
<1>3. routesSeen' \in [Requests -> SUBSET Routes] /\ flagsSeen' \in [Requests -> SUBSET BOOLEAN]
  <2>1. ASSUME NEW h \in Hosts, NEW tls \in BOOLEAN, Begin(r, h, tls)
        PROVE  /\ routesSeen' \in [Requests -> SUBSET Routes]
               /\ flagsSeen' \in [Requests -> SUBSET BOOLEAN]
    <3>1. h \in Managed => snapshot.up[h] \in Routes
      BY DEF TypeOK
    <3>2. (IF h \in Managed THEN {snapshot.up[h]} ELSE {}) \in SUBSET Routes
      BY <3>1
    <3>3. {paused} \in SUBSET BOOLEAN
      BY DEF TypeOK
    <3> QED
      BY <2>1, <3>2, <3>3 DEF Begin, TypeOK
  <2>2. ASSUME UNCHANGED requestFrame
        PROVE  /\ routesSeen' \in [Requests -> SUBSET Routes]
               /\ flagsSeen' \in [Requests -> SUBSET BOOLEAN]
    BY <2>2 DEF requestFrame, historyVars, TypeOK
  <2> QED
    BY <2>1, <2>2 DEF RequestStep, BuildResponse, GetCertificate, ConnectionRefused,
                      LookupHostname, CheckPaused, Forward
<1>4. req'[r].at \in {"forward", "forwarded"} => req'[r].route \in Upstreams
  <2>1. req[r] \in Exchanges /\ req \in [Requests -> Exchanges]
    BY DEF TypeOK
  <2>2. CASE \E h \in Hosts, tls \in BOOLEAN : Begin(r, h, tls)
    BY <2>1, <2>2 DEF Begin
  <2>3. CASE BuildResponse(r) \/ GetCertificate(r) \/ ConnectionRefused(r)
    <3>1. \E l \in {"unresolved", "hello", "lookup", "refused"} : Goto(r, l)
      BY <2>3 DEF BuildResponse, GetCertificate, ConnectionRefused
    <3> QED
      BY <2>1, <3>1 DEF Goto
  <2>4. CASE LookupHostname(r)
    BY <2>1, <2>4 DEF LookupHostname, Goto, Exchanges
  <2>5. CASE CheckPaused(r)
    BY <2>1, <2>5 DEF CheckPaused, Goto, Exchanges, Routes
  <2>6. CASE Forward(r)
    BY <2>1, <2>6 DEF Forward, Goto, Exchanges, TypeOK
  <2> QED
    BY <2>2, <2>3, <2>4, <2>5, <2>6 DEF RequestStep
<1> QED
  BY <1>1, <1>2, <1>3, <1>4 DEF TypeOK, daemonVars

\* The steps of a page.
PageStep(p) ==
  LoadPage(p) \/ ReadSnapshot(p) \/ ReadHealth(p) \/ ReadLastSync(p) \/ CallFails(p)

\* A page's step changes nothing but itself and the bounds.
LEMMA PageStepFrame ==
  ASSUME TypeOK, NEW p \in Pages, PageStep(p)
  PROVE  /\ UNCHANGED <<daemonVars, req, flips, historyVars>>
         /\ page' \in [Pages -> PageLoads]
         /\ \A q \in Pages \ {p} : page'[q] = page[q]
<1>1. page[p] \in PageLoads /\ page \in [Pages -> PageLoads]
  BY DEF TypeOK
<1>2. UNCHANGED <<daemonVars, req, flips, historyVars>>
  BY DEF PageStep, LoadPage, ReadSnapshot, ReadHealth, ReadLastSync, CallFails, pageFrame
<1>3. CASE LoadPage(p)
  BY <1>1, <1>2, <1>3 DEF LoadPage, PageLoads
<1>4. CASE ReadSnapshot(p)
  <2> DEFINE read == [NoReading EXCEPT !.version = snapshot.version, !.hosts = Routed(snapshot)]
  <2>1. snapshot.version \in 0..MaxSyncs + 1 /\ Routed(snapshot) \in SUBSET Managed
    BY DEF TypeOK, Routed
  <2>2. read \in Readings
    BY <2>1, ReadingTypes DEF Readings
  <2>3. [page[p] EXCEPT !.at = "health", !.got = read] \in PageLoads
    BY <1>1, <2>2 DEF PageLoads
  <2>4. page' = [page EXCEPT ![p] = [page[p] EXCEPT !.at = "health", !.got = read]]
    BY <1>1, <1>4 DEF ReadSnapshot, PageLoads
  <2> QED
    BY <1>1, <1>2, <2>3, <2>4
<1>5. CASE ReadHealth(p)
  <2> DEFINE read == [page[p].got EXCEPT !.ready = ready /\ httpsBound, !.covered = covered,
                                         !.mixed = mixed,
                                         !.behind = Behind(page[p].got.version)]
  <2>1. (ready /\ httpsBound) \in BOOLEAN /\ Behind(page[p].got.version) \in BOOLEAN
    BY DEF TypeOK, Behind
  <2>2. covered \in SUBSET Managed /\ mixed \in BOOLEAN /\ page[p].got \in Readings
    BY <1>1 DEF TypeOK, PageLoads
  <2>3. read \in Readings
    BY <2>1, <2>2 DEF Readings
  <2>4. [page[p] EXCEPT !.at = "sync", !.got = read] \in PageLoads
    BY <1>1, <2>3 DEF PageLoads
  <2>5. page' = [page EXCEPT ![p] = [page[p] EXCEPT !.at = "sync", !.got = read]]
    BY <1>1, <1>5 DEF ReadHealth, PageLoads, Readings
  <2> QED
    BY <1>1, <1>2, <2>4, <2>5
<1>6. CASE ReadLastSync(p)
  <2> DEFINE answer == [page[p].got EXCEPT !.lastSync = lastSync]
             status == page[p].call = "status"
             after == [at |-> IF status THEN "snapshot" ELSE "shown", call |-> "routes",
                       got |-> NoReading,
                       status |-> IF status THEN answer ELSE page[p].status,
                       routes |-> IF page[p].call = "routes" THEN answer ELSE page[p].routes]
  <2>1. lastSync \in 0..MaxSyncs + 1 /\ page[p].got \in Readings
    BY <1>1 DEF TypeOK, PageLoads
  <2>2. answer \in Readings
    BY <2>1 DEF Readings
  <2>3. after \in PageLoads
    BY <1>1, <2>2, ReadingTypes DEF PageLoads
  <2>4. page' = [page EXCEPT ![p] = after]
    BY <1>1, <1>6 DEF ReadLastSync, PageLoads
  <2> QED
    BY <1>1, <1>2, <2>3, <2>4
<1>7. CASE CallFails(p)
  BY <1>1, <1>2, <1>7, ReadingTypes DEF CallFails, PageLoads
<1> QED
  BY <1>3, <1>4, <1>5, <1>6, <1>7 DEF PageStep

LEMMA PageStepTypes ==
  ASSUME TypeOK, NEW p \in Pages, PageStep(p)
  PROVE  TypeOK'
<1>1. /\ UNCHANGED <<daemonVars, req, flips, historyVars>>
      /\ page' \in [Pages -> PageLoads]
  BY PageStepFrame
<1>2. clients' \in 0..MaxClients /\ faults' \in 0..MaxFaults
  BY DEF PageStep, LoadPage, Served, ReadSnapshot, ReadHealth, ReadLastSync, CallFails, Fault,
         pageFrame, TypeOK
<1> QED
  BY <1>1, <1>2 DEF TypeOK, daemonVars, historyVars

\* Every step keeps the types.
LEMMA StepTypes == TypeOK /\ [Next]_vars => TypeOK'
<1> SUFFICES ASSUME TypeOK, [Next]_vars PROVE TypeOK'
  OBVIOUS
<1>1. CASE UNCHANGED vars
  BY <1>1 DEF TypeOK, vars, daemonVars, clientVars, historyVars
<1>2. CASE Done
  BY <1>1, <1>2 DEF Done
<1> QED
  BY <1>1, <1>2, DaemonStepTypes, RequestStepTypes, PageStepTypes
  DEF Next, RequestStep, PageStep

\* The served state, the requests and the pages keep their types, and a request
\* that HandleHTTP forwards has an upstream.
THEOREM TypeCorrect == Spec => []TypeOK
  BY InitTypes, StepTypes, PTL DEF Spec

(***************************************************************************)
(* The invariant is inductive                                              *)
(***************************************************************************)
LEMMA InitInv == Init => ServingInv
<1> SUFFICES ASSUME Init PROVE ServingInv
  OBVIOUS
<1>1. TypeOK
  BY InitTypes
<1>2. DaemonInv
  BY DEF Init, DaemonInv, Certifiable
<1>3. ASSUME NEW r \in Requests PROVE RequestInv(r)
  BY DEF Init, RequestInv, InFlight, Over
<1>4. ASSUME NEW p \in Pages PROVE CallInv(p) /\ AnswerInv(p)
  <2>1. page[p] = [at |-> "none", call |-> "status", got |-> NoReading,
                   status |-> NoReading, routes |-> NoReading]
    BY DEF Init
  <2>2. snapshot.version = 1
    BY DEF Init
  <2> QED
    BY <2>1, <2>2 DEF CallInv, AnswerInv, NoReading
<1> QED
  BY <1>1, <1>2, <1>3, <1>4 DEF ServingInv

\* Install: the version moves past every reading, and the new route joins the
\* history of every request in flight.
LEMMA InstallInv ==
  ASSUME ServingInv, Install
  PROVE  ServingInv'
<1>1. TypeOK /\ TypeOK'
  BY DaemonStepTypes DEF ServingInv
<1>2. PICK up \in Routings :
        /\ snapshot' = [version |-> snapshot.version + 1, up |-> up]
        /\ routesSeen' = [r \in Requests |->
             IF InFlight(r) /\ req[r].host \in Managed
               THEN routesSeen[r] \cup {up[req[r].host]} ELSE routesSeen[r]]
  BY DEF Install
<1>3. /\ sync' = "refresh" /\ lastSync' = snapshot.version + 1
      /\ UNCHANGED <<paused, covered, mixed, ready, httpsBound, req, page, flagsSeen>>
  BY DEF Install, clientVars
<1>4. snapshot'.version = snapshot.version + 1 /\ snapshot'.up = up /\ snapshot.version \in Nat
  BY <1>1, <1>2 DEF TypeOK
<1>5. DaemonInv'
  BY <1>3, <1>4 DEF DaemonInv, ServingInv
<1>6. ASSUME NEW r \in Requests PROVE RequestInv(r)'
  <2>1. RequestInv(r)
    BY DEF ServingInv
  <2>2. /\ routesSeen[r] \subseteq routesSeen'[r]
        /\ InFlight(r) /\ req[r].host \in Managed => up[req[r].host] \in routesSeen'[r]
    BY <1>2
  <2> QED
    BY <1>3, <1>4, <2>1, <2>2 DEF RequestInv, InFlight
<1>7. ASSUME NEW p \in Pages PROVE CallInv(p)' /\ AnswerInv(p)'
  <2>1. CallInv(p) /\ AnswerInv(p) /\ page[p] \in PageLoads
    BY <1>1 DEF ServingInv, TypeOK
  <2>2. /\ page[p].got.version \in Nat /\ page[p].got.lastSync \in Nat
        /\ page[p].status.lastSync \in Nat
    BY <2>1 DEF PageLoads, Readings
  <2>3. page'[p] = page[p]
    BY <1>3
  <2>4. CallInv(p)'
    BY <1>4, <2>1, <2>2, <2>3 DEF CallInv
  <2>5. AnswerInv(p)'
    BY <1>4, <2>1, <2>2, <2>3 DEF AnswerInv
  <2> QED
    BY <2>4, <2>5
<1> QED
  BY <1>1, <1>5, <1>6, <1>7 DEF ServingInv

\* The refresh of the certificates and the pause and resume requests.
LEMMA RefreshPauseInv ==
  ASSUME ServingInv,
         \/ ReplaceCertificates \/ CommitReady \/ RefreshFails
         \/ \E b \in BOOLEAN : SetRoutingPaused(b)
  PROVE  ServingInv'
<1>1. TypeOK /\ TypeOK'
  BY DaemonStepTypes DEF ServingInv
<1>2. UNCHANGED <<snapshot, lastSync, req, page, routesSeen>>
  BY DEF ReplaceCertificates, CommitReady, RefreshFails, SetRoutingPaused, clientVars, historyVars
<1>3. DaemonInv'
  <2>1. DaemonInv
    BY DEF ServingInv
  <2>2. CASE ReplaceCertificates
    BY <1>2, <2>1, <2>2 DEF ReplaceCertificates, DaemonInv, Routed, Certifiable
  <2>3. CASE CommitReady
    BY <1>2, <2>1, <2>3 DEF CommitReady, DaemonInv, Routed, Certifiable
  <2>4. CASE RefreshFails
    BY <1>2, <2>1, <2>4 DEF RefreshFails, DaemonInv, Routed, Certifiable
  <2>5. CASE \E b \in BOOLEAN : SetRoutingPaused(b)
    BY <1>2, <2>1, <2>5 DEF SetRoutingPaused, DaemonInv, Routed, Certifiable
  <2> QED
    BY <2>2, <2>3, <2>4, <2>5
<1>4. ASSUME NEW r \in Requests PROVE RequestInv(r)'
  <2>1. RequestInv(r)
    BY DEF ServingInv
  <2>2. flagsSeen[r] \subseteq flagsSeen'[r]
    BY DEF ReplaceCertificates, CommitReady, RefreshFails, SetRoutingPaused, historyVars
  <2>3. InFlight(r) => paused' \in flagsSeen'[r]
    <3>1. ASSUME NEW b \in BOOLEAN, SetRoutingPaused(b), InFlight(r)
          PROVE  paused' \in flagsSeen'[r]
      BY <3>1 DEF SetRoutingPaused
    <3>2. ASSUME InFlight(r), UNCHANGED <<paused, flagsSeen>> PROVE paused' \in flagsSeen'[r]
      BY <2>1, <3>2 DEF RequestInv
    <3> QED
      BY <3>1, <3>2 DEF ReplaceCertificates, CommitReady, RefreshFails, historyVars
  <2> QED
    BY <1>2, <2>1, <2>2, <2>3 DEF RequestInv, InFlight
<1>5. ASSUME NEW p \in Pages PROVE CallInv(p)' /\ AnswerInv(p)'
  BY <1>2 DEF ServingInv, CallInv, AnswerInv, Routed
<1> QED
  BY <1>1, <1>3, <1>4, <1>5 DEF ServingInv

\* A request decides on what it reads in the same step.
LEMMA RequestStepInv ==
  ASSUME ServingInv, NEW r \in Requests, RequestStep(r)
  PROVE  ServingInv'
<1>1. TypeOK /\ TypeOK'
  BY RequestStepTypes DEF ServingInv
<1>2. /\ UNCHANGED <<daemonVars, page, flips, faults>>
      /\ \A s \in Requests \ {r} : /\ req'[s] = req[s]
                                   /\ routesSeen'[s] = routesSeen[s]
                                   /\ flagsSeen'[s] = flagsSeen[s]
  BY <1>1, RequestStepFrame
<1>3. UNCHANGED <<snapshot, lastSync, paused, covered, mixed, ready, httpsBound, sync, page>>
  BY <1>2 DEF daemonVars
<1>4. DaemonInv' /\ \A p \in Pages : CallInv(p)' /\ AnswerInv(p)'
  BY <1>3 DEF ServingInv, DaemonInv, CallInv, AnswerInv, Routed, Certifiable
<1>5. ASSUME NEW s \in Requests \ {r} PROVE RequestInv(s)'
  BY <1>2, <1>3 DEF ServingInv, RequestInv, InFlight
<1>6. RequestInv(r)'
  <2>1. RequestInv(r) /\ req[r] \in Exchanges /\ req \in [Requests -> Exchanges]
    BY <1>1 DEF ServingInv, TypeOK
  <2>2. ASSUME NEW h \in Hosts, NEW tls \in BOOLEAN, Begin(r, h, tls) PROVE RequestInv(r)'
    <3>1. PICK l \in {"query", "hello", "lookup"} :
            req' = [req EXCEPT ![r] = [at |-> l, tls |-> tls, host |-> h, route |-> NoRoute]]
      BY <2>2 DEF Begin
    <3>2. req'[r].at = l /\ req'[r].host = h
      BY <2>1, <3>1
    <3>3. h \in Managed => snapshot.up[h] \in routesSeen'[r]
      BY <1>1, <2>2 DEF Begin, TypeOK
    <3>4. paused \in flagsSeen'[r]
      BY <1>1, <2>2 DEF Begin, TypeOK
    <3> QED
      BY <1>3, <3>2, <3>3, <3>4 DEF RequestInv, InFlight
  <2>3. ASSUME UNCHANGED requestFrame PROVE UNCHANGED <<routesSeen, flagsSeen>>
    BY <2>3 DEF requestFrame, historyVars
  <2>4. CASE BuildResponse(r) \/ GetCertificate(r) \/ ConnectionRefused(r)
    <3>1. PICK l \in {"unresolved", "hello", "lookup", "refused"} : Goto(r, l)
      BY <2>4 DEF BuildResponse, GetCertificate, ConnectionRefused
    <3>2. req[r].at \in {"query", "hello"} /\ UNCHANGED <<routesSeen, flagsSeen>>
      BY <2>3, <2>4 DEF BuildResponse, GetCertificate, ConnectionRefused
    <3>3. req'[r].at = l /\ req'[r].host = req[r].host
      BY <2>1, <3>1 DEF Goto, Exchanges
    <3> QED
      BY <1>3, <2>1, <3>2, <3>3 DEF RequestInv, InFlight, Over
  <2>5. CASE LookupHostname(r)
    <3>1. req[r].at = "lookup" /\ UNCHANGED <<routesSeen, flagsSeen>>
      BY <2>3, <2>5 DEF LookupHostname
    <3>2. CASE req[r].host \in Managed
      <4>1. /\ req'[r].at = "check" /\ req'[r].host = req[r].host
            /\ req'[r].route = snapshot.up[req[r].host]
        BY <2>1, <2>5, <3>2 DEF LookupHostname, IsManagedHost, Exchanges
      <4> QED
        BY <1>3, <2>1, <3>1, <3>2, <4>1 DEF RequestInv, InFlight, Over
    <3>3. CASE req[r].host \notin Managed
      <4>1. req'[r].at = "notfound"
        BY <2>1, <2>5, <3>3 DEF LookupHostname, IsManagedHost, Goto, Exchanges
      <4> QED
        BY <4>1 DEF RequestInv, InFlight, Over
    <3> QED
      BY <3>2, <3>3
  <2>6. CASE CheckPaused(r)
    <3>1. req[r].at = "check" /\ UNCHANGED <<routesSeen, flagsSeen>>
      BY <2>3, <2>6 DEF CheckPaused
    <3>2. /\ req'[r].host = req[r].host /\ req'[r].route = req[r].route
          /\ req'[r].at = IF paused THEN "paused"
                          ELSE IF req[r].route = NoRoute THEN "noroute" ELSE "forward"
      BY <2>1, <2>6 DEF CheckPaused, Goto, Exchanges
    <3>3. paused \in flagsSeen[r] /\ req[r].route \in routesSeen[r]
      BY <2>1, <3>1 DEF RequestInv, InFlight, Over
    <3>4. paused \in BOOLEAN
      BY <1>1 DEF TypeOK
    <3> QED
      BY <1>3, <2>1, <3>1, <3>2, <3>3, <3>4 DEF RequestInv, InFlight, Over
  <2>7. CASE Forward(r)
    <3>1. req[r].at = "forward" /\ UNCHANGED <<routesSeen, flagsSeen>>
      BY <2>3, <2>7 DEF Forward
    <3>2. req'[r].at = "forwarded" /\ req'[r].route = req[r].route
      BY <2>1, <2>7 DEF Forward, Goto, Exchanges
    <3> QED
      BY <2>1, <3>1, <3>2 DEF RequestInv, InFlight, Over
  <2> QED
    BY <2>2, <2>4, <2>5, <2>6, <2>7 DEF RequestStep
<1> QED
  BY <1>1, <1>4, <1>5, <1>6 DEF ServingInv

\* A page's calls: what each reads agrees with what was read before it.
LEMMA PageStepInv ==
  ASSUME ServingInv, NEW p \in Pages, PageStep(p)
  PROVE  ServingInv'
<1>1. TypeOK /\ TypeOK'
  BY PageStepTypes DEF ServingInv
<1>2. /\ UNCHANGED <<daemonVars, req, flips, historyVars>>
      /\ \A q \in Pages \ {p} : page'[q] = page[q]
  BY <1>1, PageStepFrame
<1>3. UNCHANGED <<snapshot, lastSync, paused, covered, mixed, ready, sync, req, routesSeen, flagsSeen>>
  BY <1>2 DEF daemonVars, historyVars
<1>4. DaemonInv' /\ \A r \in Requests : RequestInv(r)'
  BY <1>3 DEF ServingInv, DaemonInv, RequestInv, InFlight, Routed, Certifiable
<1>5. ASSUME NEW q \in Pages \ {p} PROVE CallInv(q)' /\ AnswerInv(q)'
  BY <1>2, <1>3 DEF ServingInv, CallInv, AnswerInv, Routed
<1>6. CallInv(p)' /\ AnswerInv(p)'
  <2>1. /\ CallInv(p) /\ AnswerInv(p)
        /\ page[p] \in PageLoads /\ page \in [Pages -> PageLoads]
        /\ page[p].got \in Readings /\ page[p].status \in Readings
    BY <1>1 DEF ServingInv, TypeOK, PageLoads
  <2>2. snapshot.version \in Nat /\ lastSync = snapshot.version
    BY <1>1 DEF ServingInv, DaemonInv, TypeOK
  <2>3. CASE LoadPage(p) \/ CallFails(p)
    <3>1. /\ page'[p].at \in {"snapshot", "offline", "shown"}
          /\ page'[p].call = page[p].call /\ page'[p].status = page[p].status
          /\ page'[p].routes = page[p].routes
      BY <2>1, <2>3 DEF LoadPage, CallFails, PageLoads
    <3> QED
      BY <1>3, <2>1, <3>1 DEF CallInv, AnswerInv
  <2>4. CASE ReadSnapshot(p)
    <3>1. /\ page'[p].at = "health" /\ page'[p].call = page[p].call
          /\ page'[p].status = page[p].status /\ page'[p].routes = page[p].routes
          /\ page'[p].got =
               [NoReading EXCEPT !.version = snapshot.version, !.hosts = Routed(snapshot)]
      BY <2>1, <2>4 DEF ReadSnapshot, PageLoads
    <3>2. page'[p].got.version = snapshot.version /\ page'[p].got.hosts = Routed(snapshot)
      BY <3>1 DEF NoReading
    <3>3. page[p].status.lastSync <= snapshot.version
      BY <2>1 DEF AnswerInv
    <3>4. CallInv(p)'
      BY <1>3, <2>2, <3>1, <3>2, <3>3 DEF CallInv, Routed
    <3>5. AnswerInv(p)'
      BY <1>3, <2>1, <3>1 DEF AnswerInv
    <3> QED
      BY <3>4, <3>5
  <2>5. CASE ReadHealth(p)
    <3> DEFINE got == page[p].got
    <3>1. /\ page[p].at = "health"
          /\ page'[p].at = "sync" /\ page'[p].call = page[p].call
          /\ page'[p].status = page[p].status /\ page'[p].routes = page[p].routes
          /\ page'[p].got = [got EXCEPT !.ready = ready /\ httpsBound, !.covered = covered,
                                        !.mixed = mixed, !.behind = Behind(got.version)]
      BY <2>1, <2>5 DEF ReadHealth, PageLoads
    <3>2. /\ page'[p].got.version = got.version /\ page'[p].got.hosts = got.hosts
          /\ page'[p].got.ready = (ready /\ httpsBound) /\ page'[p].got.covered = covered
          /\ page'[p].got.behind = Behind(got.version) /\ page'[p].got.mixed = mixed
      BY <2>1, <3>1 DEF Readings
    <3>3. ASSUME ready, ~Behind(got.version), ~mixed PROVE got.hosts \ Rootless \subseteq covered
      <4>1. sync = "idle" /\ snapshot.version = got.version
        BY <3>3 DEF Behind
      <4>2. got.hosts = Routed(snapshot)
        BY <2>1, <3>1, <4>1 DEF CallInv
      <4> QED
        BY <3>3, <4>1, <4>2 DEF ServingInv, DaemonInv, Certifiable
    <3>4. CallInv(p)'
      BY <1>3, <2>1, <3>1, <3>2, <3>3 DEF CallInv
    <3>5. AnswerInv(p)'
      BY <1>3, <2>1, <3>1 DEF AnswerInv
    <3> QED
      BY <3>4, <3>5
  <2>6. CASE ReadLastSync(p)
    <3> DEFINE answer == [page[p].got EXCEPT !.lastSync = lastSync]
    <3>1. /\ page[p].at = "sync" /\ page'[p].at \in {"snapshot", "shown"}
          /\ page'[p].call = "routes"
          /\ page'[p].status = IF page[p].call = "status" THEN answer ELSE page[p].status
          /\ page'[p].routes = IF page[p].call = "routes" THEN answer ELSE page[p].routes
      BY <2>1, <2>6 DEF ReadLastSync
    <3>2. /\ answer.lastSync = snapshot.version /\ answer.version = page[p].got.version
          /\ answer.hosts = page[p].got.hosts /\ answer.ready = page[p].got.ready
          /\ answer.covered = page[p].got.covered /\ answer.behind = page[p].got.behind
          /\ answer.mixed = page[p].got.mixed
      BY <2>1, <2>2 DEF Readings
    <3>3. /\ page[p].got.version <= snapshot.version
          /\ page[p].call = "routes" => page[p].status.lastSync <= page[p].got.version
          /\ page[p].got.ready =>
               \/ page[p].got.behind \/ page[p].got.mixed
               \/ page[p].got.hosts \ Rootless \subseteq page[p].got.covered
      BY <2>1, <3>1 DEF CallInv
    <3>4. CallInv(p)'
      BY <3>1 DEF CallInv
    <3>5. CASE page[p].call = "status"
      <4>1. page'[p].status = answer /\ page'[p].routes = NoReading /\ page'[p].call = "routes"
        BY <2>1, <3>1, <3>5 DEF AnswerInv
      <4>2. ~NoReading.ready
        BY DEF NoReading
      <4> QED
        BY <1>3, <2>2, <3>2, <3>3, <3>4, <4>1, <4>2 DEF AnswerInv
    <3>6. CASE page[p].call = "routes"
      <4>1. /\ page'[p].status = page[p].status /\ page'[p].routes = answer
            /\ page'[p].call = "routes"
        BY <3>1, <3>6
      <4> QED
        BY <1>3, <2>1, <3>2, <3>3, <3>4, <3>6, <4>1 DEF AnswerInv
    <3> QED
      BY <2>1, <3>5, <3>6 DEF PageLoads
  <2> QED
    BY <2>3, <2>4, <2>5, <2>6 DEF PageStep
<1> QED
  BY <1>1, <1>4, <1>5, <1>6 DEF ServingInv

LEMMA StepInv == ServingInv /\ [Next]_vars => ServingInv'
<1> SUFFICES ASSUME ServingInv, [Next]_vars PROVE ServingInv'
  OBVIOUS
<1>1. CASE UNCHANGED vars
  <2>1. TypeOK'
    BY StepTypes DEF ServingInv
  <2>2. DaemonInv' /\ \A r \in Requests : RequestInv(r)'
    BY <1>1 DEF ServingInv, DaemonInv, RequestInv, InFlight, Routed, Certifiable, vars, daemonVars,
                clientVars, historyVars
  <2>3. \A p \in Pages : CallInv(p)' /\ AnswerInv(p)'
    BY <1>1 DEF ServingInv, CallInv, AnswerInv, Routed, vars, daemonVars, clientVars
  <2> QED
    BY <2>1, <2>2, <2>3 DEF ServingInv
<1>2. CASE Done
  BY <1>1, <1>2 DEF Done
<1> QED
  BY <1>1, <1>2, InstallInv, RefreshPauseInv, RequestStepInv, PageStepInv
  DEF Next, RequestStep, PageStep

\* ServingInv holds in every reachable state, for any requests, pages and snapshots.
THEOREM Invariance == Spec => []ServingInv
  BY InitInv, StepInv, PTL DEF Spec

(***************************************************************************)
(* The properties                                                          *)
(***************************************************************************)
\* HandleHTTP reads the snapshot and acts on it later: the upstream it forwards
\* to, or the lack of one, was the host's at some time while the request lasted.
THEOREM RouteCurrent == Spec => []RouteIsCurrent
<1>1. ServingInv => RouteIsCurrent
  BY DEF ServingInv, RequestInv, RouteIsCurrent
<1> QED
  BY <1>1, Invariance, PTL

\* The pause flag is read after the snapshot: its value was that of some time
\* while the request lasted, whichever way the request was decided.
THEOREM PauseCurrent == Spec => []PauseIsCurrent
<1>1. ServingInv => PauseIsCurrent
  BY DEF ServingInv, RequestInv, PauseIsCurrent
<1> QED
  BY <1>1, Invariance, PTL

\* handleRoutes offers https:// for a host without a certificate only if the host
\* has no project root, while a refresh is under way, after the snapshot it shows was
\* replaced or when the certificates were loaded after a failed refresh.
THEOREM OfferedServed == Spec => []OfferedIsServed
<1>1. ServingInv => OfferedIsServed
  BY DEF ServingInv, AnswerInv, OfferedIsServed
<1> QED
  BY <1>1, Invariance, PTL

\* The calls of a page read state that does not go back in time.
THEOREM PageForward == Spec => []PageMovesForward
<1>1. ServingInv => PageMovesForward
  BY DEF ServingInv, AnswerInv, PageMovesForward
<1> QED
  BY <1>1, Invariance, PTL

\* getCertificate turns a routed host that has a project root away only while the
\* certificates are not reported ready, while a refresh is under way or when they
\* were loaded after a failed refresh; it turns a host without a root away always.
THEOREM RefusedBehind == Spec => RefusedOnlyBehind
<1>1. ASSUME ServingInv, [Next]_vars, NEW r \in Requests, req[r].at = "hello"
      PROVE  /\ (req'[r].at = "refused" /\ req[r].host \in Certifiable(snapshot)) =>
                  ~(ready /\ httpsBound) \/ Behind(snapshot.version) \/ mixed
             /\ req'[r].at = "lookup" => req[r].host \notin Rootless
  <2>1. TypeOK /\ DaemonInv
    BY <1>1 DEF ServingInv
  <2>2. req[r] \in Exchanges /\ req \in [Requests -> Exchanges]
    BY <2>1 DEF TypeOK
  <2>3. CASE UNCHANGED req
    BY <1>1, <2>3
  <2>4. ASSUME NEW s \in Requests \ {r}, RequestStep(s) PROVE req'[r] = req[r]
    BY <2>1, <2>4, RequestStepFrame
  <2>5. CASE GetCertificate(r)
    <3>1. req'[r].at = IF req[r].host \in Managed /\ req[r].host \in covered
                         THEN "lookup" ELSE "refused"
      BY <2>2, <2>5 DEF GetCertificate, IsManagedHost, Goto, Exchanges
    <3>2. req[r].host \in Rootless => req[r].host \notin covered
      BY <2>1 DEF DaemonInv
    <3>3. ASSUME ready, ~Behind(snapshot.version), ~mixed, req[r].host \in Certifiable(snapshot)
          PROVE  req[r].host \in covered /\ req[r].host \in Managed
      BY <2>1, <3>3 DEF DaemonInv, Behind, Certifiable, Routed
    <3> QED
      BY <3>1, <3>2, <3>3
  <2>6. CASE ConnectionRefused(r)
    <3>1. req'[r].at = "refused" /\ ~httpsBound
      BY <2>2, <2>6 DEF ConnectionRefused, Goto, Exchanges
    <3> QED
      BY <3>1
  <2>7. ASSUME NEW p \in Pages, PageStep(p) PROVE UNCHANGED req
    BY <2>1, <2>7, PageStepFrame
  <2>8. ASSUME \/ Install \/ ReplaceCertificates \/ CommitReady \/ RefreshFails \/ Done
               \/ \E b \in BOOLEAN : SetRoutingPaused(b) \/ UNCHANGED vars
        PROVE  UNCHANGED req
    BY <2>8 DEF Install, ReplaceCertificates, CommitReady, RefreshFails, SetRoutingPaused, Done,
                vars, clientVars
  <2>9. ASSUME RequestStep(r) PROVE GetCertificate(r) \/ ConnectionRefused(r)
    BY <1>1, <2>9 DEF RequestStep, Begin, BuildResponse, LookupHostname, CheckPaused, Forward
  <2>10. ASSUME NEW s \in Requests, RequestStep(s)
         PROVE  GetCertificate(r) \/ ConnectionRefused(r) \/ req'[r] = req[r]
    BY <2>4, <2>9, <2>10
  <2>11. \/ GetCertificate(r) \/ ConnectionRefused(r) \/ req'[r] = req[r]
    BY <1>1, <2>7, <2>8, <2>10 DEF Next, RequestStep, PageStep
  <2> QED
    BY <1>1, <2>5, <2>6, <2>11
<1>2. ServingInv /\ [Next]_vars =>
        [\A r \in Requests : req[r].at = "hello" =>
           /\ (req'[r].at = "refused" /\ req[r].host \in Certifiable(snapshot)) =>
                ~(ready /\ httpsBound) \/ Behind(snapshot.version) \/ mixed
           /\ req'[r].at = "lookup" => req[r].host \notin Rootless]_vars
  BY <1>1
<1> QED
  BY <1>2, Invariance, PTL DEF Spec, RefusedOnlyBehind
==============================================================================
