------------------------------- MODULE Serving -------------------------------
(***************************************************************************)
(* What clients see of the daemon while its state changes under them: DNS  *)
(* queries (internal/dns), HTTP and HTTPS requests (internal/proxy), and   *)
(* the pages of the dashboard, which are made from several calls of the    *)
(* admin API (internal/dashboard, internal/adminapi), each of which reads  *)
(* the state piece by piece (App.stateSnapshot).                           *)
(*                                                                         *)
(* One goroutine, the watch loop, installs snapshots and refreshes the     *)
(* certificates after each; Watcher and Certificates tell what happens     *)
(* when there are more.  A snapshot is its version and, for every managed  *)
(* host, the upstream it is routed to.                                     *)
(***************************************************************************)
EXTENDS Integers, FiniteSets

CONSTANTS
  Managed,    \* hostnames under the managed suffix
  Rootless,   \* those among them without a project root (see Certificates)
  Foreign,    \* other hostnames
  Upstreams, NoRoute,
  Routings,   \* what a snapshot may route the managed hosts to
  Requests,   \* browsers' requests
  Pages,      \* loads of a dashboard page
  MaxClients, \* bound: requests and pages, which do not meet, in a behaviour
  MaxSyncs,   \* bound: snapshots after the first
  MaxFlips,   \* bound: pause and resume requests
  MaxFaults   \* bound: failed refreshes and failed calls

ASSUME ServingAssumption ==
  /\ Rootless \subseteq Managed /\ Managed \cap Foreign = {} /\ NoRoute \notin Upstreams
  /\ Routings \subseteq [Managed -> Upstreams \cup {NoRoute}]
  /\ {MaxClients, MaxSyncs, MaxFlips, MaxFaults} \subseteq Nat

Hosts == Managed \cup Foreign

VARIABLES
  snapshot,   \* Reconciler.snapshot
  lastSync,   \* Reconciler.lastSync, as the version it was set with
  paused,     \* Reconciler.routingPaused
  covered,    \* hosts the listener's certificates cover
  failed,     \* a refresh failed: files may differ from what is recorded of them
  mixed,      \* the listener's certificates were loaded after that
  ready,      \* health.CertificateReady
  httpsBound, \* health.HTTPS.Bound, settled at start
  sync,       \* the watch loop: "idle", "refresh" or "commit"
  req,        \* per request: its step, protocol, host and the route it found
  page,       \* per page: its step, the call's readings and the answers
  \* bounds
  clients, flips, faults,
  \* history, read by no action
  routesSeen, \* per request: what its host was routed to while it lasted
  flagsSeen   \* per request: the values of paused while it lasted

daemonVars == <<snapshot, lastSync, paused, covered, failed, mixed, ready, httpsBound, sync>>
historyVars == <<routesSeen, flagsSeen>>
clientVars == <<req, page, clients>>
vars == <<daemonVars, clientVars, flips, faults, historyVars>>

Routed(snap) == {h \in Managed : snap.up[h] # NoRoute}

\* The routed hosts the certificate inventory issues for.
Certifiable(snap) == Routed(snap) \ Rootless

Over == {"none", "unresolved", "refused", "notfound", "paused", "noroute", "forwarded"}
InFlight(r) == req[r].at \notin Over

\* What one call has read.  History: covered, mixed, and whether the
\* certificates were behind the snapshot read.
NoReading == [version |-> 0, hosts |-> {}, ready |-> FALSE, lastSync |-> 0,
              covered |-> {}, mixed |-> FALSE, behind |-> FALSE]

Init ==
  /\ \E up \in Routings :
       snapshot = [version |-> 1, up |-> up]
  /\ lastSync = 1 /\ paused = FALSE
  /\ covered = Certifiable(snapshot) /\ failed = FALSE /\ mixed = FALSE
  /\ ready = (Certifiable(snapshot) # {})
  /\ httpsBound \in BOOLEAN
  /\ sync = "idle"
  /\ req = [r \in Requests |-> [at |-> "none", tls |-> FALSE, host |-> NoRoute, route |-> NoRoute]]
  /\ page = [p \in Pages |-> [at |-> "none", call |-> "status", got |-> NoReading,
                              status |-> NoReading, routes |-> NoReading]]
  /\ clients = 0 /\ flips = 0 /\ faults = 0
  /\ routesSeen = [r \in Requests |-> {}] /\ flagsSeen = [r \in Requests |-> {}]

Behind(version) == sync # "idle" \/ snapshot.version # version

Served == clients < MaxClients /\ clients' = clients + 1
Fault == faults < MaxFaults /\ faults' = faults + 1

(***************************************************************************)
(* The watch loop and the admin API's pause and resume                     *)
(***************************************************************************)
\* Mutant of Install: the time of the last sync is left as it was.
InstallUndated ==
  /\ sync = "idle"
  /\ snapshot.version <= MaxSyncs
  /\ \E up \in Routings :
       /\ snapshot' = [version |-> snapshot.version + 1, up |-> up]
       /\ routesSeen' = [r \in Requests |->
            IF InFlight(r) /\ req[r].host \in Managed
              THEN routesSeen[r] \cup {up[req[r].host]} ELSE routesSeen[r]]
  /\ sync' = "refresh"
  /\ UNCHANGED <<lastSync, paused, covered, failed, mixed, ready, httpsBound, clientVars,
                 flips, faults, flagsSeen>>

\* RebuildSnapshot's critical section.
Install ==
  /\ sync = "idle"
  /\ snapshot.version <= MaxSyncs
  /\ \E up \in Routings :
       /\ snapshot' = [version |-> snapshot.version + 1, up |-> up]
       /\ routesSeen' = [r \in Requests |->
            IF InFlight(r) /\ req[r].host \in Managed
              THEN routesSeen[r] \cup {up[req[r].host]} ELSE routesSeen[r]]
  /\ lastSync' = snapshot.version + 1
  /\ sync' = "refresh"
  /\ UNCHANGED <<paused, covered, failed, mixed, ready, httpsBound, clientVars, flips,
                 faults, flagsSeen>>

\* Mutant of ReplaceCertificates: the new map is built and dropped.
ReplaceCertificatesNot ==
  /\ sync = "refresh"
  /\ sync' = "commit"
  /\ UNCHANGED <<snapshot, lastSync, paused, covered, failed, mixed, ready, httpsBound,
                 clientVars, flips, faults, historyVars>>

\* RefreshCertificates swaps the listener's map; a wildcard may cover more than
\* the hosts it was issued for.  After a failed refresh a file may hold another
\* certificate than the record that is reused says ...
ReplaceCertificates ==
  /\ sync = "refresh"
  /\ covered' \in {c \in SUBSET (Managed \ Rootless) :
                   failed \/ Certifiable(snapshot) \subseteq c}
  /\ mixed' = failed
  /\ sync' = "commit"
  /\ UNCHANGED <<snapshot, lastSync, paused, failed, ready, httpsBound, clientVars, flips, faults,
                 historyVars>>

\* ... and then reports readiness, or, when it fails, that there is none.
CommitReady ==
  /\ sync = "commit"
  /\ ready' = (Certifiable(snapshot) # {})
  /\ sync' = "idle"
  /\ UNCHANGED <<snapshot, lastSync, paused, covered, failed, mixed, httpsBound, clientVars,
                 flips, faults, routesSeen, flagsSeen>>

RefreshFails ==
  /\ sync = "refresh"
  /\ Fault
  /\ ready' = FALSE /\ failed' = TRUE
  /\ sync' = "idle"
  /\ UNCHANGED <<snapshot, lastSync, paused, covered, mixed, httpsBound, clientVars, flips,
                 routesSeen, flagsSeen>>

\* handleRoutingPause and handleRoutingResume answer after the flag is set.
SetRoutingPaused(b) ==
  /\ flips < MaxFlips
  /\ flips' = flips + 1
  /\ paused' = b
  /\ flagsSeen' = [r \in Requests |-> IF InFlight(r) THEN flagsSeen[r] \cup {b} ELSE flagsSeen[r]]
  /\ UNCHANGED <<snapshot, lastSync, covered, failed, mixed, ready, httpsBound, sync,
                 clientVars, faults, routesSeen>>

(***************************************************************************)
(* Requests                                                                *)
(***************************************************************************)
IsManagedHost(h) == h \in Managed
Goto(r, l) == req' = [req EXCEPT ![r].at = l]
requestFrame == <<daemonVars, page, clients, flips, faults, historyVars>>

\* A client begins with a DNS query, or connects at once with a host of its choice.
Begin(r, h, tls) ==
  /\ req[r].at = "none"
  /\ Served
  /\ \E l \in {"query", IF tls THEN "hello" ELSE "lookup"} :
       req' = [req EXCEPT ![r] = [at |-> l, tls |-> tls, host |-> h, route |-> NoRoute]]
  /\ routesSeen' = [routesSeen EXCEPT ![r] = IF h \in Managed THEN {snapshot.up[h]} ELSE {}]
  /\ flagsSeen' = [flagsSeen EXCEPT ![r] = {paused}]
  /\ UNCHANGED <<daemonVars, page, flips, faults>>

\* BuildResponse: 127.0.0.1 for a managed host, routed or not; no answer for others.
BuildResponse(r) ==
  /\ req[r].at = "query"
  /\ Goto(r, IF ~IsManagedHost(req[r].host) THEN "unresolved"
             ELSE IF req[r].tls THEN "hello" ELSE "lookup")
  /\ UNCHANGED requestFrame

\* getCertificate: the handshake fails for a host without a certificate.
GetCertificate(r) ==
  /\ req[r].at = "hello"
  /\ httpsBound
  /\ Goto(r, IF IsManagedHost(req[r].host) /\ req[r].host \in covered THEN "lookup" ELSE "refused")
  /\ UNCHANGED requestFrame

\* Nobody listens on the HTTPS port.
ConnectionRefused(r) ==
  /\ req[r].at = "hello"
  /\ ~httpsBound
  /\ Goto(r, "refused")
  /\ UNCHANGED requestFrame

\* Mutant of LookupHostname: a host without a route gets that of another host.
LookupHostnameAny(r) ==
  /\ req[r].at = "lookup"
  /\ \E h \in Managed :
       req' = [req EXCEPT ![r].at = "check", ![r].route = snapshot.up[h]]
  /\ UNCHANGED requestFrame

\* Mutant of LookupHostname: a host with a route is not held up by the flag.
LookupHostnameForwards(r) ==
  LET h == req[r].host
  IN /\ req[r].at = "lookup"
     /\ IF IsManagedHost(h)
          THEN req' = [req EXCEPT
                 ![r].at = IF snapshot.up[h] = NoRoute THEN "check" ELSE "forward",
                 ![r].route = snapshot.up[h]]
          ELSE Goto(r, "notfound")
     /\ UNCHANGED requestFrame

\* HandleHTTP: the snapshot is read first ...
LookupHostname(r) ==
  LET h == req[r].host
  IN /\ req[r].at = "lookup"
     /\ IF IsManagedHost(h)
          THEN req' = [req EXCEPT ![r].at = "check", ![r].route = snapshot.up[h]]
          ELSE Goto(r, "notfound")
     /\ UNCHANGED requestFrame

\* ... the flag next ...
CheckPaused(r) ==
  /\ req[r].at = "check"
  /\ Goto(r, IF paused THEN "paused" ELSE IF req[r].route = NoRoute THEN "noroute" ELSE "forward")
  /\ UNCHANGED requestFrame

\* ... and the request goes to the upstream found, whatever has changed since.
Forward(r) ==
  /\ req[r].at = "forward"
  /\ Goto(r, "forwarded")
  /\ UNCHANGED requestFrame

(***************************************************************************)
(* Pages of the dashboard: the calls /status and /routes in turn           *)
(***************************************************************************)
pageFrame == <<daemonVars, req, clients, flips, historyVars>>

LoadPage(p) ==
  /\ page[p].at = "none"
  /\ Served
  /\ page' = [page EXCEPT ![p].at = "snapshot"]
  /\ UNCHANGED <<daemonVars, req, flips, faults, historyVars>>

\* stateSnapshot reads the snapshot ...
ReadSnapshot(p) ==
  /\ page[p].at = "snapshot"
  /\ page' = [page EXCEPT ![p].at = "health",
       ![p].got = [NoReading EXCEPT !.version = snapshot.version, !.hosts = Routed(snapshot)]]
  /\ UNCHANGED <<pageFrame, faults>>

\* Mutant of ReadHealth: the second call uses the health the first one read.
ReadHealthCached(p) ==
  /\ page[p].at = "health"
  /\ page' = [page EXCEPT ![p].at = "sync",
       ![p].got = [@ EXCEPT
         !.ready = IF page[p].call = "status" THEN ready /\ httpsBound ELSE page[p].status.ready,
         !.covered = covered, !.mixed = mixed, !.behind = Behind(page[p].got.version)]]
  /\ UNCHANGED <<pageFrame, faults>>

\* ... then the health of the network runtime: handleRoutes offers HTTPS for
\* all routes if the certificates are ready and the port is bound ...
ReadHealth(p) ==
  /\ page[p].at = "health"
  /\ page' = [page EXCEPT ![p].at = "sync",
       ![p].got = [@ EXCEPT !.ready = ready /\ httpsBound, !.covered = covered, !.mixed = mixed,
                            !.behind = Behind(page[p].got.version)]]
  /\ UNCHANGED <<pageFrame, faults>>

\* ... and then the time of the last sync.
ReadLastSync(p) ==
  LET call == page[p].call
      answer == [page[p].got EXCEPT !.lastSync = lastSync]
  IN /\ page[p].at = "sync"
     /\ page' = [page EXCEPT ![p] =
          [at |-> IF call = "status" THEN "snapshot" ELSE "shown",
           call |-> "routes", got |-> NoReading,
           status |-> IF call = "status" THEN answer ELSE @.status,
           routes |-> IF call = "routes" THEN answer ELSE @.routes]]
     /\ UNCHANGED <<pageFrame, faults>>

\* A call fails or runs into its time limit: the page says that the daemon is
\* unreachable, or shows the status without the routes.
CallFails(p) ==
  /\ page[p].at \in {"snapshot", "health", "sync"}
  /\ Fault
  /\ page' = [page EXCEPT ![p].at = IF page[p].call = "status" THEN "offline" ELSE "shown",
                          ![p].got = NoReading]
  /\ UNCHANGED pageFrame

Done ==
  /\ \A r \in Requests : ~InFlight(r)
  /\ \A p \in Pages : page[p].at \in {"none", "shown", "offline"}
  /\ clients = MaxClients
  /\ snapshot.version = MaxSyncs + 1 /\ sync = "idle" /\ flips = MaxFlips
  /\ UNCHANGED vars

Next ==
  \/ Install \/ ReplaceCertificates \/ CommitReady \/ RefreshFails
  \/ \E b \in BOOLEAN : SetRoutingPaused(b)
  \/ \E r \in Requests :
       \/ \E h \in Hosts, tls \in BOOLEAN : Begin(r, h, tls)
       \/ BuildResponse(r) \/ GetCertificate(r) \/ ConnectionRefused(r)
       \/ LookupHostname(r) \/ CheckPaused(r) \/ Forward(r)
  \/ \E p \in Pages :
       LoadPage(p) \/ ReadSnapshot(p) \/ ReadHealth(p) \/ ReadLastSync(p) \/ CallFails(p)
  \/ Done

Spec == Init /\ [][Next]_vars

(***************************************************************************)
(* Properties                                                              *)
(***************************************************************************)
Readings ==
  [version : 0..MaxSyncs + 1, hosts : SUBSET Managed, ready : BOOLEAN,
   lastSync : 0..MaxSyncs + 1, covered : SUBSET Managed, mixed : BOOLEAN, behind : BOOLEAN]

Routes == Upstreams \cup {NoRoute}
Exchanges ==
  [at : Over \cup {"query", "hello", "lookup", "check", "forward"}, tls : BOOLEAN,
   host : Hosts \cup {NoRoute}, route : Routes]
PageLoads ==
  [at : {"none", "snapshot", "health", "sync", "shown", "offline"}, call : {"status", "routes"},
   got : Readings, status : Readings, routes : Readings]

\* Types of the served state; a request that is forwarded has an upstream.
TypeOK ==
  /\ snapshot \in [version : 1..MaxSyncs + 1, up : [Managed -> Routes]]
  /\ lastSync \in 1..MaxSyncs + 1 /\ paused \in BOOLEAN
  /\ covered \in SUBSET Managed /\ failed \in BOOLEAN /\ mixed \in BOOLEAN
  /\ ready \in BOOLEAN /\ httpsBound \in BOOLEAN
  /\ sync \in {"idle", "refresh", "commit"}
  /\ req \in [Requests -> Exchanges]
  /\ \A r \in Requests : req[r].at \in {"forward", "forwarded"} => req[r].route \in Upstreams
  /\ page \in [Pages -> PageLoads]
  /\ clients \in 0..MaxClients /\ flips \in 0..MaxFlips /\ faults \in 0..MaxFaults
  /\ routesSeen \in [Requests -> SUBSET Routes] /\ flagsSeen \in [Requests -> SUBSET BOOLEAN]

\* A request is forwarded to an upstream its host was routed to at some time
\* while the request lasted, and told "no route" only if there was none.
RouteIsCurrent ==
  \A r \in Requests :
    /\ req[r].at = "forwarded" => req[r].route \in routesSeen[r]
    /\ req[r].at = "noroute" => NoRoute \in routesSeen[r]

\* Once pause is answered no request that begins later is forwarded before a
\* resume, and none is told "paused" once resume is answered.
PauseIsCurrent ==
  \A r \in Requests :
    /\ req[r].at \in {"forwarded", "noroute"} => FALSE \in flagsSeen[r]
    /\ req[r].at = "paused" => TRUE \in flagsSeen[r]

\* A routed host that has a project root is refused a TLS handshake only while the
\* certificates are reported as not ready, or have not caught up with the snapshot,
\* or were loaded after a refresh had failed.  One without a root is always refused.
RefusedOnlyBehind ==
  [][\A r \in Requests : req[r].at = "hello" =>
       /\ (req'[r].at = "refused" /\ req[r].host \in Certifiable(snapshot)) =>
            ~(ready /\ httpsBound) \/ Behind(snapshot.version) \/ mixed
       /\ req'[r].at = "lookup" => req[r].host \notin Rootless]_vars

\* The routes page offers https:// for a host without a certificate only if the
\* host has no project root, or, when readiness was read, the certificates were
\* being refreshed, the snapshot shown had been replaced or the certificates had
\* been loaded after a failed refresh.
OfferedIsServed ==
  \A p \in Pages :
    LET shown == page[p].routes
    IN  shown.ready =>
          \A h \in shown.hosts \ Rootless : h \in shown.covered \/ shown.behind \/ shown.mixed

\* The parts of a page, read one after the other, do not go back in time: the
\* last sync is not older than the snapshot it is shown with, and the routes
\* are not older than the status above them.
PageMovesForward ==
  \A p \in Pages :
    /\ page[p].status.version <= page[p].status.lastSync
    /\ page[p].routes # NoReading => page[p].status.lastSync <= page[p].routes.version
==============================================================================
