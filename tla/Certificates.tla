----------------------------- MODULE Certificates -----------------------------
(***************************************************************************)
(* How devproxy keeps the certificates of its HTTPS listener in step with  *)
(* the routing snapshot: NetworkRuntime.RefreshCertificates and            *)
(* prepareStoredCertificates (internal/daemon/network.go), the inventory   *)
(* and the mkcert issuer (internal/certs) and HTTPSListener                *)
(* (internal/proxy/https.go).                                              *)
(*                                                                         *)
(* A hostname is its project, whether it lies more than one label below    *)
(* the project's root (Deep, where a wildcard does not reach) and its      *)
(* place in the alphabetical order (Rank).  projectRootForHostname finds   *)
(* no root for the suffix itself, a domain a label may ask for, nor for    *)
(* any name when the suffix has several labels: such a host is Rootless,   *)
(* it is routed like the others and the inventory skips it.                *)
(*                                                                         *)
(* Every goroutine that rebuilds the snapshot refreshes the certificates   *)
(* afterwards, and nothing keeps two of them apart: they share the         *)
(* snapshot, the records in storedCerts, the files mkcert writes and the   *)
(* map the listener serves from.                                           *)
(***************************************************************************)
EXTENDS Integers, FiniteSets

CONSTANTS
  Starter,      \* the goroutine of App.Start, later the watch loop
  Refreshers,   \* goroutines that refresh, Starter among them
  Projects, Hosts,
  NoProject,    \* "no project root is found", not a project
  ProjectOf,    \* project of a hostname, or NoProject
  Root,         \* hostname of a project's root
  Deep,         \* hostnames two or more labels below their root
  Rank,         \* alphabetical order of the hostnames
  Snapshots,    \* the sets of hostnames a snapshot may have
  MaxRebuilds,  \* bound: snapshots after the first
  MaxFaults     \* bound: failures of mkcert

ASSUME StarterAssumption == Starter \in Refreshers
ASSUME HostsAssumption ==
  /\ NoProject \notin Projects
  /\ ProjectOf \in [Hosts -> Projects \cup {NoProject}]
  /\ Root \in [Projects -> Hosts \ Deep]
  /\ \A p \in Projects : ProjectOf[Root[p]] = p
  /\ Rank \in [Hosts -> Nat]
  /\ \A g, h \in Hosts : Rank[g] = Rank[h] => g = h
ASSUME SnapshotsAssumption == Snapshots \subseteq SUBSET Hosts
ASSUME BoundsAssumption == MaxRebuilds \in Nat /\ MaxFaults \in Nat

VARIABLES
  daemon,    \* "starting", "up" or "failed"
  hosts,     \* managed hostnames of the current snapshot
  stored,    \* NetworkRuntime.storedCerts: by name, the SANs recorded
  disk,      \* by name: SANs of the certificate file, keys of both files
  listener,  \* HTTPSListener.certificates: by name, the SANs served
  ready,     \* health.CertificateReady
  \* locals of RefreshCertificates
  pc, seen, todo, current, prepared, erred,
  loaded,    \* of ReplaceCertificates: the map built from the files
  \* history, read by no action
  overlapped,  \* a refresh began while another was running
  \* bounds
  keys, rebuilds, faults

shared == <<daemon, hosts, stored, disk, listener, ready>>
locals == <<pc, seen, todo, current, prepared, erred, loaded>>
bounds == <<keys, rebuilds, faults>>
vars == <<shared, locals, overlapped, bounds>>

(***************************************************************************)
(* The inventory                                                           *)
(***************************************************************************)
\* A set of SANs: names, and the wildcard below a project's root.
Sans == [project : Projects, names : (SUBSET Hosts) \ {{}}, wild : BOOLEAN]
NoCert == [names |-> {}]
NoFile == [cert |-> NoCert, certKey |-> 0, key |-> 0]
Nothing == [k \in Hosts |-> NoCert]

Rootless == {h \in Hosts : ProjectOf[h] = NoProject}

\* Mutant of HostsOf: hostnames are not grouped by project.
HostsOfAll(p, hs) == hs

\* The hostnames grouped under a project's root; those without one are skipped.
HostsOf(p, hs) == {h \in hs : ProjectOf[h] = p}

isCovered(h, c) ==
  \/ h \in c.names
  \/ /\ c # NoCert
     /\ c.wild /\ ProjectOf[h] = c.project /\ h # Root[c.project] /\ h \notin Deep

\* Mutant of coversAll: wildcards do not count.
coversAllExactly(c, hs) == hs \subseteq c.names

coversAll(c, hs) == \A h \in hs : isCovered(h, c)

\* The root and its wildcard if that is enough, else the root and every host.
requiredSANs(p, hs) ==
  IF hs \cap Deep = {}
    THEN [project |-> p, names |-> {Root[p]}, wild |-> TRUE]
    ELSE [project |-> p, names |-> {Root[p]} \cup hs, wild |-> FALSE]

\* MKCertIssuer names the files, and the record, after the first of the sorted
\* SANs; the wildcard pair is not sorted and starts with the root.
primary(c) ==
  IF c.wild THEN Root[c.project]
  ELSE CHOOSE h \in c.names : \A g \in c.names : Rank[h] <= Rank[g]

\* Mutant of Inventory: a record is reused whatever it covers.
InventoryByName(hs, have) ==
  {p \in Projects : HostsOf(p, hs) # {} /\ have[Root[p]] = NoCert}

\* BuildCertificateInventory: the projects that must be issued for, the others
\* being covered by what is recorded under their root.
Inventory(hs, have) ==
  {p \in Projects : /\ HostsOf(p, hs) # {}
                    /\ \/ have[Root[p]] = NoCert
                       \/ ~coversAll(have[Root[p]], HostsOf(p, hs))}

Reused(hs, have) ==
  [k \in Hosts |->
     IF \E p \in Projects \ Inventory(hs, have) : k = Root[p] /\ HostsOf(p, hs) # {}
       THEN have[k] ELSE NoCert]

Init ==
  /\ daemon = "starting" /\ hosts \in Snapshots
  /\ stored = Nothing /\ listener = Nothing /\ ready = FALSE
  /\ disk = [k \in Hosts |-> NoFile]
  /\ pc = [r \in Refreshers |-> IF r = Starter THEN "read" ELSE "idle"]
  /\ seen = [r \in Refreshers |-> {}] /\ todo = [r \in Refreshers |-> {}]
  /\ current = [r \in Refreshers |-> NoCert]
  /\ prepared = [r \in Refreshers |-> Nothing]
  /\ erred = [r \in Refreshers |-> FALSE]
  /\ loaded = [r \in Refreshers |-> Nothing]
  /\ overlapped = FALSE
  /\ keys = 0 /\ rebuilds = 0 /\ faults = 0

Goto(r, l) == pc' = [pc EXCEPT ![r] = l]

(***************************************************************************)
(* Actions                                                                 *)
(***************************************************************************)
\* The goroutine installs a snapshot (see Watcher) and calls
\* syncNetworkCertificates.
Rebuild(r) ==
  /\ daemon = "up"
  /\ pc[r] = "idle"
  /\ rebuilds < MaxRebuilds
  /\ rebuilds' = rebuilds + 1
  /\ hosts' \in Snapshots
  /\ overlapped' = (overlapped \/ \E q \in Refreshers : pc[q] # "idle")
  /\ Goto(r, "read")
  /\ UNCHANGED <<daemon, stored, disk, listener, ready, seen, todo, current,
                 prepared, erred, keys, faults, loaded>>

\* The snapshot and storedCerts are read (the latter without the lock) and the
\* inventory is made.
ReadInventory(r) ==
  /\ pc[r] = "read"
  /\ seen' = [seen EXCEPT ![r] = hosts]
  /\ todo' = [todo EXCEPT ![r] = Inventory(hosts, stored)]
  /\ prepared' = [prepared EXCEPT ![r] = Reused(hosts, stored)]
  /\ erred' = [erred EXCEPT ![r] = FALSE]
  /\ Goto(r, "issue")
  /\ UNCHANGED <<shared, overlapped, current, bounds, loaded>>

\* mkcert makes a key pair and writes the certificate file ...
WriteCert(r, p) ==
  LET c == requiredSANs(p, HostsOf(p, seen[r]))
  IN /\ pc[r] = "issue"
     /\ p \in todo[r]
     /\ keys' = keys + 1
     /\ disk' = [disk EXCEPT ![primary(c)].cert = c, ![primary(c)].certKey = keys + 1]
     /\ current' = [current EXCEPT ![r] = [sans |-> c, key |-> keys + 1]]
     /\ todo' = [todo EXCEPT ![r] = @ \ {p}]
     /\ Goto(r, "key")
     /\ UNCHANGED <<overlapped, daemon, hosts, stored, listener, ready, seen,
                    prepared, erred, rebuilds, faults, loaded>>

\* ... and then the key file; the record goes under the name of the files.
WriteKey(r) ==
  LET c == current[r].sans
  IN /\ pc[r] = "key"
     /\ disk' = [disk EXCEPT ![primary(c)].key = current[r].key]
     /\ prepared' = [prepared EXCEPT ![r][primary(c)] = c]
     /\ current' = [current EXCEPT ![r] = NoCert]
     /\ Goto(r, "issue")
     /\ UNCHANGED <<overlapped, daemon, hosts, stored, listener, ready, seen,
                    todo, erred, bounds, loaded>>

\* mkcert fails, before it writes anything or between the two files; the loop
\* over the projects goes on.
IssueFails(r) ==
  /\ faults < MaxFaults
  /\ faults' = faults + 1
  /\ \/ /\ pc[r] = "issue"
        /\ \E p \in todo[r] : todo' = [todo EXCEPT ![r] = @ \ {p}]
        /\ UNCHANGED <<pc, current>>
     \/ /\ pc[r] = "key"
        /\ Goto(r, "issue")
        /\ current' = [current EXCEPT ![r] = NoCert]
        /\ UNCHANGED todo
  /\ erred' = [erred EXCEPT ![r] = TRUE]
  /\ UNCHANGED <<shared, overlapped, seen, prepared, keys, rebuilds, loaded>>

Issued(r) == pc[r] = "issue" /\ todo[r] = {}

\* tls.LoadX509KeyPair succeeds on every prepared record.
Loadable(r) ==
  \A k \in Hosts : prepared[r][k] # NoCert =>
    disk[k].key # 0 /\ disk[k].certKey = disk[k].key

\* ReplaceCertificates reads all the files again and builds a map of them ...
Load(r) ==
  /\ Issued(r)
  /\ ~erred[r] /\ Loadable(r)
  /\ loaded' = [loaded EXCEPT ![r] =
                  [k \in Hosts |-> IF prepared[r][k] = NoCert THEN NoCert ELSE disk[k].cert]]
  /\ Goto(r, "swap")
  /\ UNCHANGED <<shared, overlapped, seen, todo, current, prepared, erred,
                 bounds>>

\* ... which then, under the listener's lock, takes the place of the map served
\* from.
Swap(r) ==
  /\ pc[r] = "swap"
  /\ listener' = loaded[r]
  /\ loaded' = [loaded EXCEPT ![r] = Nothing]
  /\ Goto(r, "commit")
  /\ UNCHANGED <<overlapped, daemon, hosts, stored, disk, ready, seen, todo,
                 current, prepared, erred, bounds>>

\* Mutant of GiveUp: NewNetworkRuntime goes on without certificates.
GiveUpStarts(r) ==
  /\ Issued(r)
  /\ erred[r] \/ ~Loadable(r)
  /\ ready' = FALSE
  /\ daemon' = "up"
  /\ Goto(r, "idle")
  /\ UNCHANGED <<overlapped, hosts, stored, disk, listener, seen, todo, current,
                 prepared, erred, bounds, loaded>>

\* One failed issuance, or one file that does not load, and everything prepared
\* is dropped; NewNetworkRuntime, and with it the daemon, gives up.
GiveUp(r) ==
  /\ Issued(r)
  /\ erred[r] \/ ~Loadable(r)
  /\ ready' = FALSE
  /\ daemon' = IF daemon = "starting" THEN "failed" ELSE daemon
  /\ Goto(r, "idle")
  /\ UNCHANGED <<overlapped, hosts, stored, disk, listener, seen, todo, current,
                 prepared, erred, bounds, loaded>>

\* Mutant of Commit: the records are not kept.
CommitForgets(r) ==
  /\ pc[r] = "commit"
  /\ ready' = (prepared[r] # Nothing)
  /\ daemon' = "up"
  /\ Goto(r, "idle")
  /\ UNCHANGED <<overlapped, hosts, stored, disk, listener, seen, todo, current,
                 prepared, erred, bounds, loaded>>

\* The records follow in a critical section of their own.
Commit(r) ==
  /\ pc[r] = "commit"
  /\ stored' = prepared[r]
  /\ ready' = (prepared[r] # Nothing)
  /\ daemon' = "up"
  /\ Goto(r, "idle")
  /\ UNCHANGED <<overlapped, hosts, disk, listener, seen, todo, current,
                 prepared, erred, bounds, loaded>>

Done ==
  /\ \/ daemon = "failed"
     \/ rebuilds = MaxRebuilds /\ \A r \in Refreshers : pc[r] = "idle"
  /\ UNCHANGED vars

RefreshStep(r) ==
  \/ ReadInventory(r)
  \/ \E p \in Projects : WriteCert(r, p)
  \/ WriteKey(r) \/ IssueFails(r)
  \/ Load(r) \/ Swap(r) \/ GiveUp(r) \/ Commit(r)

Next ==
  \/ \E r \in Refreshers : Rebuild(r) \/ RefreshStep(r)
  \/ Done

Spec == Init /\ [][Next]_vars

(***************************************************************************)
(* Properties                                                              *)
(***************************************************************************)
\* Types of the certificate state.
TypeOK ==
  /\ daemon \in {"starting", "up", "failed"}
  /\ hosts \subseteq Hosts
  /\ stored \in [Hosts -> Sans \cup {NoCert}]
  /\ listener \in [Hosts -> Sans \cup {NoCert}]
  /\ disk \in [Hosts -> [cert : Sans \cup {NoCert}, certKey : 0..keys, key : 0..keys]]
  /\ ready \in BOOLEAN
  /\ pc \in [Refreshers -> {"idle", "read", "issue", "key", "swap", "commit"}]
  /\ seen \in [Refreshers -> SUBSET Hosts]
  /\ todo \in [Refreshers -> SUBSET Projects]
  /\ current \in [Refreshers -> {NoCert} \cup [sans : Sans, key : 1..keys]]
  /\ \A r \in Refreshers : pc[r] = "key" => current[r] # NoCert
  /\ prepared \in [Refreshers -> [Hosts -> Sans \cup {NoCert}]]
  /\ loaded \in [Refreshers -> [Hosts -> Sans \cup {NoCert}]]
  /\ overlapped \in BOOLEAN
  /\ erred \in [Refreshers -> BOOLEAN]
  /\ keys \in Nat
  /\ rebuilds \in 0..MaxRebuilds
  /\ faults \in 0..MaxFaults

Quiescent == daemon = "up" /\ \A r \in Refreshers : pc[r] = "idle"
Undisturbed == ~overlapped /\ faults = 0

\* getCertificate finds a certificate for the hostname.
Certified(h) == \E k \in Hosts : isCovered(h, listener[k])

\* When no refresh is running and CertificateReady is reported, the hostnames of
\* the snapshot for which getCertificate finds a certificate are those with a
\* project root, as long as no two refreshes overlapped and mkcert did not fail.
\* A routed hostname without one never has a certificate, ready or not.
ReadyCovers ==
  /\ (Undisturbed /\ Quiescent /\ ready) => \A h \in hosts \ Rootless : Certified(h)
  /\ \A h \in Rootless : ~Certified(h)

\* When no refresh is running, the records and the listener speak of the same
\* certificates, so that the next inventory decides on what is served, as long
\* as no two refreshes overlapped and mkcert did not fail.
RecordsMatchListener ==
  (Undisturbed /\ Quiescent) => stored = listener

\* getCertificate's first lookup takes what stands under the host's own name
\* without looking at its SANs: it is always a certificate for that host.
ServedUnderOwnName ==
  \A k \in Hosts : listener[k] # NoCert =>
    isCovered(k, listener[k]) /\ listener[k].project = ProjectOf[k]

\* The daemon starts all or nothing: when NewNetworkRuntime succeeds, exactly the
\* hostnames of the snapshot that have a project root are covered, else the
\* daemon gives up.
StartsCovered ==
  [][(daemon = "starting" /\ daemon' = "up") =>
       \A h \in hosts : Certified(h)' <=> h \notin Rootless]_vars

\* mkcert is not run for a project whose hostnames the listener covers, unless
\* the certificate that covers them stands under another name than the project's
\* root (a hostname of the project sorts before the root), as long as no two
\* refreshes overlapped and mkcert did not fail.
ReissueOnlyUncovered ==
  [][Undisturbed => \A r \in Refreshers, p \in Projects :
       (p \in todo[r] /\ pc[r] = "issue" /\ pc'[r] = "key" /\ p \notin todo'[r]) =>
         \/ \E h \in HostsOf(p, seen[r]) : ~Certified(h)
         \/ \E k \in Hosts \ {Root[p]} : listener[k] # NoCert /\ listener[k].project = p]_vars
===============================================================================
