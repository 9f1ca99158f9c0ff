-------------------------- MODULE CertificatesProofs --------------------------
(***************************************************************************)
(* Proofs about Certificates, for every set of projects and hostnames,     *)
(* every order of the names and any number of goroutines that refresh.     *)
(***************************************************************************)
EXTENDS Certificates, TLAPS, WellFoundedInduction

(***************************************************************************)
(* The inductive invariant                                                 *)
(***************************************************************************)
\* A certificate kept under the name k is one for k, of k's project alone.
CertFor(k, c) ==
  /\ c.project = ProjectOf[k] /\ k \in c.names
  /\ \A h \in c.names : ProjectOf[h] = c.project
Own(records) == \A k \in Hosts : records[k] # NoCert => CertFor(k, records[k])

OwnInv ==
  /\ Own(stored) /\ Own(listener)
  /\ \A r \in Refreshers : Own(prepared[r]) /\ Own(loaded[r])
  /\ \A k \in Hosts : disk[k].cert # NoCert => CertFor(k, disk[k].cert)

Refreshing(r) == pc[r] \in {"issue", "key", "swap", "commit"}
Issuing(r, p) == pc[r] = "key" /\ current[r].sans.project = p

\* What a refresh has prepared: the certificate mkcert is at work on is the one
\* the project needs, no project is prepared before it is issued for, and every
\* project that needs one and is no longer waiting has it, unless mkcert failed.
PreparedInv(r) ==
  /\ pc[r] = "key" =>
       LET p == current[r].sans.project
       IN  current[r].sans = requiredSANs(p, HostsOf(p, seen[r])) /\ p \notin todo[r]
  /\ pc[r] \in {"swap", "commit"} => todo[r] = {} /\ ~erred[r]
  /\ Refreshing(r) =>
       /\ \A k \in Hosts : prepared[r][k] # NoCert =>
            ProjectOf[k] \notin todo[r] /\ ~Issuing(r, ProjectOf[k])
       /\ \A p \in Projects : HostsOf(p, seen[r]) # {} =>
            \/ erred[r] \/ p \in todo[r] \/ Issuing(r, p)
            \/ \E k \in Hosts : /\ ProjectOf[k] = p /\ prepared[r][k] # NoCert
                                /\ coversAll(prepared[r][k], HostsOf(p, seen[r]))

\* Refreshes that do not overlap work one at a time, on the current snapshot.
SoleInv ==
  ~overlapped =>
    /\ \A q, r \in Refreshers : pc[q] # "idle" /\ pc[r] # "idle" => q = r
    /\ \A r \in Refreshers : Refreshing(r) => seen[r] = hosts

\* An error is a fault, and App.Start, which is alone, remembers its own.
FaultInv ==
  /\ faults = 0 => \A r \in Refreshers : ~erred[r]
  /\ daemon = "starting" =>
       /\ ~overlapped /\ pc[Starter] # "idle"
       /\ faults = 0 \/ (erred[Starter] /\ pc[Starter] # "read")

\* Undisturbed, the files hold what is recorded: what is stored before a refresh
\* writes, and what is prepared from then on.
OnDisk(k, c) == disk[k].cert = c /\ disk[k].key # 0 /\ disk[k].certKey = disk[k].key

DiskInv ==
  Undisturbed =>
    /\ (\A r \in Refreshers : ~Refreshing(r)) =>
         \A k \in Hosts : stored[k] # NoCert => OnDisk(k, stored[k])
    /\ \A r \in Refreshers : Refreshing(r) =>
         \A k \in Hosts : prepared[r][k] # NoCert => OnDisk(k, prepared[r][k])
    /\ \A r \in Refreshers : pc[r] = "key" =>
         /\ disk[primary(current[r].sans)].cert = current[r].sans
         /\ disk[primary(current[r].sans)].certKey = current[r].key

\* Undisturbed, the files loaded are what was prepared, and the listener serves
\* what is stored, but for the moment between the two critical sections at the end
\* of a refresh.
ServedInv ==
  Undisturbed =>
    /\ (\A r \in Refreshers : pc[r] # "commit") => stored = listener
    /\ \A r \in Refreshers : pc[r] = "swap" => loaded[r] = prepared[r]
    /\ \A r \in Refreshers : pc[r] = "commit" => listener = prepared[r]
    /\ \A r \in Refreshers : pc[r] \in {"issue", "key"} => todo[r] \subseteq Inventory(seen[r], stored)
    /\ Quiescent => \A h \in hosts \ Rootless : Certified(h)

CertInv ==
  /\ TypeOK /\ OwnInv /\ (\A r \in Refreshers : PreparedInv(r)) /\ SoleInv /\ FaultInv
  /\ DiskInv /\ ServedInv

(***************************************************************************)
(* The inventory's operators                                               *)
(***************************************************************************)
USE StarterAssumption, HostsAssumption, BoundsAssumption

\* A set of natural numbers has a smallest member.
LEMMA LeastNat ==
  ASSUME NEW S \in SUBSET Nat, S # {}
  PROVE  \E m \in S : \A n \in S : m <= n
<1> DEFINE Less == OpToRel(<, Nat)
<1>1. IsWellFoundedOn(Less, Nat)
  BY NatLessThanWellFounded
<1> HIDE DEF Less
<1>2. PICK m \in S : \A n \in S : ~(<<n, m>> \in Less)
  BY <1>1, WFMin
<1>3. \A a, b \in Nat : a < b => <<a, b>> \in Less
  BY DEF Less, OpToRel
<1>4. ASSUME NEW n \in S PROVE m <= n
  <2>1. m \in Nat /\ n \in Nat
    OBVIOUS
  <2>2. ~(n < m)
    BY <1>2, <1>3, <2>1
  <2> QED
    BY <2>1, <2>2
<1> QED
  BY <1>4

\* The sorted SANs have a first one.
LEMMA FirstName ==
  ASSUME NEW N \in SUBSET Hosts, N # {}
  PROVE  \E h \in N : \A g \in N : Rank[h] <= Rank[g]
<1> DEFINE ranks == {Rank[h] : h \in N}
<1>1. ranks \in SUBSET Nat /\ ranks # {}
  OBVIOUS
<1> HIDE DEF ranks
<1>2. PICK m \in ranks : \A n \in ranks : m <= n
  BY <1>1, LeastNat
<1> QED
  BY <1>2 DEF ranks

LEMMA NoCertFacts ==
  /\ NoCert \notin Sans
  /\ \A h \in Hosts : ~isCovered(h, NoCert)
  BY DEF NoCert, Sans, isCovered

\* What requiredSANs asks mkcert for is named after a host of the project, is for
\* that project's names alone and covers every host it was asked for.
LEMMA RequiredCovers ==
  ASSUME NEW p \in Projects, NEW hs \in SUBSET Hosts, \A h \in hs : ProjectOf[h] = p
  PROVE  LET c == requiredSANs(p, hs)
         IN  /\ c \in Sans /\ c.project = p
             /\ primary(c) \in Hosts /\ ProjectOf[primary(c)] = p /\ CertFor(primary(c), c)
             /\ coversAll(c, hs)
<1> DEFINE c == requiredSANs(p, hs)
<1>1. Root[p] \in Hosts /\ Root[p] \notin Deep /\ ProjectOf[Root[p]] = p
  OBVIOUS
<1>2. CASE hs \cap Deep = {}
  <2>1. c = [project |-> p, names |-> {Root[p]}, wild |-> TRUE]
    BY <1>2 DEF requiredSANs
  <2>2. c.project = p /\ c.names = {Root[p]} /\ c.wild
    BY <2>1
  <2>3. c \in Sans
    BY <1>1, <2>1 DEF Sans
  <2>4. primary(c) = Root[p]
    BY <2>2 DEF primary
  <2> HIDE DEF c
  <2>5. coversAll(c, hs)
    <3>1. c # NoCert
      BY <2>3, NoCertFacts
    <3>2. ASSUME NEW h \in hs PROVE isCovered(h, c)
      BY <1>2, <2>2, <3>1 DEF isCovered
    <3> QED
      BY <3>2 DEF coversAll
  <2>6. CertFor(primary(c), c)
    BY <1>1, <2>2, <2>4 DEF CertFor
  <2> QED
    BY <1>1, <2>2, <2>3, <2>4, <2>5, <2>6 DEF c
<1>3. CASE hs \cap Deep # {}
  <2>1. c = [project |-> p, names |-> {Root[p]} \cup hs, wild |-> FALSE]
    BY <1>3 DEF requiredSANs
  <2>2. c.project = p /\ c.names = {Root[p]} \cup hs /\ ~c.wild
    BY <2>1
  <2>3. c \in Sans
    BY <1>1, <2>1 DEF Sans
  <2>4. primary(c) \in c.names
    <3>1. c.names \in SUBSET Hosts /\ c.names # {}
      BY <1>1, <2>2
    <3>2. \E h \in c.names : \A g \in c.names : Rank[h] <= Rank[g]
      BY <3>1, FirstName
    <3> HIDE DEF c
    <3>3. primary(c) = CHOOSE h \in c.names : \A g \in c.names : Rank[h] <= Rank[g]
      BY <2>2 DEF primary
    <3> QED
      BY <3>2, <3>3
  <2>5. coversAll(c, hs)
    BY <2>2 DEF coversAll, isCovered
  <2> HIDE DEF c
  <2>6. CertFor(primary(c), c) /\ primary(c) \in Hosts /\ ProjectOf[primary(c)] = p
    BY <1>1, <2>2, <2>4 DEF CertFor
  <2> QED
    BY <2>2, <2>3, <2>5, <2>6 DEF c
<1> QED
  BY <1>2, <1>3

\* A certificate that is for its own name covers hosts of its own project only.
LEMMA CoversOwnProject ==
  ASSUME NEW k \in Hosts, NEW c \in Sans, CertFor(k, c), NEW h \in Hosts, isCovered(h, c)
  PROVE  ProjectOf[h] = ProjectOf[k]
  BY DEF CertFor, isCovered

\* What is reused stands under the root of a project that need not be issued for.
LEMMA ReusedFacts ==
  ASSUME NEW hs \in SUBSET Hosts, NEW have \in [Hosts -> Sans \cup {NoCert}]
  PROVE  /\ Reused(hs, have) \in [Hosts -> Sans \cup {NoCert}]
         /\ \A k \in Hosts : Reused(hs, have)[k] # NoCert =>
              Reused(hs, have)[k] = have[k] /\ ProjectOf[k] \notin Inventory(hs, have)
         /\ \A p \in Projects \ Inventory(hs, have) : HostsOf(p, hs) # {} =>
              /\ Reused(hs, have)[Root[p]] # NoCert
              /\ coversAll(Reused(hs, have)[Root[p]], HostsOf(p, hs))
         /\ Inventory(hs, have) \in SUBSET Projects
<1>1. Reused(hs, have) \in [Hosts -> Sans \cup {NoCert}]
  BY DEF Reused
<1>2. ASSUME NEW k \in Hosts, Reused(hs, have)[k] # NoCert
      PROVE  Reused(hs, have)[k] = have[k] /\ ProjectOf[k] \notin Inventory(hs, have)
  BY <1>2 DEF Reused
<1>3. ASSUME NEW p \in Projects \ Inventory(hs, have), HostsOf(p, hs) # {}
      PROVE  /\ Reused(hs, have)[Root[p]] # NoCert
             /\ coversAll(Reused(hs, have)[Root[p]], HostsOf(p, hs))
  <2>1. have[Root[p]] # NoCert /\ coversAll(have[Root[p]], HostsOf(p, hs))
    BY <1>3 DEF Inventory
  <2>2. Reused(hs, have)[Root[p]] = have[Root[p]]
    BY <1>3 DEF Reused
  <2> QED
    BY <2>1, <2>2
<1>4. Inventory(hs, have) \in SUBSET Projects
  BY DEF Inventory
<1> QED
  BY <1>1, <1>2, <1>3, <1>4

(***************************************************************************)
(* Type correctness                                                        *)
(***************************************************************************)
Records == [Hosts -> Sans \cup {NoCert}]
Files(n) == [cert : Sans \cup {NoCert}, certKey : 0..n, key : 0..n]

LEMMA HostsOfType ==
  ASSUME NEW p \in Projects, NEW hs \in SUBSET Hosts
  PROVE  HostsOf(p, hs) \in SUBSET Hosts /\ \A h \in HostsOf(p, hs) : ProjectOf[h] = p
  BY DEF HostsOf

LEMMA InitTypes == Init => TypeOK
<1> SUFFICES ASSUME Init PROVE TypeOK
  OBVIOUS
<1>1. Nothing \in Records
  BY DEF Nothing, Records
<1>2. disk \in [Hosts -> Files(keys)] /\ keys \in Nat
  <2>1. keys = 0 /\ disk = [k \in Hosts |-> NoFile]
    BY DEF Init
  <2>2. NoFile \in Files(0)
    BY DEF NoFile, Files
  <2> QED
    BY <2>1, <2>2
<1>3. /\ prepared \in [Refreshers -> Records] /\ loaded \in [Refreshers -> Records]
      /\ stored \in Records /\ listener \in Records
  BY <1>1 DEF Init
<1>4. pc \in [Refreshers -> {"idle", "read", "issue", "key", "swap", "commit"}]
  BY DEF Init
<1>5. current \in [Refreshers -> {NoCert} \cup [sans : Sans, key : 1..keys]]
      /\ \A r \in Refreshers : pc[r] # "key"
  BY DEF Init
<1>6. /\ seen \in [Refreshers -> SUBSET Hosts] /\ todo \in [Refreshers -> SUBSET Projects]
      /\ erred \in [Refreshers -> BOOLEAN]
  BY DEF Init
<1>7. /\ daemon \in {"starting", "up", "failed"} /\ hosts \subseteq Hosts
      /\ ready \in BOOLEAN /\ overlapped \in BOOLEAN
  BY SnapshotsAssumption DEF Init
<1>8. rebuilds \in 0..MaxRebuilds /\ faults \in 0..MaxFaults
  BY DEF Init
<1> QED
  BY <1>2, <1>3, <1>4, <1>5, <1>6, <1>7, <1>8 DEF TypeOK, Records, Files

\* The certificate mkcert is at work on.
LEMMA CurrentType ==
  ASSUME TypeOK, NEW r \in Refreshers, pc[r] = "key"
  PROVE  current[r] \in [sans : Sans, key : 1..keys]
  BY DEF TypeOK

LEMMA RebuildTypes ==
  ASSUME TypeOK, NEW r \in Refreshers, Rebuild(r)
  PROVE  TypeOK'
<1>1. pc' \in [Refreshers -> {"idle", "read", "issue", "key", "swap", "commit"}]
      /\ \A q \in Refreshers : pc'[q] = "key" => pc[q] = "key"
  BY DEF Rebuild, Goto, TypeOK
<1>2. overlapped' \in BOOLEAN
  BY Zenon DEF Rebuild
<1>3. rebuilds' \in 0..MaxRebuilds /\ hosts' \subseteq Hosts
  BY SnapshotsAssumption DEF Rebuild, TypeOK
<1> QED
  BY <1>1, <1>2, <1>3 DEF Rebuild, TypeOK

LEMMA ReadInventoryTypes ==
  ASSUME TypeOK, NEW r \in Refreshers, ReadInventory(r)
  PROVE  TypeOK'
<1>1. hosts \in SUBSET Hosts /\ stored \in [Hosts -> Sans \cup {NoCert}]
  BY DEF TypeOK
<1>2. /\ Reused(hosts, stored) \in [Hosts -> Sans \cup {NoCert}]
      /\ Inventory(hosts, stored) \in SUBSET Projects
  BY <1>1, ReusedFacts
<1>3. pc' \in [Refreshers -> {"idle", "read", "issue", "key", "swap", "commit"}]
      /\ \A q \in Refreshers : pc'[q] = "key" => pc[q] = "key"
  BY DEF ReadInventory, Goto, TypeOK
<1>4. seen' \in [Refreshers -> SUBSET Hosts] /\ todo' \in [Refreshers -> SUBSET Projects]
  BY <1>1, <1>2 DEF ReadInventory, TypeOK
<1>5. prepared' \in [Refreshers -> [Hosts -> Sans \cup {NoCert}]]
  BY <1>2 DEF ReadInventory, TypeOK
<1>6. erred' \in [Refreshers -> BOOLEAN]
  BY DEF ReadInventory, TypeOK
<1> QED
  BY <1>3, <1>4, <1>5, <1>6 DEF ReadInventory, TypeOK, shared, bounds

LEMMA WriteCertTypes ==
  ASSUME TypeOK, NEW r \in Refreshers, NEW p \in Projects, WriteCert(r, p)
  PROVE  TypeOK'
<1> DEFINE c == requiredSANs(p, HostsOf(p, seen[r]))
<1>1. c \in Sans /\ primary(c) \in Hosts
  BY HostsOfType, RequiredCovers DEF TypeOK
<1>2. /\ pc[r] = "issue" /\ keys' = keys + 1
      /\ disk' = [disk EXCEPT ![primary(c)].cert = c, ![primary(c)].certKey = keys + 1]
      /\ current' = [current EXCEPT ![r] = [sans |-> c, key |-> keys + 1]]
      /\ todo' = [todo EXCEPT ![r] = @ \ {p}]
      /\ pc' = [pc EXCEPT ![r] = "key"]
      /\ UNCHANGED <<overlapped, daemon, hosts, stored, listener, ready, seen, prepared, erred,
                     rebuilds, faults, loaded>>
  BY DEF WriteCert, Goto
<1> HIDE DEF c
<1>3. keys \in Nat /\ keys' \in Nat
  BY <1>2 DEF TypeOK
<1>4. disk' \in [Hosts -> Files(keys')]
  <2>1. disk \in [Hosts -> Files(keys)]
    BY DEF TypeOK, Files
  <2>2. disk \in [Hosts -> Files(keys')]
    BY <1>2, <1>3, <2>1 DEF Files
  <2>3. keys + 1 \in 0..keys'
    BY <1>2, <1>3
  <2> DEFINE file == [disk[primary(c)] EXCEPT !.cert = c, !.certKey = keys + 1]
  <2>4. disk' = [disk EXCEPT ![primary(c)] = file]
    BY <1>1, <1>2, <2>2
  <2>5. disk[primary(c)] \in Files(keys')
    BY <1>1, <2>2
  <2>6. file \in Files(keys')
    BY <1>1, <2>3, <2>5 DEF Files
  <2> HIDE DEF file
  <2> QED
    BY <1>1, <2>2, <2>4, <2>6
<1>5. current' \in [Refreshers -> {NoCert} \cup [sans : Sans, key : 1..keys']]
  <2>1. current \in [Refreshers -> {NoCert} \cup [sans : Sans, key : 1..keys']]
    BY <1>2, <1>3 DEF TypeOK
  <2>2. [sans |-> c, key |-> keys + 1] \in [sans : Sans, key : 1..keys']
    BY <1>1, <1>2, <1>3
  <2> QED
    BY <1>2, <2>1, <2>2
<1>6. ASSUME NEW q \in Refreshers, pc'[q] = "key" PROVE current'[q] # NoCert
  <2>1. CASE q = r
    <3>1. current'[q] = [sans |-> c, key |-> keys + 1]
      BY <1>2, <2>1 DEF TypeOK
    <3> QED
      BY SMTT(30), <3>1 DEF NoCert
  <2>2. CASE q # r
    BY <1>2, <1>6, <2>2 DEF TypeOK
  <2> QED
    BY <2>1, <2>2
<1>7. todo' \in [Refreshers -> SUBSET Projects]
      /\ pc' \in [Refreshers -> {"idle", "read", "issue", "key", "swap", "commit"}]
  BY <1>2 DEF TypeOK
<1> QED
  BY <1>2, <1>3, <1>4, <1>5, <1>6, <1>7 DEF TypeOK, Files

LEMMA WriteKeyTypes ==
  ASSUME TypeOK, NEW r \in Refreshers, WriteKey(r), primary(current[r].sans) \in Hosts
  PROVE  TypeOK'
<1> DEFINE c == current[r].sans
<1>1. pc[r] = "key" /\ UNCHANGED keys
  BY DEF WriteKey, bounds
<1>2. c \in Sans /\ current[r].key \in 0..keys
  BY <1>1, CurrentType
<1>3. /\ disk' = [disk EXCEPT ![primary(c)].key = current[r].key]
      /\ prepared' = [prepared EXCEPT ![r][primary(c)] = c]
      /\ current' = [current EXCEPT ![r] = NoCert]
      /\ pc' = [pc EXCEPT ![r] = "issue"]
      /\ UNCHANGED <<overlapped, daemon, hosts, stored, listener, ready, seen, todo, erred, bounds,
                     loaded>>
  BY DEF WriteKey, Goto
<1>4. disk' \in [Hosts -> Files(keys')]
  <2>1. disk \in [Hosts -> Files(keys)]
    BY DEF TypeOK, Files
  <2> DEFINE file == [disk[primary(c)] EXCEPT !.key = current[r].key]
  <2>2. disk' = [disk EXCEPT ![primary(c)] = file]
    BY <1>3, <2>1
  <2>3. disk[primary(c)] \in Files(keys)
    BY <2>1
  <2>4. file \in Files(keys)
    BY <1>2, <2>3 DEF Files
  <2> HIDE DEF file
  <2> QED
    BY <1>1, <2>1, <2>2, <2>4
<1>5. prepared' \in [Refreshers -> [Hosts -> Sans \cup {NoCert}]]
  BY <1>2, <1>3 DEF TypeOK
<1>6. current' \in [Refreshers -> {NoCert} \cup [sans : Sans, key : 1..keys']]
      /\ \A q \in Refreshers : pc'[q] = "key" => current'[q] # NoCert
  BY <1>1, <1>3 DEF TypeOK
<1>7. pc' \in [Refreshers -> {"idle", "read", "issue", "key", "swap", "commit"}]
  BY <1>3 DEF TypeOK
<1> QED
  BY <1>3, <1>4, <1>5, <1>6, <1>7 DEF TypeOK, Files, bounds

LEMMA IssueFailsTypes ==
  ASSUME TypeOK, NEW r \in Refreshers, IssueFails(r)
  PROVE  TypeOK'
<1>1. faults' \in 0..MaxFaults
  <2>1. faults \in 0..MaxFaults /\ faults < MaxFaults /\ faults' = faults + 1
    BY DEF IssueFails, TypeOK
  <2> QED
    BY <2>1
<1>2. erred' \in [Refreshers -> BOOLEAN]
  BY DEF IssueFails, TypeOK
<1>3. todo' \in [Refreshers -> SUBSET Projects]
  <2>1. todo \in [Refreshers -> SUBSET Projects]
    BY DEF TypeOK
  <2>2. UNCHANGED todo \/ \E p : todo' = [todo EXCEPT ![r] = @ \ {p}]
    BY DEF IssueFails
  <2> QED
    BY <2>1, <2>2
<1>4. /\ pc' \in [Refreshers -> {"idle", "read", "issue", "key", "swap", "commit"}]
      /\ current' \in [Refreshers -> {NoCert} \cup [sans : Sans, key : 1..keys]]
      /\ \A q \in Refreshers : pc'[q] = "key" => current'[q] # NoCert
  BY ZenonT(30) DEF IssueFails, TypeOK, Goto
<1> QED
  BY <1>1, <1>2, <1>3, <1>4 DEF IssueFails, TypeOK, shared

LEMMA EndTypes ==
  ASSUME TypeOK, NEW r \in Refreshers, Load(r) \/ Swap(r) \/ GiveUp(r) \/ Commit(r)
  PROVE  TypeOK'
<1>1. /\ pc' \in [Refreshers -> {"idle", "read", "issue", "key", "swap", "commit"}]
      /\ \A q \in Refreshers : pc'[q] = "key" => pc[q] = "key"
  BY DEF Load, Swap, GiveUp, Commit, Goto, TypeOK
<1>2. CASE Load(r)
  <2>1. loaded' \in [Refreshers -> [Hosts -> Sans \cup {NoCert}]]
    <3>1. \A k \in Hosts : disk[k].cert \in Sans \cup {NoCert}
      BY DEF TypeOK
    <3> QED
      BY <1>2, <3>1 DEF Load, TypeOK
  <2> QED
    BY <1>1, <1>2, <2>1 DEF Load, TypeOK, bounds, shared
<1>5. CASE Swap(r)
  <2>1. Nothing \in [Hosts -> Sans \cup {NoCert}]
    BY DEF Nothing
  <2>2. listener' \in [Hosts -> Sans \cup {NoCert}]
    BY <1>5 DEF Swap, TypeOK
  <2>3. loaded' \in [Refreshers -> [Hosts -> Sans \cup {NoCert}]]
    BY <1>5, <2>1 DEF Swap, TypeOK
  <2> QED
    BY <1>1, <1>5, <2>2, <2>3 DEF Swap, TypeOK, bounds
<1>3. CASE GiveUp(r)
  BY <1>1, <1>3 DEF GiveUp, TypeOK, bounds
<1>4. CASE Commit(r)
  <2>1. ready' \in BOOLEAN
    BY <1>4, Zenon DEF Commit
  <2>2. stored' \in [Hosts -> Sans \cup {NoCert}]
    BY <1>4 DEF Commit, TypeOK
  <2> QED
    BY <1>1, <1>4, <2>1, <2>2 DEF Commit, TypeOK, bounds
<1> QED
  BY <1>2, <1>3, <1>4, <1>5

(***************************************************************************)
(* The invariant is inductive: one lemma per action                        *)
(***************************************************************************)
\* Where the goroutines stand after r has moved.
LEMMA Moved ==
  ASSUME TypeOK, NEW r \in Refreshers, NEW l, Goto(r, l)
  PROVE  pc'[r] = l /\ \A q \in Refreshers \ {r} : pc'[q] = pc[q]
  BY DEF TypeOK, Goto

\* A goroutine that is refreshing has nobody beside it, unless refreshes overlapped.
LEMMA Alone ==
  ASSUME SoleInv, ~overlapped, NEW r \in Refreshers, pc[r] # "idle"
  PROVE  /\ \A q \in Refreshers \ {r} : pc[q] = "idle"
         /\ Refreshing(r) => seen[r] = hosts
  BY DEF SoleInv

\* What a refresh has prepared rests on its own locals.
LEMMA PreparedFrame ==
  ASSUME NEW q \in Refreshers, PreparedInv(q),
         pc'[q] = pc[q], seen'[q] = seen[q], todo'[q] = todo[q], current'[q] = current[q],
         prepared'[q] = prepared[q], erred'[q] = erred[q]
  PROVE  PreparedInv(q)'
  BY DEF PreparedInv, Refreshing, Issuing

LEMMA Initially == Init => CertInv
<1> SUFFICES ASSUME Init PROVE CertInv
  OBVIOUS
<1>1. TypeOK
  BY InitTypes
<1>2. /\ \A k \in Hosts : stored[k] = NoCert /\ listener[k] = NoCert
      /\ \A k \in Hosts : disk[k].cert = NoCert
      /\ \A r \in Refreshers, k \in Hosts : prepared[r][k] = NoCert /\ loaded[r][k] = NoCert
      /\ stored = listener
  BY DEF Init, Nothing, NoFile
<1>3. /\ \A r \in Refreshers : pc[r] \in {"idle", "read"} /\ ~erred[r]
      /\ \A r \in Refreshers : pc[r] # "idle" => r = Starter
      /\ pc[Starter] = "read" /\ faults = 0 /\ ~overlapped /\ daemon = "starting"
  BY DEF Init
<1>4. \A r \in Refreshers : ~Refreshing(r)
  BY <1>3 DEF Refreshing
<1>5. OwnInv
  BY <1>2 DEF OwnInv, Own
<1>6. ASSUME NEW r \in Refreshers PROVE PreparedInv(r)
  BY <1>3, <1>4 DEF PreparedInv
<1>7. SoleInv /\ FaultInv
  BY <1>3, <1>4 DEF SoleInv, FaultInv
<1>8. DiskInv
  BY <1>2, <1>3, <1>4 DEF DiskInv
<1>9. ServedInv
  BY <1>2, <1>3, <1>4 DEF ServedInv, Quiescent
<1> QED
  BY <1>1, <1>5, <1>6, <1>7, <1>8, <1>9 DEF CertInv

LEMMA RebuildKeeps ==
  ASSUME CertInv, NEW r \in Refreshers, Rebuild(r)
  PROVE  CertInv'
<1> USE DEF CertInv
<1>1. TypeOK'
  BY RebuildTypes
<1>2. /\ pc'[r] = "read" /\ \A q \in Refreshers \ {r} : pc'[q] = pc[q]
      /\ pc[r] = "idle" /\ daemon = "up" /\ daemon' = "up"
  BY Moved DEF Rebuild
<1>3. UNCHANGED <<stored, disk, listener, ready, seen, todo, current, prepared, erred, faults, loaded>>
  BY DEF Rebuild
<1>4. ~overlapped' => ~overlapped /\ \A q \in Refreshers : pc[q] = "idle"
  BY DEF Rebuild
<1>5. OwnInv'
  BY <1>3 DEF OwnInv, Own
<1>6. ASSUME NEW q \in Refreshers PROVE PreparedInv(q)'
  <2>1. CASE q = r
    BY <1>2, <2>1 DEF PreparedInv, Refreshing
  <2>2. CASE q # r
    BY <1>2, <1>3, <2>2, PreparedFrame
  <2> QED
    BY <2>1, <2>2
<1>7. SoleInv'
  BY <1>2, <1>4 DEF SoleInv, Refreshing
<1>8. FaultInv'
  BY <1>2, <1>3 DEF FaultInv
<1>9. DiskInv'
  BY <1>2, <1>3, <1>4 DEF DiskInv, OnDisk, Undisturbed, Refreshing
<1>10. ServedInv'
  BY <1>2, <1>3, <1>4 DEF ServedInv, Undisturbed, Quiescent
<1> QED
  BY <1>1, <1>5, <1>6, <1>7, <1>8, <1>9, <1>10

LEMMA ReadInventoryKeeps ==
  ASSUME CertInv, NEW r \in Refreshers, ReadInventory(r)
  PROVE  CertInv'
<1> USE DEF CertInv
<1>1. TypeOK'
  BY ReadInventoryTypes
<1>2. /\ pc'[r] = "issue" /\ \A q \in Refreshers \ {r} : pc'[q] = pc[q]
      /\ pc[r] = "read"
  BY Moved DEF ReadInventory
<1>3. /\ seen'[r] = hosts /\ todo'[r] = Inventory(hosts, stored)
      /\ prepared'[r] = Reused(hosts, stored) /\ ~erred'[r]
      /\ \A q \in Refreshers \ {r} :
           /\ seen'[q] = seen[q] /\ todo'[q] = todo[q]
           /\ prepared'[q] = prepared[q] /\ erred'[q] = erred[q]
  BY DEF ReadInventory, TypeOK
<1>4. UNCHANGED <<daemon, hosts, stored, disk, listener, ready, overlapped, current, faults, loaded>>
  BY DEF ReadInventory, shared, bounds
<1> DEFINE Kept == Reused(hosts, stored)
<1>5. /\ \A k \in Hosts : Kept[k] # NoCert =>
           Kept[k] = stored[k] /\ ProjectOf[k] \notin Inventory(hosts, stored)
      /\ \A p \in Projects \ Inventory(hosts, stored) : HostsOf(p, hosts) # {} =>
           Root[p] \in Hosts /\ Kept[Root[p]] # NoCert /\ coversAll(Kept[Root[p]], HostsOf(p, hosts))
  <2>1. hosts \in SUBSET Hosts /\ stored \in [Hosts -> Sans \cup {NoCert}]
    BY DEF TypeOK
  <2>2. \A p \in Projects : Root[p] \in Hosts
    OBVIOUS
  <2>3. /\ \A k \in Hosts : Kept[k] # NoCert =>
             Kept[k] = stored[k] /\ ProjectOf[k] \notin Inventory(hosts, stored)
        /\ \A p \in Projects \ Inventory(hosts, stored) : HostsOf(p, hosts) # {} =>
             Kept[Root[p]] # NoCert /\ coversAll(Kept[Root[p]], HostsOf(p, hosts))
    BY <2>1, ReusedFacts, Zenon
  <2> HIDE DEF Kept
  <2> QED
    BY <2>2, <2>3
<1> HIDE DEF Kept
<1>6. prepared'[r] = Kept
  BY <1>3 DEF Kept
<1>7. OwnInv'
  <2>1. Own(Kept)
    BY <1>5 DEF OwnInv, Own
  <2>2. ASSUME NEW q \in Refreshers PROVE Own(prepared'[q])
    BY <1>3, <1>6, <2>1 DEF OwnInv
  <2> QED
    BY <1>4, <2>2 DEF OwnInv, Own
<1>8. ASSUME NEW q \in Refreshers PROVE PreparedInv(q)'
  <2>1. CASE q = r
    BY <1>2, <1>3, <1>5, <1>6, <2>1 DEF PreparedInv, Refreshing, Issuing
  <2>2. CASE q # r
    BY <1>2, <1>3, <1>4, <2>2, PreparedFrame
  <2> QED
    BY <2>1, <2>2
<1>9. SoleInv'
  BY <1>2, <1>3, <1>4 DEF SoleInv, Refreshing
<1>10. FaultInv'
  <2>1. daemon = "starting" => r = Starter /\ faults = 0 /\ ~overlapped
    BY <1>2 DEF FaultInv, SoleInv
  <2> QED
    BY <1>2, <1>3, <1>4, <2>1 DEF FaultInv
<1>11. ~overlapped => \A q \in Refreshers \ {r} : pc[q] = "idle" /\ pc'[q] = "idle"
  BY <1>2, Alone
<1>12. DiskInv'
  <2> SUFFICES ASSUME Undisturbed' PROVE DiskInv'
    BY DEF DiskInv
  <2>1. Undisturbed /\ \A q \in Refreshers \ {r} : pc[q] = "idle" /\ pc'[q] = "idle"
    BY <1>4, <1>11 DEF Undisturbed
  <2>2. \A k \in Hosts : stored[k] # NoCert => OnDisk(k, stored[k])
    BY <1>2, <2>1 DEF DiskInv, Refreshing
  <2>3. \A k \in Hosts : prepared'[r][k] # NoCert => OnDisk(k, prepared[r][k])'
    BY <1>4, <1>5, <1>6, <2>2 DEF OnDisk
  <2> QED
    BY <1>2, <2>1, <2>3 DEF DiskInv, Refreshing
<1>13. ServedInv'
  BY <1>2, <1>3, <1>4, <1>11 DEF ServedInv, Undisturbed, Quiescent
<1> QED
  BY <1>1, <1>7, <1>8, <1>9, <1>10, <1>12, <1>13

\* The certificate file mkcert writes, and no other file.
LEMMA WriteCertDisk ==
  ASSUME TypeOK, NEW r \in Refreshers, NEW p \in Projects, WriteCert(r, p)
  PROVE  LET c == requiredSANs(p, HostsOf(p, seen[r]))
             name == primary(c)
         IN  /\ c \in Sans /\ c.project = p /\ CertFor(name, c)
             /\ name \in Hosts /\ ProjectOf[name] = p
             /\ disk'[name].cert = c /\ disk'[name].certKey = keys + 1
             /\ \A k \in Hosts \ {name} : disk'[k] = disk[k]
<1> DEFINE c == requiredSANs(p, HostsOf(p, seen[r]))
           name == primary(c)
<1>1. c \in Sans /\ c.project = p /\ CertFor(name, c) /\ name \in Hosts /\ ProjectOf[name] = p
  BY HostsOfType, RequiredCovers DEF TypeOK
<1>2. disk' = [disk EXCEPT ![name].cert = c, ![name].certKey = keys + 1]
  BY DEF WriteCert
<1> HIDE DEF c, name
<1>3. disk \in [Hosts -> Files(keys)]
  BY DEF TypeOK, Files
<1>4. disk[name] \in Files(keys)
  BY <1>1, <1>3
<1>5. disk' = [disk EXCEPT ![name] = [disk[name] EXCEPT !.cert = c, !.certKey = keys + 1]]
  BY <1>1, <1>2, <1>3
<1>6. disk'[name] = [disk[name] EXCEPT !.cert = c, !.certKey = keys + 1]
      /\ \A k \in Hosts \ {name} : disk'[k] = disk[k]
  BY <1>1, <1>3, <1>5
<1>7. disk'[name].cert = c /\ disk'[name].certKey = keys + 1
  BY <1>4, <1>6 DEF Files
<1> QED
  BY <1>1, <1>6, <1>7 DEF c, name

LEMMA WriteCertKeeps ==
  ASSUME CertInv, NEW r \in Refreshers, NEW p \in Projects, WriteCert(r, p)
  PROVE  CertInv'
<1> USE DEF CertInv
<1>1. TypeOK'
  BY WriteCertTypes
<1> DEFINE c == requiredSANs(p, HostsOf(p, seen[r]))
           name == primary(c)
<1>2. /\ pc'[r] = "key" /\ \A q \in Refreshers \ {r} : pc'[q] = pc[q]
      /\ pc[r] = "issue"
  BY Moved DEF WriteCert
<1>3. /\ p \in todo[r] /\ todo'[r] = todo[r] \ {p}
      /\ current'[r].sans = c /\ current'[r].key = keys + 1
      /\ \A q \in Refreshers \ {r} : todo'[q] = todo[q] /\ current'[q] = current[q]
  BY DEF WriteCert, TypeOK
<1>4. UNCHANGED <<daemon, hosts, stored, listener, ready, overlapped, seen, prepared, erred, faults, loaded>>
  BY DEF WriteCert
<1>5. /\ c.project = p /\ CertFor(name, c) /\ name \in Hosts /\ ProjectOf[name] = p
      /\ disk'[name].cert = c /\ disk'[name].certKey = keys + 1
      /\ \A k \in Hosts \ {name} : disk'[k] = disk[k]
  BY WriteCertDisk
<1>6. c = requiredSANs(p, HostsOf(p, seen'[r])) /\ name = primary(c)
  BY <1>4
<1> HIDE DEF c, name
<1>7. OwnInv'
  <2>1. \A k \in Hosts : disk'[k].cert # NoCert => CertFor(k, disk'[k].cert)
    BY <1>5 DEF OwnInv
  <2> QED
    BY <1>4, <2>1 DEF OwnInv, Own
<1>8. \A k \in Hosts : prepared[r][k] # NoCert => ProjectOf[k] \notin todo[r] /\ k # name
  BY <1>2, <1>3, <1>5 DEF PreparedInv, Refreshing
<1>9. ASSUME NEW q \in Refreshers PROVE PreparedInv(q)'
  <2>1. CASE q = r
    <3>1. \A k \in Hosts : prepared'[r][k] # NoCert =>
            ProjectOf[k] \notin todo'[r] /\ ~Issuing(r, ProjectOf[k])'
      BY <1>3, <1>4, <1>5, <1>8 DEF Issuing
    <3>2. ASSUME NEW o \in Projects, HostsOf(o, seen[r]) # {}
          PROVE  \/ erred'[r] \/ o \in todo'[r] \/ Issuing(r, o)'
                 \/ \E k \in Hosts : /\ ProjectOf[k] = o /\ prepared'[r][k] # NoCert
                                     /\ coversAll(prepared'[r][k], HostsOf(o, seen'[r]))
      BY <1>2, <1>3, <1>4, <1>5, <3>2 DEF PreparedInv, Refreshing, Issuing
    <3>3. current'[r].sans.project = p
      BY <1>3, <1>5
    <3> QED
      BY <1>2, <1>3, <1>4, <1>6, <2>1, <3>1, <3>2, <3>3 DEF PreparedInv
  <2>2. CASE q # r
    BY <1>2, <1>3, <1>4, <2>2, PreparedFrame
  <2> QED
    BY <2>1, <2>2
<1>10. SoleInv' /\ FaultInv'
  BY <1>2, <1>4 DEF SoleInv, FaultInv, Refreshing
<1>11. ~overlapped => \A q \in Refreshers \ {r} : pc[q] = "idle" /\ pc'[q] = "idle"
  BY <1>2, Alone
<1>12. DiskInv'
  <2> SUFFICES ASSUME Undisturbed' PROVE DiskInv'
    BY DEF DiskInv
  <2>1. Undisturbed /\ \A q \in Refreshers \ {r} : pc[q] = "idle" /\ pc'[q] = "idle"
    BY <1>4, <1>11 DEF Undisturbed
  <2>2. \A k \in Hosts : prepared[r][k] # NoCert => OnDisk(k, prepared[r][k])
    BY <1>2, <2>1 DEF DiskInv, Refreshing
  <2>3. \A k \in Hosts : prepared'[r][k] # NoCert => OnDisk(k, prepared[r][k])'
    BY <1>4, <1>5, <1>8, <2>2 DEF OnDisk
  <2>4. /\ disk'[primary(current'[r].sans)].cert = current'[r].sans
        /\ disk'[primary(current'[r].sans)].certKey = current'[r].key
    BY <1>3, <1>5, <1>6
  <2> QED
    BY <1>2, <2>1, <2>3, <2>4 DEF DiskInv, Refreshing
<1>13. ServedInv'
  BY <1>2, <1>3, <1>4 DEF ServedInv, Undisturbed, Quiescent
<1> QED
  BY <1>1, <1>7, <1>9, <1>10, <1>12, <1>13

\* The certificate mkcert is at work on is filed under a name of its project.
LEMMA CurrentFacts ==
  ASSUME CertInv, NEW r \in Refreshers, pc[r] = "key"
  PROVE  LET c == current[r].sans
             name == primary(c)
         IN  /\ c \in Sans /\ current[r].key \in 1..keys /\ c.project \notin todo[r]
             /\ CertFor(name, c) /\ name \in Hosts /\ ProjectOf[name] = c.project
             /\ coversAll(c, HostsOf(c.project, seen[r]))
<1> DEFINE c == current[r].sans
<1>1. c \in Sans /\ current[r].key \in 1..keys
  BY CurrentType DEF CertInv
<1>2. c = requiredSANs(c.project, HostsOf(c.project, seen[r])) /\ c.project \notin todo[r]
  BY DEF CertInv, PreparedInv
<1>3. c.project \in Projects
  BY <1>1 DEF Sans
<1>4. seen[r] \in SUBSET Hosts
  BY DEF CertInv, TypeOK
<1> HIDE DEF c
<1>5. LET d == requiredSANs(c.project, HostsOf(c.project, seen[r]))
      IN  /\ CertFor(primary(d), d) /\ primary(d) \in Hosts /\ ProjectOf[primary(d)] = c.project
          /\ coversAll(d, HostsOf(c.project, seen[r]))
  BY <1>3, <1>4, HostsOfType, RequiredCovers
<1> QED
  BY <1>1, <1>2, <1>5 DEF c

\* The key file mkcert writes, and no other file; the record under its name.
LEMMA WriteKeyEffect ==
  ASSUME TypeOK, NEW r \in Refreshers, WriteKey(r), primary(current[r].sans) \in Hosts
  PROVE  LET name == primary(current[r].sans)
         IN  /\ disk'[name].cert = disk[name].cert /\ disk'[name].certKey = disk[name].certKey
             /\ disk'[name].key = current[r].key
             /\ prepared'[r][name] = current[r].sans
             /\ \A k \in Hosts \ {name} : disk'[k] = disk[k] /\ prepared'[r][k] = prepared[r][k]
             /\ \A q \in Refreshers \ {r} : prepared'[q] = prepared[q]
<1> DEFINE name == primary(current[r].sans)
<1>1. /\ disk' = [disk EXCEPT ![name].key = current[r].key]
      /\ prepared' = [prepared EXCEPT ![r][name] = current[r].sans]
  BY DEF WriteKey
<1>2. name \in Hosts
  OBVIOUS
<1> HIDE DEF name
<1>3. disk \in [Hosts -> Files(keys)]
  BY DEF TypeOK, Files
<1>4. disk[name] \in Files(keys)
  BY <1>2, <1>3
<1>5. disk'[name] = [disk[name] EXCEPT !.key = current[r].key]
      /\ \A k \in Hosts \ {name} : disk'[k] = disk[k]
  BY <1>1, <1>2, <1>3
<1>6. /\ disk'[name].cert = disk[name].cert /\ disk'[name].certKey = disk[name].certKey
      /\ disk'[name].key = current[r].key
  BY <1>4, <1>5 DEF Files
<1>7. prepared \in [Refreshers -> Records]
  BY DEF TypeOK, Records
<1>8. /\ prepared'[r][name] = current[r].sans
      /\ \A k \in Hosts \ {name} : prepared'[r][k] = prepared[r][k]
      /\ \A q \in Refreshers \ {r} : prepared'[q] = prepared[q]
  BY <1>1, <1>2, <1>7 DEF Records
<1> QED
  BY <1>5, <1>6, <1>8 DEF name

LEMMA WriteKeyKeeps ==
  ASSUME CertInv, NEW r \in Refreshers, WriteKey(r)
  PROVE  CertInv'
<1> USE DEF CertInv
<1> DEFINE c == current[r].sans
           name == primary(c)
<1>1. /\ pc'[r] = "issue" /\ \A q \in Refreshers \ {r} : pc'[q] = pc[q]
      /\ pc[r] = "key"
  BY Moved DEF WriteKey
<1>2. /\ current[r].key \in 1..keys /\ c.project \notin todo[r]
      /\ CertFor(name, c) /\ name \in Hosts /\ ProjectOf[name] = c.project
      /\ coversAll(c, HostsOf(c.project, seen[r])) /\ c # NoCert
  BY <1>1, CurrentFacts, NoCertFacts
<1>3. TypeOK'
  BY <1>2, WriteKeyTypes
<1>4. /\ disk'[name].cert = disk[name].cert /\ disk'[name].certKey = disk[name].certKey
      /\ disk'[name].key = current[r].key /\ prepared'[r][name] = c
      /\ \A k \in Hosts \ {name} : disk'[k] = disk[k] /\ prepared'[r][k] = prepared[r][k]
      /\ \A q \in Refreshers \ {r} : prepared'[q] = prepared[q]
  BY <1>2, WriteKeyEffect
<1>5. \A q \in Refreshers \ {r} : current'[q] = current[q]
  BY DEF WriteKey, TypeOK
<1>6. UNCHANGED <<daemon, hosts, stored, listener, ready, overlapped, seen, todo, erred, faults, keys, loaded>>
  BY DEF WriteKey, bounds
<1>7. Undisturbed => disk[name].cert = c /\ disk[name].certKey = current[r].key
  BY <1>1 DEF DiskInv
<1>8. \A q \in Refreshers : PreparedInv(q)
  OBVIOUS
<1>9. ASSUME NEW p \in Projects PROVE Issuing(r, p) => p = c.project
  BY DEF Issuing
<1> HIDE DEF c, name
<1>10. OwnInv'
  <2>1. \A k \in Hosts : disk'[k].cert # NoCert => CertFor(k, disk'[k].cert)
    BY <1>4 DEF OwnInv
  <2>2. Own(prepared'[r])
    BY <1>2, <1>4 DEF OwnInv, Own
  <2>3. \A q \in Refreshers : Own(prepared'[q])
    BY <1>4, <2>2 DEF OwnInv
  <2> QED
    BY <1>6, <2>1, <2>3 DEF OwnInv, Own
<1>11. ASSUME NEW q \in Refreshers PROVE PreparedInv(q)'
  <2>1. CASE q = r
    <3>1. \A k \in Hosts : prepared'[r][k] # NoCert =>
            ProjectOf[k] \notin todo'[r] /\ ~Issuing(r, ProjectOf[k])'
      <4>1. \A k \in Hosts : prepared[r][k] # NoCert => ProjectOf[k] \notin todo[r]
        BY <1>1, <1>8 DEF PreparedInv, Refreshing
      <4> QED
        BY <1>1, <1>2, <1>4, <1>6, <4>1 DEF Issuing
    <3>2. ASSUME NEW p \in Projects, HostsOf(p, seen[r]) # {}
          PROVE  \/ erred'[r] \/ p \in todo'[r]
                 \/ \E k \in Hosts : /\ ProjectOf[k] = p /\ prepared'[r][k] # NoCert
                                     /\ coversAll(prepared'[r][k], HostsOf(p, seen'[r]))
      <4>1. CASE p = c.project
        BY <1>2, <1>4, <1>6, <4>1
      <4>2. CASE p # c.project
        <5>1. \/ erred[r] \/ p \in todo[r]
              \/ \E k \in Hosts : /\ ProjectOf[k] = p /\ prepared[r][k] # NoCert
                                  /\ coversAll(prepared[r][k], HostsOf(p, seen[r]))
          BY <1>1, <1>8, <1>9, <3>2, <4>2 DEF PreparedInv, Refreshing
        <5> QED
          BY <1>2, <1>4, <1>6, <4>2, <5>1
      <4> QED
        BY <4>1, <4>2
    <3> QED
      BY <1>1, <1>6, <2>1, <3>1, <3>2 DEF PreparedInv
  <2>2. CASE q # r
    BY <1>1, <1>4, <1>5, <1>6, <1>8, <2>2, PreparedFrame
  <2> QED
    BY <2>1, <2>2
<1>12. SoleInv' /\ FaultInv'
  BY <1>1, <1>6 DEF SoleInv, FaultInv, Refreshing
<1>13. ~overlapped => \A q \in Refreshers \ {r} : pc[q] = "idle" /\ pc'[q] = "idle"
  BY <1>1, Alone
<1>14. DiskInv'
  <2> SUFFICES ASSUME Undisturbed' PROVE DiskInv'
    BY DEF DiskInv
  <2>1. Undisturbed /\ \A q \in Refreshers \ {r} : pc[q] = "idle" /\ pc'[q] = "idle"
    BY <1>6, <1>13 DEF Undisturbed
  <2>2. \A k \in Hosts : prepared[r][k] # NoCert => OnDisk(k, prepared[r][k])
    BY <1>1, <2>1 DEF DiskInv, Refreshing
  <2>3. \A k \in Hosts : prepared'[r][k] # NoCert => OnDisk(k, prepared[r][k])'
    <3>1. /\ disk'[name].cert = prepared'[r][name]
          /\ disk'[name].key # 0 /\ disk'[name].certKey = disk'[name].key
      BY <1>2, <1>4, <1>7, <2>1
    <3> QED
      BY <1>4, <2>2, <3>1 DEF OnDisk
  <2> QED
    BY <1>1, <2>1, <2>3 DEF DiskInv, Refreshing
<1>15. ServedInv'
  <2> SUFFICES ASSUME Undisturbed' PROVE ServedInv'
    BY DEF ServedInv
  <2>1. Undisturbed /\ \A q \in Refreshers \ {r} : pc[q] = "idle" /\ pc'[q] = "idle"
    BY <1>6, <1>13 DEF Undisturbed
  <2> QED
    BY <1>1, <1>6, <2>1 DEF ServedInv, Quiescent
<1> QED
  BY <1>3, <1>10, <1>11, <1>12, <1>14, <1>15

LEMMA IssueFailsKeeps ==
  ASSUME CertInv, NEW r \in Refreshers, IssueFails(r)
  PROVE  CertInv'
<1> USE DEF CertInv
<1>1. TypeOK'
  BY IssueFailsTypes
<1>2. /\ pc'[r] = "issue" /\ \A q \in Refreshers \ {r} : pc'[q] = pc[q] /\ current'[q] = current[q]
      /\ pc[r] \in {"issue", "key"}
  BY DEF IssueFails, Goto, TypeOK
<1>3. /\ todo'[r] \subseteq todo[r] /\ \A q \in Refreshers \ {r} : todo'[q] = todo[q]
  <2>1. todo \in [Refreshers -> SUBSET Projects]
    BY DEF TypeOK
  <2>2. UNCHANGED todo \/ \E p : todo' = [todo EXCEPT ![r] = @ \ {p}]
    BY DEF IssueFails
  <2> QED
    BY <2>1, <2>2
<1>4. erred'[r] /\ \A q \in Refreshers \ {r} : erred'[q] = erred[q]
  BY DEF IssueFails, TypeOK
<1>5. UNCHANGED <<daemon, hosts, stored, disk, listener, ready, overlapped, seen, prepared, loaded>>
  BY DEF IssueFails, shared
<1>6. ~Undisturbed' /\ faults' # 0
  BY DEF IssueFails, TypeOK, Undisturbed
<1>7. OwnInv'
  BY <1>5 DEF OwnInv, Own
<1>8. ASSUME NEW q \in Refreshers PROVE PreparedInv(q)'
  <2>1. CASE q = r
    <3>1. \A k \in Hosts : prepared[r][k] # NoCert => ProjectOf[k] \notin todo[r]
      BY <1>2 DEF PreparedInv, Refreshing
    <3> QED
      BY <1>2, <1>3, <1>4, <1>5, <2>1, <3>1 DEF PreparedInv, Issuing
  <2>2. CASE q # r
    BY <1>2, <1>3, <1>4, <1>5, <2>2, PreparedFrame
  <2> QED
    BY <2>1, <2>2
<1>9. SoleInv'
  BY <1>2, <1>5 DEF SoleInv, Refreshing
<1>10. FaultInv'
  <2>1. daemon = "starting" => r = Starter /\ ~overlapped
    BY <1>2 DEF FaultInv, SoleInv
  <2> QED
    BY <1>2, <1>4, <1>5, <1>6, <2>1 DEF FaultInv
<1>11. DiskInv' /\ ServedInv'
  BY <1>6 DEF DiskInv, ServedInv
<1> QED
  BY <1>1, <1>7, <1>8, <1>9, <1>10, <1>11

LEMMA LoadKeeps ==
  ASSUME CertInv, NEW r \in Refreshers, Load(r)
  PROVE  CertInv'
<1> USE DEF CertInv
<1>1. TypeOK'
  BY EndTypes
<1>2. /\ pc'[r] = "swap" /\ \A q \in Refreshers \ {r} : pc'[q] = pc[q]
      /\ pc[r] = "issue" /\ todo[r] = {} /\ ~erred[r]
  BY Moved DEF Load, Issued
<1>3. /\ loaded'[r] = [k \in Hosts |-> IF prepared[r][k] = NoCert THEN NoCert ELSE disk[k].cert]
      /\ \A q \in Refreshers \ {r} : loaded'[q] = loaded[q]
  BY DEF Load, TypeOK
<1>4. UNCHANGED <<daemon, hosts, stored, disk, listener, ready, overlapped, seen, todo, current,
                  prepared, erred, faults>>
  BY DEF Load, bounds, shared
<1>5. OwnInv'
  <2>1. Own(loaded'[r])
    BY <1>3 DEF OwnInv, Own
  <2>2. \A q \in Refreshers : Own(loaded'[q])
    BY <1>3, <2>1 DEF OwnInv
  <2> QED
    BY <1>4, <2>2 DEF OwnInv, Own
<1>6. ASSUME NEW q \in Refreshers PROVE PreparedInv(q)'
  <2>1. CASE q = r
    BY <1>2, <1>4, <2>1 DEF PreparedInv, Refreshing, Issuing
  <2>2. CASE q # r
    BY <1>2, <1>4, <2>2, PreparedFrame
  <2> QED
    BY <2>1, <2>2
<1>7. SoleInv' /\ FaultInv'
  BY <1>2, <1>4 DEF SoleInv, FaultInv, Refreshing
<1>8. ~overlapped => \A q \in Refreshers \ {r} : pc[q] = "idle" /\ pc'[q] = "idle"
  BY <1>2, Alone
<1>9. DiskInv'
  BY <1>2, <1>4 DEF DiskInv, OnDisk, Undisturbed, Refreshing
<1>10. ServedInv'
  <2> SUFFICES ASSUME Undisturbed' PROVE ServedInv'
    BY DEF ServedInv
  <2>1. Undisturbed /\ \A q \in Refreshers \ {r} : pc[q] = "idle" /\ pc'[q] = "idle"
    BY <1>4, <1>8 DEF Undisturbed
  <2>2. \A k \in Hosts : prepared[r][k] # NoCert => disk[k].cert = prepared[r][k]
    BY <1>2, <2>1 DEF DiskInv, OnDisk, Refreshing
  <2>3. prepared[r] \in [Hosts -> Sans \cup {NoCert}]
    BY DEF TypeOK
  <2>4. loaded'[r] = prepared'[r]
    BY <1>3, <1>4, <2>2, <2>3
  <2>5. stored' = listener'
    BY <1>2, <1>4, <2>1 DEF ServedInv
  <2> QED
    BY <1>2, <2>1, <2>4, <2>5 DEF ServedInv, Quiescent
<1> QED
  BY <1>1, <1>5, <1>6, <1>7, <1>9, <1>10

LEMMA SwapKeeps ==
  ASSUME CertInv, NEW r \in Refreshers, Swap(r)
  PROVE  CertInv'
<1> USE DEF CertInv
<1>1. TypeOK'
  BY EndTypes
<1>2. /\ pc'[r] = "commit" /\ \A q \in Refreshers \ {r} : pc'[q] = pc[q]
      /\ pc[r] = "swap" /\ todo[r] = {} /\ ~erred[r]
  BY Moved DEF Swap, PreparedInv
<1>3. /\ listener' = loaded[r] /\ loaded'[r] = Nothing
      /\ \A q \in Refreshers \ {r} : loaded'[q] = loaded[q]
  BY DEF Swap, TypeOK
<1>4. UNCHANGED <<daemon, hosts, stored, disk, ready, overlapped, seen, todo, current, prepared,
                  erred, faults>>
  BY DEF Swap, bounds
<1>5. OwnInv'
  <2>1. Own(Nothing) /\ Own(loaded[r])
    BY DEF OwnInv, Own, Nothing
  <2>2. \A q \in Refreshers : Own(loaded'[q])
    BY <1>3, <2>1 DEF OwnInv
  <2> QED
    BY <1>3, <1>4, <2>1, <2>2 DEF OwnInv, Own
<1>6. ASSUME NEW q \in Refreshers PROVE PreparedInv(q)'
  <2>1. CASE q = r
    BY <1>2, <1>4, <2>1 DEF PreparedInv, Refreshing, Issuing
  <2>2. CASE q # r
    BY <1>2, <1>4, <2>2, PreparedFrame
  <2> QED
    BY <2>1, <2>2
<1>7. SoleInv' /\ FaultInv'
  BY <1>2, <1>4 DEF SoleInv, FaultInv, Refreshing
<1>8. ~overlapped => \A q \in Refreshers \ {r} : pc[q] = "idle" /\ pc'[q] = "idle"
  BY <1>2, Alone
<1>9. DiskInv'
  BY <1>2, <1>4 DEF DiskInv, OnDisk, Undisturbed, Refreshing
<1>10. ServedInv'
  <2> SUFFICES ASSUME Undisturbed' PROVE ServedInv'
    BY DEF ServedInv
  <2>1. Undisturbed /\ \A q \in Refreshers \ {r} : pc[q] = "idle" /\ pc'[q] = "idle"
    BY <1>4, <1>8 DEF Undisturbed
  <2>2. listener' = prepared'[r]
    BY <1>2, <1>3, <1>4, <2>1 DEF ServedInv
  <2> QED
    BY <1>2, <2>1, <2>2 DEF ServedInv, Quiescent
<1> QED
  BY <1>1, <1>5, <1>6, <1>7, <1>9, <1>10

\* An undisturbed refresh never gives up: mkcert did not fail and every file it
\* prepared loads.
LEMMA GiveUpDisturbed ==
  ASSUME CertInv, NEW r \in Refreshers, GiveUp(r)
  PROVE  ~Undisturbed
<1> SUFFICES ASSUME Undisturbed PROVE FALSE
  OBVIOUS
<1>1. pc[r] = "issue" /\ (erred[r] \/ ~Loadable(r))
  BY DEF GiveUp, Issued
<1>2. ~erred[r]
  BY DEF CertInv, FaultInv, Undisturbed
<1>3. \A k \in Hosts : prepared[r][k] # NoCert => OnDisk(k, prepared[r][k])
  BY <1>1 DEF CertInv, DiskInv, Refreshing
<1>4. Loadable(r)
  BY <1>3 DEF OnDisk, Loadable
<1> QED
  BY <1>1, <1>2, <1>4

LEMMA GiveUpKeeps ==
  ASSUME CertInv, NEW r \in Refreshers, GiveUp(r)
  PROVE  CertInv'
<1> USE DEF CertInv
<1>1. TypeOK'
  BY EndTypes
<1>2. /\ pc'[r] = "idle" /\ \A q \in Refreshers \ {r} : pc'[q] = pc[q]
      /\ daemon' # "starting"
  BY Moved DEF GiveUp, Issued
<1>3. UNCHANGED <<hosts, stored, disk, listener, overlapped, seen, todo, current, prepared,
                  erred, faults, loaded>>
  BY DEF GiveUp, bounds
<1>4. ~Undisturbed'
  BY <1>3, GiveUpDisturbed DEF Undisturbed
<1>5. OwnInv'
  BY <1>3 DEF OwnInv, Own
<1>6. ASSUME NEW q \in Refreshers PROVE PreparedInv(q)'
  <2>1. CASE q = r
    BY <1>2, <2>1 DEF PreparedInv, Refreshing
  <2>2. CASE q # r
    BY <1>2, <1>3, <2>2, PreparedFrame
  <2> QED
    BY <2>1, <2>2
<1>7. SoleInv' /\ FaultInv'
  BY <1>2, <1>3 DEF SoleInv, FaultInv, Refreshing
<1>8. DiskInv' /\ ServedInv'
  BY <1>4 DEF DiskInv, ServedInv
<1> QED
  BY <1>1, <1>5, <1>6, <1>7, <1>8

\* A refresh that comes to its end with the listener's map in place has a
\* certificate there for every hostname of the snapshot it read that has a root.
LEMMA CommitCovers ==
  ASSUME CertInv, NEW r \in Refreshers, pc[r] = "commit", NEW h \in seen[r] \ Rootless
  PROVE  \E k \in Hosts : isCovered(h, prepared[r][k])
<1>1. h \in Hosts /\ ProjectOf[h] \in Projects
  BY DEF CertInv, TypeOK, Rootless
<1>2. h \in HostsOf(ProjectOf[h], seen[r])
  BY <1>1 DEF HostsOf
<1>3. todo[r] = {} /\ ~erred[r] /\ ~Issuing(r, ProjectOf[h])
  BY DEF CertInv, PreparedInv, Issuing
<1>4. \E k \in Hosts : coversAll(prepared[r][k], HostsOf(ProjectOf[h], seen[r]))
  BY <1>1, <1>2, <1>3 DEF CertInv, PreparedInv, Refreshing
<1> QED
  BY <1>2, <1>4 DEF coversAll

LEMMA CommitKeeps ==
  ASSUME CertInv, NEW r \in Refreshers, Commit(r)
  PROVE  CertInv'
<1> USE DEF CertInv
<1>1. TypeOK'
  BY EndTypes
<1>2. /\ pc'[r] = "idle" /\ \A q \in Refreshers \ {r} : pc'[q] = pc[q]
      /\ pc[r] = "commit" /\ daemon' = "up" /\ stored' = prepared[r]
  BY Moved DEF Commit
<1>3. UNCHANGED <<hosts, disk, listener, overlapped, seen, todo, current, prepared, erred, faults, loaded>>
  BY DEF Commit, bounds
<1>4. OwnInv'
  BY <1>2, <1>3 DEF OwnInv, Own
<1>5. ASSUME NEW q \in Refreshers PROVE PreparedInv(q)'
  <2>1. CASE q = r
    BY <1>2, <2>1 DEF PreparedInv, Refreshing
  <2>2. CASE q # r
    BY <1>2, <1>3, <2>2, PreparedFrame
  <2> QED
    BY <2>1, <2>2
<1>6. SoleInv' /\ FaultInv'
  BY <1>2, <1>3 DEF SoleInv, FaultInv, Refreshing
<1>7. ~overlapped => /\ \A q \in Refreshers \ {r} : pc[q] = "idle" /\ pc'[q] = "idle"
                     /\ seen[r] = hosts
  BY <1>2, Alone DEF Refreshing
<1>8. DiskInv'
  BY <1>2, <1>3, <1>7 DEF DiskInv, OnDisk, Undisturbed, Refreshing
<1>9. ServedInv'
  <2> SUFFICES ASSUME Undisturbed' PROVE ServedInv'
    BY DEF ServedInv
  <2>1. /\ Undisturbed /\ \A q \in Refreshers \ {r} : pc[q] = "idle" /\ pc'[q] = "idle"
        /\ seen[r] = hosts
    BY <1>3, <1>7 DEF Undisturbed
  <2>2. listener = prepared[r] /\ stored' = listener'
    BY <1>2, <1>3, <2>1 DEF ServedInv
  <2>3. \A h \in hosts' \ Rootless : Certified(h)'
    BY <1>2, <1>3, <2>1, <2>2, CommitCovers DEF Certified
  <2> QED
    BY <1>2, <2>1, <2>2, <2>3 DEF ServedInv
<1> QED
  BY <1>1, <1>4, <1>5, <1>6, <1>8, <1>9

LEMMA Inductive == CertInv /\ [Next]_vars => CertInv'
<1> SUFFICES ASSUME CertInv, [Next]_vars PROVE CertInv'
  OBVIOUS
<1>1. ASSUME NEW r \in Refreshers, Rebuild(r) PROVE CertInv'
  BY <1>1, RebuildKeeps
<1>2. ASSUME NEW r \in Refreshers, ReadInventory(r) PROVE CertInv'
  BY <1>2, ReadInventoryKeeps
<1>3. ASSUME NEW r \in Refreshers, NEW p \in Projects, WriteCert(r, p) PROVE CertInv'
  BY <1>3, WriteCertKeeps
<1>4. ASSUME NEW r \in Refreshers, WriteKey(r) PROVE CertInv'
  BY <1>4, WriteKeyKeeps
<1>5. ASSUME NEW r \in Refreshers, IssueFails(r) PROVE CertInv'
  BY <1>5, IssueFailsKeeps
<1>6. ASSUME NEW r \in Refreshers, Load(r) \/ Swap(r) PROVE CertInv'
  BY <1>6, LoadKeeps, SwapKeeps
<1>7. ASSUME NEW r \in Refreshers, GiveUp(r) PROVE CertInv'
  BY <1>7, GiveUpKeeps
<1>8. ASSUME NEW r \in Refreshers, Commit(r) PROVE CertInv'
  BY <1>8, CommitKeeps
<1>9. CASE UNCHANGED vars
  <2> USE <1>9 DEF vars, shared, locals, bounds
  <2>1. TypeOK'
    BY DEF CertInv, TypeOK
  <2>2. OwnInv' /\ SoleInv' /\ FaultInv'
    BY DEF CertInv, OwnInv, Own, SoleInv, FaultInv, Refreshing
  <2>3. \A q \in Refreshers : PreparedInv(q)'
    BY PreparedFrame DEF CertInv
  <2>4. DiskInv'
    BY DEF CertInv, DiskInv, OnDisk, Undisturbed, Refreshing
  <2>5. ServedInv'
    BY DEF CertInv, ServedInv, Undisturbed, Quiescent, Certified
  <2> QED
    BY <2>1, <2>2, <2>3, <2>4, <2>5 DEF CertInv
<1> QED
  BY <1>1, <1>2, <1>3, <1>4, <1>5, <1>6, <1>7, <1>8, <1>9 DEF Next, RefreshStep, Done

(***************************************************************************)
(* The theorems                                                            *)
(***************************************************************************)
\* CertInv holds in every reachable state of the refreshes.
THEOREM Invariance == Spec => []CertInv
  BY Initially, Inductive, PTL DEF Spec

\* The records, files and locals of the refreshes keep their types.
THEOREM TypeCorrect == Spec => []TypeOK
<1>1. CertInv => TypeOK
  BY DEF CertInv
<1> QED
  BY <1>1, Invariance, PTL

\* What getCertificate finds under a host's own name is a certificate for that
\* host and its project, however refreshes overlap and mkcert fails.
THEOREM OwnName == Spec => []ServedUnderOwnName
<1>1. CertInv => ServedUnderOwnName
  BY DEF CertInv, OwnInv, Own, CertFor, ServedUnderOwnName, isCovered
<1> QED
  BY <1>1, Invariance, PTL

\* No certificate the listener may serve covers a hostname without a project root.
LEMMA RootlessUncertified ==
  ASSUME CertInv, NEW h \in Rootless
  PROVE  ~Certified(h)
<1>1. h \in Hosts /\ ProjectOf[h] \notin Projects
  BY DEF Rootless
<1>2. SUFFICES ASSUME NEW k \in Hosts, isCovered(h, listener[k]) PROVE FALSE
  BY DEF Certified
<1>3. listener[k] \in Sans
  BY <1>1, <1>2, NoCertFacts DEF CertInv, TypeOK
<1>4. CertFor(k, listener[k])
  BY <1>3, NoCertFacts DEF CertInv, OwnInv, Own
<1>5. ProjectOf[h] = ProjectOf[k]
  BY <1>1, <1>2, <1>3, <1>4, CoversOwnProject
<1>6. ProjectOf[k] \in Projects
  BY <1>3, <1>4 DEF CertFor, Sans
<1> QED
  BY <1>1, <1>5, <1>6

\* Between undisturbed refreshes, CertificateReady means that every hostname of
\* the snapshot that has a project root is covered by a certificate the listener
\* serves; the others never are.
THEOREM Ready == Spec => []ReadyCovers
<1>1. CertInv => ReadyCovers
  BY RootlessUncertified DEF CertInv, ServedInv, ReadyCovers
<1> QED
  BY <1>1, Invariance, PTL

\* Between undisturbed refreshes the records are the listener's certificates.
THEOREM RecordsMatch == Spec => []RecordsMatchListener
<1>1. CertInv => RecordsMatchListener
  BY DEF CertInv, ServedInv, RecordsMatchListener, Quiescent
<1> QED
  BY <1>1, Invariance, PTL

\* NewNetworkRuntime succeeds only with every hostname of the snapshot covered
\* that has a project root, and no other.
THEOREM StartCovered == Spec => StartsCovered
<1>1. ASSUME CertInv, CertInv', Next, daemon = "starting", daemon' = "up"
      PROVE  \A h \in hosts : Certified(h)' <=> h \notin Rootless
  <2>1. PICK r \in Refreshers : Commit(r)
    BY <1>1 DEF Next, RefreshStep, Rebuild, ReadInventory, WriteCert, WriteKey, IssueFails,
                Load, Swap, GiveUp, Done, shared, vars
  <2>2. pc[r] = "commit" /\ UNCHANGED listener
    BY <2>1 DEF Commit
  <2>3. r = Starter /\ ~overlapped /\ seen[r] = hosts
    BY <1>1, <2>2 DEF CertInv, FaultInv, SoleInv, Refreshing
  <2>4. ~erred[r]
    BY <1>1, <2>2 DEF CertInv, PreparedInv
  <2>5. Undisturbed
    BY <1>1, <2>3, <2>4 DEF CertInv, FaultInv, Undisturbed
  <2>6. listener = prepared[r]
    BY <1>1, <2>2, <2>5 DEF CertInv, ServedInv
  <2>7. \A h \in hosts \ Rootless : Certified(h)'
    BY <1>1, <2>2, <2>3, <2>6, CommitCovers DEF Certified
  <2>8. \A h \in Rootless : ~Certified(h)
    BY <1>1, RootlessUncertified
  <2>9. \A h \in Rootless : ~Certified(h)'
    BY <2>2, <2>8 DEF Certified
  <2> QED
    BY <2>7, <2>9
<1>2. CertInv /\ CertInv' /\ [Next]_vars =>
        [(daemon = "starting" /\ daemon' = "up") =>
           \A h \in hosts : Certified(h)' <=> h \notin Rootless]_vars
  BY <1>1
<1> QED
  BY <1>2, Invariance, PTL DEF Spec, StartsCovered

\* mkcert is not run for a project whose hostnames the listener covers, unless the
\* certificate that covers them stands under another name than the project's root,
\* when no two refreshes overlapped and mkcert did not fail.
THEOREM ReissueUncovered == Spec => ReissueOnlyUncovered
<1> DEFINE Excused(p, r) ==
      \/ \E h \in HostsOf(p, seen[r]) : ~Certified(h)
      \/ \E k \in Hosts \ {Root[p]} : listener[k] # NoCert /\ listener[k].project = p
<1>1. ASSUME CertInv, Undisturbed, NEW r \in Refreshers, NEW p \in Projects,
             p \in todo[r], pc[r] = "issue"
      PROVE  Excused(p, r)
  <2>1. todo[r] \subseteq Inventory(seen[r], stored) /\ stored = listener
    <3>1. \A q \in Refreshers : pc[q] # "commit"
      BY <1>1 DEF CertInv, SoleInv, Undisturbed
    <3> QED
      BY <1>1, <3>1 DEF CertInv, ServedInv
  <2>2. PICK h \in HostsOf(p, seen[r]) : listener[Root[p]] = NoCert \/ ~isCovered(h, listener[Root[p]])
    BY <1>1, <2>1 DEF Inventory, coversAll
  <2>3. h \in Hosts /\ ProjectOf[h] = p /\ Root[p] \in Hosts
    BY <1>1 DEF HostsOf, CertInv, TypeOK
  <2>4. ASSUME NEW k \in Hosts, isCovered(h, listener[k])
        PROVE  k # Root[p] /\ listener[k] # NoCert /\ listener[k].project = p
    <3>1. listener[k] \in Sans
      BY <2>3, <2>4, NoCertFacts, <1>1 DEF CertInv, TypeOK
    <3>2. listener[k] # NoCert /\ CertFor(k, listener[k])
      BY <3>1, <1>1, NoCertFacts DEF CertInv, OwnInv, Own
    <3>3. ProjectOf[k] = p
      BY <2>3, <2>4, <3>1, <3>2, CoversOwnProject
    <3>4. k # Root[p]
      BY <2>2, <2>4, <3>2
    <3> QED
      BY <3>2, <3>3, <3>4 DEF CertFor
  <2> QED
    BY <2>4 DEF Certified
<1> DEFINE Reissue ==
      Undisturbed => \A r \in Refreshers, p \in Projects :
        (p \in todo[r] /\ pc[r] = "issue" /\ pc'[r] = "key" /\ p \notin todo'[r]) => Excused(p, r)
<1>2. CertInv => Reissue
  BY <1>1
<1>3. CertInv => [Reissue]_vars
  BY <1>2
<1>4. ReissueOnlyUncovered <=> [][Reissue]_vars
  BY DEF ReissueOnlyUncovered
<1> HIDE DEF Reissue
<1> QED
  BY <1>3, <1>4, Invariance, PTL DEF Spec
===============================================================================
