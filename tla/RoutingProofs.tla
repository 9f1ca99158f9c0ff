----------------------------- MODULE RoutingProofs -----------------------------
(***************************************************************************)
(* Proofs about Routing, for any catalogue of containers, any overrides    *)
(* and any number of containers in a listing.                              *)
(***************************************************************************)
EXTENDS Routing, TLAPS, SequenceTheorems, FiniteSetTheorems

(***************************************************************************)
(* Sorting                                                                 *)
(***************************************************************************)
\* Claims that Before and Earlier can compare.
Comparable(routes, places) ==
  /\ IsFiniteSet(places) /\ places \subseteq Nat \X Nat
  /\ \A p \in places : routes[p].priority \in Int /\ routes[p].winner \in Nat

\* No two claims share a place, so one of them is ahead.
LEMMA AheadIsOrder ==
  ASSUME NEW routes, NEW places, Comparable(routes, places)
  PROVE  /\ \A p \in places : ~Ahead(routes, p, p)
         /\ \A p, q \in places : p = q \/ Ahead(routes, p, q) \/ Ahead(routes, q, p)
         /\ \A p, q, r \in places :
              Ahead(routes, p, q) /\ Ahead(routes, q, r) => Ahead(routes, p, r)
<1>1. \A p \in places : /\ p[1] \in Nat /\ p[2] \in Nat /\ p = <<p[1], p[2]>>
                        /\ routes[p].priority \in Int /\ routes[p].winner \in Nat
  BY DEF Comparable
<1>2. \A p, q \in places : p = q <=> p[1] = q[1] /\ p[2] = q[2]
  BY <1>1
<1>3. ASSUME NEW p \in places, NEW q \in places, NEW r \in places,
             Ahead(routes, p, q), Ahead(routes, q, r)
      PROVE  Ahead(routes, p, r)
  BY <1>1, <1>3 DEF Ahead, Before, Earlier
<1>4. ASSUME NEW p \in places, NEW q \in places
      PROVE  p = q \/ Ahead(routes, p, q) \/ Ahead(routes, q, p)
  BY <1>1, <1>2 DEF Ahead, Before, Earlier
<1>5. ASSUME NEW p \in places PROVE ~Ahead(routes, p, p)
  BY <1>1 DEF Ahead, Before, Earlier
<1> QED
  BY <1>3, <1>4, <1>5

\* How many places come before that of p, and p itself.
Rank(routes, places, p) == Cardinality({q \in places : Ahead(routes, q, p)}) + 1

\* The ranks number the places in their order.
LEMMA RankIsPlace ==
  ASSUME NEW routes, NEW places, Comparable(routes, places)
  PROVE  /\ Cardinality(places) \in Nat
         /\ \A p \in places : Rank(routes, places, p) \in 1..Cardinality(places)
         /\ \A p, q \in places :
              Ahead(routes, p, q) => Rank(routes, places, p) < Rank(routes, places, q)
         /\ \A n \in 1..Cardinality(places) : \E p \in places : Rank(routes, places, p) = n
<1> DEFINE below(p) == {q \in places : Ahead(routes, q, p)}
           size == Cardinality(places)
<1>1. IsFiniteSet(places) /\ size \in Nat
  BY FS_CardinalityType DEF Comparable
<1>2. ASSUME NEW p \in places
      PROVE  /\ IsFiniteSet(below(p)) /\ Cardinality(below(p)) \in Nat
             /\ Cardinality(below(p)) < size
  <2>1. below(p) \in SUBSET places /\ p \notin below(p)
    BY AheadIsOrder
  <2> HIDE DEF below
  <2>2. /\ IsFiniteSet(below(p)) /\ Cardinality(below(p)) <= size
        /\ size = Cardinality(below(p)) => places = below(p)
    BY <1>1, <2>1, FS_Subset
  <2>3. Cardinality(below(p)) \in Nat
    BY <2>2, FS_CardinalityType
  <2>4. Cardinality(below(p)) # size
    BY <2>1, <2>2
  <2> QED
    BY <1>1, <2>2, <2>3, <2>4
<1>3. ASSUME NEW p \in places, NEW q \in places, Ahead(routes, p, q)
      PROVE  Cardinality(below(p)) < Cardinality(below(q))
  <2>1. below(p) \in SUBSET below(q) /\ p \in below(q) /\ p \notin below(p)
    BY <1>3, AheadIsOrder
  <2>2. /\ IsFiniteSet(below(q)) /\ Cardinality(below(p)) \in Nat
        /\ Cardinality(below(q)) \in Nat
    BY <1>2
  <2> HIDE DEF below
  <2>3. /\ Cardinality(below(p)) <= Cardinality(below(q))
        /\ Cardinality(below(q)) = Cardinality(below(p)) => below(q) = below(p)
    BY <2>1, <2>2, FS_Subset
  <2> QED
    BY <2>1, <2>2, <2>3
<1>4. \A p \in places : Rank(routes, places, p) = Cardinality(below(p)) + 1
  BY DEF Rank
<1> HIDE DEF below, size
<1>5. \A p \in places : Rank(routes, places, p) \in 1..size
  BY <1>1, <1>2, <1>4
<1>6. \A p, q \in places :
        Ahead(routes, p, q) => Rank(routes, places, p) < Rank(routes, places, q)
  BY <1>2, <1>3, <1>4
<1>7. ASSUME NEW n \in 1..size PROVE \E p \in places : Rank(routes, places, p) = n
  <2> DEFINE rank == [p \in places |-> Rank(routes, places, p)]
  <2>1. rank \in [places -> 1..size]
    BY <1>5
  <2>2. ASSUME NEW p \in places, NEW q \in places, rank[p] = rank[q] PROVE p = q
    BY <1>5, <1>6, <2>2, AheadIsOrder
  <2>3. rank \in Injection(places, 1..size)
    BY <2>1, <2>2 DEF Injection, IsInjective
  <2>4. IsFiniteSet(1..size) /\ Cardinality(1..size) = size
    BY <1>1, FS_Interval
  <2> HIDE DEF rank
  <2>5. rank \in Surjection(places, 1..size)
    BY <2>3, <2>4, FS_Injection DEF size
  <2>6. \E p \in places : rank[p] = n
    BY <2>5 DEF Surjection
  <2> QED
    BY <2>6 DEF rank
<1> QED
  BY <1>1, <1>5, <1>6, <1>7 DEF size

\* SortClaims lists every claim once, each ahead of the ones after it.
LEMMA Sorted ==
  ASSUME NEW routes, NEW places, Comparable(routes, places)
  PROVE  LET sorted == SortClaims(routes, places)
         IN  /\ DOMAIN sorted = 1..Cardinality(places)
             /\ Len(sorted) = Cardinality(places) /\ Len(sorted) \in Nat
             /\ sorted \in Seq({routes[p] : p \in places})
             /\ \E order \in [1..Len(sorted) -> places] :
                  /\ \A n \in 1..Len(sorted) : sorted[n] = routes[order[n]]
                  /\ \A p \in places : \E n \in 1..Len(sorted) : order[n] = p
                  /\ \A m, n \in 1..Len(sorted) : m < n => Ahead(routes, order[m], order[n])
<1> DEFINE size == Cardinality(places)
           order == [n \in 1..size |-> CHOOSE p \in places : Rank(routes, places, p) = n]
           sorted == SortClaims(routes, places)
<1>1. sorted = [n \in 1..size |-> routes[order[n]]]
  BY DEF SortClaims, Rank
<1>2. /\ size \in Nat
      /\ \A p \in places : Rank(routes, places, p) \in 1..size
      /\ \A p, q \in places :
           Ahead(routes, p, q) => Rank(routes, places, p) < Rank(routes, places, q)
      /\ \A n \in 1..size : \E p \in places : Rank(routes, places, p) = n
  BY RankIsPlace
<1>3. ASSUME NEW n \in 1..size
      PROVE  order[n] \in places /\ Rank(routes, places, order[n]) = n
  BY <1>2
<1>4. order \in [1..size -> places]
  BY <1>3
<1> HIDE DEF order, size, sorted
<1>5. DOMAIN sorted = 1..size /\ Len(sorted) = size
  BY <1>1, <1>2
<1>6. ASSUME NEW p \in places, NEW q \in places,
             Rank(routes, places, p) = Rank(routes, places, q)
      PROVE  p = q
  BY <1>2, <1>6, AheadIsOrder
<1>7. ASSUME NEW p \in places PROVE \E n \in 1..size : order[n] = p
  <2> DEFINE n == Rank(routes, places, p)
  <2>1. n \in 1..size
    BY <1>2
  <2> QED
    BY <1>3, <1>6, <2>1
<1>8. ASSUME NEW m \in 1..size, NEW n \in 1..size, m < n
      PROVE  Ahead(routes, order[m], order[n])
  <2>1. ~Ahead(routes, order[n], order[m]) /\ order[m] # order[n]
    BY <1>2, <1>3, <1>8
  <2> QED
    BY <1>3, <2>1, AheadIsOrder
<1>9. sorted \in Seq({routes[p] : p \in places})
  <2>1. sorted \in [1..size -> {routes[p] : p \in places}]
    BY <1>1, <1>3
  <2> QED
    BY <1>2, <2>1, SeqDef
<1> QED
  BY <1>1, <1>2, <1>4, <1>5, <1>7, <1>8, <1>9 DEF sorted, size

(***************************************************************************)
(* Conflicts                                                               *)
(***************************************************************************)
\* The places of the claims to a host name.
Claimed(routes, h) == {p \in DOMAIN routes : routes[p].hostname = h}

\* w is ahead of all other claims to h.
Wins(routes, h, w) == w \in Claimed(routes, h) /\ \A p \in Claimed(routes, h) \ {w} : Ahead(routes, w, p)

\* s is the first of the claims that w leaves behind.
Second(routes, h, w, s) ==
  /\ s \in Claimed(routes, h) \ {w}
  /\ \A p \in Claimed(routes, h) \ {w, s} : Ahead(routes, s, p)

\* The conflict k of the claims to h, of which w is the first and s the second.
Reports(k, routes, h, w, s) ==
  /\ k.hostname = h /\ k.winner = routes[w].winner
  /\ ToSet(k.losers) = {routes[p].winner : p \in Claimed(routes, h) \ {w}}
  /\ k.tie <=> routes[w].priority = routes[s].priority

LEMMA ClaimedComparable ==
  ASSUME NEW routes, NEW h, Comparable(routes, DOMAIN routes)
  PROVE  Comparable(routes, Claimed(routes, h))
<1>1. Claimed(routes, h) \in SUBSET DOMAIN routes
  BY DEF Claimed
<1>2. IsFiniteSet(Claimed(routes, h))
  BY <1>1, FS_Subset DEF Comparable
<1> QED
  BY <1>1, <1>2 DEF Comparable

\* The first of the sorted claims wins, and ConflictOf reports the others.
LEMMA SortedClaims ==
  ASSUME NEW routes, Comparable(routes, DOMAIN routes),
         NEW h, Claimed(routes, h) # {}
  PROVE  LET claims == SortClaims(routes, Claimed(routes, h))
         IN  \E w \in Claimed(routes, h) :
               /\ claims[1] = routes[w] /\ Wins(routes, h, w)
               /\ Claimed(routes, h) # {w} <=> Len(claims) > 1
               /\ Len(claims) > 1 =>
                    \E s \in Claimed(routes, h) :
                      Second(routes, h, w, s) /\ Reports(ConflictOf(claims), routes, h, w, s)
<1> DEFINE places == Claimed(routes, h)
           claims == SortClaims(routes, places)
           size == Len(claims)
<1>1. Comparable(routes, places)
  BY ClaimedComparable
<1> HIDE DEF places, claims
<1>2. /\ DOMAIN claims = 1..size /\ size \in Nat
      /\ size = Cardinality(places)
      /\ claims \in Seq({routes[p] : p \in places})
  BY <1>1, Sorted DEF claims
<1>3. PICK order \in [1..size -> places] :
        /\ \A n \in 1..size : claims[n] = routes[order[n]]
        /\ \A p \in places : \E n \in 1..size : order[n] = p
        /\ \A m, n \in 1..size : m < n => Ahead(routes, order[m], order[n])
  BY <1>1, Sorted DEF claims
<1>4. /\ \A p \in places : ~Ahead(routes, p, p) /\ routes[p].hostname = h
  BY <1>1, AheadIsOrder DEF places, Claimed
<1>5. size >= 1
  BY <1>2, <1>3 DEF places
<1> DEFINE w == order[1]
<1>6. w \in places /\ claims[1] = routes[w]
  BY <1>2, <1>3, <1>5
<1>7. ASSUME NEW p \in places \ {w} PROVE \E n \in 2..size : order[n] = p
  <2>1. PICK n \in 1..size : order[n] = p
    BY <1>3
  <2>2. n # 1
    BY <1>7, <2>1
  <2> QED
    BY <1>2, <2>1, <2>2
<1>8. \A n \in 2..size : order[n] \in places \ {w}
  BY <1>2, <1>3, <1>4, <1>5
<1>9. \A p \in places \ {w} : Ahead(routes, w, p)
  BY <1>2, <1>3, <1>5, <1>7
<1>10. places # {w} <=> size > 1
  <2>1. CASE size > 1
    <3>1. order[2] \in places \ {w}
      BY <1>2, <1>8, <2>1
    <3> QED
      BY <2>1, <3>1
  <2>2. CASE ~(size > 1)
    <3>1. 2..size = {}
      BY <1>2, <2>2
    <3> QED
      BY <1>6, <1>7, <2>2, <3>1
  <2> QED
    BY <2>1, <2>2
<1>11. ASSUME size > 1
       PROVE  \E s \in places : /\ Second(routes, h, w, s)
                                /\ Reports(ConflictOf(claims), routes, h, w, s)
  <2> DEFINE s == order[2]
             k == ConflictOf(claims)
  <2>1. s \in places \ {w} /\ claims[2] = routes[s]
    <3>1. 2 \in 2..size /\ 2 \in 1..size
      BY <1>2, <1>11
    <3> QED
      BY <1>3, <1>8, <3>1
  <2>2. ASSUME NEW p \in places \ {w, s} PROVE Ahead(routes, s, p)
    <3>1. PICK n \in 2..size : order[n] = p
      BY <1>7
    <3>2. n # 2 /\ n > 2 /\ n \in 1..size /\ 2 \in 1..size
      BY <1>2, <1>11, <2>2, <3>1
    <3> QED
      BY <1>3, <3>1, <3>2
  <2>3. DOMAIN Tail(claims) = 1..(size - 1)
    BY <1>2, <1>11, HeadTailProperties
  <2>4. k.losers = [i \in 1..(size - 1) |-> claims[i + 1].winner]
    BY <2>3 DEF ConflictOf
  <2>5. ToSet(k.losers) = {claims[i + 1].winner : i \in 1..(size - 1)}
    <3> DEFINE losers == [i \in 1..(size - 1) |-> claims[i + 1].winner]
    <3>1. ToSet(losers) = {claims[i + 1].winner : i \in 1..(size - 1)}
      BY DEF ToSet
    <3> QED
      BY <2>4, <3>1
  <2> HIDE DEF k
  <2>6. \A i \in 1..(size - 1) : i + 1 \in 2..size /\ i + 1 \in 1..size
    BY <1>2
  <2>7. \A n \in 2..size : n - 1 \in 1..(size - 1) /\ (n - 1) + 1 = n
    BY <1>2
  <2>8. ASSUME NEW i \in 1..(size - 1)
        PROVE  \E p \in places \ {w} : claims[i + 1].winner = routes[p].winner
    BY <1>3, <1>8, <2>6
  <2>9. ASSUME NEW p \in places \ {w}
        PROVE  \E i \in 1..(size - 1) : claims[i + 1].winner = routes[p].winner
    <3>1. PICK n \in 2..size : order[n] = p
      BY <1>7
    <3>2. n - 1 \in 1..(size - 1) /\ (n - 1) + 1 = n /\ n \in 1..size
      BY <1>2, <2>7
    <3>3. claims[(n - 1) + 1].winner = routes[p].winner
      BY <1>3, <3>1, <3>2
    <3> QED
      BY <3>2, <3>3
  <2>10. ToSet(k.losers) = {routes[p].winner : p \in places \ {w}}
    BY <2>5, <2>8, <2>9
  <2>11. /\ k.hostname = h /\ k.winner = routes[w].winner
         /\ k.tie <=> routes[w].priority = routes[s].priority
    BY <1>4, <1>6, <2>1 DEF k, ConflictOf
  <2> HIDE DEF s
  <2>12. Second(routes, h, w, s)
    BY <2>1, <2>2 DEF Second, places
  <2>13. Reports(k, routes, h, w, s)
    BY <2>10, <2>11 DEF Reports, places
  <2> QED
    BY <2>1, <2>12, <2>13 DEF k
<1> QED
  BY <1>6, <1>9, <1>10, <1>11 DEF Wins, places, claims

\* What Builder.Build gets: the winners, and the conflicts of host names with
\* more than one claim.
LEMMA Resolved ==
  ASSUME NEW routes, Comparable(routes, DOMAIN routes)
  PROVE  LET resolved == ResolveConflicts(routes)
         IN  /\ DOMAIN resolved.active = {routes[p].hostname : p \in DOMAIN routes}
             /\ \A h \in DOMAIN resolved.active :
                  \E w \in Claimed(routes, h) :
                    /\ resolved.active[h] = routes[w] /\ Wins(routes, h, w)
                    /\ Claimed(routes, h) # {w} => \E k \in resolved.conflicts : k.hostname = h
             /\ \A k \in resolved.conflicts :
                  \E h \in DOMAIN resolved.active : \E w, s \in Claimed(routes, h) :
                    /\ resolved.active[h] = routes[w] /\ Wins(routes, h, w)
                    /\ Second(routes, h, w, s) /\ Reports(k, routes, h, w, s)
<1> DEFINE hosts == {routes[p].hostname : p \in DOMAIN routes}
           claims == [h \in hosts |-> SortClaims(routes, Claimed(routes, h))]
           active == [h \in hosts |-> claims[h][1]]
           conflicts == {ConflictOf(claims[h]) : h \in {g \in hosts : Len(claims[g]) > 1}}
           resolved == ResolveConflicts(routes)
<1>1. resolved.active = active /\ resolved.conflicts = conflicts
  BY DEF ResolveConflicts, Claimed
<1> HIDE DEF resolved
<1>2. ASSUME NEW h \in hosts PROVE Claimed(routes, h) # {}
  BY DEF Claimed
<1>3. ASSUME NEW h \in hosts
      PROVE  \E w \in Claimed(routes, h) :
               /\ claims[h][1] = routes[w] /\ Wins(routes, h, w)
               /\ Claimed(routes, h) # {w} <=> Len(claims[h]) > 1
               /\ Len(claims[h]) > 1 =>
                    \E s \in Claimed(routes, h) :
                      Second(routes, h, w, s) /\ Reports(ConflictOf(claims[h]), routes, h, w, s)
  <2> DEFINE own == SortClaims(routes, Claimed(routes, h))
  <2>1. claims[h] = own
    OBVIOUS
  <2> HIDE DEF claims
  <2> QED
    BY <1>2, <2>1, SortedClaims
<1> HIDE DEF hosts, claims
<1>4. DOMAIN active = hosts
  OBVIOUS
<1>5. ASSUME NEW h \in hosts
      PROVE  \E w \in Claimed(routes, h) :
               /\ active[h] = routes[w] /\ Wins(routes, h, w)
               /\ Claimed(routes, h) # {w} => \E k \in conflicts : k.hostname = h
  <2>1. PICK w \in Claimed(routes, h) :
               /\ claims[h][1] = routes[w] /\ Wins(routes, h, w)
               /\ Claimed(routes, h) # {w} <=> Len(claims[h]) > 1
               /\ Len(claims[h]) > 1 =>
                    \E s \in Claimed(routes, h) :
                      Second(routes, h, w, s) /\ Reports(ConflictOf(claims[h]), routes, h, w, s)
    BY <1>3
  <2>2. Len(claims[h]) > 1 => ConflictOf(claims[h]) \in conflicts
    OBVIOUS
  <2> QED
    BY <2>1, <2>2 DEF Reports
<1>6. ASSUME NEW k \in conflicts
      PROVE  \E h \in hosts : \E w, s \in Claimed(routes, h) :
               /\ active[h] = routes[w] /\ Wins(routes, h, w)
               /\ Second(routes, h, w, s) /\ Reports(k, routes, h, w, s)
  <2>1. PICK h \in hosts : Len(claims[h]) > 1 /\ k = ConflictOf(claims[h])
    OBVIOUS
  <2>2. active[h] = claims[h][1]
    OBVIOUS
  <2> HIDE DEF active
  <2> QED
    BY <1>3, <2>1, <2>2
<1> HIDE DEF active, conflicts
<1> QED
  BY <1>1, <1>4, <1>5, <1>6 DEF resolved, hosts

(***************************************************************************)
(* Containers                                                              *)
(***************************************************************************)
\* A set of natural numbers has a smallest member.
LEMMA MinIsLeast ==
  ASSUME NEW S \in SUBSET Nat, S # {}
  PROVE  Min(S) \in S /\ \A n \in S : Min(S) <= n
<1> DEFINE Less == OpToRel(<, Nat)
<1>1. IsWellFoundedOn(Less, Nat)
  BY NatLessThanWellFounded
<1> HIDE DEF Less
<1>2. PICK m \in S : \A n \in S : ~(<<n, m>> \in Less)
  BY <1>1, WFMin
<1>3. \A a, b \in Nat : a < b => <<a, b>> \in Less
  BY DEF Less, OpToRel
<1>4. ASSUME NEW n \in S PROVE m <= n
  <2>1. m \in Nat /\ n \in Nat
    OBVIOUS
  <2>2. ~(n < m)
    BY <1>2, <1>3, <2>1
  <2> QED
    BY <2>1, <2>2
<1> QED
  BY <1>4 DEF Min

(***************************************************************************)
(* The listings                                                            *)
(***************************************************************************)
\* A list with one entry more.
LEMMA InsertedEntries ==
  ASSUME NEW S, NEW L \in Seq(S), NEW i \in 1..Len(L) + 1, NEW c \in S
  PROVE  /\ InsertAt(L, i, c) \in Seq(S) /\ Len(InsertAt(L, i, c)) = Len(L) + 1
         /\ \A j \in 1..Len(L) + 1 :
              InsertAt(L, i, c)[j] = IF j < i THEN L[j] ELSE IF j = i THEN c ELSE L[j - 1]
<1> DEFINE before == SubSeq(L, 1, i - 1)
           start == before \o <<c>>
           after == SubSeq(L, i, Len(L))
           M == start \o after
<1>1. before \in Seq(S) /\ Len(before) = i - 1 /\ \A j \in 1..i - 1 : before[j] = L[j]
  <2>1. before \in Seq(S)
    OBVIOUS
  <2>2. Len(before) = i - 1
    OBVIOUS
  <2>3. ASSUME NEW j \in 1..i - 1 PROVE before[j] = L[j]
    OBVIOUS
  <2> QED
    BY <2>1, <2>2, <2>3
<1>2. /\ after \in Seq(S) /\ Len(after) = Len(L) - i + 1
      /\ \A j \in 1..Len(L) - i + 1 : after[j] = L[i + j - 1]
  <2>1. after \in Seq(S)
    OBVIOUS
  <2>2. Len(after) = Len(L) - i + 1
    OBVIOUS
  <2>3. ASSUME NEW j \in 1..Len(L) - i + 1 PROVE after[j] = L[i + j - 1]
    OBVIOUS
  <2> QED
    BY <2>1, <2>2, <2>3
<1> HIDE DEF before, after
<1>3. /\ start \in Seq(S) /\ Len(start) = i
      /\ \A j \in 1..i : start[j] = IF j < i THEN before[j] ELSE c
  BY <1>1
<1> HIDE DEF start
<1>4. M \in Seq(S) /\ Len(M) = Len(L) + 1
  BY <1>2, <1>3
<1>5. ASSUME NEW j \in 1..Len(L) + 1
      PROVE  M[j] = IF j < i THEN L[j] ELSE IF j = i THEN c ELSE L[j - 1]
  <2>1. M[j] = IF j <= i THEN start[j] ELSE after[j - i]
    BY <1>2, <1>3
  <2>2. CASE j <= i
    BY <1>1, <1>3, <2>1, <2>2
  <2>3. CASE j > i
    <3>1. j - i \in 1..Len(L) - i + 1 /\ i + (j - i) - 1 = j - 1
      BY <2>3
    <3>2. after[j - i] = L[j - 1]
      BY <1>2, <3>1
    <3> QED
      BY <2>1, <2>3, <3>2
  <2>4. j \in Int /\ i \in Int
    OBVIOUS
  <2> HIDE DEF M
  <2> QED
    BY <2>2, <2>3, <2>4
<1>6. M = InsertAt(L, i, c)
  BY DEF InsertAt, start, before, after
<1> HIDE DEF M
<1> QED
  BY <1>4, <1>5, <1>6

\* A list with one entry less.
LEMMA RemainingEntries ==
  ASSUME NEW S, NEW L \in Seq(S), NEW i \in DOMAIN L
  PROVE  /\ RemoveAt(L, i) \in Seq(S) /\ Len(RemoveAt(L, i)) = Len(L) - 1
         /\ \A j \in 1..Len(L) - 1 : RemoveAt(L, i)[j] = IF j < i THEN L[j] ELSE L[j + 1]
<1> DEFINE before == SubSeq(L, 1, i - 1)
           after == SubSeq(L, i + 1, Len(L))
           M == before \o after
<1>1. before \in Seq(S) /\ Len(before) = i - 1 /\ \A j \in 1..i - 1 : before[j] = L[j]
  <2>1. before \in Seq(S)
    OBVIOUS
  <2>2. Len(before) = i - 1
    OBVIOUS
  <2>3. ASSUME NEW j \in 1..i - 1 PROVE before[j] = L[j]
    OBVIOUS
  <2> QED
    BY <2>1, <2>2, <2>3
<1>2. /\ after \in Seq(S) /\ Len(after) = Len(L) - i
      /\ \A j \in 1..Len(L) - i : after[j] = L[i + j]
  <2>1. after \in Seq(S)
    OBVIOUS
  <2>2. Len(after) = Len(L) - i
    OBVIOUS
  <2>3. ASSUME NEW j \in 1..Len(L) - i PROVE after[j] = L[i + j]
    OBVIOUS
  <2> QED
    BY <2>1, <2>2, <2>3
<1> HIDE DEF before, after
<1>3. M \in Seq(S) /\ Len(M) = Len(L) - 1
  BY <1>1, <1>2
<1>4. ASSUME NEW j \in 1..Len(L) - 1 PROVE M[j] = IF j < i THEN L[j] ELSE L[j + 1]
  <2>1. M[j] = IF j <= i - 1 THEN before[j] ELSE after[j - (i - 1)]
    BY <1>1, <1>2
  <2>2. CASE j < i
    BY <1>1, <2>1, <2>2
  <2>3. CASE j >= i
    <3>1. j - (i - 1) \in 1..Len(L) - i /\ i + (j - (i - 1)) = j + 1
      BY <2>3
    <3>2. after[j - (i - 1)] = L[j + 1]
      BY <1>2, <3>1
    <3> QED
      BY <2>1, <2>3, <3>2
  <2>4. j \in Int /\ i \in Int
    OBVIOUS
  <2> HIDE DEF M
  <2> QED
    BY <2>2, <2>3, <2>4
<1>5. M = RemoveAt(L, i)
  BY DEF RemoveAt, before, after
<1> HIDE DEF M
<1> QED
  BY <1>3, <1>4, <1>5
LEMMA EndsInSuffix ==
  ASSUME NEW S, NEW A \in Seq(S), NEW B \in Seq(S), B # <<>>
  PROVE  A \o B # <<>> /\ IsSuffix(B, A \o B)
<1> DEFINE C == A \o B
           s == Reverse(B)
           t == Reverse(C)
           n == Len(B)
<1>1. /\ C \in Seq(S) /\ Len(C) = Len(A) + n /\ n \in Nat /\ Len(A) \in Nat
      /\ \A i \in 1..n : C[Len(A) + i] = B[i]
  OBVIOUS
<1>2. n # 0
  BY EmptySeq
<1> HIDE DEF C
<1>3. s \in Seq(S) /\ Len(s) = n /\ \A i \in 1..n : s[i] = B[n - i + 1]
  BY <1>1 DEF Reverse
<1>4. t \in Seq(S) /\ Len(t) = Len(C) /\ \A i \in 1..Len(C) : t[i] = C[Len(C) - i + 1]
  BY <1>1 DEF Reverse
<1> HIDE DEF s, t
<1>5. ASSUME NEW i \in 1..n PROVE t[i] = s[i]
  <2>1. i \in 1..Len(C) /\ n - i + 1 \in 1..n /\ Len(C) - i + 1 = Len(A) + (n - i + 1)
    BY <1>1
  <2> QED
    BY <1>1, <1>3, <1>4, <2>1
<1>6. SubSeq(s, 1, n) = SubSeq(t, 1, n)
  BY <1>1, <1>3, <1>4, <1>5
<1>7. IsPrefix(s, t)
  BY <1>1, <1>3, <1>4, <1>6 DEF IsPrefix
<1> QED
  BY <1>1, <1>2, <1>7 DEF IsSuffix, s, t, C

USE CatalogueAssumption, ConfigAssumption

LEMMA PreferenceTypes ==
  ASSUME NEW c \in Catalogue
  PROVE  LET prefs == EffectivePreferences(c)
         IN  /\ prefs.domain \in Seq(Hostnames) /\ prefs.domains \in Seq(Hostnames)
             /\ prefs.priority \in Seq(Int)
<1> DEFINE candidate == BuildCandidateBase(c)
           config == servicePreferences(candidate)
           labels == ApplyLabelFields(c)
<1>1. /\ config.domain \in Seq(Hostnames) /\ config.domains \in Seq(Hostnames)
      /\ config.priority \in Seq(Int)
  BY DEF servicePreferences, Preferences, Optional, NoPreferences, Fields
<1>2. /\ labels.domain \in Seq(Hostnames) /\ labels.domains \in Seq(Hostnames)
      /\ labels.priority \in Seq(Int)
  BY DEF ApplyLabelFields, Preferences, Optional, Fields
<1> HIDE DEF config, labels
<1>3. EffectivePreferences(c) = MergeOverrides(config, labels)
  BY DEF EffectivePreferences, config, labels
<1> QED
  BY <1>1, <1>2, <1>3 DEF MergeOverrides, Fields

LEMMA PriorityType == ASSUME NEW c \in Catalogue PROVE Priority(c) \in Int
<1>1. EffectivePreferences(c).priority \in Seq(Int)
  BY PreferenceTypes
<1> QED
  BY <1>1 DEF Priority, Or

\* The TCP ports a container publishes.
Published(c) == {c.ports[i].port : i \in {j \in DOMAIN c.ports : c.ports[j].protocol = "tcp"}}

\* The selected port is a published one, and the one its label asks for if that is.
LEMMA SelectedIsPublished ==
  ASSUME NEW c \in Catalogue, Selected(c) # <<>>
  PROVE  /\ Selected(c)[1] \in Published(c)
         /\ \A p \in ToSet(c.labels.port) :
              p \in Published(c) /\ "port" \notin c.malformed => Selected(c)[1] = p
<1> DEFINE labelPort == ApplyLabelFields(c).port
           configPort == Or(EffectivePreferences(c).port, 0)
           tcp == {i \in DOMAIN c.ports : c.ports[i].protocol = "tcp"}
           preferred == {i \in DOMAIN PreferredPorts : PreferredPorts[i] \in Published(c)}
<1>1. Selected(c) = SelectPublishedPort(c.ports, labelPort, configPort)
  BY DEF Selected
<1>2. tcp \in SUBSET Nat /\ preferred \in SUBSET Nat
  OBVIOUS
<1>3. Published(c) = {c.ports[i].port : i \in tcp}
  BY DEF Published
<1> HIDE DEF labelPort, configPort
<1>4. Selected(c) =
        IF tcp = {} THEN <<>>
        ELSE IF labelPort # <<>> /\ labelPort[1] \in Published(c) THEN <<labelPort[1], "label">>
        ELSE IF configPort > 0 /\ configPort \in Published(c) THEN <<configPort, "override">>
        ELSE IF preferred # {} THEN <<PreferredPorts[Min(preferred)], "preference">>
        ELSE <<c.ports[Min(tcp)].port, "first-published">>
  BY <1>1, <1>3 DEF SelectPublishedPort
<1>5. tcp # {} => c.ports[Min(tcp)].port \in Published(c)
  BY <1>2, <1>3, MinIsLeast
<1>6. preferred # {} => PreferredPorts[Min(preferred)] \in Published(c)
  BY <1>2, MinIsLeast
<1> HIDE DEF tcp, preferred
<1>7. Selected(c)[1] \in Published(c)
  BY <1>4, <1>5, <1>6
<1>8. ASSUME NEW p \in ToSet(c.labels.port), p \in Published(c), "port" \notin c.malformed
      PROVE  Selected(c)[1] = p
  <2>1. labelPort = c.labels.port
    BY <1>8 DEF labelPort, ApplyLabelFields, Fields
  <2>2. c.labels.port \in Seq(Int) /\ Len(c.labels.port) <= 1
    BY DEF Preferences, Optional
  <2>3. p = c.labels.port[1] /\ c.labels.port # <<>>
    BY <1>8, <2>2 DEF ToSet
  <2>4. tcp # {}
    BY <1>3, <1>8
  <2> QED
    BY <1>4, <1>8, <2>1, <2>3, <2>4
<1> QED
  BY <1>7, <1>8

\* A container's routes differ in their host names alone.
LEMMA OwnRoutes ==
  ASSUME NEW c \in Catalogue
  PROVE  LET own == Contribution(c).routes
         IN  /\ DOMAIN own \subseteq Nat /\ IsFiniteSet(DOMAIN own)
             /\ \A k \in DOMAIN own :
                  /\ Eligible(c) /\ own[k] = RouteTo(c, own[k].hostname)
                  /\ k \in DOMAIN Generated(c).domains
                  /\ own[k].hostname = Generated(c).domains[k]
<1> DEFINE prefs == EffectivePreferences(c)
           explicit == IF prefs.domain # <<>> THEN prefs.domain ELSE prefs.domains
           own == Contribution(c).routes
           domains == Generated(c).domains
<1>1. explicit \in Seq(Hostnames)
  BY PreferenceTypes
<1>2. DOMAIN domains \subseteq {0} \cup DOMAIN explicit
  BY DEF Generated, GenerateDomains
<1> HIDE DEF domains, explicit
<1>3. own = IF Eligible(c) THEN [i \in DOMAIN domains |-> RouteTo(c, domains[i])] ELSE <<>>
  BY DEF Contribution, domains
<1>4. DOMAIN domains \subseteq 0..Len(explicit)
  BY <1>1, <1>2
<1>5. Len(explicit) \in Nat
  BY <1>1
<1>6. DOMAIN own \subseteq DOMAIN domains
  BY <1>3
<1>7. DOMAIN own \in SUBSET (0..Len(explicit))
  BY <1>4, <1>6
<1> HIDE DEF own
<1>8. IsFiniteSet(DOMAIN own)
  <2>1. IsFiniteSet(0..Len(explicit))
    BY <1>5, FS_Interval
  <2> QED
    BY <1>7, <2>1, FS_Subset
<1>9. ASSUME NEW k \in DOMAIN own
      PROVE  /\ Eligible(c) /\ own[k] = RouteTo(c, own[k].hostname)
             /\ k \in DOMAIN domains /\ own[k].hostname = domains[k]
  <2>1. Eligible(c) /\ k \in DOMAIN domains /\ own[k] = RouteTo(c, domains[k])
    BY <1>3, <1>9
  <2>2. RouteTo(c, domains[k]).hostname = domains[k]
    BY DEF RouteTo
  <2> QED
    BY <2>1, <2>2
<1> QED
  BY <1>5, <1>7, <1>8, <1>9 DEF own, domains

(***************************************************************************)
(* Snapshots                                                               *)
(***************************************************************************)
\* The routes that RebuildSnapshot collects from a listing, by their places.
Places(L) == UNION {{<<i, k>> : k \in DOMAIN Contribution(L[i]).routes} : i \in DOMAIN L}
RoutesOf(L) == [p \in Places(L) |-> Contribution(L[p[1]]).routes[p[2]]]

LEMMA BuildUnfolds ==
  ASSUME NEW L \in Seq(Catalogue)
  PROVE  /\ Build(L).routes = ResolveConflicts(RoutesOf(L)).active
         /\ Build(L).conflicts = ResolveConflicts(RoutesOf(L)).conflicts
         /\ Build(L).warnings = UNION {Contribution(L[i]).warnings : i \in DOMAIN L}
<1> DEFINE parts == [i \in DOMAIN L |-> Contribution(L[i])]
           places == UNION {{<<i, k>> : k \in DOMAIN parts[i].routes} : i \in DOMAIN parts}
           collected == [p \in places |-> parts[p[1]].routes[p[2]]]
<1>1. places = Places(L)
  BY DEF Places
<1>2. \A p \in places : p[1] \in DOMAIN L
  OBVIOUS
<1>3. collected = RoutesOf(L)
  BY <1>1, <1>2 DEF RoutesOf
<1>4. UNION {parts[i].warnings : i \in DOMAIN parts} =
        UNION {Contribution(L[i]).warnings : i \in DOMAIN L}
  OBVIOUS
<1> HIDE DEF places
<1> DEFINE resolved == ResolveConflicts(collected)
           warned == UNION {parts[i].warnings : i \in DOMAIN parts}
<1>5. Build(L) = [routes |-> resolved.active, conflicts |-> resolved.conflicts, warnings |-> warned]
  BY DEF Build, places
<1>6. resolved = ResolveConflicts(RoutesOf(L))
  BY <1>3
<1> HIDE DEF resolved, warned
<1>7. /\ Build(L).routes = resolved.active /\ Build(L).conflicts = resolved.conflicts
      /\ Build(L).warnings = warned
  BY <1>5
<1> QED
  BY <1>4, <1>6, <1>7 DEF warned

\* The claims to h are those of the containers listed.
LEMMA ClaimedPlaces ==
  ASSUME NEW L \in Seq(Catalogue), NEW h
  PROVE  /\ \A p \in Claimed(RoutesOf(L), h) :
              /\ p[1] \in DOMAIN L /\ L[p[1]] \in Catalogue /\ p[2] \in Claims(L[p[1]], h)
              /\ p = <<p[1], p[2]>> /\ RoutesOf(L)[p] = RouteTo(L[p[1]], h)
         /\ \A i \in DOMAIN L : \A k \in Claims(L[i], h) : <<i, k>> \in Claimed(RoutesOf(L), h)
<1>1. \A i \in DOMAIN L : L[i] \in Catalogue
  OBVIOUS
<1>2. ASSUME NEW p \in Claimed(RoutesOf(L), h)
      PROVE  /\ p[1] \in DOMAIN L /\ L[p[1]] \in Catalogue /\ p[2] \in Claims(L[p[1]], h)
             /\ p = <<p[1], p[2]>> /\ RoutesOf(L)[p] = RouteTo(L[p[1]], h)
  <2>1. p \in Places(L) /\ RoutesOf(L)[p].hostname = h
    BY DEF Claimed, RoutesOf
  <2>2. PICK i \in DOMAIN L : \E k \in DOMAIN Contribution(L[i]).routes : p = <<i, k>>
    BY <2>1 DEF Places
  <2>3. /\ p[1] \in DOMAIN L /\ p[2] \in DOMAIN Contribution(L[p[1]]).routes
        /\ p = <<p[1], p[2]>>
    BY <2>2
  <2>4. RoutesOf(L)[p] = Contribution(L[p[1]]).routes[p[2]]
    BY <2>1 DEF RoutesOf
  <2>5. RoutesOf(L)[p] = RouteTo(L[p[1]], h)
    BY <1>1, <2>1, <2>3, <2>4, OwnRoutes
  <2> QED
    BY <1>1, <2>1, <2>3, <2>4, <2>5 DEF Claims
<1>3. ASSUME NEW i \in DOMAIN L, NEW k \in Claims(L[i], h)
      PROVE  <<i, k>> \in Claimed(RoutesOf(L), h)
  <2>1. k \in DOMAIN Contribution(L[i]).routes /\ Contribution(L[i]).routes[k].hostname = h
    BY DEF Claims
  <2>2. <<i, k>> \in Places(L)
    BY <2>1 DEF Places
  <2>3. RoutesOf(L)[<<i, k>>] = Contribution(L[i]).routes[k]
    BY <2>2 DEF RoutesOf
  <2> QED
    BY <2>1, <2>2, <2>3 DEF Claimed, RoutesOf
<1> QED
  BY <1>2, <1>3

\* What RebuildSnapshot collects is finite and can be sorted.
LEMMA PlacesComparable ==
  ASSUME NEW L \in Seq(Catalogue)
  PROVE  Comparable(RoutesOf(L), DOMAIN RoutesOf(L)) /\ DOMAIN RoutesOf(L) = Places(L)
<1> DEFINE own(i) == DOMAIN Contribution(L[i]).routes
           rows == {{<<i, k>> : k \in own(i)} : i \in DOMAIN L}
<1>1. ASSUME NEW i \in DOMAIN L
      PROVE  /\ own(i) \subseteq Nat /\ IsFiniteSet(own(i))
             /\ \A k \in own(i) : /\ Contribution(L[i]).routes[k].priority \in Int
                                  /\ Contribution(L[i]).routes[k].winner \in Nat
  <2>1. L[i] \in Catalogue
    OBVIOUS
  <2>2. /\ own(i) \subseteq Nat /\ IsFiniteSet(own(i))
        /\ \A k \in own(i) : Contribution(L[i]).routes[k] =
                               RouteTo(L[i], Contribution(L[i]).routes[k].hostname)
    BY <2>1, OwnRoutes
  <2>3. \A g : RouteTo(L[i], g).priority = Priority(L[i]) /\ RouteTo(L[i], g).winner = L[i].name
    BY DEF RouteTo, Priority
  <2>4. Priority(L[i]) \in Int /\ L[i].name \in Nat
    BY <2>1, PriorityType
  <2> QED
    BY <2>2, <2>3, <2>4
<1>2. DOMAIN L = 1..Len(L) /\ Len(L) \in Nat
  OBVIOUS
<1>3. Places(L) = UNION rows
  BY DEF Places
<1> HIDE DEF own
<1>4. ASSUME NEW i \in DOMAIN L PROVE IsFiniteSet({<<i, k>> : k \in own(i)})
  <2> DEFINE row == {<<i, k>> : k \in own(i)}
             f == [k \in own(i) |-> <<i, k>>]
  <2>1. f \in Surjection(own(i), row)
    BY DEF Surjection
  <2> HIDE DEF f, row
  <2>2. IsFiniteSet(row)
    BY <1>1, <2>1, FS_Surjection
  <2> QED
    BY <2>2 DEF row
<1>5. IsFiniteSet(rows)
  <2> DEFINE f == [i \in DOMAIN L |-> {<<i, k>> : k \in own(i)}]
  <2>1. f \in Surjection(DOMAIN L, rows)
    BY DEF Surjection
  <2>2. IsFiniteSet(DOMAIN L)
    BY <1>2, FS_Interval
  <2> HIDE DEF f, rows
  <2> QED
    BY <2>1, <2>2, FS_Surjection
<1>6. \A row \in rows : IsFiniteSet(row)
  BY <1>4
<1>7. ASSUME NEW p \in Places(L)
      PROVE  p[1] \in DOMAIN L /\ p[2] \in own(p[1]) /\ p = <<p[1], p[2]>>
  BY <1>3
<1> HIDE DEF rows
<1>8. IsFiniteSet(Places(L))
  BY <1>3, <1>5, <1>6, FS_UNION
<1>9. Places(L) \subseteq Nat \X Nat
  BY <1>1, <1>2, <1>7
<1>10. ASSUME NEW p \in Places(L)
       PROVE  RoutesOf(L)[p].priority \in Int /\ RoutesOf(L)[p].winner \in Nat
  BY <1>1, <1>7 DEF RoutesOf
<1>11. DOMAIN RoutesOf(L) = Places(L)
  BY DEF RoutesOf
<1> QED
  BY <1>8, <1>9, <1>10, <1>11 DEF Comparable

\* c has a higher priority than d, or as high a one and no later name.
Outranks(c, d) == Priority(c) > Priority(d) \/ (Priority(c) = Priority(d) /\ c.name <= d.name)

LEMMA AheadOutranks ==
  ASSUME NEW routes, NEW p, NEW q, NEW c \in Catalogue, NEW d \in Catalogue, NEW h,
         routes[p] = RouteTo(c, h), routes[q] = RouteTo(d, h), Ahead(routes, p, q)
  PROVE  Outranks(c, d)
<1>1. \A e \in {c, d} : /\ RouteTo(e, h).priority = Priority(e) /\ RouteTo(e, h).winner = e.name
                        /\ Priority(e) \in Int /\ e.name \in Nat
  BY PriorityType DEF RouteTo, Priority
<1> QED
  BY <1>1 DEF Ahead, Before, Outranks

\* Each host name that a container claims belongs to the claimant that outranks
\* the others.
LEMMA BuiltRoutes ==
  ASSUME NEW L \in Seq(Catalogue)
  PROVE  /\ Build(L).routes = [h \in DOMAIN Build(L).routes |-> Build(L).routes[h]]
         /\ \A h : h \in DOMAIN Build(L).routes <=> \E c \in ToSet(L) : Claims(c, h) # {}
         /\ \A h \in DOMAIN Build(L).routes :
              \E c \in ToSet(L) :
                /\ Claims(c, h) # {} /\ Build(L).routes[h] = RouteTo(c, h)
                /\ \A d \in ToSet(L) : Claims(d, h) # {} => Outranks(c, d)
<1> DEFINE routes == RoutesOf(L)
           active == Build(L).routes
<1>1. active = ResolveConflicts(routes).active
  BY BuildUnfolds
<1>2. Comparable(routes, DOMAIN routes)
  BY PlacesComparable
<1>3. /\ DOMAIN active = {routes[p].hostname : p \in DOMAIN routes}
      /\ \A h \in DOMAIN active :
           \E w \in Claimed(routes, h) : active[h] = routes[w] /\ Wins(routes, h, w)
  BY <1>1, <1>2, Resolved
<1>4. active = [h \in DOMAIN active |-> active[h]]
  BY <1>1 DEF ResolveConflicts
<1>5. \A c : c \in ToSet(L) <=> \E i \in DOMAIN L : L[i] = c
  BY DEF ToSet
<1>6. \A c \in ToSet(L) : c \in Catalogue
  BY <1>5
<1> HIDE DEF active
<1>7. ASSUME NEW h PROVE h \in DOMAIN active <=> \E c \in ToSet(L) : Claims(c, h) # {}
  <2>1. h \in DOMAIN active <=> Claimed(routes, h) # {}
    BY <1>3 DEF Claimed
  <2> HIDE DEF routes
  <2>2. ASSUME NEW p \in Claimed(routes, h) PROVE \E c \in ToSet(L) : Claims(c, h) # {}
    BY <1>5, ClaimedPlaces DEF routes
  <2>3. ASSUME NEW c \in ToSet(L), Claims(c, h) # {} PROVE Claimed(routes, h) # {}
    <3>1. PICK i \in DOMAIN L : L[i] = c
      BY <1>5
    <3>2. PICK k \in Claims(L[i], h) : TRUE
      BY <2>3, <3>1
    <3>3. <<i, k>> \in Claimed(routes, h)
      BY <3>1, <3>2, ClaimedPlaces DEF routes
    <3> QED
      BY <3>3
  <2> QED
    BY <2>1, <2>2, <2>3
<1>8. ASSUME NEW h \in DOMAIN active
      PROVE  \E c \in ToSet(L) :
               /\ Claims(c, h) # {} /\ active[h] = RouteTo(c, h)
               /\ \A d \in ToSet(L) : Claims(d, h) # {} => Outranks(c, d)
  <2>1. PICK w \in Claimed(routes, h) : active[h] = routes[w] /\ Wins(routes, h, w)
    BY <1>3
  <2> HIDE DEF routes
  <2> DEFINE c == L[w[1]]
  <2>2. /\ c \in ToSet(L) /\ c \in Catalogue /\ Claims(c, h) # {} /\ routes[w] = RouteTo(c, h)
    BY <1>5, ClaimedPlaces DEF routes
  <2>3. ASSUME NEW d \in ToSet(L), Claims(d, h) # {} PROVE Outranks(c, d)
    <3>1. PICK i \in DOMAIN L : L[i] = d
      BY <1>5
    <3>2. PICK k \in Claims(L[i], h) : TRUE
      BY <2>3, <3>1
    <3> DEFINE p == <<i, k>>
    <3>3. p \in Claimed(routes, h) /\ routes[p] = RouteTo(d, h)
      BY <3>1, <3>2, ClaimedPlaces DEF routes
    <3>4. CASE p = w
      BY <1>6, <2>2, <3>1, <3>4, PriorityType DEF Outranks
    <3>5. CASE p # w
      <4>1. Ahead(routes, w, p)
        BY <2>1, <3>3, <3>5 DEF Wins
      <4> HIDE DEF c, p
      <4> QED
        BY <1>6, <2>2, <3>3, <4>1, AheadOutranks
    <3> QED
      BY <3>4, <3>5
  <2> QED
    BY <2>1, <2>2, <2>3
<1> QED
  BY <1>4, <1>7, <1>8 DEF active

Distinct(L) == \A i, j \in DOMAIN L : L[i] = L[j] => i = j

Repeats(c, h) == \E i, j \in Claims(c, h) : i # j

\* The claims to h other than w are those of containers other than c, and more of
\* c's own if that lists the host name twice.
Beside(L, h, w, c) ==
  /\ \A p \in Claimed(RoutesOf(L), h) \ {w} : L[p[1]] = c => Repeats(c, h)
  /\ Repeats(c, h) => \E p \in Claimed(RoutesOf(L), h) \ {w} : L[p[1]] = c
  /\ \A d \in ToSet(L) \ {c} :
       Claims(d, h) # {} => \E p \in Claimed(RoutesOf(L), h) \ {w} : L[p[1]] = d

LEMMA OtherClaims ==
  ASSUME NEW L \in Seq(Catalogue), Distinct(L), NEW h,
         NEW w \in Claimed(RoutesOf(L), h), NEW c, L[w[1]] = c
  PROVE  Beside(L, h, w, c)
<1> DEFINE all == Claimed(RoutesOf(L), h)
<1>1. /\ \A p \in all : p[1] \in DOMAIN L /\ p[2] \in Claims(L[p[1]], h) /\ p = <<p[1], p[2]>>
      /\ \A i \in DOMAIN L : \A k \in Claims(L[i], h) : <<i, k>> \in all
  BY ClaimedPlaces
<1> HIDE DEF all
<1>2. ASSUME NEW p \in all \ {w}, L[p[1]] = c PROVE Repeats(c, h)
  <2>1. w \in all /\ p[1] = w[1]
    BY <1>1, <1>2 DEF Distinct, all
  <2>2. p[2] # w[2]
    BY <1>1, <2>1
  <2> QED
    BY <1>1, <1>2, <2>1, <2>2 DEF Repeats
<1>3. ASSUME Repeats(c, h) PROVE \E p \in all \ {w} : L[p[1]] = c
  <2>1. PICK i, j \in Claims(c, h) : i # j
    BY <1>3 DEF Repeats
  <2>2. PICK k \in {i, j} : k # w[2]
    BY <2>1
  <2>3. w[1] \in DOMAIN L /\ k \in Claims(L[w[1]], h)
    BY <1>1, <2>1, <2>2 DEF all
  <2> DEFINE p == <<w[1], k>>
  <2>4. p \in all /\ p[1] = w[1] /\ p # w
    BY <1>1, <2>2, <2>3
  <2> QED
    BY <2>4
<1>4. ASSUME NEW d \in ToSet(L) \ {c}, Claims(d, h) # {} PROVE \E p \in all \ {w} : L[p[1]] = d
  <2>1. PICK i \in DOMAIN L : L[i] = d
    BY DEF ToSet
  <2>2. PICK k \in Claims(L[i], h) : TRUE
    BY <1>4, <2>1
  <2> DEFINE p == <<i, k>>
  <2>3. p \in all /\ p[1] = i /\ p # w
    BY <1>1, <2>1, <2>2
  <2> QED
    BY <2>1, <2>3
<1> QED
  BY <1>2, <1>3, <1>4 DEF all, Beside

\* The conflicts tell that c won h from the others.
Reported(conflicts, h, c, others) ==
  /\ others # {} \/ Repeats(c, h) => \E k \in conflicts : k.hostname = h
  /\ \A k \in conflicts : k.hostname = h =>
       /\ k.winner = c.name
       /\ ToSet(k.losers) \ {c.name} = {d.name : d \in others}
       /\ c.name \in ToSet(k.losers) <=> Repeats(c, h)
       /\ k.tie <=> Repeats(c, h) \/ \E d \in others : Priority(d) = Priority(c)

\* Conflicts are reported where a host name is claimed more than once, with all
\* who lost it.
LEMMA BuiltConflicts ==
  ASSUME NEW L \in Seq(Catalogue), Distinct(L)
  PROVE  /\ \A k \in Build(L).conflicts : k.hostname \in DOMAIN Build(L).routes
         /\ \A h \in DOMAIN Build(L).routes : \A c \in ToSet(L) :
              Build(L).routes[h].winner = c.name =>
                Reported(Build(L).conflicts, h, c, {d \in ToSet(L) : Claims(d, h) # {}} \ {c})
<1> DEFINE routes == RoutesOf(L)
           active == Build(L).routes
           conflicts == Build(L).conflicts
<1>1. active = ResolveConflicts(routes).active /\ conflicts = ResolveConflicts(routes).conflicts
  BY BuildUnfolds
<1>2. Comparable(routes, DOMAIN routes)
  BY PlacesComparable
<1>3. /\ \A h \in DOMAIN active :
           \E w \in Claimed(routes, h) :
             /\ active[h] = routes[w] /\ Wins(routes, h, w)
             /\ Claimed(routes, h) # {w} => \E k \in conflicts : k.hostname = h
      /\ \A k \in conflicts :
           \E h \in DOMAIN active : \E w, s \in Claimed(routes, h) :
             /\ active[h] = routes[w] /\ Wins(routes, h, w)
             /\ Second(routes, h, w, s) /\ Reports(k, routes, h, w, s)
  BY <1>1, <1>2, Resolved
<1> HIDE DEF active, conflicts, routes
<1>4. \A k \in conflicts : k.hostname \in DOMAIN active
  BY <1>3 DEF Reports
<1>5. /\ \A c \in ToSet(L) : c \in Catalogue
      /\ \A c, d \in ToSet(L) : c.name = d.name => c = d
  <2>1. \A c \in ToSet(L) : c \in Catalogue
    BY DEF ToSet
  <2> QED
    BY <2>1, CatalogueAssumption
\* The winner's claim is one of the container named.
<1>6. ASSUME NEW h, NEW w \in Claimed(routes, h), NEW c \in ToSet(L), routes[w].winner = c.name
      PROVE  /\ L[w[1]] = c
             /\ \A p \in Claimed(routes, h) :
                  /\ L[p[1]] \in ToSet(L) /\ L[p[1]] \in Catalogue /\ Claims(L[p[1]], h) # {}
                  /\ routes[p] = RouteTo(L[p[1]], h)
                  /\ routes[p].winner = L[p[1]].name /\ routes[p].priority = Priority(L[p[1]])
  <2>1. \A p \in Claimed(routes, h) :
          /\ L[p[1]] \in ToSet(L) /\ L[p[1]] \in Catalogue /\ Claims(L[p[1]], h) # {}
          /\ routes[p] = RouteTo(L[p[1]], h)
    BY ClaimedPlaces DEF routes, ToSet
  <2>2. \A d : RouteTo(d, h).winner = d.name /\ RouteTo(d, h).priority = Priority(d)
    BY DEF RouteTo, Priority
  <2> QED
    BY <1>5, <1>6, <2>1, <2>2
<1>7. ASSUME NEW h \in DOMAIN active, NEW c \in ToSet(L), active[h].winner = c.name,
             \/ {d \in ToSet(L) : Claims(d, h) # {}} \ {c} # {}
             \/ Repeats(c, h)
      PROVE  \E k \in conflicts : k.hostname = h
  <2>1. PICK w \in Claimed(routes, h) :
             /\ active[h] = routes[w]
             /\ Claimed(routes, h) # {w} => \E k \in conflicts : k.hostname = h
    BY <1>3
  <2>2. L[w[1]] = c
    BY <1>6, <1>7, <2>1
  <2>3. Beside(L, h, w, c)
    BY <2>1, <2>2, OtherClaims DEF routes
  <2>4. CASE Repeats(c, h)
    <3>1. \E p \in Claimed(routes, h) \ {w} : L[p[1]] = c
      BY <2>3, <2>4 DEF routes, Beside
    <3> QED
      BY <2>1, <3>1
  <2>5. CASE {d \in ToSet(L) : Claims(d, h) # {}} \ {c} # {}
    <3>1. PICK d \in ToSet(L) \ {c} : Claims(d, h) # {}
      BY <2>5
    <3>2. \E p \in Claimed(routes, h) \ {w} : L[p[1]] = d
      BY <2>3, <3>1 DEF routes, Beside
    <3> QED
      BY <2>1, <3>2
  <2> QED
    BY <1>7, <2>4, <2>5
<1>8. ASSUME NEW h \in DOMAIN active, NEW c \in ToSet(L), active[h].winner = c.name,
             NEW k \in conflicts, k.hostname = h
      PROVE  LET others == {d \in ToSet(L) : Claims(d, h) # {}} \ {c}
             IN  /\ k.winner = c.name
                 /\ ToSet(k.losers) \ {c.name} = {d.name : d \in others}
                 /\ c.name \in ToSet(k.losers) <=> Repeats(c, h)
                 /\ k.tie <=> Repeats(c, h) \/ \E d \in others : Priority(d) = Priority(c)
  <2> DEFINE all == Claimed(routes, h)
             others == {d \in ToSet(L) : Claims(d, h) # {}} \ {c}
  <2>1. PICK w, s \in all : /\ active[h] = routes[w] /\ Wins(routes, h, w)
                            /\ Second(routes, h, w, s) /\ Reports(k, routes, h, w, s)
    <3>1. PICK g \in DOMAIN active : \E w, s \in Claimed(routes, g) :
             /\ active[g] = routes[w] /\ Wins(routes, g, w)
             /\ Second(routes, g, w, s) /\ Reports(k, routes, g, w, s)
      BY <1>3
    <3>2. g = h
      BY <1>8, <3>1 DEF Reports
    <3> QED
      BY <3>1, <3>2
  <2>2. L[w[1]] = c
    BY <1>6, <1>8, <2>1
  <2>3. \A p \in all :
          /\ L[p[1]] \in ToSet(L) /\ L[p[1]] \in Catalogue /\ Claims(L[p[1]], h) # {}
          /\ routes[p] = RouteTo(L[p[1]], h)
          /\ routes[p].winner = L[p[1]].name /\ routes[p].priority = Priority(L[p[1]])
    BY <1>6, <1>8, <2>1
  <2>4. /\ \A p \in all \ {w} : L[p[1]] = c => Repeats(c, h)
        /\ Repeats(c, h) => \E p \in all \ {w} : L[p[1]] = c
        /\ \A d \in others : \E p \in all \ {w} : L[p[1]] = d
    <3>1. /\ \A p \in all \ {w} : L[p[1]] = c => Repeats(c, h)
          /\ Repeats(c, h) => \E p \in all \ {w} : L[p[1]] = c
          /\ \A d \in ToSet(L) \ {c} :
               Claims(d, h) # {} => \E p \in all \ {w} : L[p[1]] = d
      <4>1. Beside(L, h, w, c)
        BY <2>1, <2>2, OtherClaims DEF routes
      <4> QED
        BY <4>1 DEF routes, Beside
    <3> HIDE DEF all
    <3> QED
      BY <3>1
  <2>5. \A p \in all \ {w} : L[p[1]] = c \/ L[p[1]] \in others
    BY <2>3
  <2> DEFINE losers == {routes[p].winner : p \in all \ {w}}
  <2>6. k.winner = c.name /\ ToSet(k.losers) = losers
        /\ (k.tie <=> routes[w].priority = routes[s].priority)
    BY <1>8, <2>1 DEF Reports
  <2> HIDE DEF others, all
  <2>7. losers \ {c.name} = {d.name : d \in others}
    <3>1. ASSUME NEW p \in all \ {w}, routes[p].winner # c.name
          PROVE  \E d \in others : routes[p].winner = d.name
      <4>1. L[p[1]] # c /\ routes[p].winner = L[p[1]].name
        BY <2>3, <3>1
      <4> QED
        BY <2>5, <4>1
    <3>2. ASSUME NEW d \in others
          PROVE  d.name # c.name /\ \E p \in all \ {w} : routes[p].winner = d.name
      <4>1. d \in ToSet(L) /\ d # c
        BY DEF others
      <4>2. PICK p \in all \ {w} : L[p[1]] = d
        BY <2>4
      <4>3. routes[p].winner = d.name
        BY <2>3, <4>2
      <4> QED
        BY <1>5, <4>1, <4>3
    <3>3. \A n \in losers \ {c.name} : \E d \in others : n = d.name
      BY <3>1
    <3>4. \A d \in others : d.name \in losers \ {c.name}
      <4> TAKE d \in others
      <4>1. PICK p \in all \ {w} : routes[p].winner = d.name
        BY <3>2
      <4> QED
        BY <3>2, <4>1
    <3> HIDE DEF losers
    <3> QED
      BY <3>3, <3>4
  <2>8. c.name \in losers <=> Repeats(c, h)
    <3>1. ASSUME NEW p \in all \ {w}, routes[p].winner = c.name PROVE Repeats(c, h)
      <4>1. L[p[1]] \in ToSet(L) /\ routes[p].winner = L[p[1]].name
        BY <2>3
      <4>2. L[p[1]] = c
        BY <1>5, <3>1, <4>1
      <4> QED
        BY <2>4, <4>2
    <3>2. ASSUME Repeats(c, h) PROVE c.name \in losers
      <4>1. PICK p \in all \ {w} : L[p[1]] = c
        BY <2>4, <3>2
      <4>2. routes[p].winner = c.name
        BY <2>3, <4>1
      <4> QED
        BY <4>2
    <3> QED
      BY <3>1, <3>2
  <2>9. ASSUME routes[w].priority = routes[s].priority
        PROVE  Repeats(c, h) \/ \E d \in others : Priority(d) = Priority(c)
    <3>1. s \in all \ {w}
      BY <2>1 DEF Second, all
    <3>2. Priority(L[s[1]]) = Priority(c)
      BY <2>2, <2>3, <2>9, <3>1
    <3> QED
      BY <2>4, <2>5, <3>1, <3>2
  <2>10. ASSUME NEW p \in all \ {w}, Priority(L[p[1]]) = Priority(c)
         PROVE  routes[w].priority = routes[s].priority
    <3>1. s \in all \ {w} /\ (p = s \/ Ahead(routes, s, p)) /\ Ahead(routes, w, s)
      BY <2>1, <2>10 DEF Second, Wins, all
    <3>2. \A q \in all : Priority(L[q[1]]) \in Int
      BY <2>3, PriorityType
    <3>3. Outranks(c, L[s[1]])
      <4>1. routes[w] = RouteTo(c, h) /\ c \in Catalogue
        BY <2>2, <2>3
      <4>2. routes[s] = RouteTo(L[s[1]], h) /\ L[s[1]] \in Catalogue
        BY <2>3, <3>1
      <4> QED
        BY <3>1, <4>1, <4>2, AheadOutranks
    <3>4. p = s \/ Outranks(L[s[1]], L[p[1]])
      <4>1. routes[p] = RouteTo(L[p[1]], h) /\ L[p[1]] \in Catalogue
        BY <2>3, <2>10
      <4>2. routes[s] = RouteTo(L[s[1]], h) /\ L[s[1]] \in Catalogue
        BY <2>3, <3>1
      <4> QED
        BY <3>1, <4>1, <4>2, AheadOutranks
    <3>5. Priority(L[s[1]]) = Priority(c)
      BY <2>2, <2>10, <3>1, <3>2, <3>3, <3>4 DEF Outranks
    <3> QED
      BY <2>2, <2>3, <3>1, <3>5
  <2>11. ASSUME Repeats(c, h) \/ \E d \in others : Priority(d) = Priority(c)
         PROVE  routes[w].priority = routes[s].priority
    <3>1. PICK p \in all \ {w} : Priority(L[p[1]]) = Priority(c)
      BY <2>4, <2>11
    <3> QED
      BY <2>10, <3>1
  <2> HIDE DEF losers
  <2>12. k.tie <=> Repeats(c, h) \/ \E d \in others : Priority(d) = Priority(c)
    BY <2>6, <2>9, <2>11
  <2> QED
    BY <2>6, <2>7, <2>8, <2>12 DEF others
<1>9. ASSUME NEW h \in DOMAIN active, NEW c \in ToSet(L), active[h].winner = c.name
      PROVE  Reported(conflicts, h, c, {d \in ToSet(L) : Claims(d, h) # {}} \ {c})
  BY <1>7, <1>8, <1>9 DEF Reported
<1> QED
  BY <1>4, <1>9 DEF active, conflicts

(***************************************************************************)
(* The inductive invariant                                                 *)
(***************************************************************************)
\* Docker lists every container once, and the snapshot is that of the listing.
RoutingInv ==
  /\ listing \in Seq(Catalogue) /\ Len(listing) <= MaxListed /\ Distinct(listing)
  /\ snap = Build(listing)

LEMMA Inserted ==
  ASSUME NEW L \in Seq(Catalogue), Distinct(L), NEW i \in 1..Len(L) + 1,
         NEW c \in Catalogue \ ToSet(L)
  PROVE  /\ InsertAt(L, i, c) \in Seq(Catalogue) /\ Distinct(InsertAt(L, i, c))
         /\ Len(InsertAt(L, i, c)) = Len(L) + 1
<1> DEFINE M == InsertAt(L, i, c)
<1>1. /\ M \in Seq(Catalogue) /\ Len(M) = Len(L) + 1
      /\ \A j \in 1..Len(L) + 1 : M[j] = IF j < i THEN L[j] ELSE IF j = i THEN c ELSE L[j - 1]
  BY InsertedEntries
<1>2. \A j \in 1..Len(L) : L[j] # c
  BY DEF ToSet
<1> HIDE DEF M
<1>3. DOMAIN M = 1..Len(L) + 1 /\ DOMAIN L = 1..Len(L) /\ Len(L) \in Nat
  BY <1>1
\* Where an entry comes from.
<1> DEFINE old(j) == IF j < i THEN j ELSE j - 1
<1>4. ASSUME NEW j \in DOMAIN M, NEW k \in DOMAIN M, M[j] = M[k] PROVE j = k
  <2>1. ASSUME NEW n \in {j, k}, n # i PROVE old(n) \in 1..Len(L) /\ M[n] = L[old(n)]
    <3>1. n \in 1..Len(L) + 1 /\ n \in Int /\ i \in 1..Len(L) + 1 /\ i \in Int /\ Len(L) \in Nat
      BY <1>3
    <3>2. M[n] = L[old(n)]
      BY <1>1, <2>1, <3>1
    <3>3. old(n) \in 1..Len(L)
      BY <2>1, <3>1
    <3> QED
      BY <3>2, <3>3
  <2>2. j = i <=> k = i
    BY <1>1, <1>2, <1>3, <1>4, <2>1
  <2>3. CASE j # i
    <3>1. old(j) = old(k)
      BY <1>3, <1>4, <2>1, <2>2, <2>3 DEF Distinct
    <3> QED
      BY <1>3, <2>2, <2>3, <3>1
  <2> QED
    BY <2>2, <2>3
<1> QED
  BY <1>1, <1>4 DEF M, Distinct

LEMMA Removed ==
  ASSUME NEW L \in Seq(Catalogue), Distinct(L), NEW i \in DOMAIN L
  PROVE  /\ RemoveAt(L, i) \in Seq(Catalogue) /\ Distinct(RemoveAt(L, i))
         /\ Len(RemoveAt(L, i)) = Len(L) - 1
<1> DEFINE M == RemoveAt(L, i)
<1>1. /\ M \in Seq(Catalogue) /\ Len(M) = Len(L) - 1
      /\ \A j \in 1..Len(L) - 1 : M[j] = IF j < i THEN L[j] ELSE L[j + 1]
  BY RemainingEntries
<1> HIDE DEF M
<1>2. DOMAIN M = 1..Len(L) - 1 /\ DOMAIN L = 1..Len(L) /\ Len(L) \in Nat
  BY <1>1
\* Where an entry comes from.
<1> DEFINE old(j) == IF j < i THEN j ELSE j + 1
<1>3. ASSUME NEW j \in DOMAIN M, NEW k \in DOMAIN M, M[j] = M[k] PROVE j = k
  <2>1. ASSUME NEW n \in {j, k} PROVE old(n) \in 1..Len(L) /\ M[n] = L[old(n)]
    <3>1. n \in 1..Len(L) - 1 /\ n \in Int /\ i \in 1..Len(L) /\ i \in Int /\ Len(L) \in Nat
      BY <1>2
    <3>2. M[n] = L[old(n)]
      BY <1>1, <2>1, <3>1
    <3>3. old(n) \in 1..Len(L)
      BY <2>1, <3>1
    <3> QED
      BY <3>2, <3>3
  <2>2. old(j) = old(k)
    BY <1>2, <1>3, <2>1 DEF Distinct
  <2> QED
    BY <1>2, <2>2
<1> QED
  BY <1>1, <1>3 DEF M, Distinct

LEMMA InitInv == Init => RoutingInv
<1>1. <<>> \in Seq(Catalogue) /\ Len(<<>>) = 0 /\ Distinct(<<>>)
  BY DEF Distinct
<1> QED
  BY <1>1, ConfigAssumption DEF Init, RoutingInv

LEMMA StepInv == RoutingInv /\ [Next]_vars => RoutingInv'
<1> SUFFICES ASSUME RoutingInv, [Next]_vars PROVE RoutingInv'
  OBVIOUS
<1>1. CASE RebuildSnapshot
  <2>1. PICK l \in Listings : listing' = l /\ snap' = Build(l)
    BY <1>1 DEF RebuildSnapshot
  <2>2. l \in Seq(Catalogue) /\ Len(l) <= MaxListed /\ Distinct(l)
    <3>1. ASSUME NEW i \in {j \in 1..Len(listing) + 1 : Len(listing) < MaxListed},
                 NEW c \in Catalogue \ ToSet(listing), l = InsertAt(listing, i, c)
          PROVE  l \in Seq(Catalogue) /\ Len(l) <= MaxListed /\ Distinct(l)
      BY <3>1, Inserted, ConfigAssumption DEF RoutingInv
    <3>2. ASSUME NEW i \in DOMAIN listing, l = RemoveAt(listing, i)
          PROVE  l \in Seq(Catalogue) /\ Len(l) <= MaxListed /\ Distinct(l)
      BY <3>2, Removed, ConfigAssumption DEF RoutingInv
    <3> QED
      BY <2>1, <3>1, <3>2 DEF Listings
  <2> QED
    BY <2>1, <2>2 DEF RoutingInv, Distinct
<1>2. CASE UNCHANGED vars
  BY <1>2 DEF RoutingInv, vars, Distinct, Build
<1> QED
  BY <1>1, <1>2 DEF Next

\* Whatever Docker lists, the snapshot is the one RebuildSnapshot makes of it.
THEOREM Invariance == Spec => []RoutingInv
  BY InitInv, StepInv, PTL DEF Spec

(***************************************************************************)
(* The safety properties                                                   *)
(***************************************************************************)
LEMMA WinnerInv == RoutingInv => WinnerByPriority
<1> SUFFICES ASSUME RoutingInv, NEW h \in DOMAIN snap.routes
             PROVE  \E c \in Claimants(h) :
                      /\ \A d \in Claimants(h) : Outranks(c, d)
                      /\ snap.routes[h] = RouteTo(c, h)
  BY DEF WinnerByPriority, Outranks
<1>1. listing \in Seq(Catalogue) /\ snap = Build(listing)
  BY DEF RoutingInv
<1>2. \E c \in ToSet(listing) :
        /\ Claims(c, h) # {} /\ snap.routes[h] = RouteTo(c, h)
        /\ \A d \in ToSet(listing) : Claims(d, h) # {} => Outranks(c, d)
  BY <1>1, BuiltRoutes
<1> QED
  BY <1>2 DEF Claimants

\* A host name belongs to the claimant of the highest priority, the first by name
\* among equals: RebuildSnapshot does not depend on the order of the listing.
THEOREM WinnerIsByPriority == Spec => []WinnerByPriority
  BY Invariance, WinnerInv, PTL

LEMMA ConflictsInv == RoutingInv => ConflictsExact
<1> SUFFICES ASSUME RoutingInv PROVE ConflictsExact
  OBVIOUS
<1>1. listing \in Seq(Catalogue) /\ Distinct(listing) /\ snap = Build(listing)
  BY DEF RoutingInv
<1>2. \A k \in snap.conflicts : k.hostname \in DOMAIN snap.routes
  BY <1>1, BuiltConflicts
<1>3. ASSUME NEW h \in DOMAIN snap.routes
      PROVE  LET won == snap.routes[h].winner
                 others == Claimants(h) \ {Named(won)}
                 repeats == \E i, j \in Claims(Named(won), h) : i # j
             IN  /\ others # {} \/ repeats => \E k \in snap.conflicts : k.hostname = h
                 /\ \A k \in snap.conflicts : k.hostname = h =>
                      /\ k.winner = won
                      /\ ToSet(k.losers) \ {won} = {c.name : c \in others}
                      /\ won \in ToSet(k.losers) <=> repeats
                      /\ k.tie <=> repeats \/ \E c \in others : Priority(c) = snap.routes[h].priority
  <2> DEFINE won == snap.routes[h].winner
             c == Named(won)
             others == Claimants(h) \ {c}
  <2>1. c \in ToSet(listing) /\ snap.routes[h] = RouteTo(c, h)
    <3>1. PICK d \in ToSet(listing) : snap.routes[h] = RouteTo(d, h)
      BY <1>1, BuiltRoutes
    <3>2. \A e \in ToSet(listing) : e \in Catalogue
      BY <1>1 DEF ToSet
    <3>3. won = d.name
      BY <3>1 DEF RouteTo
    <3>4. c = d
      BY <3>1, <3>2, <3>3, CatalogueAssumption DEF Named
    <3> QED
      BY <3>1, <3>4
  <2>2. won = c.name /\ snap.routes[h].priority = Priority(c)
    BY <2>1 DEF RouteTo, Priority
  <2> HIDE DEF won, c
  <2>3. /\ others # {} \/ Repeats(c, h) => \E k \in snap.conflicts : k.hostname = h
        /\ \A k \in snap.conflicts : k.hostname = h =>
             /\ k.winner = won
             /\ ToSet(k.losers) \ {won} = {d.name : d \in others}
             /\ won \in ToSet(k.losers) <=> Repeats(c, h)
             /\ k.tie <=> Repeats(c, h) \/ \E d \in others : Priority(d) = Priority(c)
    <3>1. h \in DOMAIN Build(listing).routes /\ Build(listing).routes[h].winner = c.name
      BY <1>1, <2>2 DEF won
    <3>2. others = {d \in ToSet(listing) : Claims(d, h) # {}} \ {c}
      BY DEF Claimants
    <3>3. Reported(Build(listing).conflicts, h, c,
                   {d \in ToSet(listing) : Claims(d, h) # {}} \ {c})
      BY <1>1, <2>1, <3>1, BuiltConflicts
    <3> HIDE DEF others
    <3>4. Reported(snap.conflicts, h, c, others)
      BY <1>1, <3>2, <3>3
    <3> QED
      BY <2>2, <3>4 DEF Reported
  <2>4. /\ others # {} \/ (\E i, j \in Claims(c, h) : i # j) => \E k \in snap.conflicts : k.hostname = h
        /\ \A k \in snap.conflicts : k.hostname = h =>
             /\ k.winner = won
             /\ ToSet(k.losers) \ {won} = {d.name : d \in others}
             /\ won \in ToSet(k.losers) <=> \E i, j \in Claims(c, h) : i # j
             /\ k.tie <=> (\E i, j \in Claims(c, h) : i # j)
                             \/ \E d \in others : Priority(d) = snap.routes[h].priority
    BY <2>2, <2>3 DEF Repeats
  <2> QED
    BY <2>4 DEF won, c
<1> QED
  BY <1>2, <1>3 DEF ConflictsExact

\* Every host name that is claimed more than once is reported, with exactly those
\* who lost it.
THEOREM ConflictsAreExact == Spec => []ConflictsExact
  BY Invariance, ConflictsInv, PTL

LEMMA UpstreamInv == RoutingInv => UpstreamIsPublished
<1> SUFFICES ASSUME RoutingInv, NEW h \in DOMAIN snap.routes
             PROVE  \E c \in ToSet(listing) :
                      /\ c.name = snap.routes[h].winner
                      /\ snap.routes[h].port \in Published(c) \ IgnoredPorts
                      /\ \A p \in ToSet(c.labels.port) :
                           p \in Published(c) /\ "port" \notin c.malformed => snap.routes[h].port = p
  BY DEF UpstreamIsPublished, Published
<1>1. listing \in Seq(Catalogue) /\ snap = Build(listing)
  BY DEF RoutingInv
<1>2. PICK c \in ToSet(listing) : Claims(c, h) # {} /\ snap.routes[h] = RouteTo(c, h)
  BY <1>1, BuiltRoutes
<1>3. c \in Catalogue
  BY <1>1, <1>2 DEF ToSet
<1>4. snap.routes[h].winner = c.name /\ snap.routes[h].port = Selected(c)[1]
  BY <1>2 DEF RouteTo
<1>5. Eligible(c)
  BY <1>2, <1>3, OwnRoutes DEF Claims
<1>6. Selected(c) # <<>> /\ Selected(c)[1] \notin IgnoredPorts
  BY <1>5 DEF Eligible, IsEligible, Or
<1>7. /\ Selected(c)[1] \in Published(c)
      /\ \A p \in ToSet(c.labels.port) :
           p \in Published(c) /\ "port" \notin c.malformed => Selected(c)[1] = p
  BY <1>3, <1>6, SelectedIsPublished
<1> QED
  BY <1>2, <1>4, <1>6, <1>7

\* A route leads to a port that its container publishes, and that is not ignored.
THEOREM UpstreamAlwaysPublished == Spec => []UpstreamIsPublished
  BY Invariance, UpstreamInv, PTL

\* The domains that RebuildSnapshot generates are under its suffix, or warned of.
LEMMA GeneratedAreManaged ==
  ASSUME NEW c \in Catalogue, NEW k \in DOMAIN Generated(c).domains
  PROVE  LET host == Generated(c).domains[k]
         IN  /\ host \in Hostnames
             /\ \/ host # <<>> /\ IsSuffix(Suffix, host)
                \/ <<"unmanaged_suffix", host>> \in Generated(c).warnings
<1> DEFINE prefs == EffectivePreferences(c)
           candidate == BuildCandidateBase(c)
           explicit == IF prefs.domain # <<>> THEN prefs.domain ELSE prefs.domains
           host == Generated(c).domains[k]
<1>1. /\ k \in DOMAIN explicit => host = explicit[k] /\ ~isPublicDomain(explicit[k])
      /\ k \notin DOMAIN explicit => host = DefaultDomain(candidate, prefs)
  <2>1. explicit \in Seq(Hostnames)
    BY PreferenceTypes
  <2>2. 0 \notin DOMAIN explicit
    BY <2>1
  <2> QED
    BY <2>2 DEF Generated, GenerateDomains
<1>2. \A i \in DOMAIN explicit : DomainWarnings(explicit[i]) \subseteq Generated(c).warnings
  BY DEF Generated, GenerateDomains
<1>3. explicit \in Seq(Hostnames)
  BY PreferenceTypes
<1> HIDE DEF explicit, host
<1>4. CASE k \in DOMAIN explicit
  <2>1. host \in Hostnames
    BY <1>1, <1>3, <1>4
  <2>2. CASE UnderSuffix(host)
    <3>1. Len(Suffix) \in Nat /\ Len(host) > Len(Suffix)
      BY <2>2, SuffixAssumption DEF UnderSuffix, Hostnames
    <3> QED
      BY <2>1, <2>2, <3>1 DEF UnderSuffix, host, Hostnames
  <2>3. CASE ~UnderSuffix(host)
    <3>1. DomainWarnings(host) = {<<"unmanaged_suffix", host>>}
      BY <1>1, <1>4, <2>3 DEF DomainWarnings
    <3> QED
      BY <1>1, <1>2, <1>4, <2>1, <3>1 DEF host
  <2> QED
    BY <2>2, <2>3
<1>5. CASE k \notin DOMAIN explicit
  <2>1. candidate[1] \in STRING /\ candidate[2] \in STRING
    <3>1. c.compose \in Seq(STRING) /\ c.parsed \in STRING \X STRING
      BY CatalogueAssumption
    <3>2. CASE Len(c.compose) = 2
      <4>1. c.compose[1] \in STRING /\ c.compose[2] \in STRING
        BY <3>1, <3>2
      <4> QED
        BY <3>2, <4>1 DEF BuildCandidateBase
    <3>3. CASE Len(c.compose) # 2
      BY <3>1, <3>3 DEF BuildCandidateBase
    <3> QED
      BY <3>2, <3>3
  <2> DEFINE bare == Or(prefs.root, candidate[2] \in RootServices)
             first == IF bare THEN <<>> ELSE <<candidate[2]>>
             labels == first \o <<candidate[1]>>
  <2> HIDE DEF candidate
  <2>2. labels \in Seq(STRING)
    <3> HIDE DEF bare
    <3>1. first \in Seq(STRING) /\ <<candidate[1]>> \in Seq(STRING)
      <4>1. <<>> \in Seq(STRING) /\ \A x \in STRING : <<x>> \in Seq(STRING)
        OBVIOUS
      <4>2. <<candidate[1]>> \in Seq(STRING) /\ <<candidate[2]>> \in Seq(STRING)
        BY <2>1, <4>1, Zenon
      <4> QED
        BY <4>1, <4>2
    <3> HIDE DEF first
    <3> QED
      BY <3>1
  <2>3. host = labels \o Suffix
    BY <1>1, <1>5 DEF DefaultDomain, candidate
  <2> HIDE DEF labels
  <2>4. host \in Hostnames /\ host # <<>> /\ IsSuffix(Suffix, host)
    BY <2>2, <2>3, EndsInSuffix, SuffixAssumption DEF Hostnames
  <2> QED
    BY <2>4 DEF host
<1> QED
  BY <1>4, <1>5

\* What ends in a suffix of a suffix ends in it.
LEMMA SuffixOfSuffix ==
  ASSUME NEW A \in Hostnames, NEW B \in Hostnames, NEW C \in Hostnames,
         IsSuffix(A, B), IsSuffix(B, C)
  PROVE  IsSuffix(A, C)
<1> DEFINE r == Reverse(A)
           s == Reverse(B)
           t == Reverse(C)
<1>1. r \in Seq(STRING) /\ s \in Seq(STRING) /\ t \in Seq(STRING)
  BY DEF Reverse, Hostnames
<1>2. IsPrefix(r, s) /\ IsPrefix(s, t)
  BY DEF IsSuffix
<1> HIDE DEF r, s, t
<1>3. /\ Len(r) \in Nat /\ Len(s) \in Nat /\ Len(t) \in Nat
      /\ Len(r) <= Len(s) /\ Len(s) <= Len(t)
  BY <1>1, <1>2 DEF IsPrefix
<1>4. ASSUME NEW i \in 1..Len(r) PROVE r[i] = t[i]
  <2>1. SubSeq(r, 1, Len(r))[i] = r[i] /\ SubSeq(s, 1, Len(r))[i] = s[i]
    BY <1>1, <1>3
  <2>2. SubSeq(s, 1, Len(s))[i] = s[i] /\ SubSeq(t, 1, Len(s))[i] = t[i]
    BY <1>1, <1>3
  <2> QED
    BY <1>2, <2>1, <2>2 DEF IsPrefix
<1>5. SubSeq(r, 1, Len(r)) = SubSeq(t, 1, Len(r))
  BY <1>1, <1>3, <1>4
<1> QED
  BY <1>3, <1>5 DEF IsPrefix, IsSuffix, r, t

LEMMA ServedInv == RoutingInv => ActiveIsServed
<1> SUFFICES ASSUME RoutingInv, ManagedSuffix # <<>>, IsSuffix(ManagedSuffix, Suffix),
                    NEW h \in DOMAIN snap.routes, normalizeHost(h) = h,
                    <<"unmanaged_suffix", h>> \notin snap.warnings
             PROVE  LookupHostname(h).route = <<snap.routes[h]>>
  BY DEF ActiveIsServed
<1>1. listing \in Seq(Catalogue) /\ snap = Build(listing)
  BY DEF RoutingInv
<1>2. PICK i \in DOMAIN listing : Claims(listing[i], h) # {}
  <2>1. \E d \in ToSet(listing) : Claims(d, h) # {}
    BY <1>1, BuiltRoutes
  <2> QED
    BY <2>1 DEF ToSet
<1> DEFINE c == listing[i]
<1>3. c \in Catalogue
  BY <1>1
<1>4. PICK k \in DOMAIN Contribution(c).routes : Contribution(c).routes[k].hostname = h
  BY <1>2 DEF Claims
<1>5. Eligible(c) /\ k \in DOMAIN Generated(c).domains /\ h = Generated(c).domains[k]
  BY <1>3, <1>4, OwnRoutes
<1>6. Generated(c).warnings \subseteq snap.warnings
  <2>1. Generated(c).warnings \subseteq Contribution(c).warnings
    BY <1>5 DEF Contribution
  <2>2. snap.warnings = UNION {Contribution(listing[j]).warnings : j \in DOMAIN listing}
    BY <1>1, BuildUnfolds
  <2> QED
    BY <2>1, <2>2
<1> HIDE DEF c
<1>7. h \in Hostnames /\ h # <<>> /\ IsSuffix(Suffix, h)
  BY <1>3, <1>5, <1>6, GeneratedAreManaged
<1>8. IsSuffix(ManagedSuffix, h)
  BY <1>7, SuffixOfSuffix, SuffixAssumption
<1>9. IsManagedHost(h)
  BY <1>7, <1>8 DEF IsManagedHost
<1> QED
  BY <1>9 DEF LookupHostname

\* If domain_suffix is under serving.managed_suffix, a name that is active is
\* served, unless a warning says that it is not managed or it is written in a form
\* that LookupHostname never asks for.
THEOREM ActiveNamesAreServed == Spec => []ActiveIsServed
  BY Invariance, ServedInv, PTL

(***************************************************************************)
(* The order of the listing                                                *)
(***************************************************************************)
\* Claims that are ordered alike are sorted alike.
LEMMA SortedAlike ==
  ASSUME NEW r, NEW s, NEW P, NEW Q, NEW f \in Bijection(P, Q),
         Comparable(r, P), Comparable(s, Q),
         \A p \in P : s[f[p]] = r[p],
         \A p, q \in P : Ahead(r, p, q) <=> Ahead(s, f[p], f[q])
  PROVE  SortClaims(r, P) = SortClaims(s, Q)
<1> DEFINE size == Cardinality(P)
<1>1. /\ \A p \in P : f[p] \in Q
      /\ \A p, q \in P : f[p] = f[q] => p = q
      /\ \A q \in Q : \E p \in P : f[p] = q
  BY DEF Bijection, Injection, Surjection, IsInjective
<1>2. Cardinality(Q) = size
  <2>1. IsFiniteSet(P) /\ ExistsBijection(P, Q)
    BY DEF Comparable, ExistsBijection
  <2> QED
    BY <2>1, FS_Bijection
<1>3. ASSUME NEW p \in P PROVE Rank(s, Q, f[p]) = Rank(r, P, p)
  <2> DEFINE below == {q \in P : Ahead(r, q, p)}
             image == {q \in Q : Ahead(s, q, f[p])}
             g == [q \in below |-> f[q]]
  <2>1. g \in [below -> image]
    BY <1>1
  <2>2. \A a, b \in below : g[a] = g[b] => a = b
    BY <1>1
  <2>3. \A t \in image : \E q \in below : g[q] = t
    BY <1>1
  <2>4. IsFiniteSet(below)
    <3>1. below \in SUBSET P
      OBVIOUS
    <3> QED
      BY <3>1, FS_Subset DEF Comparable
  <2> HIDE DEF below, image, g
  <2>5. g \in Bijection(below, image)
    BY <2>1, <2>2, <2>3 DEF Bijection, Injection, Surjection, IsInjective
  <2>6. Cardinality(image) = Cardinality(below)
    BY <2>4, <2>5, FS_Bijection DEF ExistsBijection
  <2> QED
    BY <2>6 DEF Rank, below, image
<1>4. /\ \A n \in 1..size : \E p \in P : Rank(r, P, p) = n
      /\ \A p, q \in Q : Rank(s, Q, p) = Rank(s, Q, q) => p = q
  <2>1. /\ \A n \in 1..size : \E p \in P : Rank(r, P, p) = n
        /\ \A p \in Q : Rank(s, Q, p) \in 1..Cardinality(Q)
        /\ \A p, q \in Q : Ahead(s, p, q) => Rank(s, Q, p) < Rank(s, Q, q)
    BY RankIsPlace
  <2>2. \A p, q \in Q : p = q \/ Ahead(s, p, q) \/ Ahead(s, q, p)
    BY AheadIsOrder
  <2> QED
    BY <2>1, <2>2
<1>5. ASSUME NEW n \in 1..size
      PROVE  r[CHOOSE p \in P : Rank(r, P, p) = n] = s[CHOOSE q \in Q : Rank(s, Q, q) = n]
  <2> DEFINE p == CHOOSE x \in P : Rank(r, P, x) = n
             q == CHOOSE x \in Q : Rank(s, Q, x) = n
  <2>1. p \in P /\ Rank(r, P, p) = n
    BY <1>4
  <2>2. f[p] \in Q /\ Rank(s, Q, f[p]) = n
    BY <1>1, <1>3, <2>1
  <2>3. q \in Q /\ Rank(s, Q, q) = n
    BY <2>2
  <2>4. q = f[p]
    BY <1>4, <2>2, <2>3
  <2> HIDE DEF p, q
  <2>5. r[p] = s[q]
    BY <2>1, <2>4
  <2> QED
    BY <2>5 DEF p, q
<1>6. SortClaims(r, P) = [n \in 1..size |-> r[CHOOSE p \in P : Rank(r, P, p) = n]]
  BY DEF SortClaims, Rank
<1>7. SortClaims(s, Q) = [n \in 1..Cardinality(Q) |-> s[CHOOSE q \in Q : Rank(s, Q, q) = n]]
  BY DEF SortClaims, Rank
<1> QED
  BY <1>2, <1>5, <1>6, <1>7

\* Builder.Build sees the claims only as they are sorted.
LEMMA ResolvedAlike ==
  ASSUME NEW r, NEW s,
         {r[p].hostname : p \in DOMAIN r} = {s[p].hostname : p \in DOMAIN s},
         \A h \in {r[p].hostname : p \in DOMAIN r} :
           SortClaims(r, Claimed(r, h)) = SortClaims(s, Claimed(s, h))
  PROVE  ResolveConflicts(r) = ResolveConflicts(s)
<1> DEFINE hosts == {r[p].hostname : p \in DOMAIN r}
           others == {s[p].hostname : p \in DOMAIN s}
           claims(t, H) == [h \in H |-> SortClaims(t, Claimed(t, h))]
           resolved(H, c) == [active |-> [h \in H |-> c[h][1]],
                              conflicts |-> {ConflictOf(c[h]) : h \in {g \in H : Len(c[g]) > 1}}]
<1>1. ResolveConflicts(r) = resolved(hosts, claims(r, hosts))
  BY DEF ResolveConflicts, Claimed
<1>2. ResolveConflicts(s) = resolved(others, claims(s, others))
  BY DEF ResolveConflicts, Claimed
<1>3. hosts = others
  OBVIOUS
<1>4. claims(r, hosts) = claims(s, hosts)
  OBVIOUS
<1> HIDE DEF hosts, others, claims, resolved
<1> QED
  BY <1>1, <1>2, <1>3, <1>4

\* The claims to a host name are sorted alike, whatever the order of the listing.
LEMMA SameClaims ==
  ASSUME NEW L \in Seq(Catalogue), NEW M \in Seq(Catalogue), Distinct(L), Distinct(M),
         ToSet(L) = ToSet(M), NEW h
  PROVE  SortClaims(RoutesOf(L), Claimed(RoutesOf(L), h)) =
           SortClaims(RoutesOf(M), Claimed(RoutesOf(M), h))
<1> DEFINE r == RoutesOf(L)
           s == RoutesOf(M)
           P == Claimed(r, h)
           Q == Claimed(s, h)
           at(i) == CHOOSE j \in DOMAIN M : M[j] = L[i]
           f == [p \in P |-> <<at(p[1]), p[2]>>]
<1>1. ASSUME NEW i \in DOMAIN L PROVE at(i) \in DOMAIN M /\ M[at(i)] = L[i]
  BY DEF ToSet
<1>2. \A j \in DOMAIN M : \E i \in DOMAIN L : L[i] = M[j]
  BY DEF ToSet
<1>3. \A i, j \in DOMAIN L : at(i) = at(j) => i = j
  BY <1>1 DEF Distinct
<1> HIDE DEF at
<1>4. Comparable(r, P) /\ Comparable(s, Q)
  BY PlacesComparable, ClaimedComparable
<1>5. /\ \A p \in P :
           /\ p[1] \in DOMAIN L /\ L[p[1]] \in Catalogue /\ p[2] \in Claims(L[p[1]], h)
           /\ p = <<p[1], p[2]>> /\ r[p] = RouteTo(L[p[1]], h)
      /\ \A i \in DOMAIN L : \A k \in Claims(L[i], h) : <<i, k>> \in P
  BY ClaimedPlaces
<1>6. /\ \A p \in Q :
           /\ p[1] \in DOMAIN M /\ M[p[1]] \in Catalogue /\ p[2] \in Claims(M[p[1]], h)
           /\ p = <<p[1], p[2]>> /\ s[p] = RouteTo(M[p[1]], h)
      /\ \A i \in DOMAIN M : \A k \in Claims(M[i], h) : <<i, k>> \in Q
  BY ClaimedPlaces
<1> HIDE DEF r, s, P, Q
<1>7. ASSUME NEW p \in P
      PROVE  /\ f[p] \in Q /\ f[p][1] = at(p[1]) /\ f[p][2] = p[2] /\ s[f[p]] = r[p]
  <2>1. at(p[1]) \in DOMAIN M /\ M[at(p[1])] = L[p[1]] /\ p[2] \in Claims(L[p[1]], h)
    BY <1>1, <1>5
  <2>2. f[p] = <<at(p[1]), p[2]>>
    OBVIOUS
  <2>3. f[p] \in Q /\ f[p][1] = at(p[1]) /\ f[p][2] = p[2]
    BY <1>6, <2>1, <2>2
  <2> QED
    BY <1>5, <1>6, <2>1, <2>3
<1>8. f \in [P -> Q]
  BY <1>7
<1> HIDE DEF f
<1>9. ASSUME NEW p \in P, NEW q \in P, f[p] = f[q] PROVE p = q
  <2>1. at(p[1]) = at(q[1]) /\ p[2] = q[2]
    BY <1>7, <1>9
  <2>2. p[1] = q[1]
    BY <1>3, <1>5, <2>1
  <2>3. p = <<p[1], p[2]>> /\ q = <<q[1], q[2]>>
    BY <1>5
  <2> QED
    BY <2>1, <2>2, <2>3
<1>10. ASSUME NEW q \in Q PROVE \E p \in P : f[p] = q
  <2>1. PICK i \in DOMAIN L : L[i] = M[q[1]]
    BY <1>2, <1>6
  <2>2. at(i) = q[1]
    BY <1>1, <1>6, <2>1 DEF Distinct
  <2> DEFINE p == <<i, q[2]>>
  <2>3. p \in P /\ p[1] = i /\ p[2] = q[2]
    BY <1>5, <1>6, <2>1
  <2>4. f[p] = <<q[1], q[2]>>
    BY <2>2, <2>3 DEF f
  <2> QED
    BY <1>6, <2>3, <2>4
<1>11. f \in Bijection(P, Q)
  BY <1>8, <1>9, <1>10 DEF Bijection, Injection, Surjection, IsInjective
\* Claims of two containers differ in their names, those of one in their domains.
<1>12. ASSUME NEW p \in P, NEW q \in P PROVE Ahead(r, p, q) <=> Ahead(s, f[p], f[q])
  <2>1. s[f[p]] = r[p] /\ s[f[q]] = r[q]
    BY <1>7
  <2>2. /\ r[p].winner = L[p[1]].name /\ r[q].winner = L[q[1]].name
        /\ r[p].winner \in Nat /\ r[q].winner \in Nat
        /\ r[p].priority \in Int /\ r[q].priority \in Int
    <3>1. \A c : RouteTo(c, h).winner = c.name
      BY DEF RouteTo
    <3>2. r[p].winner = L[p[1]].name /\ r[q].winner = L[q[1]].name
      BY <1>5, <3>1
    <3> QED
      BY <1>4, <3>2 DEF Comparable
  <2>3. CASE p[1] = q[1]
    <3>1. Earlier(p, q) <=> Earlier(f[p], f[q])
      <4>1. p[1] \in Nat /\ q[1] \in Nat /\ f[p][1] \in Nat /\ f[q][1] \in Nat
        BY <1>4, <1>7 DEF Comparable
      <4> QED
        BY <1>7, <2>3, <4>1 DEF Earlier
    <3> QED
      BY <2>1, <3>1 DEF Ahead
  <2>4. CASE p[1] # q[1]
    <3>1. L[p[1]].name # L[q[1]].name
      <4>1. L[p[1]] # L[q[1]] /\ L[p[1]] \in Catalogue /\ L[q[1]] \in Catalogue
        BY <1>5, <2>4 DEF Distinct
      <4> QED
        BY <4>1, CatalogueAssumption
    <3>2. Before(r[p], r[q]) \/ Before(r[q], r[p])
      BY <2>2, <3>1 DEF Before
    <3> QED
      BY <2>1, <3>2 DEF Ahead
  <2> QED
    BY <2>3, <2>4
<1>13. \A p \in P : s[f[p]] = r[p]
  BY <1>7
<1>14. SortClaims(r, P) = SortClaims(s, Q)
  BY <1>4, <1>11, <1>12, <1>13, SortedAlike
<1> QED
  BY <1>14 DEF r, s, P, Q

\* The snapshot, its conflicts and its warnings with it, does not depend on the
\* order in which Docker lists the containers.
THEOREM OrderIndependent ==
  ASSUME NEW L \in Seq(Catalogue), NEW M \in Seq(Catalogue), Distinct(L), Distinct(M),
         ToSet(L) = ToSet(M)
  PROVE  Build(L) = Build(M)
<1> DEFINE hosts(R) == {R[p].hostname : p \in DOMAIN R}
<1>1. \A h : SortClaims(RoutesOf(L), Claimed(RoutesOf(L), h)) =
               SortClaims(RoutesOf(M), Claimed(RoutesOf(M), h))
  BY SameClaims
<1>2. hosts(RoutesOf(L)) = hosts(RoutesOf(M))
  <2>1. /\ hosts(RoutesOf(L)) = DOMAIN Build(L).routes
        /\ hosts(RoutesOf(M)) = DOMAIN Build(M).routes
    <3>1. ASSUME NEW N \in Seq(Catalogue) PROVE hosts(RoutesOf(N)) = DOMAIN Build(N).routes
      <4>1. Comparable(RoutesOf(N), DOMAIN RoutesOf(N))
        BY PlacesComparable
      <4>2. hosts(RoutesOf(N)) = DOMAIN ResolveConflicts(RoutesOf(N)).active
        BY <4>1, Resolved
      <4> QED
        BY <4>2, BuildUnfolds
    <3> QED
      BY <3>1
  <2>2. \A h : h \in DOMAIN Build(L).routes <=> h \in DOMAIN Build(M).routes
    BY BuiltRoutes
  <2> HIDE DEF hosts
  <2> QED
    BY <2>1, <2>2
<1>3. ResolveConflicts(RoutesOf(L)) = ResolveConflicts(RoutesOf(M))
  BY <1>1, <1>2, ResolvedAlike
<1>4. Build(L).warnings = Build(M).warnings
  <2>1. \A c : (c \in ToSet(L) <=> \E i \in DOMAIN L : L[i] = c)
               /\ (c \in ToSet(M) <=> \E i \in DOMAIN M : M[i] = c)
    BY DEF ToSet
  <2>2. /\ \A i \in DOMAIN L : \E j \in DOMAIN M : M[j] = L[i]
        /\ \A j \in DOMAIN M : \E i \in DOMAIN L : L[i] = M[j]
    BY <2>1
  <2> DEFINE parts(N) == {Contribution(N[i]).warnings : i \in DOMAIN N}
  <2>3. \A w \in parts(L) : w \in parts(M)
    <3>1. ASSUME NEW i \in DOMAIN L PROVE Contribution(L[i]).warnings \in parts(M)
      <4>1. PICK j \in DOMAIN M : M[j] = L[i]
        BY <2>2
      <4> QED
        BY <4>1
    <3> QED
      BY <3>1
  <2>4. \A w \in parts(M) : w \in parts(L)
    <3>1. ASSUME NEW j \in DOMAIN M PROVE Contribution(M[j]).warnings \in parts(L)
      <4>1. PICK i \in DOMAIN L : L[i] = M[j]
        BY <2>2
      <4> QED
        BY <4>1
    <3> QED
      BY <3>1
  <2>5. Build(L).warnings = UNION parts(L) /\ Build(M).warnings = UNION parts(M)
    BY BuildUnfolds
  <2> HIDE DEF parts
  <2>6. parts(L) = parts(M)
    BY <2>3, <2>4
  <2> QED
    BY <2>5, <2>6
<1>5. Build(L).routes = Build(M).routes /\ Build(L).conflicts = Build(M).conflicts
  BY <1>3, BuildUnfolds
<1>6. /\ Build(L) = [routes |-> Build(L).routes, conflicts |-> Build(L).conflicts,
                     warnings |-> Build(L).warnings]
      /\ Build(M) = [routes |-> Build(M).routes, conflicts |-> Build(M).conflicts,
                     warnings |-> Build(M).warnings]
  BY DEF Build
<1> QED
  BY <1>4, <1>5, <1>6

\* What a step does to the host names of the containers that it leaves listed.
RoutesKept ==
  \A h \in DOMAIN snap.routes : \A c \in ToSet(listing) \cap ToSet(listing') :
    snap.routes[h].winner = c.name =>
      \/ h \in DOMAIN snap'.routes /\ snap'.routes[h] = snap.routes[h]
      \/ \E d \in ToSet(listing') \ ToSet(listing) : Claims(d, h) # {} /\ ~Outranks(c, d)

\* A container that stays listed loses a host name only to one that RebuildSnapshot
\* has not seen before, that claims the host name too and that outranks it.
THEOREM RoutesAreKept == Spec => [][RoutesKept]_vars
<1>1. ASSUME RoutingInv, RoutingInv', NEW h \in DOMAIN snap.routes,
             NEW c \in ToSet(listing), c \in ToSet(listing'), snap.routes[h].winner = c.name
      PROVE  \/ h \in DOMAIN snap'.routes /\ snap'.routes[h] = snap.routes[h]
             \/ \E d \in ToSet(listing') \ ToSet(listing) : Claims(d, h) # {} /\ ~Outranks(c, d)
  <2>1. /\ listing \in Seq(Catalogue) /\ snap = Build(listing)
        /\ listing' \in Seq(Catalogue) /\ snap' = Build(listing')
    BY <1>1 DEF RoutingInv, Build, Distinct
  <2>2. /\ \A d \in ToSet(listing) : d \in Catalogue
        /\ \A d \in ToSet(listing') : d \in Catalogue
    BY <2>1 DEF ToSet
  <2>3. \A d \in Catalogue : RouteTo(d, h).winner = d.name /\ d.name \in Nat /\ Priority(d) \in Int
    BY PriorityType DEF RouteTo
  <2>4. \A d, e \in Catalogue : d.name = e.name => d = e
    BY CatalogueAssumption
  <2>5. PICK w \in ToSet(listing) :
          /\ Claims(w, h) # {} /\ snap.routes[h] = RouteTo(w, h)
          /\ \A d \in ToSet(listing) : Claims(d, h) # {} => Outranks(w, d)
    BY <2>1, BuiltRoutes
  <2>6. w = c
    <3>1. w.name = c.name
      BY <1>1, <2>2, <2>3, <2>5
    <3> QED
      BY <2>2, <2>4, <3>1
  <2>7. h \in DOMAIN snap'.routes
    BY <1>1, <2>1, <2>5, <2>6, BuiltRoutes
  <2>8. PICK v \in ToSet(listing') :
          /\ Claims(v, h) # {} /\ snap'.routes[h] = RouteTo(v, h)
          /\ \A d \in ToSet(listing') : Claims(d, h) # {} => Outranks(v, d)
    BY <2>1, <2>7, BuiltRoutes
  <2>9. CASE v = c
    BY <2>5, <2>6, <2>7, <2>8, <2>9
  <2>10. CASE v # c
    <3>1. Outranks(v, c) /\ v.name # c.name
      BY <1>1, <2>2, <2>4, <2>5, <2>6, <2>8, <2>10
    <3>2. ~Outranks(c, v)
      BY <2>2, <2>3, <3>1 DEF Outranks
    <3>3. v \notin ToSet(listing)
      BY <2>5, <2>6, <2>8, <3>2
    <3> QED
      BY <2>8, <3>2, <3>3
  <2> QED
    BY <2>9, <2>10
<1>2. RoutingInv /\ RoutingInv' => RoutesKept
  BY <1>1 DEF RoutesKept
<1> QED
  BY <1>2, Invariance, PTL
===============================================================================
