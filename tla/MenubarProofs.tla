----------------------------- MODULE MenubarProofs -----------------------------
(***************************************************************************)
(* Proofs about Menubar, for any finite set of hosts and every bound on    *)
(* polls, clicks, changes and failed calls: first for menus on which no    *)
(* two polls have overlapped, then what holds of the slices in any case.   *)
(***************************************************************************)
EXTENDS Menubar, TLAPS, SequenceTheorems, FiniteSetTheorems

Titles == Hosts \cup {Nothing}
SlotType == [item : Nat, url : Titles]
Places == {"off", "idle", "status", "routes", "startup",
           "grow", "title", "store", "commit"}
Local == [at : Places, paused : BOOLEAN, list : Seq(Hosts), arr : Nat, len : Nat, i : Nat]

\* A list names every route once.
MenuTypes ==
  /\ routes \subseteq Hosts /\ paused \in BOOLEAN
  /\ loop \in [Loops -> Local]
  /\ \A l \in Loops : Cardinality(ToSet(loop[l].list)) = Len(loop[l].list)
  /\ slots \in [arr : Nat, len : Nat]
  /\ items \in Seq(Titles) /\ arrays \in Seq(Seq(SlotType))
  /\ pointer \in Seq([arr : Nat, i : Nat]) /\ titles \in Seq(SUBSET Titles)
  /\ Len(pointer) = Len(items) /\ Len(titles) = Len(items)

\* No two goroutines are at the menu.
AloneInv == \A k, l \in Loops : Syncing(k) /\ Syncing(l) => k = l

\* What syncRouteSlots makes of the k-th item.
Due(list, k) == IF k <= Len(list) THEN list[k] ELSE Nothing

\* The k-th slot has its URL and its item's title is to follow.
Pending(k) == \E l \in Loops : loop[l].at = "title" /\ loop[l].i = k

\* The slice of length n in array a has a slot for every item, in the order of
\* creation, and the slot's URL is the item's title, or about to be.
Live(a, n) ==
  /\ n = Len(items)
  /\ IF n = 0 THEN a = 0 ELSE a \in 1..Len(arrays) /\ n <= Len(arrays[a])
  /\ \A k \in 1..n :
       arrays[a][k].item = k /\ (Pending(k) \/ arrays[a][k].url = items[k])

LiveInv ==
  /\ AtRest => Live(slots.arr, slots.len)
  /\ \A l \in Loops : Syncing(l) => Live(loop[l].arr, loop[l].len)
  /\ \A l \in Loops : loop[l].at = "commit" =>
       slots.arr = loop[l].arr /\ slots.len = loop[l].len

\* The click goroutine of an item reads the item's own slot, in the array in use or
\* in one left behind; what it finds there is a title the item has had or is about to
\* get.
Given(k, url) ==
  \/ url \in titles[k] \cup {Nothing}
  \/ \E l \in Loops : loop[l].at = "title" /\ loop[l].i = k /\ Due(loop[l].list, k) = url

PointerInv ==
  \A k \in 1..Len(items) :
    /\ pointer[k].arr \in 1..Len(arrays) /\ pointer[k].i = k
    /\ k <= Len(arrays[pointer[k].arr])
    /\ Given(k, arrays[pointer[k].arr][k].url)

ClickedInv ==
  /\ clicked.item \in 0..Len(titles)
  /\ clicked.url # Nothing => clicked.item # 0 /\ Given(clicked.item, clicked.url)

ProgressInv ==
  \A l \in Loops :
    /\ loop[l].at = "grow" =>
         /\ loop[l].i \in 1..(loop[l].len + 1)
         /\ loop[l].i > 1 => Len(loop[l].list) <= loop[l].len
         /\ \A k \in 1..(loop[l].i - 1) : items[k] = Due(loop[l].list, k)
    /\ loop[l].at = "title" =>
         /\ loop[l].i \in 1..loop[l].len /\ Len(loop[l].list) <= loop[l].len
         /\ arrays[loop[l].arr][loop[l].i].url = Due(loop[l].list, loop[l].i)
         /\ \A k \in 1..(loop[l].i - 1) : items[k] = Due(loop[l].list, k)
    /\ loop[l].at = "store" =>
         /\ Len(loop[l].list) <= loop[l].len
         /\ \A k \in 1..loop[l].len : items[k] = Due(loop[l].list, k)

Shown == {k \in 1..Len(items) : items[k] # Nothing}
ShownInv ==
  (\A l \in Loops : loop[l].at \notin {"grow", "title", "store"}) =>
    {items[k] : k \in Shown} = polled /\ Cardinality(Shown) = Cardinality(polled)

TitleInv ==
  /\ \A l \in Loops : loop[l].at = "commit" => pauseTitle = loop[l].paused
  /\ (~failed /\ loop["main"].at = "idle" /\ \A l \in Loops : loop[l].at # "commit") =>
       pauseTitle = current

QuietInv ==
  MenuTypes /\ AloneInv /\ LiveInv /\ PointerInv /\ ClickedInv /\ ProgressInv /\ ShownInv /\ TitleInv

MenuInv == raced \in BOOLEAN /\ (~raced => QuietInv)

USE MenubarAssumption

(***************************************************************************)
(* Steps that leave the menu's slots alone                                 *)
(***************************************************************************)
SyncPlaces == {"grow", "title", "store", "commit"}

\* A Go map yields each of its keys once.
LEMMA ListOfRoutes ==
  ASSUME NEW S \in SUBSET Hosts, NEW list \in SetToSeqs(S)
  PROVE  list \in Seq(Hosts) /\ Cardinality(ToSet(list)) = Len(list)
<1> DEFINE n == Cardinality(S)
<1>1. IsFiniteSet(S)
  BY FS_Subset
<1>2. n \in Nat
  BY <1>1, FS_CardinalityType
<1>3. list \in [1..n -> S] /\ \A i, j \in 1..n : i # j => list[i] # list[j]
  BY DEF SetToSeqs
<1> HIDE DEF n
<1>4. list \in Seq(Hosts) /\ Len(list) = n /\ DOMAIN list = 1..n
  <2>1. list \in [1..n -> Hosts]
    BY <1>3
  <2> QED
    BY <1>2, <2>1, SeqDef, LenProperties
<1>5. ToSet(list) = {list[i] : i \in 1..n}
  BY <1>4 DEF ToSet
<1>6. list \in Surjection(1..n, ToSet(list)) /\ list \in Injection(1..n, ToSet(list))
  <2>1. list \in [1..n -> ToSet(list)]
    BY <1>3, <1>5
  <2> QED
    BY <1>3, <1>5, <2>1 DEF Surjection, Injection, IsInjective
<1>7. IsFiniteSet(1..n) /\ Cardinality(1..n) = n
  <2>1. 1 \in Int /\ n \in Int
    BY <1>2
  <2>2. IsFiniteSet(1..n) /\ Cardinality(1..n) = IF 1 > n THEN 0 ELSE n - 1 + 1
    BY <2>1, FS_Interval, Zenon
  <2> QED
    BY <1>2, <2>2
<1> QED
  BY <1>4, <1>6, <1>7, FS_Surjection

\* Who is between the two writes, and which titles are due, stays.
LEMMA SameTitles ==
  ASSUME UNCHANGED titles,
         \A l \in Loops : loop[l].at = "title" \/ loop'[l].at = "title" => loop'[l] = loop[l]
  PROVE  /\ \A k : Pending(k)' <=> Pending(k)
         /\ \A k, url : Given(k, url)' <=> Given(k, url)
<1>1. ASSUME NEW k PROVE Pending(k)' <=> Pending(k)
  BY DEF Pending
<1>2. ASSUME NEW k, NEW url PROVE Given(k, url)' <=> Given(k, url)
  <2>1. \A l \in Loops :
          (loop'[l].at = "title" /\ loop'[l].i = k /\ Due(loop'[l].list, k) = url)
            <=> (loop[l].at = "title" /\ loop[l].i = k /\ Due(loop[l].list, k) = url)
    OBVIOUS
  <2> QED
    BY <2>1 DEF Given, Due
<1> QED
  BY <1>1, <1>2

\* No goroutine is between the two writes.
LEMMA NoneDue ==
  ASSUME \A l \in Loops : loop[l].at # "title"
  PROVE  (\A k : ~Pending(k)) /\ \A k, url : Given(k, url) <=> url \in titles[k] \cup {Nothing}
BY DEF Pending, Given

LEMMA NoneDueNext ==
  ASSUME \A l \in Loops : loop'[l].at # "title"
  PROVE  /\ \A k : ~Pending(k)'
         /\ \A k, url : Given(k, url)' <=> url \in titles'[k] \cup {Nothing}
BY DEF Pending, Given

LEMMA Aside ==
  ASSUME QuietInv, UNCHANGED <<slotVars, polled>>,
         routes' \subseteq Hosts, paused' \in BOOLEAN, loop' \in [Loops -> Local],
         \A l \in Loops : Cardinality(ToSet(loop'[l].list)) = Len(loop'[l].list),
         \A l \in Loops : loop[l].at \in SyncPlaces \/ loop'[l].at \in SyncPlaces =>
                            loop'[l] = loop[l],
         ClickedInv', TitleInv'
  PROVE  QuietInv'
<1>1. UNCHANGED <<items, arrays, slots, pointer, titles, polled>>
  BY DEF slotVars
<1>a. (\A k : Pending(k)' <=> Pending(k)) /\ \A k, url : Given(k, url)' <=> Given(k, url)
  BY <1>1, SameTitles DEF SyncPlaces
<1>2. MenuTypes'
  BY <1>1 DEF QuietInv, MenuTypes
<1>3. AloneInv'
  BY DEF QuietInv, AloneInv, Syncing, SyncPlaces
<1>4. LiveInv'
  <2>1. AtRest' => AtRest
    BY DEF AtRest, Syncing, SyncPlaces
  <2>2. AtRest => Live(slots.arr, slots.len)
    BY DEF QuietInv, LiveInv
  <2>3. AtRest' => Live(slots.arr, slots.len)'
    BY <1>1, <1>a, <2>1, <2>2 DEF Live
  <2>4. \A l \in Loops : loop'[l].at \in SyncPlaces => Live(loop[l].arr, loop[l].len)
    BY DEF QuietInv, LiveInv, Syncing, SyncPlaces
  <2>5. ASSUME NEW l \in Loops, Syncing(l)' PROVE Live(loop[l].arr, loop[l].len)'
    <3>1. loop'[l] = loop[l] /\ Live(loop[l].arr, loop[l].len)
      BY <2>4, <2>5 DEF Syncing, SyncPlaces
    <3> QED
      BY <1>1, <1>a, <3>1 DEF Live
  <2> QED
    BY <1>1, <2>3, <2>5 DEF QuietInv, LiveInv, SyncPlaces
<1>5. PointerInv'
  <2> SUFFICES ASSUME NEW k \in 1..Len(items)
               PROVE  /\ pointer[k].arr \in 1..Len(arrays) /\ pointer[k].i = k
                      /\ k <= Len(arrays[pointer[k].arr])
                      /\ Given(k, arrays[pointer[k].arr][k].url)'
    BY <1>1 DEF PointerInv
  <2>1. Given(k, arrays[pointer[k].arr][k].url)
    BY DEF QuietInv, PointerInv
  <2>2. Given(k, arrays[pointer[k].arr][k].url)'
    BY <1>1, <1>a, <2>1
  <2> QED
    BY <2>2 DEF QuietInv, PointerInv
<1>6. ProgressInv'
  BY <1>1 DEF QuietInv, ProgressInv, SyncPlaces, Due
<1>7. ShownInv'
  BY <1>1 DEF QuietInv, ShownInv, SyncPlaces, Shown
<1> QED
  BY <1>2, <1>3, <1>4, <1>5, <1>6, <1>7 DEF QuietInv

LEMMA LocalType ==
  ASSUME QuietInv, NEW l \in Loops
  PROVE  /\ loop \in [Loops -> Local] /\ loop[l] \in Local
         /\ loop[l].at \in Places /\ loop[l].paused \in BOOLEAN /\ loop[l].list \in Seq(Hosts)
         /\ loop[l].arr \in Nat /\ loop[l].len \in Nat /\ loop[l].i \in Nat
         /\ Cardinality(ToSet(loop[l].list)) = Len(loop[l].list)
<1>1. loop \in [Loops -> Local] /\ Cardinality(ToSet(loop[l].list)) = Len(loop[l].list)
  BY DEF QuietInv, MenuTypes
<1>2. loop[l] \in Local
  BY <1>1
<1> QED
  BY <1>1, <1>2 DEF Local

\* The locals of a goroutine at its select.
LEMMA IdleLocal ==
  ASSUME NEW at \in Places
  PROVE  /\ [Idle EXCEPT !.at = at] \in Local /\ Idle \in Local
         /\ [Idle EXCEPT !.at = at].at = at /\ Idle.at = "idle"
         /\ [Idle EXCEPT !.at = at].list = <<>> /\ Idle.list = <<>>
         /\ Cardinality(ToSet(<<>>)) = Len(<<>>)
<1>1. <<>> \in Seq(Hosts) /\ Len(<<>>) = 0 /\ DOMAIN <<>> = {}
  BY EmptySeq
<1>2. ToSet(<<>>) = {}
  BY <1>1 DEF ToSet
<1>3. Cardinality(ToSet(<<>>)) = Len(<<>>)
  BY <1>1, <1>2, FS_EmptySet
<1> QED
  BY <1>1, <1>3 DEF Idle, Local, Places

\* What is clicked stays, and what its item stands for.
LEMMA ClickedKept ==
  ASSUME QuietInv, UNCHANGED <<slotVars, clicked>>,
         \A l \in Loops : loop[l].at = "title" \/ loop'[l].at = "title" => loop'[l] = loop[l]
  PROVE  ClickedInv'
<1>1. UNCHANGED titles
  BY DEF slotVars
<1>2. \A k, url : Given(k, url)' <=> Given(k, url)
  BY <1>1, SameTitles
<1>3. clicked.url # Nothing => Given(clicked.item, clicked.url)
  BY DEF QuietInv, ClickedInv
<1>4. clicked.url # Nothing => Given(clicked.item, clicked.url)'
  BY <1>2, <1>3
<1> QED
  BY <1>1, <1>4 DEF QuietInv, ClickedInv

\* One goroutine moves and is at the menu neither before nor after.
LEMMA MovesAside ==
  ASSUME QuietInv, NEW l \in Loops, NEW x \in Local, loop' = [loop EXCEPT ![l] = x],
         Cardinality(ToSet(x.list)) = Len(x.list),
         loop[l].at \notin SyncPlaces, x.at \notin SyncPlaces,
         l = "main" => x.at # "idle",
         UNCHANGED <<slotVars, polled, pauseTitle, current, failed>>,
         UNCHANGED clicked, routes' \subseteq Hosts, paused' \in BOOLEAN
  PROVE  QuietInv'
<1>1. loop \in [Loops -> Local]
  BY DEF QuietInv, MenuTypes
<1>2. loop' \in [Loops -> Local] /\ \A k \in Loops : loop'[k] = IF k = l THEN x ELSE loop[k]
  BY <1>1
<1>3. \A k \in Loops : Cardinality(ToSet(loop'[k].list)) = Len(loop'[k].list)
  BY <1>2 DEF QuietInv, MenuTypes
<1>4. \A k \in Loops : loop[k].at \in SyncPlaces \/ loop'[k].at \in SyncPlaces => loop'[k] = loop[k]
  BY <1>2
<1>5. TitleInv'
  <2>1. TitleInv /\ "main" \in Loops
    BY DEF QuietInv, Loops
  <2>2. \A k \in Loops : loop'[k].at = "commit" => loop'[k] = loop[k]
    BY <1>2, <1>4 DEF SyncPlaces
  <2>3. \A k \in Loops : loop[k].at = "commit" => loop'[k].at = "commit"
    BY <1>2, <1>4 DEF SyncPlaces
  <2>4. loop'["main"].at = "idle" => loop["main"].at = "idle"
    BY <1>2, <2>1
  <2> QED
    BY <2>1, <2>2, <2>3, <2>4 DEF TitleInv
<1>6. ClickedInv'
  BY <1>4, ClickedKept DEF SyncPlaces
<1> QED
  BY <1>2, <1>3, <1>4, <1>5, <1>6, Aside

LEMMA CallStep ==
  ASSUME QuietInv, NEW l \in Loops, Call(l)
  PROVE  QuietInv'
<1>1. UNCHANGED <<slotVars, routes, paused, pauseTitle, current, clicked, failed, polled>>
  BY DEF Call, pollFrame, daemonVars
<1>2. routes' \in SUBSET Hosts /\ routes \in SUBSET Hosts /\ paused \in BOOLEAN /\ paused' \in BOOLEAN
  BY <1>1 DEF QuietInv, MenuTypes
<1>3. /\ loop[l] \in Local /\ Cardinality(ToSet(loop[l].list)) = Len(loop[l].list)
  BY LocalType
<1>5. CASE loop[l].at = "status" /\ Set(l, [loop[l] EXCEPT !.at = "routes", !.paused = paused])
  <2> DEFINE x == [loop[l] EXCEPT !.at = "routes", !.paused = paused]
  <2>1. x \in Local /\ x.at = "routes" /\ x.list = loop[l].list
    BY <1>2, <1>3 DEF Local, Places
  <2>2. loop' = [loop EXCEPT ![l] = x]
    BY <1>5 DEF Set
  <2> HIDE DEF x
  <2> QED
    BY <1>1, <1>2, <1>3, <1>5, <2>1, <2>2, MovesAside DEF SyncPlaces
<1>6. ASSUME loop[l].at = "routes", NEW list \in SetToSeqs(routes),
             Set(l, [loop[l] EXCEPT !.at = "startup", !.list = list])
      PROVE  QuietInv'
  <2> DEFINE x == [loop[l] EXCEPT !.at = "startup", !.list = list]
  <2>1. list \in Seq(Hosts) /\ Cardinality(ToSet(list)) = Len(list)
    BY <1>2, ListOfRoutes
  <2>2. x \in Local /\ x.at = "startup" /\ x.list = list
    BY <1>3, <2>1 DEF Local, Places
  <2>3. loop' = [loop EXCEPT ![l] = x]
    BY <1>6 DEF Set
  <2> HIDE DEF x
  <2> QED
    BY <1>1, <1>2, <1>6, <2>1, <2>2, <2>3, MovesAside DEF SyncPlaces
<1> QED
  BY <1>5, <1>6 DEF Call

LEMMA TickStep ==
  ASSUME QuietInv, Tick \/ ClickRefresh \/ ClickPause
  PROVE  QuietInv'
<1>1. UNCHANGED <<slotVars, routes, pauseTitle, current, clicked, failed, polled>>
  BY DEF Tick, ClickRefresh, ClickPause, Selected, daemonVars
<1>2. routes' \subseteq Hosts
  BY <1>1 DEF QuietInv, MenuTypes
<1>3. paused' \in BOOLEAN
  BY DEF QuietInv, MenuTypes, Tick, ClickRefresh, ClickPause, daemonVars
<1>4. PICK l \in Loops : l # "main" /\ loop[l].at = "idle" /\ Set(l, [Idle EXCEPT !.at = "status"])
  BY DEF Tick, ClickRefresh, ClickPause, Selected, Loops
<1> DEFINE x == [Idle EXCEPT !.at = "status"]
<1>5. "status" \in Places
  BY DEF Places
<1>6. x \in Local /\ x.at = "status" /\ Cardinality(ToSet(x.list)) = Len(x.list)
  BY <1>5, IdleLocal
<1>7. loop' = [loop EXCEPT ![l] = x]
  BY <1>4 DEF Set
<1> HIDE DEF x
<1> QED
  BY <1>1, <1>2, <1>3, <1>4, <1>6, <1>7, MovesAside DEF SyncPlaces

\* The goroutines stand still.
LEMMA StillSteps ==
  ASSUME QuietInv, UNCHANGED <<slotVars, loop, polled, pauseTitle, current, failed>>,
         routes' \subseteq Hosts, paused' \in BOOLEAN, ClickedInv'
  PROVE  QuietInv'
<1>1. TitleInv'
  BY DEF QuietInv, TitleInv
<1> QED
  BY <1>1, Aside DEF QuietInv, MenuTypes

LEMMA DaemonStep ==
  ASSUME QuietInv, DaemonChanges \/ OpenRoute \/ UNCHANGED vars
  PROVE  QuietInv'
<1>1. UNCHANGED <<slotVars, loop, polled, pauseTitle, current, failed>>
  BY DEF DaemonChanges, OpenRoute, vars
<1>2. routes' \subseteq Hosts /\ paused' \in BOOLEAN
  BY DEF QuietInv, MenuTypes, DaemonChanges, OpenRoute, vars, daemonVars
<1>3. ClickedInv'
  <2>1. CASE OpenRoute
    <3>1. clicked'.url = Nothing /\ clicked'.item = 0 /\ UNCHANGED titles
      BY <2>1 DEF OpenRoute, NoClick, slotVars
    <3>2. Len(titles) \in Nat
      BY DEF QuietInv, MenuTypes
    <3> QED
      BY <3>1, <3>2 DEF ClickedInv
  <2>2. CASE UNCHANGED clicked
    BY <1>1, <2>2, ClickedKept
  <2> QED
    BY <2>1, <2>2 DEF DaemonChanges, vars
<1> QED
  BY <1>1, <1>2, <1>3, StillSteps

\* An item is clicked, and its goroutine takes the URL that it finds.
LEMMA ClickStep ==
  ASSUME QuietInv, (\E item \in 1..Len(items) : ClickRoute(item)) \/ ReadURL
  PROVE  QuietInv'
<1>1. UNCHANGED <<slotVars, loop, polled, pauseTitle, current, failed, routes, paused>>
  BY DEF ClickRoute, ReadURL, daemonVars
<1>2. UNCHANGED <<items, titles>> /\ Len(titles) = Len(items) /\ Len(items) \in Nat
  BY <1>1 DEF QuietInv, MenuTypes, slotVars
<1>3. CASE \E item \in 1..Len(items) : ClickRoute(item)
  <2>1. PICK item \in 1..Len(items) : ClickRoute(item)
    BY <1>3
  <2>2. clicked'.item = item /\ clicked'.url = Nothing
    BY <2>1 DEF ClickRoute, NoClick
  <2>3. ClickedInv'
    BY <1>2, <2>2 DEF ClickedInv
  <2> QED
    BY <1>1, <2>3, StillSteps DEF QuietInv, MenuTypes
<1>4. CASE ReadURL
  <2> DEFINE k == clicked.item
             url == arrays[pointer[k].arr][pointer[k].i].url
  <2>1. clicked' = [item |-> k, read |-> TRUE, url |-> url] /\ k # 0
    BY <1>4 DEF ReadURL, Target
  <2>2. k \in 1..Len(items)
    BY <1>2, <2>1 DEF QuietInv, ClickedInv
  <2>3. Given(k, url)
    BY <2>2 DEF QuietInv, PointerInv
  <2>4. \A m, u : Given(m, u)' <=> Given(m, u)
    BY <1>1, <1>2, SameTitles
  <2>5. clicked'.item = k /\ clicked'.url = url
    BY <2>1
  <2> HIDE DEF k, url
  <2>6. Given(clicked.item, clicked.url)'
    BY <2>3, <2>4, <2>5
  <2>7. ClickedInv'
    BY <1>2, <2>1, <2>2, <2>5, <2>6 DEF ClickedInv
  <2> QED
    BY <1>1, <2>7, StillSteps DEF QuietInv, MenuTypes
<1> QED
  BY <1>3, <1>4

\* A failed poll: it was alone, for otherwise the menu counts as raced.
LEMMA CallFailsStep ==
  ASSUME QuietInv, raced \in BOOLEAN, NEW l \in Loops, CallFails(l), ~raced'
  PROVE  QuietInv'
<1>1. /\ UNCHANGED <<slotVars, routes, paused, clicked, polled>> /\ failed'
      /\ loop' = [k \in Loops |-> IF k = l THEN Idle ELSE IF l = "main" THEN Idle ELSE loop[k]]
  BY DEF CallFails, Rest, daemonVars
<1>2. \A k \in Loops : loop[k].at \notin SyncPlaces
  BY DEF CallFails, RacedNow, Syncing, SyncPlaces
<1>3. Idle \in Local /\ Idle.at = "idle" /\ Cardinality(ToSet(Idle.list)) = Len(Idle.list)
  BY IdleLocal DEF Places
<1>4. loop \in [Loops -> Local] /\ \A k \in Loops : Cardinality(ToSet(loop[k].list)) = Len(loop[k].list)
  BY DEF QuietInv, MenuTypes
<1>5. /\ loop' \in [Loops -> Local] /\ \A k \in Loops : loop'[k].at \notin SyncPlaces
      /\ \A k \in Loops : Cardinality(ToSet(loop'[k].list)) = Len(loop'[k].list)
  BY <1>1, <1>2, <1>3, <1>4 DEF SyncPlaces
<1>6. TitleInv'
  BY <1>1, <1>5 DEF TitleInv, SyncPlaces
<1>7. ClickedInv'
  BY <1>1, <1>2, <1>5, ClickedKept DEF SyncPlaces
<1>8. routes' \subseteq Hosts /\ paused' \in BOOLEAN
  BY <1>1 DEF QuietInv, MenuTypes
<1> QED
  BY <1>1, <1>2, <1>5, <1>6, <1>7, <1>8, Aside

\* Pointers and clicks find what they found before.
LEMMA MenuAsItWas ==
  ASSUME QuietInv, UNCHANGED <<items, arrays, pointer, titles, clicked>>,
         \A l \in Loops : loop[l].at # "title" /\ loop'[l].at # "title"
  PROVE  PointerInv' /\ ClickedInv'
<1>1. \A k, url : Given(k, url)' <=> Given(k, url)
  BY SameTitles
<1>2. ASSUME NEW k \in 1..Len(items) PROVE Given(k, arrays[pointer[k].arr][k].url)'
  <2>1. Given(k, arrays[pointer[k].arr][k].url)
    BY DEF QuietInv, PointerInv
  <2> QED
    BY <1>1, <2>1
<1>3. clicked.url # Nothing => Given(clicked.item, clicked.url)'
  <2>1. clicked.url # Nothing => Given(clicked.item, clicked.url)
    BY DEF QuietInv, ClickedInv
  <2> QED
    BY <1>1, <2>1
<1> QED
  BY <1>2, <1>3 DEF QuietInv, PointerInv, ClickedInv

(***************************************************************************)
(* syncRouteSlots                                                          *)
(***************************************************************************)
\* A poll takes up the slots: it is alone, for otherwise the menu counts as raced.
LEMMA LoadStep ==
  ASSUME QuietInv, raced \in BOOLEAN, NEW l \in Loops, LoadSlots(l), ~raced'
  PROVE  QuietInv'
<1> DEFINE x == [loop[l] EXCEPT !.at = "grow", !.arr = slots.arr, !.len = slots.len, !.i = 1]
<1>1. /\ UNCHANGED <<routes, paused, pauseTitle, current, clicked, failed, polled>>
      /\ UNCHANGED <<items, arrays, slots, pointer, titles>>
      /\ loop' = [loop EXCEPT ![l] = x] /\ loop[l].at = "startup"
  BY DEF LoadSlots, pollFrame, daemonVars, slotVars, Set
<1>2. \A k \in Loops : loop[k].at \notin SyncPlaces
  BY DEF LoadSlots, RacedNow, Syncing, SyncPlaces
<1>3. /\ loop \in [Loops -> Local] /\ loop[l] \in Local
      /\ slots \in [arr : Nat, len : Nat]
  BY LocalType DEF QuietInv, MenuTypes
<1>4. /\ x \in Local /\ x.at = "grow" /\ x.arr = slots.arr /\ x.len = slots.len /\ x.i = 1
      /\ x.list = loop[l].list
  BY <1>3 DEF Local, Places
<1> HIDE DEF x
<1>5. loop' \in [Loops -> Local] /\ \A k \in Loops : loop'[k] = IF k = l THEN x ELSE loop[k]
  BY <1>1, <1>3, <1>4
<1>a. \A k \in Loops : loop[k].at # "title" /\ loop'[k].at # "title"
  BY <1>2, <1>4, <1>5 DEF SyncPlaces
<1>b. (\A k : Pending(k)' <=> Pending(k)) /\ \A k, url : Given(k, url)' <=> Given(k, url)
  BY <1>1, <1>a, SameTitles
<1>6. MenuTypes'
  BY <1>1, <1>4, <1>5 DEF QuietInv, MenuTypes
<1>7. AloneInv'
  BY <1>2, <1>5 DEF AloneInv, Syncing, SyncPlaces
<1>8. LiveInv'
  <2>1. Live(slots.arr, slots.len)
    BY <1>2 DEF QuietInv, LiveInv, AtRest, Syncing, SyncPlaces
  <2>2. ~AtRest'
    BY <1>4, <1>5 DEF AtRest, Syncing
  <2>3. ASSUME NEW k \in Loops, Syncing(k)' PROVE Live(loop[k].arr, loop[k].len)'
    <3>1. loop'[k].arr = slots.arr /\ loop'[k].len = slots.len
      BY <1>2, <1>4, <1>5, <2>3 DEF Syncing, SyncPlaces
    <3> QED
      BY <1>1, <1>b, <2>1, <3>1 DEF Live
  <2> QED
    BY <1>2, <1>4, <1>5, <2>2, <2>3 DEF LiveInv, SyncPlaces
<1>9. PointerInv' /\ ClickedInv'
  BY <1>1, <1>a, MenuAsItWas
<1>10. ProgressInv'
  <2>1. \A k \in Loops : loop'[k].at \notin {"store", "title"} /\ (loop'[k].at = "grow" => k = l)
    BY <1>2, <1>4, <1>5 DEF SyncPlaces
  <2>2. 1 \in 1..(slots.len + 1) /\ 1..(1 - 1) = {}
    BY <1>3
  <2> QED
    BY <1>4, <1>5, <2>1, <2>2 DEF ProgressInv
<1>11. ShownInv'
  BY <1>4, <1>5 DEF ShownInv
<1>12. TitleInv'
  <2>1. \A k \in Loops : loop'[k].at # "commit" /\ loop[k].at # "commit"
    BY <1>2, <1>4, <1>5 DEF SyncPlaces
  <2>2. loop'["main"].at = "idle" => loop["main"].at = "idle"
    BY <1>4, <1>5 DEF Loops
  <2> QED
    BY <1>1, <2>1, <2>2 DEF QuietInv, TitleInv
<1> QED
  BY <1>6, <1>7, <1>8, <1>9, <1>10, <1>11, <1>12 DEF QuietInv

\* The goroutine at the menu is the only one.
LEMMA OnlyOne ==
  ASSUME QuietInv, NEW l \in Loops, loop[l].at \in SyncPlaces
  PROVE  \A k \in Loops : k # l => loop[k].at \notin SyncPlaces
BY DEF QuietInv, AloneInv, Syncing, SyncPlaces

\* append: what was in the slice of length n in array a stays, slot s follows it, in
\* array b, and in other arrays nothing changes.
Extended(new, b, a, n, s) ==
  /\ new \in Seq(Seq(SlotType)) /\ Len(new) \in Nat /\ Len(arrays) <= Len(new)
  /\ b \in 1..Len(new) /\ n + 1 <= Len(new[b])
  /\ \A k \in 1..n : new[b][k] = arrays[a][k]
  /\ new[b][n + 1] = s
  /\ \A c \in 1..Len(arrays) :
       /\ Len(new[c]) = Len(arrays[c])
       /\ \A k \in 1..Len(arrays[c]) : (c # b \/ k # n + 1) => new[c][k] = arrays[c][k]

\* The slice of length n in array a lies inside its array.
Within(a, n) == IF a = 0 THEN n = 0 ELSE a \in 1..Len(arrays) /\ n <= Len(arrays[a])

LEMMA Appended ==
  ASSUME arrays \in Seq(Seq(SlotType)), NEW a \in Nat, NEW n \in Nat, Within(a, n),
         NEW s \in SlotType, NEW local, local.arr = a, local.len = n
  PROVE  Extended(Append1(local, s), IF n < Room(local) THEN a ELSE Len(arrays) + 1, a, n, s)
<1>1. arrays \in Seq(Seq(SlotType)) /\ Len(arrays) \in Nat
  OBVIOUS
<1>2. IF a = 0 THEN n = 0 ELSE a \in 1..Len(arrays) /\ n <= Len(arrays[a])
  BY DEF Within
<1>3. \A c \in 1..Len(arrays) : arrays[c] \in Seq(SlotType) /\ Len(arrays[c]) \in Nat
  BY <1>1
<1>4. CASE n < Room(local)
  <2>1. a \in 1..Len(arrays) /\ n + 1 \in 1..Len(arrays[a])
    BY <1>1, <1>2, <1>3, <1>4 DEF Room
  <2> DEFINE row == [arrays[a] EXCEPT ![n + 1] = s]
             new == [arrays EXCEPT ![a] = row]
  <2>2. Append1(local, s) = new
    BY <1>4 DEF Append1
  <2>3. /\ row \in Seq(SlotType) /\ Len(row) = Len(arrays[a]) /\ row[n + 1] = s
        /\ \A k \in 1..Len(arrays[a]) : k # n + 1 => row[k] = arrays[a][k]
    BY <1>3, <2>1
  <2> HIDE DEF row
  <2>4. /\ new \in Seq(Seq(SlotType)) /\ Len(new) = Len(arrays) /\ new[a] = row
        /\ \A c \in 1..Len(arrays) : c # a => new[c] = arrays[c]
    BY <1>1, <2>1, <2>3
  <2> HIDE DEF new
  <2>5. \A k \in 1..n : k \in 1..Len(arrays[a]) /\ k # n + 1
    BY <1>3, <2>1
  <2>6. new[a][n + 1] = s /\ Len(new[a]) = Len(arrays[a])
        /\ \A k \in 1..n : new[a][k] = arrays[a][k]
    BY <2>3, <2>4, <2>5
  <2>7. ASSUME NEW c \in 1..Len(arrays)
        PROVE  /\ Len(new[c]) = Len(arrays[c])
               /\ \A k \in 1..Len(arrays[c]) : (c # a \/ k # n + 1) => new[c][k] = arrays[c][k]
    BY <2>3, <2>4
  <2>8. Len(arrays) <= Len(arrays) /\ n + 1 <= Len(arrays[a])
    BY <1>1, <1>3, <2>1
  <2>9. Extended(new, a, a, n, s)
    BY <1>1, <2>1, <2>4, <2>6, <2>7, <2>8 DEF Extended
  <2> QED
    BY <1>4, <2>2, <2>9
<1>5. CASE ~(n < Room(local))
  <2> DEFINE m == IF n = 0 THEN 1 ELSE 2 * n
             row == [i \in 1..m |-> IF i <= n THEN arrays[a][i]
                                    ELSE IF i = n + 1 THEN s ELSE Slot(0, Nothing)]
             new == Append(arrays, row)
  <2>1. Append1(local, s) = new
    BY <1>5 DEF Append1
  <2>2. m \in Nat /\ n + 1 \in 1..m /\ \A k \in 1..n : k \in 1..m /\ k <= n
    OBVIOUS
  <2>3. Slot(0, Nothing) \in SlotType
    BY DEF Slot, SlotType, Titles
  <2> HIDE DEF m
  <2>4. \A k \in 1..n : arrays[a][k] \in SlotType
    BY <1>2, <1>3
  <2>5. row \in [1..m -> SlotType] /\ row[n + 1] = s /\ \A k \in 1..n : row[k] = arrays[a][k]
    BY <2>2, <2>3, <2>4
  <2> HIDE DEF row
  <2>6. row \in Seq(SlotType) /\ Len(row) = m
    BY <2>2, <2>5, SeqDef, LenProperties
  <2>7. /\ new \in Seq(Seq(SlotType)) /\ Len(new) = Len(arrays) + 1 /\ new[Len(arrays) + 1] = row
        /\ \A c \in 1..Len(arrays) : new[c] = arrays[c]
    BY <1>1, <2>6, AppendProperties
  <2> HIDE DEF new
  <2>8. n + 1 <= m /\ Len(arrays) + 1 \in 1..(Len(arrays) + 1)
    BY <1>1, <2>2
  <2> DEFINE b == Len(arrays) + 1
  <2>9. b \in 1..Len(new) /\ Len(new) \in Nat /\ Len(arrays) <= Len(new)
    BY <1>1, <2>7, <2>8
  <2>10. new[b] = row
    BY <2>7
  <2> HIDE DEF b
  <2>11. \A c \in 1..Len(arrays) :
           /\ Len(new[c]) = Len(arrays[c])
           /\ \A k \in 1..Len(arrays[c]) : (c # b \/ k # n + 1) => new[c][k] = arrays[c][k]
    BY <2>7
  <2>12. n + 1 <= Len(new[b]) /\ new[b][n + 1] = s /\ \A k \in 1..n : new[b][k] = arrays[a][k]
    BY <2>5, <2>6, <2>8, <2>10
  <2>13. Extended(new, b, a, n, s)
    BY <2>7, <2>9, <2>11, <2>12 DEF Extended
  <2> QED
    BY <1>5, <2>1, <2>13 DEF b
<1> QED
  BY <1>4, <1>5
\* A step of the goroutine at the menu: who is where, and what it leaves alone.
LEMMA MenuMove ==
  ASSUME QuietInv, NEW l \in Loops, loop[l].at \in SyncPlaces, NEW x \in Local,
         loop' = [loop EXCEPT ![l] = x], x.at \in SyncPlaces, x.list = loop[l].list
  PROVE  /\ loop' \in [Loops -> Local] /\ loop'[l] = x
         /\ \A k \in Loops : k # l => loop'[k] = loop[k] /\ loop[k].at \notin SyncPlaces
         /\ \A k \in Loops : Cardinality(ToSet(loop'[k].list)) = Len(loop'[k].list)
         /\ AloneInv' /\ ~AtRest'
         /\ \A k \in Loops : Syncing(k)' => k = l
<1>1. loop \in [Loops -> Local] /\ \A k \in Loops : Cardinality(ToSet(loop[k].list)) = Len(loop[k].list)
  BY DEF QuietInv, MenuTypes
<1>2. \A k \in Loops : k # l => loop[k].at \notin SyncPlaces
  BY OnlyOne
<1>3. loop' \in [Loops -> Local] /\ \A k \in Loops : loop'[k] = IF k = l THEN x ELSE loop[k]
  BY <1>1
<1>4. \A k \in Loops : Syncing(k)' => k = l
  BY <1>2, <1>3 DEF Syncing, SyncPlaces
<1>5. AloneInv' /\ ~AtRest'
  BY <1>3, <1>4 DEF AloneInv, AtRest, Syncing, SyncPlaces
<1> QED
  BY <1>1, <1>2, <1>3, <1>4, <1>5

\* A new item and its slot: only the array in use changes where the item's own
\* slot is, so that the items before it keep theirs.
LEMMA GrowStep ==
  ASSUME QuietInv, NEW l \in Loops, GrowSlots(l)
  PROVE  QuietInv'
<1> DEFINE a == loop[l].arr
           n == loop[l].len
           b == IF n < Room(loop[l]) THEN a ELSE Len(arrays) + 1
           s == Slot(Len(items) + 1, Nothing)
           x == [loop[l] EXCEPT !.arr = b, !.len = n + 1]
           p == [arr |-> b, i |-> n + 1]
<1>1. /\ UNCHANGED <<routes, paused, pauseTitle, current, clicked, failed, polled, slots>>
      /\ items' = Append(items, Nothing) /\ arrays' = Append1(loop[l], s)
      /\ pointer' = Append(pointer, p) /\ titles' = Append(titles, {})
      /\ loop' = [loop EXCEPT ![l] = x] /\ loop[l].at = "grow" /\ n < Len(loop[l].list)
  BY DEF GrowSlots, pollFrame, daemonVars, Set
<1>2. /\ loop[l] \in Local /\ loop[l].list \in Seq(Hosts) /\ a \in Nat /\ n \in Nat /\ loop[l].i \in Nat
  BY LocalType
<1>3. Live(a, n)
  BY <1>1 DEF QuietInv, LiveInv, Syncing
<1>4. /\ items \in Seq(Titles) /\ pointer \in Seq([arr : Nat, i : Nat])
      /\ titles \in Seq(SUBSET Titles) /\ arrays \in Seq(Seq(SlotType)) /\ Len(arrays) \in Nat
      /\ Len(items) = n /\ Len(pointer) = n /\ Len(titles) = n
  BY <1>3 DEF QuietInv, MenuTypes, Live
<1>5. s \in SlotType /\ s.item = n + 1 /\ s.url = Nothing
  BY <1>2, <1>4 DEF Slot, SlotType, Titles
<1>6. Extended(arrays', b, a, n, s)
  <2> HIDE DEF s, a, n
  <2>1. a = loop[l].arr /\ n = loop[l].len
    BY DEF a, n
  <2>2. Within(a, n)
    BY <1>2, <1>3, <1>4 DEF Within, Live
  <2> QED
    BY <1>1, <1>2, <1>4, <1>5, <2>1, <2>2, Appended
<1>7. b \in Nat /\ n + 1 \in Nat
  BY <1>2, <1>4
<1> HIDE DEF b, n
<1>8. /\ x \in Local /\ x.at = "grow" /\ x.arr = b /\ x.len = n + 1 /\ x.i = loop[l].i
      /\ x.list = loop[l].list /\ x.paused = loop[l].paused
  BY <1>1, <1>2, <1>7 DEF Local
<1>9. p \in [arr : Nat, i : Nat] /\ p.arr = b /\ p.i = n + 1
  BY <1>2, <1>7
<1> HIDE DEF a, s, x, p
<1>10. /\ items' \in Seq(Titles) /\ Len(items') = n + 1 /\ items'[n + 1] = Nothing
       /\ \A k \in 1..n : items'[k] = items[k]
  <2>1. Nothing \in Titles
    BY DEF Titles
  <2> QED
    BY <1>1, <1>4, <2>1, AppendProperties
<1>11. /\ pointer' \in Seq([arr : Nat, i : Nat]) /\ Len(pointer') = n + 1 /\ pointer'[n + 1] = p
       /\ \A k \in 1..n : pointer'[k] = pointer[k]
  <2> DEFINE P == [arr : Nat, i : Nat]
  <2>1. p \in P /\ pointer \in Seq(P)
    BY <1>4, <1>9
  <2> HIDE DEF P
  <2>2. /\ pointer' \in Seq(P) /\ Len(pointer') = n + 1 /\ pointer'[n + 1] = p
        /\ \A k \in 1..n : pointer'[k] = pointer[k]
    BY <1>1, <1>4, <2>1, AppendProperties
  <2> QED
    BY <2>2 DEF P
<1>12. /\ titles' \in Seq(SUBSET Titles) /\ Len(titles') = n + 1 /\ titles'[n + 1] = {}
       /\ \A k \in 1..n : titles'[k] = titles[k]
  BY <1>1, <1>4, AppendProperties
<1>13. /\ arrays' \in Seq(Seq(SlotType)) /\ Len(arrays') \in Nat /\ Len(arrays) <= Len(arrays')
       /\ b \in 1..Len(arrays') /\ n + 1 <= Len(arrays'[b])
       /\ \A k \in 1..n : arrays'[b][k] = arrays[a][k]
       /\ arrays'[b][n + 1] = s
       /\ \A c \in 1..Len(arrays) :
            /\ Len(arrays'[c]) = Len(arrays[c])
            /\ \A k \in 1..Len(arrays[c]) : k # n + 1 => arrays'[c][k] = arrays[c][k]
  BY <1>6 DEF Extended
<1>14. /\ loop' \in [Loops -> Local] /\ loop'[l] = x
       /\ \A k \in Loops : k # l => loop'[k] = loop[k] /\ loop[k].at \notin SyncPlaces
       /\ \A k \in Loops : Cardinality(ToSet(loop'[k].list)) = Len(loop'[k].list)
       /\ AloneInv' /\ ~AtRest'
       /\ \A k \in Loops : Syncing(k)' => k = l
  BY <1>1, <1>8, MenuMove DEF SyncPlaces
<1>a. \A k \in Loops : loop[k].at # "title" /\ loop'[k].at # "title"
  <2>1. loop[l].at = "grow" /\ loop'[l].at = "grow"
    BY <1>1, <1>8, <1>14
  <2> QED
    BY <1>14, <2>1 DEF SyncPlaces
<1>b. (\A k : ~Pending(k)) /\ \A k, url : Given(k, url) <=> url \in titles[k] \cup {Nothing}
  BY <1>a, NoneDue
<1>c. \A k, url : Given(k, url)' <=> url \in titles'[k] \cup {Nothing}
  BY <1>a, NoneDueNext
<1>15. \A k \in 1..(n + 1) : k = n + 1 \/ k \in 1..n
  BY <1>2
<1>16. MenuTypes'
  BY <1>1, <1>10, <1>11, <1>12, <1>13, <1>14 DEF QuietInv, MenuTypes
<1>17. LiveInv'
  <2>1. \A k \in 1..n : arrays[a][k].item = k /\ arrays[a][k].url = items[k]
    BY <1>3, <1>b DEF Live
  <2>2. \A k \in 1..(n + 1) : arrays'[b][k].item = k /\ arrays'[b][k].url = items'[k]
    BY <1>5, <1>10, <1>13, <1>15, <2>1
  <2>3. n + 1 # 0
    BY <1>2
  <2>4. ASSUME NEW k \in Loops, Syncing(k)' PROVE Live(loop[k].arr, loop[k].len)'
    <3>1. loop'[k].arr = b /\ loop'[k].len = n + 1
      BY <1>8, <1>14, <2>4
    <3> QED
      BY <1>10, <1>13, <2>2, <2>3, <3>1 DEF Live
  <2> QED
    BY <1>8, <1>14, <2>4 DEF LiveInv, SyncPlaces
<1>18. PointerInv'
  <2> SUFFICES ASSUME NEW k \in 1..(n + 1)
               PROVE  /\ pointer'[k].arr \in 1..Len(arrays') /\ pointer'[k].i = k
                      /\ k <= Len(arrays'[pointer'[k].arr])
                      /\ arrays'[pointer'[k].arr][k].url \in titles'[k] \cup {Nothing}
    BY <1>10, <1>c DEF PointerInv
  <2>1. CASE k = n + 1
    BY <1>5, <1>9, <1>11, <1>13, <2>1
  <2>2. CASE k \in 1..n
    <3> DEFINE c == pointer[k].arr
    <3>1. /\ c \in 1..Len(arrays) /\ pointer[k].i = k /\ k <= Len(arrays[c])
          /\ arrays[c][k].url \in titles[k] \cup {Nothing}
      BY <1>4, <1>b, <2>2 DEF QuietInv, PointerInv
    <3>2. pointer'[k] = pointer[k] /\ titles'[k] = titles[k]
      BY <1>11, <1>12, <2>2
    <3>3. pointer'[k].arr = c /\ pointer'[k].i = k
      BY <3>1, <3>2
    <3> HIDE DEF c
    <3>4. c \in 1..Len(arrays') /\ Len(arrays[c]) \in Nat
      <4>1. arrays[c] \in Seq(SlotType)
        BY <1>4, <3>1
      <4>2. Len(arrays) \in Nat /\ Len(arrays') \in Nat /\ Len(arrays) <= Len(arrays')
        BY <1>4, <1>13
      <4>3. c \in 1..Len(arrays')
        BY <3>1, <4>2
      <4> QED
        BY <4>1, <4>3
    <3>5. k \in 1..Len(arrays[c]) /\ k # n + 1
      BY <1>2, <2>2, <3>1, <3>4
    <3>6. arrays'[c][k] = arrays[c][k] /\ Len(arrays'[c]) = Len(arrays[c])
      BY <1>13, <3>1, <3>5
    <3> QED
      BY <3>1, <3>2, <3>3, <3>4, <3>6
  <2> QED
    BY <1>15, <2>1, <2>2
<1>19. ClickedInv'
  <2>1. \A k \in 1..n : k \in 1..(n + 1)
    BY <1>2
  <2>2. clicked.item \in 0..n /\ n \in Nat
    BY <1>2, <1>4 DEF QuietInv, ClickedInv
  <2>3. clicked.url # Nothing => /\ clicked.item # 0
                                 /\ clicked.url \in titles[clicked.item] \cup {Nothing}
    BY <1>b DEF QuietInv, ClickedInv
  <2>4. clicked.url # Nothing => clicked.item \in 1..n
    BY <2>2, <2>3
  <2>5. clicked.url # Nothing => clicked.url \in titles'[clicked.item] \cup {Nothing}
    BY <1>12, <2>3, <2>4
  <2>6. clicked.url # Nothing => Given(clicked.item, clicked.url)'
    BY <1>1, <1>c, <2>5
  <2>7. clicked.item \in 0..Len(titles')
    BY <1>12, <2>2
  <2> QED
    BY <1>1, <2>3, <2>6, <2>7 DEF ClickedInv
<1>20. ProgressInv'
  <2>1. /\ loop[l].i \in 1..(n + 1)
        /\ loop[l].i > 1 => Len(loop[l].list) <= n
    BY <1>1 DEF QuietInv, ProgressInv, n
  <2>2. loop[l].i = 1
    <3>1. Len(loop[l].list) \in Nat
      BY <1>2
    <3> QED
      BY <1>1, <1>2, <2>1, <3>1
  <2>3. 1 \in 1..(n + 1 + 1) /\ 1..(1 - 1) = {} /\ ~(1 > 1)
    BY <1>2
  <2>4. \A k \in Loops : loop'[k].at \notin {"store", "title"} /\ (loop'[k].at = "grow" => k = l)
    BY <1>8, <1>14 DEF SyncPlaces
  <2> QED
    BY <1>8, <1>14, <2>2, <2>3, <2>4 DEF ProgressInv
<1>21. ShownInv'
  BY <1>8, <1>14 DEF ShownInv
<1>22. TitleInv'
  <2>1. \A k \in Loops : loop'[k].at # "commit" /\ loop[k].at # "commit"
    BY <1>1, <1>8, <1>14 DEF SyncPlaces
  <2>2. loop'["main"].at = "idle" => loop["main"].at = "idle"
    BY <1>8, <1>14 DEF Loops
  <2> QED
    BY <1>1, <2>1, <2>2 DEF QuietInv, TitleInv
<1> QED
  BY <1>14, <1>16, <1>17, <1>18, <1>19, <1>20, <1>21, <1>22 DEF QuietInv
\* A slot gets its URL, in the array in use; the title of its item is to follow.
LEMMA UrlStep ==
  ASSUME QuietInv, NEW l \in Loops, AssignSlot(l), loop[l].i <= loop[l].len
  PROVE  QuietInv'
<1> DEFINE a == loop[l].arr
           n == loop[l].len
           i == loop[l].i
           list == loop[l].list
           h == Due(list, i)
           old == arrays[a][i]
           x == [loop[l] EXCEPT !.at = "title"]
           slot == [old EXCEPT !.url = h]
           row == [arrays[a] EXCEPT ![i] = slot]
<1>1. /\ UNCHANGED <<routes, paused, pauseTitle, current, clicked, failed, polled, slots, pointer>>
      /\ UNCHANGED <<items, titles>> /\ arrays' = [arrays EXCEPT ![a] = row]
      /\ loop' = [loop EXCEPT ![l] = x] /\ loop[l].at = "grow" /\ n >= Len(list)
  BY DEF AssignSlot, pollFrame, daemonVars, Set, Wanted, Due
<1>2. /\ loop[l] \in Local /\ list \in Seq(Hosts) /\ a \in Nat /\ n \in Nat /\ i \in Nat
      /\ Len(list) \in Nat
  BY LocalType
<1>3. Live(a, n)
  BY <1>1 DEF QuietInv, LiveInv, Syncing
<1>4. /\ items \in Seq(Titles) /\ titles \in Seq(SUBSET Titles)
      /\ arrays \in Seq(Seq(SlotType)) /\ Len(arrays) \in Nat
      /\ Len(items) = n /\ Len(pointer) = n /\ Len(titles) = n
  BY <1>3 DEF QuietInv, MenuTypes, Live
<1>5. /\ i \in 1..(n + 1)
      /\ \A k \in 1..(i - 1) : items[k] = Due(list, k)
  BY <1>1 DEF QuietInv, ProgressInv
<1>6. i \in 1..n /\ n # 0
  BY <1>2, <1>5
<1>7. /\ x \in Local /\ x.at = "title" /\ x.arr = a /\ x.len = n /\ x.i = i
      /\ x.list = list /\ x.paused = loop[l].paused
  BY <1>1, <1>2 DEF Local, Places
<1>8. h \in Titles
  BY <1>2, <1>6 DEF Due, Titles
<1> HIDE DEF x
<1>9. /\ loop' \in [Loops -> Local] /\ loop'[l] = x
      /\ \A k \in Loops : k # l => loop'[k] = loop[k] /\ loop[k].at \notin SyncPlaces
      /\ \A k \in Loops : Cardinality(ToSet(loop'[k].list)) = Len(loop'[k].list)
      /\ AloneInv' /\ ~AtRest'
      /\ \A k \in Loops : Syncing(k)' => k = l
  BY <1>1, <1>7, MenuMove DEF SyncPlaces
<1>10. \A k \in Loops : loop[k].at # "title" /\ (loop'[k].at = "title" <=> k = l)
  <2>1. loop[l].at = "grow" /\ loop'[l].at = "title"
    BY <1>1, <1>7, <1>9
  <2> QED
    BY <1>9, <2>1 DEF SyncPlaces
<1>11. \A k, url : Given(k, url) <=> url \in titles[k] \cup {Nothing}
  BY <1>10, NoneDue
<1>12. loop'[l].i = i /\ loop'[l].list = list /\ loop'[l].at = "title"
  BY <1>7, <1>9
<1>13. /\ \A k : ~Pending(k)
       /\ a \in 1..Len(arrays) /\ n <= Len(arrays[a])
       /\ \A k \in 1..n : arrays[a][k].item = k /\ arrays[a][k].url = items[k]
  BY <1>3, <1>6, <1>10, NoneDue DEF Live
<1>14. \A k : k = i => Pending(k)'
  <2>1. l \in Loops /\ loop'[l].at = "title" /\ loop'[l].i = i
    BY <1>12
  <2> HIDE DEF i
  <2> QED
    BY <2>1 DEF Pending
<1>15. \A k, url : Given(k, url) \/ (k = i /\ url = h) => Given(k, url)'
  <2>1. l \in Loops /\ loop'[l].at = "title" /\ loop'[l].i = i /\ Due(loop'[l].list, i) = h
    BY <1>12
  <2> HIDE DEF i, h
  <2>2. \A k, url : k = i /\ url = h => Given(k, url)'
    BY <2>1 DEF Given, Due
  <2>3. \A k, url : url \in titles'[k] \cup {Nothing} => Given(k, url)'
    BY DEF Given
  <2> QED
    BY <1>1, <1>11, <2>2, <2>3
<1> HIDE DEF h, n, i, list
<1>16. arrays[a] \in Seq(SlotType) /\ Len(arrays[a]) \in Nat /\ i \in 1..Len(arrays[a])
  <2>1. arrays[a] \in Seq(SlotType)
    BY <1>4, <1>13
  <2> QED
    BY <1>2, <1>6, <1>13, <2>1
<1>17. old \in SlotType /\ old.item = i
  BY <1>6, <1>13, <1>16
<1> HIDE DEF old, a
<1>18. slot \in SlotType /\ slot.item = i /\ slot.url = h
  BY <1>8, <1>17 DEF SlotType
<1> HIDE DEF slot
<1>19. /\ row \in Seq(SlotType) /\ Len(row) = Len(arrays[a]) /\ row[i] = slot
       /\ \A k \in 1..Len(arrays[a]) : k # i => row[k] = arrays[a][k]
  BY <1>16, <1>18
<1> HIDE DEF row
<1>20. /\ arrays' \in Seq(Seq(SlotType)) /\ Len(arrays') = Len(arrays) /\ arrays'[a] = row
       /\ \A c \in 1..Len(arrays) : c # a => arrays'[c] = arrays[c]
  BY <1>1, <1>4, <1>13, <1>19
<1>21. MenuTypes'
  BY <1>1, <1>4, <1>9, <1>20 DEF QuietInv, MenuTypes
<1>22. LiveInv'
  <2>1. \A k \in 1..n : k \in 1..Len(arrays[a])
    BY <1>2, <1>13, <1>16
  <2>2. ASSUME NEW k \in 1..n
        PROVE  arrays'[a][k].item = k /\ (k = i \/ arrays'[a][k].url = items'[k])
    <3>1. CASE k = i
      BY <1>18, <1>19, <1>20, <3>1
    <3>2. CASE k # i
      <4>1. arrays'[a][k] = arrays[a][k] /\ items'[k] = items[k]
        BY <1>1, <1>19, <1>20, <2>1, <3>2
      <4> QED
        BY <1>13, <4>1
    <3> QED
      BY <3>1, <3>2
  <2>3. a \in 1..Len(arrays') /\ n <= Len(arrays'[a])
    BY <1>13, <1>19, <1>20
  <2>4. ASSUME NEW k \in Loops, Syncing(k)' PROVE Live(loop[k].arr, loop[k].len)'
    <3>1. loop'[k].arr = a /\ loop'[k].len = n
      BY <1>7, <1>9, <2>4
    <3>2. \A m \in 1..n : arrays'[a][m].item = m /\ (Pending(m)' \/ arrays'[a][m].url = items'[m])
      BY <1>14, <2>2
    <3> QED
      BY <1>1, <1>4, <1>6, <2>3, <3>1, <3>2 DEF Live
  <2> QED
    BY <1>7, <1>9, <2>4 DEF LiveInv, SyncPlaces
<1>23. PointerInv'
  <2> SUFFICES ASSUME NEW k \in 1..n
               PROVE  /\ pointer'[k].arr \in 1..Len(arrays') /\ pointer'[k].i = k
                      /\ k <= Len(arrays'[pointer'[k].arr])
                      /\ Given(k, arrays[pointer[k].arr][k].url)'
    BY <1>1, <1>4 DEF PointerInv
  <2> DEFINE c == pointer[k].arr
  <2>1. /\ c \in 1..Len(arrays) /\ pointer[k].i = k /\ k <= Len(arrays[c])
        /\ Given(k, arrays[c][k].url)
    BY <1>4 DEF QuietInv, PointerInv
  <2>2. pointer'[k].arr = c /\ pointer'[k].i = k
    BY <1>1, <2>1
  <2>3. c \in 1..Len(arrays') /\ k <= Len(arrays'[c])
    BY <1>19, <1>20, <2>1
  <2>4. Given(k, arrays[pointer[k].arr][k].url)'
    <3>1. CASE c = a /\ k = i
      <4>1. arrays'[pointer'[k].arr][k].url = h
        BY <1>18, <1>19, <1>20, <2>2, <3>1
      <4> QED
        BY <1>15, <3>1, <4>1
    <3>2. CASE ~(c = a /\ k = i)
      <4>1. c = a => k \in 1..Len(arrays[a])
        BY <1>2, <1>16, <2>1
      <4>2. arrays'[c][k] = arrays[c][k]
        BY <1>19, <1>20, <2>1, <3>2, <4>1
      <4>3. arrays'[pointer'[k].arr][k].url = arrays[c][k].url
        BY <2>2, <4>2
      <4> QED
        BY <1>15, <2>1, <4>3
    <3> QED
      BY <3>1, <3>2
  <2> QED
    BY <2>2, <2>3, <2>4
<1>24. ClickedInv'
  <2>1. clicked.url # Nothing => Given(clicked.item, clicked.url)
    BY DEF QuietInv, ClickedInv
  <2>2. clicked.url # Nothing => Given(clicked.item, clicked.url)'
    BY <1>1, <1>15, <2>1
  <2> QED
    BY <1>1, <2>2 DEF QuietInv, ClickedInv
<1>25. ProgressInv'
  <2>1. i \in 1..n /\ Len(list) <= n
    BY <1>1, <1>2, <1>6
  <2>2. arrays'[a][i].url = Due(list, i)
    BY <1>18, <1>19, <1>20 DEF h
  <2>3. \A k \in 1..(i - 1) : items'[k] = Due(list, k)
    BY <1>1, <1>5
  <2>4. \A k \in Loops : loop'[k].at \notin {"grow", "store"}
    BY <1>9, <1>12 DEF SyncPlaces
  <2>5. loop'[l].i = i /\ loop'[l].len = n /\ loop'[l].list = list /\ loop'[l].arr = a
    BY <1>7, <1>9
  <2> QED
    BY <1>10, <2>1, <2>2, <2>3, <2>4, <2>5 DEF ProgressInv, Due
<1>26. ShownInv'
  BY <1>7, <1>9 DEF ShownInv
<1>27. TitleInv'
  <2>1. \A k \in Loops : loop'[k].at # "commit" /\ loop[k].at # "commit"
    BY <1>1, <1>7, <1>9 DEF SyncPlaces
  <2>2. loop'["main"].at = "idle" => loop["main"].at = "idle"
    BY <1>7, <1>9 DEF Loops
  <2> QED
    BY <1>1, <2>1, <2>2 DEF QuietInv, TitleInv
<1> QED
  BY <1>9, <1>21, <1>22, <1>23, <1>24, <1>25, <1>26, <1>27 DEF QuietInv

\* The item's title follows: what its slot has is now a title the item has had.
LEMMA TitleStep ==
  ASSUME QuietInv, NEW l \in Loops, SetTitle(l)
  PROVE  QuietInv'
<1> DEFINE a == loop[l].arr
           n == loop[l].len
           i == loop[l].i
           list == loop[l].list
           h == Due(list, i)
           item == arrays[a][i].item
           x == [loop[l] EXCEPT !.at = "grow", !.i = i + 1]
<1>1. /\ UNCHANGED <<routes, paused, pauseTitle, current, clicked, failed, polled, slots, pointer>>
      /\ UNCHANGED arrays /\ items' = [items EXCEPT ![item] = h]
      /\ titles' = [titles EXCEPT ![item] = titles[item] \cup {h}]
      /\ loop' = [loop EXCEPT ![l] = x] /\ loop[l].at = "title"
  BY DEF SetTitle, pollFrame, daemonVars, Set, Wanted, Due
<1>2. /\ loop[l] \in Local /\ list \in Seq(Hosts) /\ a \in Nat /\ n \in Nat /\ i \in Nat
      /\ Len(list) \in Nat
  BY LocalType
<1>3. Live(a, n)
  BY <1>1 DEF QuietInv, LiveInv, Syncing
<1>4. /\ items \in Seq(Titles) /\ titles \in Seq(SUBSET Titles)
      /\ arrays \in Seq(Seq(SlotType)) /\ Len(arrays) \in Nat
      /\ Len(items) = n /\ Len(pointer) = n /\ Len(titles) = n
  BY <1>3 DEF QuietInv, MenuTypes, Live
<1>5. /\ i \in 1..n /\ Len(list) <= n /\ arrays[a][i].url = h
      /\ \A k \in 1..(i - 1) : items[k] = Due(list, k)
  BY <1>1 DEF QuietInv, ProgressInv
<1>6. i \in 1..n /\ i + 1 \in Nat /\ n # 0
  BY <1>2, <1>5
<1>7. /\ x \in Local /\ x.at = "grow" /\ x.arr = a /\ x.len = n /\ x.i = i + 1
      /\ x.list = list /\ x.paused = loop[l].paused
  BY <1>2, <1>6 DEF Local, Places
<1>8. h \in Titles
  BY <1>2, <1>6 DEF Due, Titles
<1>9. item = i
  BY <1>3, <1>6 DEF Live
<1> HIDE DEF x, item
<1>10. /\ loop' \in [Loops -> Local] /\ loop'[l] = x
       /\ \A k \in Loops : k # l => loop'[k] = loop[k] /\ loop[k].at \notin SyncPlaces
       /\ \A k \in Loops : Cardinality(ToSet(loop'[k].list)) = Len(loop'[k].list)
       /\ AloneInv' /\ ~AtRest'
       /\ \A k \in Loops : Syncing(k)' => k = l
  BY <1>1, <1>7, MenuMove DEF SyncPlaces
<1>11. \A k \in Loops : loop'[k].at # "title" /\ (loop[k].at = "title" => k = l)
  <2>1. loop'[l].at = "grow"
    BY <1>7, <1>10
  <2> QED
    BY <1>10, <2>1 DEF SyncPlaces
<1>12. \A k : Pending(k) => k = i
  BY <1>11 DEF Pending
<1>13. \A k, url : Given(k, url) => url \in titles[k] \cup {Nothing} \/ (k = i /\ url = h)
  BY <1>11 DEF Given, h
<1>14. \A k, url : Given(k, url)' <=> url \in titles'[k] \cup {Nothing}
  BY <1>11, NoneDueNext
<1>15. /\ a \in 1..Len(arrays) /\ n <= Len(arrays[a])
       /\ \A k \in 1..n : arrays[a][k].item = k /\ (k = i \/ arrays[a][k].url = items[k])
  BY <1>3, <1>6, <1>12 DEF Live
<1> HIDE DEF h, n, i, list, a
<1>16. /\ items' \in Seq(Titles) /\ Len(items') = n /\ items'[i] = h
       /\ \A k \in 1..n : k # i => items'[k] = items[k]
  BY <1>1, <1>4, <1>6, <1>8, <1>9
<1>17. /\ titles' \in Seq(SUBSET Titles) /\ Len(titles') = n
       /\ h \in titles'[i] /\ \A k \in 1..n : titles[k] \subseteq titles'[k]
  <2> DEFINE T == SUBSET Titles
             t == titles[i] \cup {h}
  <2>1. titles[i] \in T
    BY <1>4, <1>6
  <2>2. t \in T /\ titles \in Seq(T) /\ titles[i] \subseteq t /\ h \in t
    BY <1>4, <1>8, <2>1
  <2>3. titles' = [titles EXCEPT ![i] = t]
    BY <1>1, <1>9
  <2> HIDE DEF T, t
  <2>4. titles' \in Seq(T) /\ Len(titles') = n /\ titles'[i] = t
        /\ \A k \in 1..n : k # i => titles'[k] = titles[k]
    BY <1>4, <1>6, <2>2, <2>3
  <2>5. \A k \in 1..n : titles[k] \subseteq titles'[k]
    BY <2>2, <2>4
  <2> QED
    BY <2>2, <2>4, <2>5 DEF T
<1>18. \A k \in 1..n : \A url : Given(k, url) => Given(k, url)'
  <2> SUFFICES ASSUME NEW k \in 1..n, NEW url, Given(k, url)
               PROVE  url \in titles'[k] \cup {Nothing}
    BY <1>14
  <2> QED
    BY <1>13, <1>17
<1>19. MenuTypes'
  BY <1>1, <1>4, <1>10, <1>16, <1>17 DEF QuietInv, MenuTypes
<1>20. LiveInv'
  <2>1. ASSUME NEW k \in 1..n PROVE arrays'[a][k].item = k /\ arrays'[a][k].url = items'[k]
    <3>1. CASE k = i
      BY <1>1, <1>5, <1>15, <1>16, <3>1
    <3>2. CASE k # i
      BY <1>1, <1>15, <1>16, <3>2
    <3> QED
      BY <3>1, <3>2
  <2>2. ASSUME NEW k \in Loops, Syncing(k)' PROVE Live(loop[k].arr, loop[k].len)'
    <3>1. loop'[k].arr = a /\ loop'[k].len = n
      BY <1>7, <1>10, <2>2
    <3> QED
      BY <1>1, <1>6, <1>15, <1>16, <2>1, <3>1 DEF Live
  <2> QED
    BY <1>7, <1>10, <2>2 DEF LiveInv, SyncPlaces
<1>21. PointerInv'
  <2> SUFFICES ASSUME NEW k \in 1..n
               PROVE  /\ pointer'[k].arr \in 1..Len(arrays') /\ pointer'[k].i = k
                      /\ k <= Len(arrays'[pointer'[k].arr])
                      /\ Given(k, arrays[pointer[k].arr][k].url)'
    BY <1>16 DEF PointerInv
  <2>1. /\ pointer[k].arr \in 1..Len(arrays) /\ pointer[k].i = k
        /\ k <= Len(arrays[pointer[k].arr]) /\ Given(k, arrays[pointer[k].arr][k].url)
    BY <1>4 DEF QuietInv, PointerInv
  <2>2. Given(k, arrays[pointer[k].arr][k].url)'
    BY <1>1, <1>18, <2>1
  <2> QED
    BY <1>1, <2>1, <2>2
<1>22. ClickedInv'
  <2>1. /\ clicked.item \in 0..n /\ n \in Nat
        /\ clicked.url # Nothing => clicked.item # 0 /\ Given(clicked.item, clicked.url)
    BY <1>2, <1>4 DEF QuietInv, ClickedInv
  <2>2. clicked.url # Nothing => clicked.item \in 1..n
    BY <2>1
  <2>3. clicked.url # Nothing => Given(clicked.item, clicked.url)'
    BY <1>1, <1>18, <2>1, <2>2
  <2> QED
    BY <1>1, <1>17, <2>1, <2>3 DEF ClickedInv
<1>23. ProgressInv'
  <2>1. i + 1 \in 1..(n + 1) /\ Len(list) <= n
    BY <1>1, <1>2, <1>5, <1>6
  <2>2. \A k \in 1..(i + 1 - 1) : k \in 1..n /\ (k = i \/ k \in 1..(i - 1))
    BY <1>2, <1>6
  <2>3. \A k \in 1..(i + 1 - 1) : items'[k] = Due(list, k)
    <3> TAKE k \in 1..(i + 1 - 1)
    <3>1. CASE k = i
      BY <1>16, <3>1 DEF h
    <3>2. CASE k # i
      BY <1>5, <1>16, <2>2, <3>2
    <3> QED
      BY <3>1, <3>2
  <2>4. \A k \in Loops : loop'[k].at \notin {"store", "title"} /\ (loop'[k].at = "grow" => k = l)
    BY <1>7, <1>10 DEF SyncPlaces
  <2>5. loop'[l].i = i + 1 /\ loop'[l].len = n /\ loop'[l].list = list
    BY <1>7, <1>10
  <2>6. \A k \in 1..(loop'[l].i - 1) :
          items'[k] = IF k <= Len(loop'[l].list) THEN loop'[l].list[k] ELSE Nothing
    <3> TAKE k \in 1..(loop'[l].i - 1)
    <3>1. k \in 1..(i + 1 - 1)
      BY <1>2, <2>5
    <3>2. items'[k] = Due(list, k)
      BY <2>3, <3>1
    <3> QED
      BY <2>5, <3>2 DEF Due
  <2>7. loop'[l].i \in 1..(loop'[l].len + 1) /\ Len(loop'[l].list) <= loop'[l].len
    BY <2>1, <2>5
  <2> QED
    BY <2>4, <2>6, <2>7 DEF ProgressInv, Due
<1>24. ShownInv'
  BY <1>7, <1>10 DEF ShownInv
<1>25. TitleInv'
  <2>1. \A k \in Loops : loop'[k].at # "commit" /\ loop[k].at # "commit"
    BY <1>1, <1>7, <1>10 DEF SyncPlaces
  <2>2. loop'["main"].at = "idle" => loop["main"].at = "idle"
    BY <1>7, <1>10 DEF Loops
  <2> QED
    BY <1>1, <2>1, <2>2 DEF QuietInv, TitleInv
<1> QED
  BY <1>10, <1>19, <1>20, <1>21, <1>22, <1>23, <1>24, <1>25 DEF QuietInv

\* All items are seen to.
LEMMA AllShownStep ==
  ASSUME QuietInv, NEW l \in Loops, AssignSlot(l), ~(loop[l].i <= loop[l].len)
  PROVE  QuietInv'
<1> DEFINE n == loop[l].len
           i == loop[l].i
           list == loop[l].list
           x == [loop[l] EXCEPT !.at = "store"]
<1>1. /\ UNCHANGED <<routes, paused, pauseTitle, current, clicked, failed, polled>>
      /\ UNCHANGED <<items, arrays, slots, pointer, titles>>
      /\ loop' = [loop EXCEPT ![l] = x] /\ loop[l].at = "grow" /\ n >= Len(list)
  BY DEF AssignSlot, pollFrame, daemonVars, slotVars, Set
<1>2. loop[l] \in Local /\ list \in Seq(Hosts) /\ n \in Nat /\ i \in Nat /\ Len(list) \in Nat
  BY LocalType
<1>3. /\ i \in 1..(n + 1) /\ ~(i <= n)
      /\ \A k \in 1..(i - 1) : items[k] = Due(list, k)
  BY <1>1 DEF QuietInv, ProgressInv
<1>4. i - 1 = n /\ Len(list) <= n
  <2> HIDE DEF i, n, list
  <2>1. i = n + 1
    BY <1>2, <1>3
  <2> QED
    BY <1>1, <1>2, <2>1
<1>5. /\ x \in Local /\ x.at = "store" /\ x.arr = loop[l].arr /\ x.len = n
      /\ x.list = list /\ x.paused = loop[l].paused
  BY <1>1, <1>2 DEF Local, Places
<1> HIDE DEF x
<1>6. /\ loop' \in [Loops -> Local] /\ loop'[l] = x
      /\ \A k \in Loops : k # l => loop'[k] = loop[k] /\ loop[k].at \notin SyncPlaces
      /\ \A k \in Loops : Cardinality(ToSet(loop'[k].list)) = Len(loop'[k].list)
      /\ AloneInv' /\ ~AtRest'
      /\ \A k \in Loops : Syncing(k)' => k = l
  BY <1>1, <1>5, MenuMove DEF SyncPlaces
<1>a. \A k \in Loops : loop[k].at # "title" /\ loop'[k].at # "title"
  <2>1. loop[l].at = "grow" /\ loop'[l].at = "store"
    BY <1>1, <1>5, <1>6
  <2> QED
    BY <1>6, <2>1 DEF SyncPlaces
<1>b. (\A k : Pending(k)' <=> Pending(k))
  BY <1>1, <1>a, SameTitles
<1>7. MenuTypes' /\ PointerInv' /\ ClickedInv'
  BY <1>1, <1>6, <1>a, MenuAsItWas DEF QuietInv, MenuTypes
<1>8. LiveInv'
  <2>1. Live(loop[l].arr, n)
    BY <1>1 DEF QuietInv, LiveInv, Syncing
  <2>2. ASSUME NEW k \in Loops, Syncing(k)' PROVE Live(loop[k].arr, loop[k].len)'
    <3>1. loop'[k].arr = loop[l].arr /\ loop'[k].len = n
      BY <1>5, <1>6, <2>2
    <3> QED
      BY <1>1, <1>b, <2>1, <3>1 DEF Live
  <2> QED
    BY <1>5, <1>6, <2>2 DEF LiveInv, SyncPlaces
<1>9. ProgressInv'
  <2>1. \A k \in Loops : loop'[k].at \notin {"grow", "title"} /\ (loop'[k].at = "store" => k = l)
    BY <1>5, <1>6 DEF SyncPlaces
  <2>2. \A k \in 1..n : items[k] = Due(list, k)
    BY <1>3, <1>4
  <2>3. loop'[l].len = n /\ loop'[l].list = list
    BY <1>5, <1>6
  <2> HIDE DEF n, list
  <2>4. \A k \in 1..loop'[l].len :
          items'[k] = IF k <= Len(loop'[l].list) THEN loop'[l].list[k] ELSE Nothing
    BY <1>1, <2>2, <2>3 DEF Due
  <2>5. Len(loop'[l].list) <= loop'[l].len
    BY <1>4, <2>3
  <2> QED
    BY <2>1, <2>4, <2>5 DEF ProgressInv, Due
<1>10. ShownInv'
  BY <1>5, <1>6 DEF ShownInv
<1>11. TitleInv'
  <2>1. \A k \in Loops : loop'[k].at # "commit" /\ loop[k].at # "commit"
    BY <1>1, <1>5, <1>6 DEF SyncPlaces
  <2>2. loop'["main"].at = "idle" => loop["main"].at = "idle"
    BY <1>5, <1>6 DEF Loops
  <2> QED
    BY <1>1, <2>1, <2>2 DEF QuietInv, TitleInv
<1> QED
  BY <1>6, <1>7, <1>8, <1>9, <1>10, <1>11 DEF QuietInv

\* routeSlots is set: now the items shown are the routes of this poll, each once,
\* since the list names each once and no route is Nothing.
LEMMA StoreStep ==
  ASSUME QuietInv, NEW l \in Loops, StoreSlots(l)
  PROVE  QuietInv'
<1> DEFINE a == loop[l].arr
           n == loop[l].len
           list == loop[l].list
           x == [loop[l] EXCEPT !.at = "commit"]
<1>1. /\ UNCHANGED <<routes, paused, current, clicked, failed>>
      /\ UNCHANGED <<items, arrays, pointer, titles>>
      /\ slots' = [arr |-> a, len |-> n] /\ pauseTitle' = loop[l].paused
      /\ polled' = ToSet(list)
      /\ loop' = [loop EXCEPT ![l] = x] /\ loop[l].at = "store"
  BY DEF StoreSlots, daemonVars, Set
<1>2. /\ loop[l] \in Local /\ list \in Seq(Hosts) /\ a \in Nat /\ n \in Nat /\ Len(list) \in Nat
      /\ Cardinality(ToSet(list)) = Len(list)
  BY LocalType
<1>3. Len(list) <= n /\ \A k \in 1..n : items[k] = Due(list, k)
  BY <1>1 DEF QuietInv, ProgressInv
<1>4. Live(a, n)
  BY <1>1 DEF QuietInv, LiveInv, Syncing
<1>5. /\ x \in Local /\ x.at = "commit" /\ x.arr = a /\ x.len = n
      /\ x.list = list /\ x.paused = loop[l].paused
  BY <1>1, <1>2 DEF Local, Places
<1> HIDE DEF x
<1>6. /\ loop' \in [Loops -> Local] /\ loop'[l] = x
      /\ \A k \in Loops : k # l => loop'[k] = loop[k] /\ loop[k].at \notin SyncPlaces
      /\ \A k \in Loops : Cardinality(ToSet(loop'[k].list)) = Len(loop'[k].list)
      /\ AloneInv' /\ ~AtRest'
      /\ \A k \in Loops : Syncing(k)' => k = l
  BY <1>1, <1>5, MenuMove DEF SyncPlaces
<1>7. slots' \in [arr : Nat, len : Nat] /\ slots'.arr = a /\ slots'.len = n
  BY <1>1, <1>2
<1>a. \A k \in Loops : loop[k].at # "title" /\ loop'[k].at # "title"
  <2>1. loop[l].at = "store" /\ loop'[l].at = "commit"
    BY <1>1, <1>5, <1>6
  <2> QED
    BY <1>6, <2>1 DEF SyncPlaces
<1>b. (\A k : Pending(k)' <=> Pending(k))
  BY <1>1, <1>a, SameTitles
<1>8. MenuTypes' /\ PointerInv' /\ ClickedInv'
  BY <1>1, <1>6, <1>7, <1>a, MenuAsItWas DEF QuietInv, MenuTypes
<1>9. \A k \in Loops : k # l => loop'[k].at \notin SyncPlaces
  BY <1>6
<1>10. LiveInv'
  <2>1. ASSUME NEW k \in Loops, Syncing(k)' PROVE Live(loop[k].arr, loop[k].len)'
    <3>1. loop'[k].arr = a /\ loop'[k].len = n
      BY <1>5, <1>6, <2>1
    <3> QED
      BY <1>1, <1>4, <1>b, <3>1 DEF Live
  <2>2. \A k \in Loops : loop'[k].at = "commit" => k = l
    BY <1>9 DEF SyncPlaces
  <2> QED
    BY <1>5, <1>6, <1>7, <2>1, <2>2 DEF LiveInv
<1>11. ProgressInv'
  BY <1>5, <1>6, <1>9 DEF ProgressInv, SyncPlaces
<1>12. ShownInv'
  <2> HIDE DEF n, list
  <2>1. Len(items) = n
    BY <1>4 DEF Live
  <2>2. \A k \in 1..Len(list) : k \in 1..n /\ items[k] = list[k] /\ list[k] # Nothing
    BY <1>2, <1>3 DEF Due
  <2>3. \A k \in 1..n : k \notin 1..Len(list) => items[k] = Nothing
    BY <1>2, <1>3 DEF Due
  <2>4. Shown = 1..Len(list)
    BY <2>1, <2>2, <2>3 DEF Shown
  <2>5. ToSet(list) = {list[k] : k \in 1..Len(list)}
    BY <1>2 DEF ToSet
  <2>6. {items[k] : k \in Shown} = ToSet(list)
    BY <2>2, <2>4, <2>5
  <2>7. Cardinality(1..Len(list)) = Len(list)
    <3>1. 1 \in Int /\ Len(list) \in Int
      BY <1>2
    <3>2. Cardinality(1..Len(list)) = IF 1 > Len(list) THEN 0 ELSE Len(list) - 1 + 1
      BY <3>1, FS_Interval, Zenon
    <3> QED
      BY <1>2, <3>2
  <2>8. Cardinality(Shown) = Cardinality(ToSet(list))
    BY <1>2, <2>4, <2>7 DEF list
  <2>9. Shown' = Shown
    BY <1>1 DEF Shown
  <2>10. {items'[k] : k \in Shown'} = polled' /\ Cardinality(Shown') = Cardinality(polled')
    BY <1>1, <2>6, <2>8, <2>9 DEF list
  <2> QED
    BY <2>10 DEF ShownInv
<1>13. TitleInv'
  <2>1. \A k \in Loops : loop'[k].at = "commit" => k = l
    BY <1>9 DEF SyncPlaces
  <2> QED
    BY <1>1, <1>5, <1>6, <2>1 DEF TitleInv
<1> QED
  BY <1>6, <1>8, <1>10, <1>11, <1>12, <1>13 DEF QuietInv

\* The goroutine leaves the menu as it is and currentState as the title says.
LEMMA CommitStep ==
  ASSUME QuietInv, NEW l \in Loops, Commit(l)
  PROVE  QuietInv'
<1>1. /\ UNCHANGED <<slotVars, routes, paused, pauseTitle, clicked, polled>>
      /\ UNCHANGED <<items, arrays, slots, pointer, titles>>
      /\ current' = loop[l].paused /\ loop[l].at = "commit"
      /\ loop' = [k \in Loops |-> IF k = l THEN Idle ELSE IF l = "main" THEN Idle ELSE loop[k]]
  BY DEF Commit, Rest, daemonVars, slotVars
<1>2. \A k \in Loops : k # l => loop[k].at \notin SyncPlaces
  BY <1>1, OnlyOne DEF SyncPlaces
<1>3. Idle \in Local /\ Idle.at = "idle" /\ Cardinality(ToSet(Idle.list)) = Len(Idle.list)
  BY IdleLocal DEF Places
<1>4. loop \in [Loops -> Local] /\ \A k \in Loops : Cardinality(ToSet(loop[k].list)) = Len(loop[k].list)
  BY DEF QuietInv, MenuTypes
<1>5. /\ loop' \in [Loops -> Local] /\ \A k \in Loops : loop'[k].at \notin SyncPlaces
      /\ \A k \in Loops : Cardinality(ToSet(loop'[k].list)) = Len(loop'[k].list)
  BY <1>1, <1>2, <1>3, <1>4 DEF SyncPlaces
<1>a. \A k \in Loops : loop[k].at # "title" /\ loop'[k].at # "title"
  BY <1>1, <1>2, <1>5 DEF SyncPlaces
<1>b. (\A k : Pending(k)' <=> Pending(k))
  BY <1>1, <1>a, SameTitles
<1>6. MenuTypes' /\ PointerInv' /\ ClickedInv'
  BY <1>1, <1>5, <1>a, MenuAsItWas DEF QuietInv, MenuTypes
<1>7. AloneInv' /\ ProgressInv'
  BY <1>5 DEF AloneInv, Syncing, SyncPlaces, ProgressInv
<1>8. LiveInv'
  <2>1. Live(loop[l].arr, loop[l].len) /\ slots.arr = loop[l].arr /\ slots.len = loop[l].len
    BY <1>1 DEF QuietInv, LiveInv, Syncing
  <2>2. Live(slots.arr, slots.len)
    BY <2>1
  <2>3. Live(slots.arr, slots.len)'
    BY <1>1, <1>b, <2>2 DEF Live
  <2>4. \A k \in Loops : loop'[k].at # "commit" /\ ~Syncing(k)'
    BY <1>5 DEF Syncing, SyncPlaces
  <2> QED
    BY <2>3, <2>4 DEF LiveInv
<1>10. ShownInv'
  <2>1. \A k \in Loops : loop[k].at \notin {"grow", "title", "store"}
    BY <1>1, <1>2 DEF SyncPlaces
  <2>2. {items[k] : k \in Shown} = polled /\ Cardinality(Shown) = Cardinality(polled)
    BY <2>1 DEF QuietInv, ShownInv
  <2> QED
    BY <1>1, <2>2 DEF ShownInv, Shown
<1>11. TitleInv'
  <2>1. pauseTitle' = current'
    BY <1>1 DEF QuietInv, TitleInv
  <2> QED
    BY <1>5, <2>1 DEF TitleInv, SyncPlaces
<1> QED
  BY <1>6, <1>7, <1>8, <1>10, <1>11 DEF QuietInv
(***************************************************************************)
(* The specification                                                       *)
(***************************************************************************)
LEMMA InitQuiet == Init => QuietInv /\ raced = FALSE
<1> SUFFICES ASSUME Init PROVE QuietInv
  BY DEF Init
<1>1. /\ routes \subseteq Hosts /\ paused \in BOOLEAN
      /\ items = <<>> /\ arrays = <<>> /\ slots = [arr |-> 0, len |-> 0]
      /\ pointer = <<>> /\ titles = <<>> /\ clicked = NoClick /\ polled = {}
      /\ pauseTitle = FALSE /\ current = FALSE
  BY DEF Init
<1>2. Len(<<>>) = 0 /\ 1..0 = {}
  OBVIOUS
<1>3. "status" \in Places /\ "off" \in Places
  BY DEF Places
<1>4. /\ [Idle EXCEPT !.at = "status"] \in Local /\ [Idle EXCEPT !.at = "off"] \in Local
      /\ [Idle EXCEPT !.at = "status"].at = "status" /\ [Idle EXCEPT !.at = "off"].at = "off"
      /\ [Idle EXCEPT !.at = "status"].list = <<>> /\ [Idle EXCEPT !.at = "off"].list = <<>>
      /\ Cardinality(ToSet(<<>>)) = Len(<<>>)
  BY <1>3, IdleLocal
<1>5. loop = [l \in Loops |-> IF l = "main" THEN [Idle EXCEPT !.at = "status"]
                              ELSE [Idle EXCEPT !.at = "off"]]
  BY DEF Init
<1>6. /\ loop \in [Loops -> Local]
      /\ \A l \in Loops : loop[l].at \notin SyncPlaces /\ loop[l].list = <<>> /\ loop[l].at # "idle"
  BY <1>4, <1>5 DEF SyncPlaces
<1>7. MenuTypes
  <2>1. \A l \in Loops : Cardinality(ToSet(loop[l].list)) = Len(loop[l].list)
    BY <1>4, <1>6
  <2>2. slots \in [arr : Nat, len : Nat]
    BY <1>1
  <2> QED
    BY <1>1, <1>6, <2>1, <2>2 DEF MenuTypes
<1>8. AloneInv /\ ProgressInv
  BY <1>6 DEF AloneInv, ProgressInv, Syncing, SyncPlaces
<1>9. LiveInv
  <2>1. Live(0, 0)
    BY <1>1, <1>2 DEF Live
  <2>2. slots.arr = 0 /\ slots.len = 0
    BY <1>1
  <2> QED
    BY <1>6, <2>1, <2>2 DEF LiveInv, Syncing, SyncPlaces
<1>10. PointerInv /\ ClickedInv
  BY <1>1, <1>2 DEF PointerInv, ClickedInv, NoClick
<1>11. ShownInv
  <2>1. Shown = {}
    BY <1>1, <1>2 DEF Shown
  <2> QED
    BY <1>1, <2>1 DEF ShownInv
<1>12. TitleInv
  BY <1>1, <1>6 DEF TitleInv, SyncPlaces
<1> QED
  BY <1>7, <1>8, <1>9, <1>10, <1>11, <1>12 DEF QuietInv

\* A menu once raced stays so.
LEMMA RacedStays ==
  ASSUME raced \in BOOLEAN, [Next]_vars
  PROVE  raced' \in BOOLEAN /\ (raced => raced')
<1>1. CASE UNCHANGED raced
  BY <1>1
<1>2. CASE RacedNow
  BY <1>2 DEF RacedNow
<1> QED
  BY <1>1, <1>2 DEF Next, vars, DaemonChanges, Call, CallFails, LoadSlots, GrowSlots, AssignSlot,
     SetTitle, StoreSlots, Commit, Tick, ClickRefresh, ClickPause, Selected, ClickRoute, ReadURL,
     OpenRoute, Done

LEMMA NextQuiet ==
  ASSUME QuietInv, raced \in BOOLEAN, [Next]_vars, ~raced'
  PROVE  QuietInv'
<1>1. CASE DaemonChanges \/ OpenRoute \/ Done \/ UNCHANGED vars
  BY <1>1, DaemonStep DEF Done
<1>2. ASSUME NEW l \in Loops,
             \/ Call(l) \/ CallFails(l) \/ LoadSlots(l) \/ GrowSlots(l) \/ AssignSlot(l)
             \/ SetTitle(l) \/ StoreSlots(l) \/ Commit(l)
      PROVE  QuietInv'
  <2>1. CASE Call(l)
    BY <2>1, CallStep
  <2>2. CASE CallFails(l)
    BY <2>2, CallFailsStep
  <2>3. CASE LoadSlots(l)
    BY <2>3, LoadStep
  <2>4. CASE GrowSlots(l)
    BY <2>4, GrowStep
  <2>5. CASE AssignSlot(l)
    BY <2>5, UrlStep, AllShownStep
  <2>6. CASE StoreSlots(l)
    BY <2>6, StoreStep
  <2>7. CASE Commit(l)
    BY <2>7, CommitStep
  <2>8. CASE SetTitle(l)
    BY <2>8, TitleStep
  <2> QED
    BY <1>2, <2>1, <2>2, <2>3, <2>4, <2>5, <2>6, <2>7, <2>8
<1>3. CASE Tick \/ ClickRefresh \/ ClickPause
  BY <1>3, TickStep
<1>4. CASE (\E item \in 1..Len(items) : ClickRoute(item)) \/ ReadURL
  BY <1>4, ClickStep
<1> QED
  BY <1>1, <1>2, <1>3, <1>4 DEF Next

\* The invariant the theorems below rest on: as long as no two polls have overlapped,
\* the slots in use match the items one by one and every click goroutine reads the
\* slot of its own item.
THEOREM Invariance == Spec => []MenuInv
<1>1. Init => MenuInv
  BY InitQuiet DEF MenuInv
<1>2. MenuInv /\ [Next]_vars => MenuInv'
  BY RacedStays, NextQuiet DEF MenuInv
<1> QED
  BY <1>1, <1>2, PTL DEF Spec

\* refreshMenu: between polls that did not overlap the menu shows exactly the routes
\* of the last poll, each once, however the list grew and shrank before.
THEOREM ShownPolled == Spec => []ShownIsPolled
<1>1. MenuInv => ShownIsPolled
  <2> SUFFICES ASSUME QuietInv, AtRest PROVE ShownIsPolled
    BY DEF MenuInv, ShownIsPolled
  <2>1. \A l \in Loops : loop[l].at \notin {"grow", "title", "store"}
    BY DEF AtRest, Syncing
  <2>2. {items[k] : k \in Shown} = polled /\ Cardinality(Shown) = Cardinality(polled)
    BY <2>1 DEF QuietInv, ShownInv
  <2> QED
    BY <2>2 DEF ShownIsPolled, Shown
<1> QED
  BY <1>1, Invariance, PTL

\* The click goroutines: while polls have not overlapped a click opens nothing, a route
\* its item stood for or the one whose title it is about to get, however late it is
\* carried out; at rest an item opens what its title says, or, when append has left its
\* array behind, nothing or a route it once stood for.
THEOREM ClickOpens == Spec => []ClickOpensShown
<1>1. MenuInv => ClickOpensShown
  <2> SUFFICES ASSUME QuietInv
               PROVE  /\ clicked.url # Nothing => \/ clicked.url \in titles[clicked.item]
                                                  \/ BeingSet(clicked.item, clicked.url)
                      /\ AtRest => \A k \in 1..Len(items) : items[k] # Nothing =>
                           IF pointer[k].arr = slots.arr THEN Target(k) = items[k]
                           ELSE Target(k) \in titles[k] \cup {Nothing}
    BY DEF MenuInv, ClickOpensShown
  <2>1. ASSUME clicked.url # Nothing, clicked.url \notin titles[clicked.item]
        PROVE  BeingSet(clicked.item, clicked.url)
    <3>1. Given(clicked.item, clicked.url)
      BY <2>1 DEF QuietInv, ClickedInv
    <3>2. PICK l \in Loops : /\ loop[l].at = "title" /\ loop[l].i = clicked.item
                             /\ Due(loop[l].list, loop[l].i) = clicked.url
      BY <2>1, <3>1 DEF Given
    <3>3. Live(loop[l].arr, loop[l].len) /\ loop[l].i \in 1..loop[l].len
      BY <3>2 DEF QuietInv, LiveInv, Syncing, ProgressInv
    <3>4. arrays[loop[l].arr][loop[l].i].item = clicked.item
      BY <3>2, <3>3 DEF Live
    <3> QED
      BY <3>2, <3>4 DEF BeingSet, Wanted, Due
  <2>2. ASSUME AtRest, NEW k \in 1..Len(items), items[k] # Nothing
        PROVE  IF pointer[k].arr = slots.arr THEN Target(k) = items[k]
               ELSE Target(k) \in titles[k] \cup {Nothing}
    <3>1. Live(slots.arr, slots.len)
      BY <2>2 DEF QuietInv, LiveInv
    <3>2. /\ \A m : ~Pending(m)
          /\ \A m, url : Given(m, url) <=> url \in titles[m] \cup {Nothing}
      BY <2>2, NoneDue DEF AtRest, Syncing
    <3>3. arrays[slots.arr][k].url = items[k]
      BY <3>1, <3>2 DEF Live
    <3>4. pointer[k].i = k /\ arrays[pointer[k].arr][k].url \in titles[k] \cup {Nothing}
      BY <3>2 DEF QuietInv, PointerInv
    <3> QED
      BY <3>3, <3>4 DEF Target
  <2> QED
    BY <2>1, <2>2
<1> QED
  BY <1>1, Invariance, PTL

\* currentState and the pause item's title: between polls that did not overlap, and
\* unless the last one failed, the item does what its title says.
THEOREM TitleAction == Spec => []TitleIsAction
<1>1. MenuInv => TitleIsAction
  BY DEF MenuInv, QuietInv, TitleInv, TitleIsAction, AtRest, Syncing
<1> QED
  BY <1>1, Invariance, PTL

(***************************************************************************)
(* Races included                                                          *)
(***************************************************************************)
\* A slice lies inside its array, and each of its slots has an item of the menu.
Held(a, n) ==
  /\ Within(a, n)
  /\ \A k \in 1..n : a # 0 => arrays[a][k].item \in 1..Len(items)

BoundTypes ==
  /\ routes \subseteq Hosts /\ paused \in BOOLEAN
  /\ loop \in [Loops -> Local] /\ slots \in [arr : Nat, len : Nat]
  /\ items \in Seq(Titles) /\ arrays \in Seq(Seq(SlotType))
  /\ pointer \in Seq([arr : Nat, i : Nat]) /\ Len(pointer) = Len(items)

ClickHeld == clicked.url \in Titles /\ clicked.item \in 0..Len(items)

\* The index of a goroutine at a slot.
AtSlot(x) == (x.at = "grow" => x.i # 0) /\ (x.at = "title" => x.i \in 1..x.len)

BoundInv ==
  /\ BoundTypes /\ ClickHeld
  /\ \A l \in Loops : Held(loop[l].arr, loop[l].len) /\ AtSlot(loop[l])
  /\ Held(slots.arr, slots.len)
  /\ \A k \in 1..Len(pointer) :
       pointer[k].arr \in 1..Len(arrays) /\ pointer[k].i \in 1..Len(arrays[pointer[k].arr])

LEMMA LocalBound ==
  ASSUME BoundInv, NEW l \in Loops
  PROVE  /\ loop \in [Loops -> Local] /\ loop[l] \in Local
         /\ loop[l].list \in Seq(Hosts) /\ Len(loop[l].list) \in Nat
         /\ loop[l].arr \in Nat /\ loop[l].len \in Nat /\ loop[l].i \in Nat
         /\ Held(loop[l].arr, loop[l].len) /\ AtSlot(loop[l])
<1>1. /\ loop \in [Loops -> Local] /\ Held(loop[l].arr, loop[l].len)
      /\ AtSlot(loop[l])
  BY DEF BoundInv, BoundTypes
<1>2. loop[l] \in Local
  BY <1>1
<1> QED
  BY <1>1, <1>2 DEF Local

LEMMA BoundAside ==
  ASSUME BoundInv, UNCHANGED <<items, arrays, pointer>>,
         routes' \subseteq Hosts, paused' \in BOOLEAN, loop' \in [Loops -> Local],
         slots' \in [arr : Nat, len : Nat], ClickHeld',
         \A l \in Loops : Held(loop'[l].arr, loop'[l].len),
         \A l \in Loops : AtSlot(loop'[l]),
         Held(slots'.arr, slots'.len)
  PROVE  BoundInv'
<1>1. BoundTypes'
  BY DEF BoundInv, BoundTypes
<1>2. ASSUME NEW l \in Loops PROVE Held(loop[l].arr, loop[l].len)'
  BY DEF Held, Within
<1>3. Held(slots.arr, slots.len)'
  BY DEF Held, Within
<1>4. \A k \in 1..Len(pointer') :
        pointer'[k].arr \in 1..Len(arrays') /\ pointer'[k].i \in 1..Len(arrays'[pointer'[k].arr])
  BY DEF BoundInv
<1> QED
  BY <1>1, <1>2, <1>3, <1>4 DEF BoundInv

\* One goroutine moves, with the slice it had, none, or the one of routeSlots.
LEMMA BoundMoves ==
  ASSUME BoundInv, UNCHANGED <<items, arrays, pointer, slots>>,
         routes' \subseteq Hosts, paused' \in BOOLEAN, ClickHeld',
         NEW l \in Loops, NEW x \in Local, loop' = [loop EXCEPT ![l] = x],
         Held(x.arr, x.len), AtSlot(x)
  PROVE  BoundInv'
<1>1. loop \in [Loops -> Local] /\ slots \in [arr : Nat, len : Nat]
  BY DEF BoundInv, BoundTypes
<1>2. loop' \in [Loops -> Local] /\ \A k \in Loops : loop'[k] = IF k = l THEN x ELSE loop[k]
  BY <1>1
<1>3. \A k \in Loops : Held(loop[k].arr, loop[k].len)
  BY DEF BoundInv
<1>4. ASSUME NEW k \in Loops PROVE Held(loop'[k].arr, loop'[k].len)
  <2>1. CASE k = l
    BY <1>2, <2>1
  <2>2. CASE k # l
    BY <1>2, <1>3, <2>2
  <2> QED
    BY <2>1, <2>2
<1>5. Held(slots'.arr, slots'.len) /\ slots' \in [arr : Nat, len : Nat]
  BY <1>1 DEF BoundInv
<1>6. \A k \in Loops : AtSlot(loop'[k])
  BY <1>2 DEF BoundInv
<1> QED
  BY <1>2, <1>4, <1>5, <1>6, BoundAside

\* The slices of a goroutine at its select.
LEMMA NoSlice ==
  ASSUME NEW at \in Places
  PROVE  /\ [Idle EXCEPT !.at = at] \in Local /\ Idle \in Local
         /\ Held([Idle EXCEPT !.at = at].arr, [Idle EXCEPT !.at = at].len)
         /\ Held(Idle.arr, Idle.len) /\ Held(0, 0)
         /\ [Idle EXCEPT !.at = at].at = at /\ Idle.at = "idle"
<1>1. /\ [Idle EXCEPT !.at = at] \in Local /\ Idle \in Local
      /\ [Idle EXCEPT !.at = at].at = at /\ Idle.at = "idle"
  BY IdleLocal
<1>2. /\ [Idle EXCEPT !.at = at].arr = 0 /\ [Idle EXCEPT !.at = at].len = 0
      /\ Idle.arr = 0 /\ Idle.len = 0
  BY DEF Idle
<1>3. Held(0, 0)
  BY DEF Held, Within
<1> QED
  BY <1>1, <1>2, <1>3

LEMMA CallBound ==
  ASSUME BoundInv, NEW l \in Loops, Call(l) \/ LoadSlots(l)
  PROVE  BoundInv'
<1>1. UNCHANGED <<items, arrays, pointer, slots, routes, paused, clicked>>
  BY DEF Call, LoadSlots, pollFrame, daemonVars, slotVars
<1>2. /\ routes' \in SUBSET Hosts /\ routes \in SUBSET Hosts /\ paused \in BOOLEAN
      /\ paused' \in BOOLEAN /\ ClickHeld'
      /\ slots.arr \in Nat /\ slots.len \in Nat /\ Held(slots.arr, slots.len)
  BY <1>1 DEF BoundInv, BoundTypes, ClickHeld
<1>3. loop[l] \in Local /\ Held(loop[l].arr, loop[l].len)
  BY LocalBound
<1>4. ASSUME Set(l, [loop[l] EXCEPT !.at = "routes", !.paused = paused]) PROVE BoundInv'
  <2> DEFINE x == [loop[l] EXCEPT !.at = "routes", !.paused = paused]
  <2>1. x \in Local /\ x.arr = loop[l].arr /\ x.len = loop[l].len /\ x.at = "routes"
    BY <1>2, <1>3 DEF Local, Places
  <2>2. loop' = [loop EXCEPT ![l] = x]
    BY <1>4 DEF Set
  <2> HIDE DEF x
  <2> QED
    BY <1>1, <1>2, <1>3, <2>1, <2>2, BoundMoves DEF AtSlot
<1>5. ASSUME NEW list \in SetToSeqs(routes), Set(l, [loop[l] EXCEPT !.at = "startup", !.list = list])
      PROVE  BoundInv'
  <2> DEFINE x == [loop[l] EXCEPT !.at = "startup", !.list = list]
  <2>1. list \in Seq(Hosts)
    BY <1>2, ListOfRoutes
  <2>2. x \in Local /\ x.arr = loop[l].arr /\ x.len = loop[l].len /\ x.at = "startup"
    BY <1>3, <2>1 DEF Local, Places
  <2>3. loop' = [loop EXCEPT ![l] = x]
    BY <1>5 DEF Set
  <2> HIDE DEF x
  <2> QED
    BY <1>1, <1>2, <1>3, <2>2, <2>3, BoundMoves DEF AtSlot
<1>6. CASE LoadSlots(l)
  <2> DEFINE x == [loop[l] EXCEPT !.at = "grow", !.arr = slots.arr, !.len = slots.len, !.i = 1]
  <2>1. x \in Local /\ x.arr = slots.arr /\ x.len = slots.len /\ x.i = 1 /\ x.at = "grow"
    BY <1>2, <1>3 DEF Local, Places
  <2>2. loop' = [loop EXCEPT ![l] = x]
    BY <1>6 DEF LoadSlots, Set
  <2> HIDE DEF x
  <2>3. Held(x.arr, x.len) /\ AtSlot(x)
    BY <1>2, <2>1 DEF AtSlot
  <2> QED
    BY <1>1, <1>2, <2>1, <2>2, <2>3, BoundMoves
<1> QED
  BY <1>4, <1>5, <1>6 DEF Call

LEMMA RestBound ==
  ASSUME BoundInv, NEW l \in Loops, CallFails(l) \/ Commit(l)
  PROVE  BoundInv'
<1>1. /\ UNCHANGED <<items, arrays, pointer, slots, routes, paused, clicked>>
      /\ loop' = [k \in Loops |-> IF k = l THEN Idle ELSE IF l = "main" THEN Idle ELSE loop[k]]
  BY DEF CallFails, Commit, Rest, daemonVars, slotVars
<1>2. /\ routes' \subseteq Hosts /\ paused' \in BOOLEAN /\ ClickHeld'
      /\ slots' \in [arr : Nat, len : Nat] /\ Held(slots'.arr, slots'.len)
      /\ loop \in [Loops -> Local] /\ \A k \in Loops : Held(loop[k].arr, loop[k].len)
      /\ \A k \in Loops : AtSlot(loop[k])
  BY <1>1 DEF BoundInv, BoundTypes, ClickHeld
<1>3. Idle \in Local /\ Held(Idle.arr, Idle.len) /\ Idle.at = "idle"
  BY NoSlice DEF Places
<1>4. loop' \in [Loops -> Local] /\ \A k \in Loops : loop'[k] = Idle \/ loop'[k] = loop[k]
  BY <1>1, <1>2, <1>3
<1>5. ASSUME NEW k \in Loops PROVE Held(loop'[k].arr, loop'[k].len)
  <2>1. CASE loop'[k] = Idle
    BY <1>3, <2>1
  <2>2. CASE loop'[k] = loop[k]
    BY <1>2, <2>2
  <2> QED
    BY <1>4, <2>1, <2>2
<1>6. \A k \in Loops : AtSlot(loop'[k])
  BY <1>2, <1>3, <1>4 DEF AtSlot
<1> QED
  BY <1>1, <1>2, <1>4, <1>5, <1>6, BoundAside

LEMMA StartBound ==
  ASSUME BoundInv, Tick \/ ClickRefresh \/ ClickPause
  PROVE  BoundInv'
<1>1. UNCHANGED <<items, arrays, pointer, slots, routes, clicked>>
  BY DEF Tick, ClickRefresh, ClickPause, Selected, daemonVars, slotVars
<1>2. routes' \subseteq Hosts /\ ClickHeld'
  BY <1>1 DEF BoundInv, BoundTypes, ClickHeld
<1>3. paused' \in BOOLEAN
  BY DEF BoundInv, BoundTypes, Tick, ClickRefresh, ClickPause, daemonVars
<1>4. PICK l \in Loops : Set(l, [Idle EXCEPT !.at = "status"])
  BY DEF Tick, ClickRefresh, ClickPause, Selected, Loops
<1> DEFINE x == [Idle EXCEPT !.at = "status"]
<1>5. x \in Local /\ Held(x.arr, x.len) /\ x.at = "status"
  <2>1. "status" \in Places
    BY DEF Places
  <2> QED
    BY <2>1, NoSlice
<1>6. loop' = [loop EXCEPT ![l] = x]
  BY <1>4 DEF Set
<1> HIDE DEF x
<1> QED
  BY <1>1, <1>2, <1>3, <1>5, <1>6, BoundMoves DEF AtSlot

LEMMA DaemonBound ==
  ASSUME BoundInv,
         \/ DaemonChanges \/ ReadURL \/ OpenRoute \/ UNCHANGED vars
         \/ \E item \in 1..Len(items) : ClickRoute(item)
  PROVE  BoundInv'
<1>1. UNCHANGED <<items, arrays, pointer, slots, loop>>
  BY DEF DaemonChanges, ReadURL, OpenRoute, ClickRoute, vars, slotVars
<1>2. routes' \subseteq Hosts /\ paused' \in BOOLEAN
  BY DEF BoundInv, BoundTypes, DaemonChanges, ReadURL, OpenRoute, ClickRoute, vars, daemonVars
<1>3. ClickHeld'
  <2>1. ClickHeld /\ Len(items) \in Nat /\ Nothing \in Titles
    BY DEF BoundInv, BoundTypes, Titles
  <2>2. CASE DaemonChanges \/ UNCHANGED vars
    BY <1>1, <2>1, <2>2 DEF ClickHeld, DaemonChanges, vars
  <2>3. CASE OpenRoute
    BY <1>1, <2>1, <2>3 DEF ClickHeld, OpenRoute, NoClick
  <2>4. ASSUME NEW item \in 1..Len(items), ClickRoute(item) PROVE ClickHeld'
    BY <1>1, <2>1, <2>4 DEF ClickHeld, ClickRoute, NoClick
  <2>5. CASE ReadURL
    <3> DEFINE item == clicked.item
               c == pointer[item].arr
               k == pointer[item].i
    <3>1. item \in 1..Len(pointer)
      BY <2>1, <2>5 DEF ReadURL, ClickHeld, BoundInv, BoundTypes
    <3> HIDE DEF item
    <3>2. c \in 1..Len(arrays) /\ k \in 1..Len(arrays[c]) /\ arrays \in Seq(Seq(SlotType))
      BY <3>1 DEF BoundInv, BoundTypes
    <3>3. clicked' = [item |-> item, read |-> TRUE, url |-> arrays[c][k].url]
      BY <2>5 DEF ReadURL, Target, item
    <3> HIDE DEF c, k
    <3>4. arrays[c] \in Seq(SlotType)
      BY <3>2
    <3>5. arrays[c][k] \in SlotType
      BY <3>2, <3>4
    <3>6. arrays[c][k].url \in Titles
      BY <3>5 DEF SlotType
    <3>7. clicked'.item = clicked.item /\ clicked'.url \in Titles
      BY <3>3, <3>6 DEF item
    <3> QED
      BY <1>1, <2>1, <3>7 DEF ClickHeld
  <2> QED
    BY <2>2, <2>3, <2>4, <2>5
<1>4. /\ loop' \in [Loops -> Local] /\ slots' \in [arr : Nat, len : Nat]
      /\ Held(slots'.arr, slots'.len)
      /\ \A l \in Loops : Held(loop'[l].arr, loop'[l].len)
      /\ \A l \in Loops : AtSlot(loop'[l])
  BY <1>1 DEF BoundInv, BoundTypes
<1> QED
  BY <1>1, <1>2, <1>3, <1>4, BoundAside

LEMMA StoreBound ==
  ASSUME BoundInv, NEW l \in Loops,
         StoreSlots(l) \/ (AssignSlot(l) /\ ~(loop[l].i <= loop[l].len))
  PROVE  BoundInv'
<1>1. UNCHANGED <<items, arrays, pointer, routes, paused, clicked>>
  BY DEF StoreSlots, AssignSlot, pollFrame, daemonVars, slotVars
<1>2. /\ routes' \subseteq Hosts /\ paused' \in BOOLEAN /\ ClickHeld'
      /\ slots \in [arr : Nat, len : Nat] /\ Held(slots.arr, slots.len)
      /\ \A k \in Loops : Held(loop[k].arr, loop[k].len)
      /\ \A k \in Loops : AtSlot(loop[k])
  BY <1>1 DEF BoundInv, BoundTypes, ClickHeld
<1>3. /\ loop \in [Loops -> Local] /\ loop[l] \in Local /\ loop[l].arr \in Nat /\ loop[l].len \in Nat
      /\ Held(loop[l].arr, loop[l].len)
  BY LocalBound
<1>4. PICK at \in {"store", "commit"} : loop' = [loop EXCEPT ![l] = [loop[l] EXCEPT !.at = at]]
  BY DEF StoreSlots, AssignSlot, Set
<1> DEFINE x == [loop[l] EXCEPT !.at = at]
<1>5. x \in Local /\ x.arr = loop[l].arr /\ x.len = loop[l].len /\ AtSlot(x)
  BY <1>3 DEF Local, Places, AtSlot
<1>6. loop' = [loop EXCEPT ![l] = x]
  BY <1>4
<1> HIDE DEF x
<1>7. slots' \in [arr : Nat, len : Nat] /\ Held(slots'.arr, slots'.len)
  <2>1. CASE slots' = [arr |-> loop[l].arr, len |-> loop[l].len]
    <3>1. slots'.arr = loop[l].arr /\ slots'.len = loop[l].len
      BY <2>1
    <3> QED
      BY <1>3, <2>1, <3>1
  <2>2. CASE UNCHANGED slots
    BY <1>2, <2>2
  <2> QED
    BY <2>1, <2>2 DEF StoreSlots, AssignSlot
<1>8. loop' \in [Loops -> Local] /\ \A k \in Loops : loop'[k] = IF k = l THEN x ELSE loop[k]
  BY <1>3, <1>5, <1>6
<1>9. ASSUME NEW k \in Loops PROVE Held(loop'[k].arr, loop'[k].len)
  <2>1. loop'[k].arr = loop[k].arr /\ loop'[k].len = loop[k].len
    BY <1>5, <1>8
  <2> QED
    BY <1>2, <2>1
<1>10. \A k \in Loops : AtSlot(loop'[k])
  BY <1>2, <1>5, <1>8
<1> QED
  BY <1>1, <1>2, <1>7, <1>8, <1>9, <1>10, BoundAside

\* Arrays and items are only added; a slot keeps its item or gets one of the menu.
Grows ==
  /\ arrays' \in Seq(Seq(SlotType)) /\ items' \in Seq(Titles)
  /\ Len(arrays) <= Len(arrays') /\ Len(items) <= Len(items')
  /\ \A c \in 1..Len(arrays) :
       /\ Len(arrays'[c]) = Len(arrays[c])
       /\ \A k \in 1..Len(arrays[c]) :
            arrays'[c][k].item = arrays[c][k].item \/ arrays'[c][k].item \in 1..Len(items')

HeldNext(a, n) ==
  /\ IF a = 0 THEN n = 0 ELSE a \in 1..Len(arrays') /\ n <= Len(arrays'[a])
  /\ \A k \in 1..n : a # 0 => arrays'[a][k].item \in 1..Len(items')

LEMMA HeldStays ==
  ASSUME BoundInv, Grows, NEW a \in Nat, NEW n \in Nat, Held(a, n)
  PROVE  HeldNext(a, n)
<1>1. arrays \in Seq(Seq(SlotType)) /\ items \in Seq(Titles)
  BY DEF BoundInv, BoundTypes
<1>2. /\ Len(arrays) \in Nat /\ Len(arrays') \in Nat /\ Len(items) \in Nat /\ Len(items') \in Nat
      /\ Len(arrays) <= Len(arrays') /\ Len(items) <= Len(items')
  BY <1>1 DEF Grows
<1>3. CASE a = 0
  BY <1>3 DEF Held, Within, HeldNext
<1>4. CASE a # 0
  <2>1. a \in 1..Len(arrays) /\ n <= Len(arrays[a])
    BY <1>4 DEF Held, Within
  <2>2. arrays[a] \in Seq(SlotType)
    BY <1>1, <2>1
  <2>3. Len(arrays[a]) \in Nat /\ Len(arrays'[a]) = Len(arrays[a]) /\ a \in 1..Len(arrays')
    BY <1>2, <2>1, <2>2 DEF Grows
  <2>4. ASSUME NEW k \in 1..n PROVE arrays'[a][k].item \in 1..Len(items')
    <3>1. k \in 1..Len(arrays[a])
      BY <2>1, <2>3
    <3>2. arrays'[a][k].item = arrays[a][k].item \/ arrays'[a][k].item \in 1..Len(items')
      BY <2>1, <3>1 DEF Grows
    <3>3. arrays[a][k].item \in 1..Len(items)
      BY <1>4 DEF Held
    <3>4. arrays[a][k].item \in 1..Len(items')
      BY <1>2, <3>3
    <3> QED
      BY <3>2, <3>4
  <2> QED
    BY <1>4, <2>1, <2>3, <2>4 DEF HeldNext
<1> QED
  BY <1>3, <1>4

\* A goroutine changes the arrays: the slices of all, its own included, stay held.
LEMMA GrowsBound ==
  ASSUME BoundInv, Grows, UNCHANGED <<routes, paused, clicked, slots>>,
         NEW l \in Loops, NEW x \in Local, loop' = [loop EXCEPT ![l] = x],
         HeldNext(x.arr, x.len), AtSlot(x),
         pointer' \in Seq([arr : Nat, i : Nat]), Len(pointer') = Len(items'),
         \A k \in 1..Len(pointer') :
           /\ pointer'[k].arr \in 1..Len(arrays')
           /\ pointer'[k].i \in 1..Len(arrays'[pointer'[k].arr])
  PROVE  BoundInv'
<1>1. loop \in [Loops -> Local] /\ slots \in [arr : Nat, len : Nat]
  BY DEF BoundInv, BoundTypes
<1>2. loop' \in [Loops -> Local] /\ \A k \in Loops : loop'[k] = IF k = l THEN x ELSE loop[k]
  BY <1>1
<1>3. BoundTypes' /\ ClickHeld'
  <2>1. BoundTypes' /\ Len(items) \in Nat /\ Len(items') \in Nat /\ Len(items) <= Len(items')
    BY <1>2 DEF BoundInv, BoundTypes, Grows
  <2> QED
    BY <2>1 DEF BoundInv, ClickHeld
<1>4. ASSUME NEW k \in Loops PROVE HeldNext(loop'[k].arr, loop'[k].len)
  <2>1. CASE k = l
    BY <1>2, <2>1
  <2>2. CASE k # l
    <3>1. loop[k].arr \in Nat /\ loop[k].len \in Nat /\ Held(loop[k].arr, loop[k].len)
      BY LocalBound
    <3>2. HeldNext(loop[k].arr, loop[k].len)
      BY <3>1, HeldStays
    <3> QED
      BY <1>2, <2>2, <3>2
  <2> QED
    BY <2>1, <2>2
<1>5. HeldNext(slots'.arr, slots'.len)
  <2>1. slots.arr \in Nat /\ slots.len \in Nat /\ Held(slots.arr, slots.len)
    BY <1>1 DEF BoundInv
  <2>2. HeldNext(slots.arr, slots.len)
    BY <2>1, HeldStays
  <2> QED
    BY <2>2
<1>6. ASSUME NEW k \in Loops PROVE Held(loop[k].arr, loop[k].len)'
  BY <1>4 DEF HeldNext, Held, Within
<1>7. Held(slots.arr, slots.len)'
  BY <1>5 DEF HeldNext, Held, Within
<1>8. \A k \in Loops : AtSlot(loop'[k])
  BY <1>2 DEF BoundInv
<1> QED
  BY <1>3, <1>6, <1>7, <1>8 DEF BoundInv

\* Pointers into arrays that only grow stay inside them.
LEMMA PointsInside ==
  ASSUME BoundInv, Grows, NEW k \in 1..Len(pointer)
  PROVE  /\ pointer[k].arr \in 1..Len(arrays')
         /\ pointer[k].i \in 1..Len(arrays'[pointer[k].arr])
<1> DEFINE c == pointer[k].arr
<1>1. c \in 1..Len(arrays) /\ pointer[k].i \in 1..Len(arrays[c])
  BY DEF BoundInv
<1> HIDE DEF c
<1>2. Len(arrays'[c]) = Len(arrays[c])
  BY <1>1 DEF Grows
<1>3. Len(arrays) \in Nat /\ Len(arrays') \in Nat /\ Len(arrays) <= Len(arrays')
  BY DEF BoundInv, BoundTypes, Grows
<1>4. c \in 1..Len(arrays') /\ pointer[k].i \in 1..Len(arrays'[c])
  BY <1>1, <1>2, <1>3
<1> QED
  BY <1>4 DEF c

LEMMA UrlBound ==
  ASSUME BoundInv, NEW l \in Loops, AssignSlot(l), loop[l].i <= loop[l].len
  PROVE  BoundInv'
<1> DEFINE a == loop[l].arr
           n == loop[l].len
           i == loop[l].i
           list == loop[l].list
           h == Due(list, i)
           old == arrays[a][i]
           x == [loop[l] EXCEPT !.at = "title"]
           slot == [old EXCEPT !.url = h]
           row == [arrays[a] EXCEPT ![i] = slot]
<1>1. /\ UNCHANGED <<routes, paused, clicked, slots, pointer>>
      /\ arrays' = [arrays EXCEPT ![a] = row] /\ UNCHANGED items
      /\ loop' = [loop EXCEPT ![l] = x] /\ loop[l].at = "grow"
  BY DEF AssignSlot, pollFrame, daemonVars, Set, Wanted, Due
<1>2. /\ loop[l] \in Local /\ list \in Seq(Hosts) /\ a \in Nat /\ n \in Nat /\ i \in Nat
      /\ Len(list) \in Nat /\ Held(a, n) /\ i # 0
  BY <1>1, LocalBound DEF AtSlot
<1>3. /\ items \in Seq(Titles) /\ arrays \in Seq(Seq(SlotType)) /\ Len(arrays) \in Nat
      /\ Len(items) \in Nat /\ pointer \in Seq([arr : Nat, i : Nat]) /\ Len(pointer) = Len(items)
  BY DEF BoundInv, BoundTypes
<1>4. i \in 1..n /\ n # 0
  BY <1>2
<1>5. x \in Local /\ x.arr = a /\ x.len = n /\ AtSlot(x)
  BY <1>2, <1>4 DEF Local, Places, AtSlot
<1>6. h \in Titles
  BY <1>2, <1>4 DEF Due, Titles
<1>7. a \in 1..Len(arrays) /\ n <= Len(arrays[a]) /\ arrays[a][i].item \in 1..Len(items)
  BY <1>2, <1>4 DEF Held, Within
<1> HIDE DEF x, h, n, i, list
<1>8. arrays[a] \in Seq(SlotType) /\ Len(arrays[a]) \in Nat /\ i \in 1..Len(arrays[a])
  <2>1. arrays[a] \in Seq(SlotType)
    BY <1>3, <1>7
  <2>2. n \in Nat /\ i \in 1..n /\ n <= Len(arrays[a]) /\ Len(arrays[a]) \in Nat
    BY <1>2, <1>4, <1>7, <2>1
  <2> QED
    BY <2>1, <2>2
<1>9. old \in SlotType /\ old.item \in 1..Len(items)
  BY <1>7, <1>8
<1> HIDE DEF old, a
<1>10. slot \in SlotType /\ slot.item = old.item
  BY <1>6, <1>9 DEF SlotType
<1> HIDE DEF slot
<1>11. /\ row \in Seq(SlotType) /\ Len(row) = Len(arrays[a]) /\ row[i] = slot
       /\ \A k \in 1..Len(arrays[a]) : k # i => row[k] = arrays[a][k]
  BY <1>8, <1>10
<1> HIDE DEF row
<1>12. /\ arrays' \in Seq(Seq(SlotType)) /\ Len(arrays') = Len(arrays) /\ arrays'[a] = row
       /\ \A c \in 1..Len(arrays) : c # a => arrays'[c] = arrays[c]
  BY <1>1, <1>3, <1>7, <1>11
<1>13. items' \in Seq(Titles) /\ Len(items') = Len(items)
  BY <1>1, <1>3
<1>14. Grows
  <2>1. ASSUME NEW c \in 1..Len(arrays)
        PROVE  /\ Len(arrays'[c]) = Len(arrays[c])
               /\ \A k \in 1..Len(arrays[c]) : arrays'[c][k].item = arrays[c][k].item
    <3>1. CASE c # a
      BY <1>12, <3>1
    <3>2. CASE c = a
      <4>1. row[i].item = arrays[a][i].item
        BY <1>10, <1>11 DEF old
      <4> QED
        BY <1>11, <1>12, <3>2, <4>1
    <3> QED
      BY <3>1, <3>2
  <2>2. Len(arrays) <= Len(arrays') /\ Len(items) <= Len(items')
    BY <1>3, <1>12, <1>13
  <2> QED
    BY <1>12, <1>13, <2>1, <2>2 DEF Grows
<1>15. HeldNext(x.arr, x.len)
  BY <1>2, <1>5, <1>14, HeldStays
<1>16. pointer' \in Seq([arr : Nat, i : Nat]) /\ Len(pointer') = Len(items')
  BY <1>1, <1>3, <1>13
<1>17. ASSUME NEW k \in 1..Len(pointer')
       PROVE  /\ pointer'[k].arr \in 1..Len(arrays')
              /\ pointer'[k].i \in 1..Len(arrays'[pointer'[k].arr])
  <2>1. pointer' = pointer /\ k \in 1..Len(pointer)
    BY <1>1
  <2> QED
    BY <1>14, <2>1, PointsInside
<1> QED
  BY <1>1, <1>5, <1>14, <1>15, <1>16, <1>17, GrowsBound
\* Setting a title leaves the slices alone.
LEMMA TitleBound ==
  ASSUME BoundInv, NEW l \in Loops, SetTitle(l)
  PROVE  BoundInv'
<1> DEFINE a == loop[l].arr
           n == loop[l].len
           i == loop[l].i
           h == Wanted(loop[l])
           item == arrays[a][i].item
           x == [loop[l] EXCEPT !.at = "grow", !.i = i + 1]
<1>1. /\ UNCHANGED <<routes, paused, clicked, slots, pointer, arrays>>
      /\ items' = [items EXCEPT ![item] = h]
      /\ loop' = [loop EXCEPT ![l] = x] /\ loop[l].at = "title"
  BY DEF SetTitle, pollFrame, daemonVars, Set
<1>2. /\ loop[l] \in Local /\ loop[l].list \in Seq(Hosts) /\ Len(loop[l].list) \in Nat
      /\ a \in Nat /\ n \in Nat /\ i \in 1..n /\ Held(a, n)
      /\ i \in Nat /\ i + 1 \in Nat /\ i + 1 # 0
  BY <1>1, LocalBound DEF AtSlot
<1>3. /\ items \in Seq(Titles) /\ arrays \in Seq(Seq(SlotType)) /\ Len(arrays) \in Nat
      /\ Len(items) \in Nat /\ pointer \in Seq([arr : Nat, i : Nat]) /\ Len(pointer) = Len(items)
  BY DEF BoundInv, BoundTypes
<1>4. x \in Local /\ x.arr = a /\ x.len = n /\ AtSlot(x)
  <2>1. /\ x \in Local /\ x.arr = a /\ x.len = n
        /\ x.at = "grow" /\ x.i = i + 1
    BY <1>2 DEF Local, Places
  <2> HIDE DEF x
  <2> QED
    BY <1>2, <2>1 DEF AtSlot
<1>5. h \in Titles
  BY <1>2 DEF Wanted, Titles
<1>a. item \in 1..Len(items)
  <2>1. n # 0
    BY <1>2
  <2>2. a # 0
    BY <1>2, <2>1 DEF Held, Within
  <2> QED
    BY <1>2, <2>2 DEF Held
<1> HIDE DEF x, h, item
<1>6. items' \in Seq(Titles) /\ Len(items') = Len(items)
  BY <1>1, <1>3, <1>5, <1>a
<1>7. Grows
  BY <1>1, <1>3, <1>6 DEF Grows
<1>8. HeldNext(x.arr, x.len)
  BY <1>2, <1>4, <1>7, HeldStays
<1>9. pointer' \in Seq([arr : Nat, i : Nat]) /\ Len(pointer') = Len(items')
  BY <1>1, <1>3, <1>6
<1>10. ASSUME NEW k \in 1..Len(pointer')
       PROVE  /\ pointer'[k].arr \in 1..Len(arrays')
              /\ pointer'[k].i \in 1..Len(arrays'[pointer'[k].arr])
  <2>1. pointer' = pointer /\ k \in 1..Len(pointer)
    BY <1>1
  <2> QED
    BY <1>7, <2>1, PointsInside
<1> QED
  BY <1>1, <1>4, <1>7, <1>8, <1>9, <1>10, GrowsBound

LEMMA GrowBound ==
  ASSUME BoundInv, NEW l \in Loops, GrowSlots(l)
  PROVE  BoundInv'
<1> DEFINE a == loop[l].arr
           n == loop[l].len
           b == IF n < Room(loop[l]) THEN a ELSE Len(arrays) + 1
           m == Len(items)
           s == Slot(m + 1, Nothing)
           x == [loop[l] EXCEPT !.arr = b, !.len = n + 1]
           p == [arr |-> b, i |-> n + 1]
<1>1. /\ UNCHANGED <<routes, paused, clicked, slots>>
      /\ items' = Append(items, Nothing) /\ arrays' = Append1(loop[l], s)
      /\ pointer' = Append(pointer, p)
      /\ loop' = [loop EXCEPT ![l] = x] /\ loop[l].at = "grow"
  BY DEF GrowSlots, pollFrame, daemonVars, Set
<1>2. /\ loop[l] \in Local /\ a \in Nat /\ n \in Nat /\ loop[l].i \in Nat /\ loop[l].i # 0
      /\ Held(a, n)
  BY <1>1, LocalBound DEF AtSlot
<1>3. /\ items \in Seq(Titles) /\ pointer \in Seq([arr : Nat, i : Nat])
      /\ arrays \in Seq(Seq(SlotType)) /\ Len(arrays) \in Nat
      /\ m \in Nat /\ Len(pointer) = m
  BY DEF BoundInv, BoundTypes
<1>4. s \in SlotType /\ s.item = m + 1
  BY <1>3 DEF Slot, SlotType, Titles
<1>5. Extended(arrays', b, a, n, s)
  <2> HIDE DEF s, a, n
  <2>1. a = loop[l].arr /\ n = loop[l].len
    BY DEF a, n
  <2>2. Within(a, n)
    BY <1>2 DEF Held
  <2> QED
    BY <1>1, <1>2, <1>3, <1>4, <2>1, <2>2, Appended
<1>6. b \in Nat /\ n + 1 \in Nat
  BY <1>2, <1>3
<1> HIDE DEF b, n
<1>7. x \in Local /\ x.arr = b /\ x.len = n + 1 /\ x.i = loop[l].i /\ x.at = "grow"
  BY <1>1, <1>2, <1>6 DEF Local
<1>8. p \in [arr : Nat, i : Nat] /\ p.arr = b /\ p.i = n + 1
  BY <1>6
<1> HIDE DEF a, s, x, p
<1>9. items' \in Seq(Titles) /\ Len(items') = m + 1
  <2>1. Nothing \in Titles
    BY DEF Titles
  <2> QED
    BY <1>1, <1>3, <2>1, AppendProperties
<1>10. /\ pointer' \in Seq([arr : Nat, i : Nat]) /\ Len(pointer') = m + 1 /\ pointer'[m + 1] = p
       /\ \A k \in 1..m : pointer'[k] = pointer[k]
  <2> DEFINE P == [arr : Nat, i : Nat]
  <2>1. p \in P /\ pointer \in Seq(P)
    BY <1>3, <1>8
  <2> HIDE DEF P
  <2>2. /\ pointer' \in Seq(P) /\ Len(pointer') = m + 1 /\ pointer'[m + 1] = p
        /\ \A k \in 1..m : pointer'[k] = pointer[k]
    BY <1>1, <1>3, <2>1, AppendProperties
  <2> QED
    BY <2>2 DEF P
<1> HIDE DEF m
<1>11. /\ arrays' \in Seq(Seq(SlotType)) /\ Len(arrays') \in Nat /\ Len(arrays) <= Len(arrays')
       /\ b \in 1..Len(arrays') /\ n + 1 <= Len(arrays'[b])
       /\ \A k \in 1..n : arrays'[b][k] = arrays[a][k]
       /\ arrays'[b][n + 1] = s
       /\ \A c \in 1..Len(arrays) :
            /\ Len(arrays'[c]) = Len(arrays[c])
            /\ \A k \in 1..Len(arrays[c]) : (c # b \/ k # n + 1) => arrays'[c][k] = arrays[c][k]
  BY <1>5 DEF Extended
<1>12. m + 1 \in 1..Len(items') /\ m <= Len(items')
  BY <1>3, <1>9
<1>13. b \in Nat /\ b # 0 /\ arrays'[b][n + 1].item \in 1..Len(items')
  BY <1>4, <1>6, <1>11, <1>12
<1>14. Grows
  <2>1. ASSUME NEW c \in 1..Len(arrays), NEW k \in 1..Len(arrays[c])
        PROVE  arrays'[c][k].item = arrays[c][k].item \/ arrays'[c][k].item \in 1..Len(items')
    <3>1. CASE c # b \/ k # n + 1
      BY <1>11, <3>1
    <3>2. CASE c = b /\ k = n + 1
      BY <1>13, <3>2
    <3> QED
      BY <3>1, <3>2
  <2>2. Len(items) <= Len(items')
    BY <1>12 DEF m
  <2> QED
    BY <1>9, <1>11, <2>1, <2>2 DEF Grows
<1>15. HeldNext(x.arr, x.len)
  <2>1. HeldNext(a, n)
    BY <1>2, <1>14, HeldStays
  <2>2. a = 0 => n = 0
    BY <1>2 DEF Held, Within
  <2>3. \A k \in 1..(n + 1) : k = n + 1 \/ k \in 1..n
    BY <1>2
  <2>4. ASSUME NEW k \in 1..n PROVE arrays'[b][k].item \in 1..Len(items')
    <3>1. a # 0 /\ arrays[a][k].item \in 1..Len(items)
      BY <1>2, <2>2 DEF Held
    <3>2. arrays'[b][k].item = arrays[a][k].item
      BY <1>11
    <3> QED
      BY <1>3, <1>9, <1>12, <3>1, <3>2 DEF m
  <2>5. \A k \in 1..(n + 1) : arrays'[b][k].item \in 1..Len(items')
    BY <1>13, <2>3, <2>4
  <2> QED
    BY <1>7, <1>11, <1>13, <2>5 DEF HeldNext
<1>16. ASSUME NEW k \in 1..Len(pointer')
       PROVE  /\ pointer'[k].arr \in 1..Len(arrays')
              /\ pointer'[k].i \in 1..Len(arrays'[pointer'[k].arr])
  <2>1. k = m + 1 \/ k \in 1..m
    BY <1>3, <1>10
  <2>2. CASE k = m + 1
    <3>1. arrays'[b] \in Seq(SlotType)
      BY <1>11
    <3>2. Len(arrays'[b]) \in Nat
      BY <3>1
    <3>3. n + 1 \in 1..Len(arrays'[b])
      BY <1>2, <1>6, <1>11, <3>2
    <3>4. pointer'[k] = p
      BY <1>10, <2>2
    <3> QED
      BY <1>8, <1>11, <3>3, <3>4
  <2>3. CASE k \in 1..m
    <3>1. pointer'[k] = pointer[k] /\ k \in 1..Len(pointer)
      BY <1>3, <1>10, <2>3
    <3> QED
      BY <1>14, <3>1, PointsInside
  <2> QED
    BY <2>1, <2>2, <2>3
<1>17. Len(pointer') = Len(items') /\ AtSlot(x)
  BY <1>2, <1>7, <1>9, <1>10 DEF AtSlot
<1> QED
  BY <1>1, <1>7, <1>10, <1>14, <1>15, <1>16, <1>17, GrowsBound
LEMMA InitBound == Init => BoundInv
<1> SUFFICES ASSUME Init PROVE BoundInv
  OBVIOUS
<1>1. /\ routes \subseteq Hosts /\ paused \in BOOLEAN
      /\ items = <<>> /\ arrays = <<>> /\ slots = [arr |-> 0, len |-> 0]
      /\ pointer = <<>> /\ clicked = NoClick
  BY DEF Init
<1> DEFINE r == [Idle EXCEPT !.at = "status"]
           o == [Idle EXCEPT !.at = "off"]
<1>2. "status" \in Places /\ "off" \in Places
  BY DEF Places
<1>3. /\ r \in Local /\ o \in Local /\ Held(r.arr, r.len) /\ Held(o.arr, o.len)
      /\ r.at = "status" /\ o.at = "off" /\ Held(0, 0)
  BY <1>2, NoSlice
<1>4. loop = [l \in Loops |-> IF l = "main" THEN r ELSE o]
  BY DEF Init
<1> HIDE DEF r, o
<1>5. loop \in [Loops -> Local] /\ \A l \in Loops : loop[l] = r \/ loop[l] = o
  BY <1>3, <1>4
<1>6. \A l \in Loops : Held(loop[l].arr, loop[l].len) /\ AtSlot(loop[l])
  BY <1>3, <1>5 DEF AtSlot
<1>7. BoundTypes
  <2>1. slots \in [arr : Nat, len : Nat]
    BY <1>1
  <2> QED
    BY <1>1, <1>5, <2>1 DEF BoundTypes
<1>8. Held(slots.arr, slots.len)
  BY <1>1, <1>3
<1>9. 1..Len(pointer) = {} /\ ClickHeld
  BY <1>1 DEF Titles, ClickHeld, NoClick
<1> QED
  BY <1>6, <1>7, <1>8, <1>9 DEF BoundInv

LEMMA NextBound ==
  ASSUME BoundInv, [Next]_vars
  PROVE  BoundInv'
<1>1. CASE \/ DaemonChanges \/ ReadURL \/ OpenRoute \/ Done \/ UNCHANGED vars
           \/ \E item \in 1..Len(items) : ClickRoute(item)
  BY <1>1, DaemonBound DEF Done
<1>2. ASSUME NEW l \in Loops,
             \/ Call(l) \/ CallFails(l) \/ LoadSlots(l) \/ GrowSlots(l) \/ AssignSlot(l)
             \/ SetTitle(l) \/ StoreSlots(l) \/ Commit(l)
      PROVE  BoundInv'
  BY <1>2, CallBound, RestBound, GrowBound, UrlBound, TitleBound, StoreBound
<1>3. CASE Tick \/ ClickRefresh \/ ClickPause
  BY <1>3, StartBound
<1> QED
  BY <1>1, <1>2, <1>3 DEF Next

\* syncRouteSlots and the click goroutines, polls that overlap included: no slice or
\* pointer reaches past its array, and each slot of a slice has its item.
THEOREM SlotsHeld == Spec => []BoundInv
<1>1. BoundInv /\ [Next]_vars => BoundInv'
  BY NextBound
<1> QED
  BY <1>1, InitBound, PTL DEF Spec

\* Type correctness of the menu, races included.
THEOREM TypeCorrect == Spec => []TypeOK
<1>1. BoundInv => TypeOK
  <2> SUFFICES ASSUME BoundInv PROVE TypeOK
    OBVIOUS
  <2>1. \A l \in Loops : loop[l].len <= Room(loop[l])
    <3> TAKE l \in Loops
    <3>1. loop[l].arr \in Nat /\ loop[l].len \in Nat /\ Within(loop[l].arr, loop[l].len)
      BY LocalBound DEF Held
    <3> QED
      BY <3>1 DEF Within, Room
  <2>2. slots.arr \in Nat /\ slots.len \in Nat /\ Within(slots.arr, slots.len) /\ Len(arrays) \in Nat
    BY DEF BoundInv, BoundTypes, Held
  <2>3. slots.arr \in 0..Len(arrays) /\ slots.len <= Room(slots)
    BY <2>2 DEF Within, Room
  <2> QED
    BY <2>1, <2>3 DEF BoundInv, BoundTypes, ClickHeld, Titles, TypeOK
<1> QED
  BY <1>1, SlotsHeld, PTL
===============================================================================
