------------------------------- MODULE Menubar -------------------------------
(***************************************************************************)
(* The menu bar (internal/menubar): one goroutine polls the daemon, the    *)
(* other carries out clicks and polls after some of them.  Both run        *)
(* refreshMenu over the same routeSlots without a lock.                    *)
(*                                                                         *)
(* A Go slice is an array and a length.  append writes in place while the  *)
(* array has room and else copies to an array twice as large; the click    *)
(* goroutine of an item keeps its pointer into the array its slot was      *)
(* appended to.  The daemon and the systray library are external.          *)
(***************************************************************************)
EXTENDS Integers, Sequences, FiniteSets, SequencesExt

CONSTANTS
  Hosts, Nothing,
  MaxPolls,    \* bound: polls of the ticker
  MaxClicks,   \* bound: clicks that are carried out
  MaxChanges,  \* bound: changes of the daemon by others
  MaxFaults    \* bound: failed calls

ASSUME MenubarAssumption ==
  /\ IsFiniteSet(Hosts) /\ Nothing \notin Hosts
  /\ {MaxPolls, MaxClicks, MaxChanges, MaxFaults} \subseteq Nat

Loops == {"main", "ticker", "clicks"}

VARIABLES
  \* the daemon
  routes, paused,
  \* the menu: items in the order of creation; an item has a title when shown
  items, pauseTitle,
  \* the slots
  arrays,   \* every array allocated: a sequence of slots, as long as its capacity
  slots,    \* routeSlots: its array (0: nil) and length
  pointer,  \* per item: the array and index its click goroutine reads
  current,  \* currentState.paused; startupEnabled is treated like it and left out
  loop,     \* per goroutine: its step and the locals of refreshMenu
  clicked,  \* the item clicked (0: none); the URL its goroutine has read and wants to send
  \* bounds
  polls, clicks, changes, faults,
  \* history, read by no action
  raced,    \* a goroutine changed the menu while the other was at it
  failed,   \* the last poll to end had failed
  titles,   \* per item: the titles it has had
  polled    \* the routes of the last poll that was shown

daemonVars == <<routes, paused>>
slotVars == <<items, arrays, slots, pointer, titles>>
boundVars == <<polls, clicks, changes, faults>>
vars == <<daemonVars, slotVars, pauseTitle, current, loop, clicked,
          boundVars, raced, failed, polled>>

Slot(item, url) == [item |-> item, url |-> url]
Idle == [at |-> "idle", paused |-> FALSE, list |-> <<>>,
         arr |-> 0, len |-> 0, i |-> 0]
NoClick == [item |-> 0, read |-> FALSE, url |-> Nothing]

Init ==
  /\ routes \in SUBSET Hosts /\ paused \in BOOLEAN
  /\ items = <<>> /\ arrays = <<>> /\ slots = [arr |-> 0, len |-> 0]
  /\ pointer = <<>> /\ titles = <<>>
  /\ pauseTitle = FALSE
  /\ current = FALSE
  /\ loop = [l \in Loops |-> IF l = "main" THEN [Idle EXCEPT !.at = "status"]
                             ELSE [Idle EXCEPT !.at = "off"]]
  /\ clicked = NoClick
  /\ polls = 0 /\ clicks = 0 /\ changes = 0 /\ faults = 0
  /\ raced = FALSE /\ failed = FALSE /\ polled = {}

\* Between reading routeSlots and setting currentState.
Syncing(l) == loop[l].at \in {"grow", "title", "store", "commit"}
RacedNow == raced' = (raced \/ \E k \in Loops : Syncing(k))
Set(l, local) == loop' = [loop EXCEPT ![l] = local]

(***************************************************************************)
(* The daemon, changed by Docker, other clients or launchd                 *)
(***************************************************************************)
DaemonChanges ==
  /\ changes < MaxChanges
  /\ changes' = changes + 1
  /\ \/ routes' \in (SUBSET Hosts) \ {routes} /\ UNCHANGED paused
     \/ paused' = ~paused /\ UNCHANGED routes
  /\ UNCHANGED <<slotVars, pauseTitle, current, loop, clicked,
                 polls, clicks, faults, raced, failed, polled>>

(***************************************************************************)
(* refreshMenu                                                             *)
(***************************************************************************)
pollFrame == <<daemonVars, pauseTitle, current, clicked, boundVars, failed, polled>>

\* client.Status, then client.Routes, in the order a Go map yields.
Call(l) ==
  LET local == loop[l]
  IN /\ \/ /\ local.at = "status"
           /\ Set(l, [local EXCEPT !.at = "routes", !.paused = paused])
        \/ /\ local.at = "routes"
           /\ \E list \in SetToSeqs(routes) :
                Set(l, [local EXCEPT !.at = "startup", !.list = list])
     /\ UNCHANGED <<pollFrame, slotVars, raced>>

\* Every goroutine goes on to its select; onReady starts the other two.
Rest(l) ==
  loop' = [k \in Loops |-> IF k = l THEN Idle
                           ELSE IF l = "main" THEN Idle ELSE loop[k]]

\* A call fails: the titles say so, currentState stays (onReady's is empty).
CallFails(l) ==
  /\ loop[l].at \in {"status", "routes", "startup"}
  /\ faults < MaxFaults
  /\ faults' = faults + 1
  /\ pauseTitle' = FALSE
  /\ failed' = TRUE
  /\ Rest(l)
  /\ RacedNow
  /\ UNCHANGED <<daemonVars, slotVars, current, clicked, polls, clicks, changes,
                 polled>>

\* client.StartupStatus, and syncRouteSlots is called with *routeSlots.
LoadSlots(l) ==
  /\ loop[l].at = "startup"
  /\ Set(l, [loop[l] EXCEPT !.at = "grow", !.arr = slots.arr, !.len = slots.len, !.i = 1])
  /\ RacedNow
  /\ UNCHANGED <<pollFrame, slotVars>>

Room(local) == IF local.arr = 0 THEN 0 ELSE Len(arrays[local.arr])

\* append: in place, or in a copy twice as large.
Append1(local, slot) ==
  IF local.len < Room(local)
    THEN [arrays EXCEPT ![local.arr][local.len + 1] = slot]
    ELSE Append(arrays,
           [i \in 1..(IF local.len = 0 THEN 1 ELSE 2 * local.len) |->
              IF i <= local.len THEN arrays[local.arr][i]
              ELSE IF i = local.len + 1 THEN slot ELSE Slot(0, Nothing)])

\* Mutant of GrowSlots: every item is bound to the first slot.
GrowSlotsFirst(l) ==
  LET local == loop[l]
      arr == IF local.len < Room(local) THEN local.arr ELSE Len(arrays) + 1
  IN /\ local.at = "grow" /\ local.len < Len(local.list)
     /\ items' = Append(items, Nothing)
     /\ arrays' = Append1(local, Slot(Len(items) + 1, Nothing))
     /\ pointer' = Append(pointer, [arr |-> arr, i |-> 1])
     /\ titles' = Append(titles, {})
     /\ Set(l, [local EXCEPT !.arr = arr, !.len = @ + 1])
     /\ UNCHANGED <<pollFrame, slots, raced>>

\* A new item is created, its slot appended and its click goroutine bound.
GrowSlots(l) ==
  LET local == loop[l]
      arr == IF local.len < Room(local) THEN local.arr ELSE Len(arrays) + 1
  IN /\ local.at = "grow" /\ local.len < Len(local.list)
     /\ items' = Append(items, Nothing)
     /\ arrays' = Append1(local, Slot(Len(items) + 1, Nothing))
     /\ pointer' = Append(pointer, [arr |-> arr, i |-> local.len + 1])
     /\ titles' = Append(titles, {})
     /\ Set(l, [local EXCEPT !.arr = arr, !.len = @ + 1])
     /\ UNCHANGED <<pollFrame, slots, raced>>

Wanted(local) == IF local.i <= Len(local.list) THEN local.list[local.i] ELSE Nothing

\* Mutant of AssignSlot: slots without a route are left as they are.
AssignSlotVisible(l) ==
  LET local == loop[l]
  IN /\ local.at = "grow" /\ local.len >= Len(local.list)
     /\ IF local.i <= Len(local.list)
          THEN /\ arrays' = [arrays EXCEPT ![local.arr][local.i].url = Wanted(local)]
               /\ Set(l, [local EXCEPT !.at = "title"])
          ELSE Set(l, [local EXCEPT !.at = "store"]) /\ UNCHANGED arrays
     /\ UNCHANGED <<pollFrame, slots, pointer, items, titles, raced>>

\* Each slot in turn gets the URL of a route, or none ...
AssignSlot(l) ==
  LET local == loop[l]
  IN /\ local.at = "grow" /\ local.len >= Len(local.list)
     /\ IF local.i <= local.len
          THEN /\ arrays' = [arrays EXCEPT ![local.arr][local.i].url = Wanted(local)]
               /\ Set(l, [local EXCEPT !.at = "title"])
          ELSE Set(l, [local EXCEPT !.at = "store"]) /\ UNCHANGED arrays
     /\ UNCHANGED <<pollFrame, slots, pointer, items, titles, raced>>

\* ... and then its item the title, and is shown, or is hidden.
SetTitle(l) ==
  LET local == loop[l]
      item == arrays[local.arr][local.i].item
  IN /\ local.at = "title"
     /\ items' = [items EXCEPT ![item] = Wanted(local)]
     /\ titles' = [titles EXCEPT ![item] = @ \cup {Wanted(local)}]
     /\ Set(l, [local EXCEPT !.at = "grow", !.i = @ + 1])
     /\ UNCHANGED <<pollFrame, slots, arrays, pointer, raced>>

\* *routeSlots is set, and the title of the pause item.
StoreSlots(l) ==
  LET local == loop[l]
  IN /\ local.at = "store"
     /\ slots' = [arr |-> local.arr, len |-> local.len]
     /\ pauseTitle' = local.paused
     /\ polled' = ToSet(local.list)
     /\ Set(l, [local EXCEPT !.at = "commit"])
     /\ UNCHANGED <<daemonVars, items, arrays, pointer, titles, current, clicked, boundVars,
                    raced, failed>>

\* Mutant of Commit: the state is kept only if there are routes to show.
CommitRoutes(l) ==
  /\ loop[l].at = "commit"
  /\ current' = IF loop[l].list = <<>> THEN current
                ELSE loop[l].paused
  /\ failed' = FALSE
  /\ Rest(l)
  /\ UNCHANGED <<daemonVars, slotVars, pauseTitle, clicked, boundVars, raced, polled>>

\* currentState follows under its lock, after refreshMenu has returned.
Commit(l) ==
  /\ loop[l].at = "commit"
  /\ current' = loop[l].paused
  /\ failed' = FALSE
  /\ Rest(l)
  /\ UNCHANGED <<daemonVars, slotVars, pauseTitle, clicked, boundVars, raced, polled>>

(***************************************************************************)
(* Ticks and clicks                                                        *)
(***************************************************************************)
Tick ==
  /\ loop["ticker"].at = "idle"
  /\ polls < MaxPolls
  /\ polls' = polls + 1
  /\ Set("ticker", [Idle EXCEPT !.at = "status"])
  /\ UNCHANGED <<daemonVars, slotVars, pauseTitle, current, clicked,
                 clicks, changes, faults, raced, failed, polled>>

Selected ==
  /\ loop["clicks"].at = "idle"
  /\ clicks < MaxClicks
  /\ clicks' = clicks + 1
  /\ Set("clicks", [Idle EXCEPT !.at = "status"])
  /\ UNCHANGED <<slotVars, pauseTitle, current, clicked, polls, changes, faults,
                 raced, failed, polled>>

\* refreshItem: Refresh may or may not change the daemon's routes.
ClickRefresh == Selected /\ UNCHANGED daemonVars

\* pauseItem: the opposite of currentState is asked for, and a call that fails is
\* not noticed.
ClickPause ==
  /\ Selected
  /\ paused' \in {~current, paused}
  /\ UNCHANGED routes

Target(item) == arrays[pointer[item].arr][pointer[item].i].url

\* An item that is shown is clicked (one at a time) ...
ClickRoute(item) ==
  /\ items[item] # Nothing
  /\ clicked.item = 0
  /\ clicks < MaxClicks
  /\ clicks' = clicks + 1
  /\ clicked' = [NoClick EXCEPT !.item = item]
  /\ UNCHANGED <<daemonVars, slotVars, pauseTitle, current, loop, polls, changes,
                 faults, raced, failed, polled>>

\* ... its goroutine reads the URL and waits for the click loop ...
ReadURL ==
  /\ clicked.item # 0 /\ ~clicked.read
  /\ clicked' = [item |-> clicked.item, read |-> TRUE, url |-> Target(clicked.item)]
  /\ UNCHANGED <<daemonVars, slotVars, pauseTitle, current, loop, boundVars,
                 raced, failed, polled>>

\* ... which opens it, however late, unless it is empty.
OpenRoute ==
  /\ loop["clicks"].at = "idle"
  /\ clicked.read
  /\ clicked' = NoClick
  /\ UNCHANGED <<daemonVars, slotVars, pauseTitle, current, loop, boundVars,
                 raced, failed, polled>>

Done ==
  /\ \A l \in Loops : loop[l].at = "idle"
  /\ polls = MaxPolls /\ clicked.item = 0
  /\ UNCHANGED vars

Next ==
  \/ DaemonChanges
  \/ \E l \in Loops :
       \/ Call(l) \/ CallFails(l) \/ LoadSlots(l) \/ GrowSlots(l) \/ AssignSlot(l)
       \/ SetTitle(l) \/ StoreSlots(l) \/ Commit(l)
  \/ Tick \/ ClickRefresh \/ ClickPause
  \/ \E item \in 1..Len(items) : ClickRoute(item)
  \/ ReadURL \/ OpenRoute
  \/ Done

Spec == Init /\ [][Next]_vars

(***************************************************************************)
(* Properties                                                              *)
(***************************************************************************)
AtRest == \A l \in Loops : ~Syncing(l)

\* Types of the menu; slots and pointers stay inside their arrays.
TypeOK ==
  /\ \A l \in Loops : loop[l].len <= Room(loop[l])
  /\ slots.arr \in 0..Len(arrays) /\ slots.len <= Room(slots)
  /\ items \in Seq(Hosts \cup {Nothing}) /\ Len(pointer) = Len(items)
  /\ \A k \in 1..Len(pointer) :
       pointer[k].arr \in 1..Len(arrays) /\ pointer[k].i \in 1..Len(arrays[pointer[k].arr])
  /\ clicked.url \in Hosts \cup {Nothing}

\* Between polls that did not overlap, the items shown are the routes last
\* polled, each once: no item is left over, doubled or lost.
ShownIsPolled ==
  (AtRest /\ ~raced) =>
    LET shown == {k \in 1..Len(items) : items[k] # Nothing}
    IN  {items[k] : k \in shown} = polled /\ Cardinality(shown) = Cardinality(polled)

\* While polls have not overlapped, a click opens nothing or a route that its item
\* has stood for, or, read between the two writes of a poll, the one whose title it
\* is about to get; so does a click that the loop carries out late, whatever polls
\* come in between.  At rest an item bound in the array in use opens what its title
\* says; one bound in an array that append has left behind opens nothing or a route
\* that it stood for before.
BeingSet(k, url) ==
  \E l \in Loops : /\ loop[l].at = "title" /\ Wanted(loop[l]) = url
                   /\ arrays[loop[l].arr][loop[l].i].item = k
ClickOpensShown ==
  ~raced =>
    /\ clicked.url # Nothing => \/ clicked.url \in titles[clicked.item]
                                \/ BeingSet(clicked.item, clicked.url)
    /\ AtRest => \A k \in 1..Len(items) : items[k] # Nothing =>
         IF pointer[k].arr = slots.arr THEN Target(k) = items[k]
         ELSE Target(k) \in titles[k] \cup {Nothing}

\* Between polls that did not overlap, and unless the last one failed, the pause
\* item does what its title says.
TitleIsAction ==
  (AtRest /\ ~raced /\ ~failed /\ loop["main"].at = "idle") =>
    pauseTitle = current
==============================================================================
