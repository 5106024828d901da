------------------------ MODULE WorkspaceSyncProofs ------------------------
(***************************************************************************)
(* Proofs about WorkspaceSync: everything keeps its type; pagerd's table   *)
(* becomes the compositor's list when its events have arrived; and the     *)
(* daemon has both when everything has come to rest.                       *)
(*                                                                         *)
(* Four invariants, each resting on those before it: World (the table, the *)
(* compositor and what is announced), Types (with the queues, the streams  *)
(* and the loop), Agreement with CurrentComes (what the events on their    *)
(* way make of the table), Reaches (what the frames and the switches on    *)
(* their way make of the daemon).                                          *)
(***************************************************************************)
EXTENDS WorkspaceSync, ListFacts

-----------------------------------------------------------------------------
(* The table, the compositor's workspaces and the events between them *)

Of(type, h) == {e \in EventTypes : e.type = type /\ e.handle = h}

About(h) == {e \in EventTypes : e.handle = h}

\* What the compositor sends is about a workspace, but for the ends of batches, of
\* roundtrips and of all; a name is never empty.
Sent == {e \in EventTypes :
            /\ IF e.type \in {"done", "sync", "finished"} THEN e.handle = "none"
               ELSE e.handle \in Handles
            /\ e.type = "name" => e.name \in Names}

InTable(h) == \E i \in 1..count : slots[i].handle = h

Coming(h) == Meets(events, Of("workspace", h))

\* Each workspace in the table has one slot, and a listener that points to some slot.
InUse ==
    /\ \A i \in 1..count : slots[i].handle \in Handles /\ slotOf[slots[i].handle] # 0
    /\ \A i, j \in 1..count : slots[i].handle = slots[j].handle => i = j

\* The compositor has each workspace once, with a name, and one of them is active.
DesktopOK ==
    /\ order \in Seq(Handles) /\ IsInjective(order)
    /\ nameOf \in [Handles -> Strings] /\ \A h \in Existing : nameOf[h] \in Names
    /\ active \in Existing

\* A workspace is announced before anything else is said of it, with its name and state, and
\* nothing is known of one that was never there.
Announced(h) ==
    /\ FirstIn(events, Of("workspace", h), About(h))
    /\ Coming(h) => /\ ~InTable(h)
                    /\ Meets(events, Of("name", h)) /\ Meets(events, Of("state", h))
    /\ nameOf[h] = "" => ~InTable(h) /\ ~Meets(events, About(h))

World ==
    /\ TableTypeOK /\ InUse /\ DesktopOK
    /\ events \in Seq(Sent) /\ \A h \in Handles : Announced(h)

-----------------------------------------------------------------------------
\* An event about a workspace says what it is made of.
LEMMA EventFacts ==
    ASSUME NEW h \in Handles, NEW name \in Names, NEW isActive \in BOOLEAN
    PROVE  /\ Ev("workspace", h) \in Sent \cap Of("workspace", h)
           /\ Ev("removed", h) \in Sent \cap Of("removed", h)
           /\ NameEvent(h, name) \in Sent \cap Of("name", h) /\ NameEvent(h, name).name = name
           /\ StateEvent(h, isActive) \in Sent \cap Of("state", h)
           /\ StateEvent(h, isActive).active = isActive
<1>1. ASSUME NEW type \in {"workspace", "removed", "name", "state"},
             NEW text \in Strings, NEW flag \in BOOLEAN, NEW e,
             e = [type |-> type, handle |-> h, name |-> text, active |-> flag],
             type = "name" => text \in Names
      PROVE  e \in Sent \cap Of(type, h) /\ e.name = text /\ e.active = flag
  <2>1. e \in EventTypes
    BY <1>1 DEF EventTypes
  <2>2. e.type = type /\ e.handle = h /\ e.name = text /\ e.active = flag
    BY <1>1
  <2>3. type \notin {"done", "sync", "finished"}
    BY <1>1
  <2> QED BY <1>1, <2>1, <2>2, <2>3 DEF Sent, Of
<1> DEFINE none == ""
           no == FALSE
<1>2. none \in Strings /\ name \in Strings /\ no \in BOOLEAN
  BY DEF Strings
<1> HIDE DEF none, no
<1>3. Ev("workspace", h) \in Sent \cap Of("workspace", h)
  <2>1. PICK e : e = Ev("workspace", h)
    OBVIOUS
  <2>2. e = [type |-> "workspace", handle |-> h, name |-> none, active |-> no]
    BY <2>1 DEF Ev, none, no
  <2>3. e \in Sent \cap Of("workspace", h)
    BY <1>1, <1>2, <2>2
  <2> QED BY <2>1, <2>3
<1>4. NameEvent(h, name) \in Sent \cap Of("name", h) /\ NameEvent(h, name).name = name
  <2>1. PICK e : e = NameEvent(h, name)
    OBVIOUS
  <2>2. e = [Ev("name", h) EXCEPT !.name = name]
    BY <2>1 DEF NameEvent
  <2>3. e = [type |-> "name", handle |-> h, name |-> name, active |-> FALSE]
    BY <2>2 DEF Ev
  <2>4. e \in Sent \cap Of("name", h) /\ e.name = name
    BY <1>1, <1>2, <2>3
  <2> QED BY <2>1, <2>4
<1>5. StateEvent(h, isActive) \in Sent \cap Of("state", h) /\ StateEvent(h, isActive).active = isActive
  <2>1. PICK e : e = StateEvent(h, isActive)
    OBVIOUS
  <2>2. e = [Ev("state", h) EXCEPT !.active = isActive]
    BY <2>1 DEF StateEvent
  <2>3. e = [type |-> "state", handle |-> h, name |-> none, active |-> isActive]
    BY <2>2 DEF Ev, none
  <2>4. e \in Sent \cap Of("state", h) /\ e.active = isActive
    BY <1>1, <1>2, <2>3
  <2> QED BY <2>1, <2>4
<1>6. Ev("removed", h) \in Sent \cap Of("removed", h)
  <2>1. PICK e : e = Ev("removed", h)
    OBVIOUS
  <2>2. e = [type |-> "removed", handle |-> h, name |-> none, active |-> no]
    BY <2>1 DEF Ev, none, no
  <2>3. e \in Sent \cap Of("removed", h)
    BY <1>1, <1>2, <2>2
  <2> QED BY <2>1, <2>3
<1> QED BY <1>3, <1>4, <1>5, <1>6

\* The ends are about nothing.
LEMMA EndFacts ==
    ASSUME NEW type \in {"done", "sync", "finished"}
    PROVE  /\ Ev(type, "none") \in Sent
           /\ \A h \in Handles : Ev(type, "none") \notin About(h)
<1>1. Ev(type, "none") = [type |-> type, handle |-> "none", name |-> "", active |-> FALSE]
  BY DEF Ev
<1>2. PICK e : e = [type |-> type, handle |-> "none", name |-> "", active |-> FALSE]
  OBVIOUS
<1>3. "" \in Strings
  BY DEF Strings
<1>4. e \in EventTypes /\ e.type = type /\ e.handle = "none"
  BY <1>2, <1>3 DEF EventTypes
<1>5. \A h \in Handles : h # "none"
  BY WorkspaceSyncAssumption
<1> QED BY <1>1, <1>2, <1>4, <1>5 DEF Sent, About

\* The oldest event, when a listener takes it.
LEMMA TakeFacts ==
    ASSUME events \in Seq(Sent), NEW type, Take(type)
    PROVE  /\ events # <<>> /\ events' = Tail(events) /\ Head(events) \in Sent
           /\ Head(events).type = type
           /\ type \notin {"done", "sync", "finished"} =>
                 LET h == Head(events).handle
                 IN  h \in Handles /\ Head(events) \in Of(type, h) /\ Head(events) \in About(h)
<1>1. events # <<>> /\ events' = Tail(events) /\ Head(events).type = type
  BY DEF Take
<1>2. Head(events) \in Sent
  BY <1>1, QueueTaken
<1> QED BY <1>1, <1>2 DEF Sent, Of, About

\* Kinds of events of different workspaces, and different kinds, have nothing in common.
LEMMA KindFacts ==
    ASSUME NEW g, NEW h, NEW s, NEW t, NEW e
    PROVE  /\ e \in Of(s, g) => e \in About(g)
           /\ e \in Of(s, g) /\ e \in Of(t, h) => s = t /\ g = h
           /\ e \in Of(s, g) /\ e \in About(h) => g = h
  BY DEF Of, About

-----------------------------------------------------------------------------
\* Taking the oldest event keeps it all, if the table gains at most the workspace announced.
LEMMA TakeKeepsWorld ==
    ASSUME World, events # <<>>, events' = Tail(events), UNCHANGED compositorVars,
           TableTypeOK', InUse',
           \A g \in Handles : InTable(g)' => InTable(g) \/ Head(events) \in Of("workspace", g)
    PROVE  World'
<1> DEFINE e == Head(events)
<1>1. /\ events' \in Seq(Sent)
      /\ \A T : Meets(events, T) <=> e \in T \/ Meets(events', T)
      /\ \A T, A : FirstIn(events, T, A) => FirstIn(events', T, A) /\ (e \in A => ~Meets(events', T))
  BY QueueTaken DEF World
<1>2. DesktopOK'
  BY DEF World, DesktopOK, compositorVars, Existing
<1>3. nameOf' = nameOf
  BY DEF compositorVars
<1> HIDE DEF e
<1>4. ASSUME NEW g \in Handles PROVE Announced(g)'
  <2> DEFINE T == Of("workspace", g)
  <2>1. /\ FirstIn(events, T, About(g))
        /\ Meets(events, T) => ~InTable(g) /\ Meets(events, Of("name", g)) /\ Meets(events, Of("state", g))
        /\ nameOf[g] = "" => ~InTable(g) /\ ~Meets(events, About(g))
    BY DEF World, Announced, Coming
  <2>2. InTable(g)' => InTable(g) \/ e \in T
    BY DEF e
  <2>3. /\ e \in T => e \in About(g)
        /\ e \in Of("name", g) \/ e \in Of("state", g) => e \in About(g)
    BY KindFacts
  <2>4. FirstIn(events', T, About(g)) /\ (e \in About(g) => ~Meets(events', T))
    BY <1>1, <2>1
  <2> HIDE DEF T
  <2>5. Meets(events', T) => /\ ~InTable(g)'
                             /\ Meets(events', Of("name", g)) /\ Meets(events', Of("state", g))
    BY <1>1, <2>1, <2>2, <2>3, <2>4
  <2>6. nameOf'[g] = "" => ~InTable(g)' /\ ~Meets(events', About(g))
    BY <1>1, <1>3, <2>1, <2>2, <2>3
  <2> QED BY <2>4, <2>5, <2>6 DEF T, Announced, Coming, Meets, FirstIn, Of, About
<1> QED BY <1>1, <1>2, <1>4 DEF World

\* Such a step, when the table stays.
LEMMA TakeStill ==
    ASSUME World, events # <<>>, events' = Tail(events), UNCHANGED <<compositorVars, tableVars>>
    PROVE  World'
<1>1. TableTypeOK' /\ InUse' /\ \A g \in Handles : InTable(g)' => InTable(g)
  BY DEF World, TableTypeOK, InUse, InTable, tableVars
<1> QED BY <1>1, TakeKeepsWorld

-----------------------------------------------------------------------------
(* What the listeners do to the slots *)

Slots == [1..MaxSlots -> SlotTypes]
NewSlot(h) == [handle |-> h, name |-> "", active |-> FALSE]

\* A workspace that joins ...
LEMMA AddShape ==
    ASSUME TableTypeOK, NEW h \in Handles, AddWorkspace(h), count # MaxSlots
    PROVE  /\ count' = count + 1 /\ count + 1 \in 1..MaxSlots /\ slots' \in Slots
           /\ \A i \in 1..count : slots'[i] = slots[i]
           /\ slots'[count + 1] = NewSlot(h) /\ UNCHANGED excuses
           /\ slotOf' \in [Handles -> 0..MaxSlots]
           /\ \A g \in Handles : slotOf'[g] = IF g = h THEN count + 1 ELSE slotOf[g]
<1> DEFINE new == [EmptySlot EXCEPT !.handle = h]
<1>1. /\ slots' = [slots EXCEPT ![count + 1] = new] /\ count' = count + 1
      /\ slotOf' = [slotOf EXCEPT ![h] = count + 1] /\ UNCHANGED excuses
  BY DEF AddWorkspace
<1>2. count \in 0..MaxSlots /\ MaxSlots \in Nat /\ slots \in Slots /\ slotOf \in [Handles -> 0..MaxSlots]
  BY PagerdAssumption DEF TableTypeOK, Slots
<1>3. count + 1 \in 1..MaxSlots
  BY <1>2
<1>4. new = NewSlot(h) /\ new \in SlotTypes
  <2>1. new = [handle |-> h, name |-> "", active |-> FALSE]
    <3>1. PICK e : e = [EmptySlot EXCEPT !.handle = h]
      OBVIOUS
    <3>2. e = [handle |-> h, name |-> "", active |-> FALSE]
      BY <3>1 DEF EmptySlot
    <3> QED BY <3>1, <3>2
  <2> HIDE DEF new
  <2>2. "" \in Strings
    BY DEF Strings
  <2> QED BY <2>1, <2>2 DEF SlotTypes, NewSlot
<1> HIDE DEF new
<1>5. slots' \in Slots
  BY <1>1, <1>2, <1>4 DEF Slots
<1>6. \A i \in 1..MaxSlots : slots'[i] = IF i = count + 1 THEN new ELSE slots[i]
  BY <1>1, <1>2 DEF Slots
<1>7. \A i \in 1..count : i \in 1..MaxSlots /\ i # count + 1
  BY <1>2
<1>8. slotOf' \in [Handles -> 0..MaxSlots]
  BY <1>1, <1>2, <1>3
<1> QED BY <1>1, <1>2, <1>3, <1>4, <1>5, <1>6, <1>7, <1>8

\* ... and one that leaves.
LEMMA RemoveShape ==
    ASSUME TableTypeOK, NEW h \in Handles, InTable(h), RemoveWorkspace(h)
    PROVE  \E gone \in 1..count :
               /\ slots[gone].handle = h /\ \A j \in 1..count : slots[j].handle = h => gone <= j
               /\ slots' \in Slots /\ count' = count - 1 /\ dirty' = TRUE
               /\ \A i \in 1..(count - 1) : slots'[i] = IF i < gone THEN slots[i] ELSE slots[i + 1]
<1> DEFINE of == {i \in 1..count : slots[i].handle = h}
           gone == CHOOSE i \in of : \A j \in of : i <= j
<1>1. of # {} /\ of \subseteq Nat
  BY DEF InTable
<1>2. /\ slots' = [i \in 1..MaxSlots |-> IF i \in gone..(count - 1) THEN slots[i + 1] ELSE slots[i]]
      /\ count' = count - 1 /\ dirty' = TRUE
  BY <1>1 DEF RemoveWorkspace
<1>3. gone \in of /\ \A j \in of : gone <= j
  <2> HIDE DEF of
  <2>1. \E i \in of : \A j \in of : i <= j
    BY <1>1, SmallestExists
  <2> QED BY <2>1
<1>4. gone \in 1..count /\ slots[gone].handle = h
  BY <1>3
<1>5. \A j \in 1..count : slots[j].handle = h => gone <= j
  BY <1>3
<1> HIDE DEF of, gone
<1>6. count \in 0..MaxSlots /\ MaxSlots \in Nat /\ slots \in Slots
  BY PagerdAssumption DEF TableTypeOK, Slots
<1>7. \A i \in 1..MaxSlots : i \in gone..(count - 1) => i + 1 \in 1..MaxSlots
  BY <1>4, <1>6
<1>8. slots' \in Slots
  BY <1>2, <1>6, <1>7 DEF Slots
<1>9. ASSUME NEW i \in 1..(count - 1)
      PROVE  slots'[i] = IF i < gone THEN slots[i] ELSE slots[i + 1]
  <2>1. i \in 1..MaxSlots /\ (i \in gone..(count - 1) <=> ~(i < gone))
    BY <1>4, <1>6
  <2> QED BY <1>2, <2>1
<1> QED BY <1>2, <1>4, <1>5, <1>8, <1>9

-----------------------------------------------------------------------------
(* What the compositor does at once, and the events that report it *)

Told(h) == {e \in Of("name", h) : e.name = nameOf[h]}

Seen(h) == {e \in Of("state", h) : e.active <=> h = active}

Before(g, h) == \E i, j \in DOMAIN order : i < j /\ order[i] = g /\ order[j] = h

\* A workspace that is created is announced, one that goes is removed, and a name or an activation
\* that changes is reported as it is now.
Reported(r, h) ==
    /\ Meets(r, About(h)) => h \in Existing \/ h \in Existing'
    /\ Meets(r, Of("workspace", h)) => h \notin Existing /\ h \in Existing'
    /\ h \in Existing' /\ h \notin Existing =>
          /\ nameOf[h] = "" /\ FirstIn(r, Of("workspace", h), About(h))
          /\ Meets(r, Of("workspace", h)) /\ Meets(r, Of("name", h)) /\ Meets(r, Of("state", h))
          /\ Led(r, Of("name", h), Of("state", h))
    /\ nameOf'[h] = "" => nameOf[h] = "" /\ ~Meets(r, About(h))
    /\ ~Meets(r, Of("name", h) \ Told(h)')
    /\ nameOf'[h] # nameOf[h] => Meets(r, Of("name", h))
    /\ ~Meets(r, Of("state", h) \ Seen(h)')
    /\ h \in Existing' /\ ~((h = active') <=> (h = active)) => Meets(r, Of("state", h))
    /\ Meets(r, Of("removed", h)) => h \notin Existing'
    /\ h \in Existing /\ h \notin Existing' => Meets(r, Of("removed", h))

Change(r) ==
    /\ r \in Seq(Sent) /\ events' = events \o r
    /\ DesktopOK' /\ UNCHANGED tableVars
    /\ \A h \in Handles : Reported(r, h)
    /\ \A g, h \in Handles : Before(g, h)' => Before(g, h) \/ (g \in Existing /\ h \notin Existing)

-----------------------------------------------------------------------------
\* A change and its events keep the world.
LEMMA ChangeKeepsWorld ==
    ASSUME World, NEW r, Change(r)
    PROVE  World'
<1>1. /\ events \in Seq(Sent) /\ r \in Seq(Sent) /\ events' = events \o r
      /\ UNCHANGED tableVars /\ DesktopOK'
  BY DEF World, Change
<1>2. /\ events' \in Seq(Sent)
      /\ \A T : Meets(events', T) <=> Meets(events, T) \/ Meets(r, T)
      /\ \A T, A : FirstIn(events, T, A) /\ ~Meets(r, T) => FirstIn(events', T, A)
      /\ \A T, A : ~Meets(events, A) /\ T \subseteq A /\ FirstIn(r, T, A) => FirstIn(events', T, A)
  BY <1>1, QueueGrown
<1>3. TableTypeOK' /\ InUse'
  BY <1>1 DEF World, TableTypeOK, InUse, tableVars
<1>4. ASSUME NEW h \in Handles PROVE Announced(h)'
  <2> DEFINE T == Of("workspace", h)
             A == About(h)
             U == Of("name", h)
             V == Of("state", h)
  <2>1. /\ FirstIn(events, T, A)
        /\ Meets(events, T) => ~InTable(h) /\ Meets(events, U) /\ Meets(events, V)
        /\ nameOf[h] = "" => ~InTable(h) /\ ~Meets(events, A)
    BY DEF World, Announced, Coming
  <2>2. /\ Meets(r, T) => h \notin Existing /\ h \in Existing'
        /\ h \in Existing' /\ h \notin Existing =>
              /\ nameOf[h] = "" /\ FirstIn(r, T, A)
              /\ Meets(r, T) /\ Meets(r, U) /\ Meets(r, V)
        /\ nameOf'[h] = "" => nameOf[h] = "" /\ ~Meets(r, A)
    BY DEF Change, Reported
  <2>3. T \subseteq A
    BY DEF Of, About
  <2>4. InTable(h)' = InTable(h)
    BY <1>1 DEF InTable, tableVars
  <2> HIDE DEF T, A, U, V
  <2>5. FirstIn(events', T, A)
    BY <1>2, <2>1, <2>2, <2>3
  <2>6. Meets(events', T) => ~InTable(h)' /\ Meets(events', U) /\ Meets(events', V)
    BY <1>2, <2>1, <2>2, <2>4
  <2>7. nameOf'[h] = "" => ~InTable(h)' /\ ~Meets(events', A)
    BY <1>2, <2>1, <2>2, <2>4
  <2> QED BY <2>5, <2>6, <2>7 DEF T, A, U, V, Announced, Coming, Meets, FirstIn, Of, About
<1> QED BY <1>1, <1>2, <1>3, <1>4 DEF World


-----------------------------------------------------------------------------
(* The compositor's changes *)

\* Nothing is reported of workspaces without a name, which are not there.
LEMMA ExistingNamed ==
    ASSUME DesktopOK, NEW h \in Existing
    PROVE  /\ h \in Handles /\ h # "none" /\ nameOf[h] \in Names /\ nameOf[h] \in Strings
           /\ nameOf[h] # ""
<1>1. h \in Handles /\ nameOf[h] \in Names
  BY DEF DesktopOK, Existing, Range
<1> QED BY <1>1, PagerdAssumption, WorkspaceSyncAssumption DEF Strings

\* What tells of workspaces that were there: their name or their state as it is now, or
\* that they are gone.
StateReport(e, g) ==
    \/ e = StateEvent(g, TRUE) /\ g = active'
    \/ e = StateEvent(g, FALSE) /\ g # active'
Report(e, g) ==
    \/ StateReport(e, g) \/ e = NameEvent(g, nameOf'[g])
    \/ e = Ev("removed", g) /\ g \notin Existing'
Closing(e) == \E type \in {"done", "sync", "finished"} : e = Ev(type, "none")

\* Events that tell of all that is new of them are such a change.
LEMMA ReportsChange ==
    ASSUME World, NEW r, IsList(r), events' = events \o r, DesktopOK', UNCHANGED tableVars,
           Existing' \subseteq Existing,
           \A e \in Range(r) : Closing(e) \/ \E g \in Existing : Report(e, g),
           \A g \in Handles : nameOf'[g] # nameOf[g] => NameEvent(g, nameOf'[g]) \in Range(r),
           \A g \in Existing' : ~((g = active') <=> (g = active)) =>
                                   \E e \in Range(r) : StateReport(e, g),
           \A g \in Existing \ Existing' : Ev("removed", g) \in Range(r),
           \A g \in Handles : nameOf[g] # "" => nameOf'[g] # "",
           \A f, g \in Handles : Before(f, g)' => Before(f, g)
    PROVE  Change(r)
<1>1. DesktopOK /\ nameOf' \in [Handles -> Strings]
  BY DEF World, DesktopOK
<1>2. \A g \in Existing : g \in Handles /\ nameOf[g] # "" /\ nameOf'[g] \in Names
  <2>1. \A g \in Existing : g \in Handles /\ nameOf[g] # ""
    BY <1>1, ExistingNamed
  <2> QED BY <1>1, <2>1 DEF Strings
<1>3. ASSUME NEW e, NEW g \in Existing, Report(e, g)
      PROVE  /\ e \in Sent /\ e.handle = g /\ e.type \in {"name", "state", "removed"}
             /\ e.type = "name" => e.name = nameOf'[g]
             /\ e.type = "state" => (e.active <=> g = active')
             /\ e.type = "removed" => g \notin Existing'
  <2>1. /\ Ev("removed", g) \in Sent \cap Of("removed", g)
        /\ NameEvent(g, nameOf'[g]) \in Sent \cap Of("name", g)
        /\ NameEvent(g, nameOf'[g]).name = nameOf'[g]
        /\ StateEvent(g, TRUE) \in Sent \cap Of("state", g) /\ StateEvent(g, TRUE).active = TRUE
        /\ StateEvent(g, FALSE) \in Sent \cap Of("state", g) /\ StateEvent(g, FALSE).active = FALSE
    BY <1>2, EventFacts
  <2>2. CASE e = StateEvent(g, TRUE) /\ g = active'
    BY <2>1, <2>2 DEF Of
  <2>3. CASE e = StateEvent(g, FALSE) /\ g # active'
    BY <2>1, <2>3 DEF Of
  <2>4. CASE e = NameEvent(g, nameOf'[g])
    BY <2>1, <2>4 DEF Of
  <2>5. CASE e = Ev("removed", g) /\ g \notin Existing'
    BY <2>1, <2>5 DEF Of
  <2> QED BY <1>3, <2>2, <2>3, <2>4, <2>5 DEF Report, StateReport
<1>4. \A e \in Range(r) : Closing(e) => e \in Sent /\ \A h \in Handles : e \notin About(h)
  BY EndFacts DEF Closing
<1>5. r \in Seq(Sent)
  BY <1>3, <1>4, ListOver
<1>6. ASSUME NEW h \in Handles PROVE Reported(r, h)
  <2>1. ASSUME NEW e \in Range(r), e \in About(h)
        PROVE  /\ h \in Existing /\ e \in Sent /\ e.type \in {"name", "state", "removed"}
               /\ e.type = "name" => e.name = nameOf'[h]
               /\ e.type = "state" => (e.active <=> h = active')
               /\ e.type = "removed" => h \notin Existing'
    <3>1. ~Closing(e)
      BY <1>4, <2>1
    <3>2. PICK g \in Existing : Report(e, g)
      BY <3>1
    <3>3. e.handle = h
      BY <2>1 DEF About
    <3> QED BY <1>3, <3>2, <3>3
  <2>2. \A t : Of(t, h) \subseteq About(h)
    BY DEF Of, About
  <2>3. ~Meets(r, Of("workspace", h))
    BY <2>1, <2>2, MeetsRange DEF Of
  <2>4. ~Meets(r, Of("name", h) \ Told(h)')
    BY <2>1, <2>2, MeetsRange DEF Told, Of
  <2>5. ~Meets(r, Of("state", h) \ Seen(h)')
    BY <2>1, <2>2, MeetsRange DEF Seen, Of
  <2>6. Meets(r, Of("removed", h)) => h \notin Existing'
    BY <2>1, <2>2, MeetsRange DEF Of
  <2>7. Meets(r, About(h)) => h \in Existing
    BY <2>1, MeetsRange
  <2>8. nameOf'[h] = "" => nameOf[h] = "" /\ ~Meets(r, About(h))
    BY <1>2, <2>7
  <2>9. nameOf'[h] # nameOf[h] => Meets(r, Of("name", h))
    <3>1. ASSUME nameOf'[h] # nameOf[h] PROVE NameEvent(h, nameOf'[h]) \in Of("name", h)
      <4>1. NameEvent(h, nameOf'[h]) \in Range(r)
        BY <3>1
      <4>2. nameOf'[h] \in Strings
        BY <1>1
      <4>3. PICK e : e = NameEvent(h, nameOf'[h])
        OBVIOUS
      <4>4. e = [type |-> "name", handle |-> h, name |-> nameOf'[h], active |-> FALSE]
        <5>1. e = [Ev("name", h) EXCEPT !.name = nameOf'[h]]
          BY <4>3 DEF NameEvent
        <5> QED BY <5>1 DEF Ev
      <4>5. e.type = "name" /\ e.handle = h /\ e \in EventTypes
        BY <4>2, <4>4 DEF EventTypes
      <4> QED BY <4>3, <4>5 DEF Of
    <3> QED BY <3>1, MeetsRange
  <2>10. h \in Existing' /\ ~((h = active') <=> (h = active)) => Meets(r, Of("state", h))
    <3>1. \A e : h \in Existing /\ StateReport(e, h) => e \in Of("state", h)
      BY <1>2, EventFacts DEF StateReport
    <3> QED BY <3>1, MeetsRange
  <2>11. h \in Existing /\ h \notin Existing' => Meets(r, Of("removed", h))
    <3>1. Ev("removed", h) \in Of("removed", h)
      <4>1. PICK e : e = Ev("removed", h)
        OBVIOUS
      <4>2. e = [type |-> "removed", handle |-> h, name |-> "", active |-> FALSE] /\ "" \in Strings
        BY <4>1 DEF Ev, Strings
      <4>3. e.type = "removed" /\ e.handle = h /\ e \in EventTypes
        BY <4>2 DEF EventTypes
      <4> QED BY <4>1, <4>3 DEF Of
    <3> QED BY <3>1, MeetsRange
  <2> QED BY <2>3, <2>4, <2>5, <2>6, <2>7, <2>8, <2>9, <2>10, <2>11 DEF Reported
<1> QED BY <1>5, <1>6 DEF Change

-----------------------------------------------------------------------------
\* The end of a batch.
LEMMA DoneList == IsList(Done) /\ Range(Done) = {Ev("done", "none")}
<1>1. PICK e : e = Ev("done", "none")
  OBVIOUS
<1> QED BY <1>1, OneList DEF Done

\* What is sent when another workspace becomes the active one.
LEMMA ActivationList ==
    ASSUME NEW h
    PROVE  /\ IsList(Activation(h))
           /\ Range(Activation(h)) = IF h = active THEN {}
                                     ELSE {StateEvent(active, FALSE), StateEvent(h, TRUE)}
<1>2. CASE h = active
  <2>1. Activation(h) = <<>>
    BY <1>2 DEF Activation
  <2> QED BY <1>2, <2>1, EmptyList
<1>3. CASE h # active
  <2>1. PICK a, b : a = StateEvent(active, FALSE) /\ b = StateEvent(h, TRUE)
    OBVIOUS
  <2>2. Activation(h) = <<a, b>>
    BY <1>3, <2>1 DEF Activation
  <2>3. IsList(<<a, b>>) /\ Range(<<a, b>>) = {a, b}
    BY PairList
  <2> QED BY <1>3, <2>1, <2>2, <2>3
<1> QED BY <1>2, <1>3

\* A change of the active workspace, of those there are.
LEMMA ActivatesChange ==
    ASSUME World, NEW h \in Existing, active' = h, UNCHANGED <<order, nameOf, tableVars>>,
           events' = events \o Activation(h) \o Done
    PROVE  \E r : Change(r)
<1> DEFINE r == Activation(h) \o Done
<1>1. DesktopOK /\ Existing' = Existing /\ events \in Seq(Sent) /\ active \in Existing
  BY DEF World, DesktopOK, Existing
<1>2. DesktopOK'
  BY <1>1 DEF DesktopOK
<1>3. /\ IsList(r)
      /\ Range(r) = (IF h = active THEN {} ELSE {StateEvent(active, FALSE), StateEvent(h, TRUE)})
                    \cup {Ev("done", "none")}
  <2>1. IsList(r) /\ Range(r) = Range(Activation(h)) \cup Range(Done)
    BY ActivationList, DoneList, ConcatList
  <2> HIDE DEF r
  <2> QED BY <2>1, ActivationList, DoneList
<1>4. events' = events \o r
  <2>1. IsList(events) /\ IsList(Activation(h)) /\ IsList(Done)
    BY <1>1, ActivationList, DoneList, SeqIsList
  <2> QED BY <2>1, ConcatAssociative DEF IsList
<1> HIDE DEF r
<1>5. \A e \in Range(r) : Closing(e) \/ \E g \in Existing : Report(e, g)
  <2>1. CASE h = active
    BY <1>3, <2>1 DEF Closing
  <2>2. CASE h # active
    <3>1. /\ Report(StateEvent(active, FALSE), active) /\ Report(StateEvent(h, TRUE), h)
          /\ Closing(Ev("done", "none"))
      BY <2>2 DEF Report, StateReport, Closing
    <3> QED BY <1>1, <1>3, <2>2, <3>1
  <2> QED BY <2>1, <2>2
<1>6. \A g \in Existing' : ~((g = active') <=> (g = active)) => \E e \in Range(r) : StateReport(e, g)
  BY <1>3 DEF StateReport
<1>7. \A f, g \in Handles : Before(f, g)' => Before(f, g)
  BY DEF Before
<1>8. UNCHANGED tableVars /\ UNCHANGED nameOf
  OBVIOUS
<1> QED BY <1>1, <1>2, <1>3, <1>4, <1>5, <1>6, <1>7, <1>8, ReportsChange

LEMMA RenamesChange ==
    ASSUME World, Renames
    PROVE  \E r : Change(r)
<1>1. PICK h \in Existing, name \in Names :
         /\ nameOf' = [nameOf EXCEPT ![h] = name]
         /\ events' = events \o <<NameEvent(h, name)>> \o Done
  BY DEF Renames
<1>2. UNCHANGED <<order, active, tableVars>> /\ Existing' = Existing
  BY DEF Renames, CompositorChange, Existing
<1> DEFINE p == <<NameEvent(h, name)>>
           r == p \o Done
<1>3. DesktopOK /\ h \in Handles /\ name \in Strings /\ nameOf \in [Handles -> Strings] /\ events \in Seq(Sent)
  BY ExistingNamed DEF World, DesktopOK, Strings
<1>4. \A g \in Handles : nameOf'[g] = IF g = h THEN name ELSE nameOf[g]
  BY <1>1, <1>3
<1>5. DesktopOK'
  <2>1. nameOf' \in [Handles -> Strings]
    BY <1>1, <1>3
  <2>2. \A g \in Existing : g \in Handles /\ nameOf'[g] \in Names
    BY <1>3, <1>4, ExistingNamed
  <2> QED BY <1>2, <1>3, <2>1, <2>2 DEF DesktopOK
<1>6. IsList(p) /\ Range(p) = {NameEvent(h, name)}
  BY OneList
<1>7. events' = events \o p \o Done
  BY <1>1
<1> HIDE DEF p
<1>8. IsList(r) /\ Range(r) = {NameEvent(h, name), Ev("done", "none")}
  BY <1>6, DoneList, ConcatList
<1>9. events' = events \o r
  <2>1. IsList(events) /\ IsList(Done)
    BY <1>3, DoneList, SeqIsList
  <2> QED BY <1>6, <1>7, <2>1, ConcatAssociative DEF IsList
<1> HIDE DEF r
<1>10. \A e \in Range(r) : Closing(e) \/ \E g \in Existing : Report(e, g)
  <2>1. Report(NameEvent(h, name), h) /\ Closing(Ev("done", "none"))
    BY <1>3, <1>4 DEF Report, Closing
  <2> QED BY <1>8, <2>1
<1>11. \A g \in Handles : nameOf'[g] # nameOf[g] => NameEvent(g, nameOf'[g]) \in Range(r)
  BY <1>4, <1>8
<1>12. \A g \in Handles : nameOf[g] # "" => nameOf'[g] # ""
  BY <1>4, PagerdAssumption
<1>13. \A f, g \in Handles : Before(f, g)' => Before(f, g)
  BY <1>2 DEF Before
<1> QED BY <1>2, <1>5, <1>8, <1>9, <1>10, <1>11, <1>12, <1>13, ReportsChange

LEMMA FinishesChange ==
    ASSUME World, Finishes
    PROVE  \E r : Change(r)
<1> DEFINE r == <<Ev("finished", "none")>>
<1>1. /\ UNCHANGED <<order, nameOf, active, tableVars>> /\ Existing' = Existing
      /\ events' = events \o r
  BY DEF Finishes, CompositorChange, compositorVars, Existing
<1>2. IsList(r) /\ Range(r) = {Ev("finished", "none")}
  BY OneList
<1> HIDE DEF r
<1>3. DesktopOK'
  BY <1>1 DEF World, DesktopOK
<1>4. \A e \in Range(r) : Closing(e)
  BY <1>2 DEF Closing
<1>5. \A f, g \in Handles : Before(f, g)' => Before(f, g)
  BY <1>1 DEF Before
<1> QED BY <1>1, <1>2, <1>3, <1>4, <1>5, ReportsChange

\* A workspace goes, and with the active one another becomes active.
LEMMA RemovesChange ==
    ASSUME World, Removes
    PROVE  \E r : Change(r)
<1>1. PICK h \in Existing :
         /\ order' = RemoveFirst(order, h)
         /\ active' = IF h = active THEN Head(order') ELSE active
         /\ events' = events \o (IF h = active THEN Activation(Head(order')) ELSE <<>>)
                             \o <<Ev("removed", h)>> \o Done
  BY DEF Removes
<1>2. /\ DesktopOK /\ events \in Seq(Sent) /\ h \in Handles /\ order \in Seq(Handles)
      /\ IsInjective(order) /\ active \in Existing
  BY ExistingNamed DEF World, DesktopOK
<1>3. UNCHANGED <<nameOf, tableVars>> /\ Len(order) > 1
  BY DEF Removes, CompositorChange
<1>4. /\ order' \in Seq(Handles) /\ IsInjective(order') /\ Existing' = Existing \ {h}
      /\ \E i \in 1..Len(order) :
            /\ order[i] = h /\ Len(order') = Len(order) - 1
            /\ \A j \in 1..Len(order') : order'[j] = IF j < i THEN order[j] ELSE order[j + 1]
  <2>1. h \in Range(order) /\ order' = RemoveFirst(order, h)
    BY <1>1 DEF Existing
  <2> QED BY <1>2, <2>1, RemovedShape DEF Existing
<1>5. Head(order') \in Existing'
  <2>1. 1 \in DOMAIN order' /\ Head(order') = order'[1]
    BY <1>2, <1>3, <1>4
  <2> QED BY <2>1 DEF Existing, Range
<1>6. active' \in Existing'
  BY <1>1, <1>2, <1>4, <1>5
<1>7. DesktopOK'
  <2>1. \A g \in Existing' : nameOf'[g] \in Names
    BY <1>2, <1>3, <1>4 DEF DesktopOK
  <2>2. nameOf' \in [Handles -> Strings]
    BY <1>2, <1>3 DEF DesktopOK
  <2> QED BY <1>4, <1>6, <2>1, <2>2 DEF DesktopOK
<1> DEFINE a == IF h = active THEN Activation(Head(order')) ELSE <<>>
           c == <<Ev("removed", h)>>
           p == c \o Done
           r == a \o p
<1>8. /\ IsList(a)
      /\ Range(a) = IF h = active THEN {StateEvent(active, FALSE), StateEvent(active', TRUE)} ELSE {}
  <2>1. CASE h = active
    <3>1. a = Activation(active') /\ active' # active
      BY <1>1, <1>4, <1>5, <2>1
    <3> HIDE DEF a
    <3> QED BY <2>1, <3>1, ActivationList
  <2>2. CASE h # active
    <3>1. a = <<>>
      BY <2>2
    <3> HIDE DEF a
    <3> QED BY <2>2, <3>1, EmptyList
  <2> QED BY <2>1, <2>2
<1>9. IsList(c) /\ Range(c) = {Ev("removed", h)}
  BY OneList
<1>10. events' = events \o a \o c \o Done
  BY <1>1
<1> HIDE DEF a, c
<1>11. IsList(p) /\ Range(p) = {Ev("removed", h), Ev("done", "none")}
  BY <1>9, DoneList, ConcatList
<1>12. p = c \o Done
  OBVIOUS
<1> HIDE DEF p
<1>13. IsList(r) /\ Range(r) = Range(a) \cup {Ev("removed", h), Ev("done", "none")}
  BY <1>8, <1>11, ConcatList
<1>14. events' = events \o r
  <2>1. PICK A : \A q \in {events, a, c, Done} : q \in Seq(A)
    <3>1. \A q \in {events, a, c, Done} : IsList(q)
      BY <1>2, <1>8, <1>9, DoneList, SeqIsList
    <3>2. PICK A : A = Range(events) \cup Range(a) \cup Range(c) \cup Range(Done)
      OBVIOUS
    <3> SUFFICES ASSUME NEW q \in {events, a, c, Done} PROVE q \in Seq(A)
      OBVIOUS
    <3>3. IsList(q) /\ Range(q) \subseteq A
      BY <3>1, <3>2
    <3> QED BY <3>3, ListOver
  <2>2. \A x, y, z \in Seq(A) : x \o y \in Seq(A) /\ (x \o y) \o z = x \o (y \o z)
    BY ConcatAssociative
  <2>3. PICK b : b = a \o c
    OBVIOUS
  <2>4. b \in Seq(A) /\ (events \o a) \o c = events \o b
    BY <2>1, <2>2, <2>3
  <2>5. (events \o b) \o Done = events \o (b \o Done)
    BY <2>1, <2>2, <2>4
  <2>6. b \o Done = a \o (c \o Done)
    BY <2>1, <2>2, <2>3
  <2> QED BY <1>10, <1>12, <2>4, <2>5, <2>6
<1> HIDE DEF r
<1>15. \A e \in Range(r) : Closing(e) \/ \E g \in Existing : Report(e, g)
  <2>1. Closing(Ev("done", "none")) /\ Report(Ev("removed", h), h)
    BY <1>4 DEF Closing, Report
  <2>2. CASE h = active
    <3>1. Report(StateEvent(active, FALSE), active) /\ Report(StateEvent(active', TRUE), active')
      BY <1>4, <1>6, <2>2 DEF Report, StateReport
    <3>2. active \in Existing /\ active' \in Existing
      BY <1>2, <1>4, <1>6
    <3>3. Range(r) = {StateEvent(active, FALSE), StateEvent(active', TRUE),
                      Ev("removed", h), Ev("done", "none")}
      BY <1>8, <1>13, <2>2
    <3> QED BY <2>1, <3>1, <3>2, <3>3
  <2>3. CASE h # active
    BY <1>8, <1>13, <2>1, <2>3
  <2> QED BY <2>2, <2>3
<1>16. \A g \in Existing' : ~((g = active') <=> (g = active)) => \E e \in Range(r) : StateReport(e, g)
  <2> SUFFICES ASSUME NEW g \in Existing', ~((g = active') <=> (g = active))
               PROVE  \E e \in Range(r) : StateReport(e, g)
    OBVIOUS
  <2>1. h = active /\ g # h /\ g = active'
    BY <1>1, <1>4
  <2>2. StateEvent(active', TRUE) \in Range(r)
    BY <1>8, <1>13, <2>1
  <2> QED BY <2>1, <2>2 DEF StateReport
<1>17. \A g \in Existing \ Existing' : Ev("removed", g) \in Range(r)
  BY <1>4, <1>13
<1>18. ASSUME NEW f \in Handles, NEW g \in Handles, Before(f, g)' PROVE Before(f, g)
  <2>1. PICK i \in DOMAIN order', j \in DOMAIN order' : i < j /\ order'[i] = f /\ order'[j] = g
    BY <1>18 DEF Before
  <2>2. PICK n \in 1..Len(order) :
           /\ order[n] = h /\ Len(order') = Len(order) - 1
           /\ \A m \in 1..Len(order') : order'[m] = IF m < n THEN order[m] ELSE order[m + 1]
    BY <1>4
  <2>3. /\ Len(order) \in Nat /\ DOMAIN order = 1..Len(order)
        /\ DOMAIN order' = 1..Len(order') /\ Len(order') \in Nat
    BY <1>2, <1>4
  <2> DEFINE x == IF i < n THEN i ELSE i + 1
             y == IF j < n THEN j ELSE j + 1
  <2>4. x \in DOMAIN order /\ y \in DOMAIN order /\ x < y
    BY <2>1, <2>2, <2>3
  <2>5. order[x] = f /\ order[y] = g
    BY <2>1, <2>2, <2>3
  <2> HIDE DEF x, y
  <2> QED BY <2>4, <2>5 DEF Before
<1>19. Existing' \subseteq Existing
  BY <1>4
<1> QED BY <1>3, <1>7, <1>13, <1>14, <1>15, <1>16, <1>17, <1>18, <1>19, ReportsChange

-----------------------------------------------------------------------------
\* A name or an activation that is stored leaves the rest of the table as it is.
LEMMA StoreShape ==
    ASSUME slots \in Slots, NEW i \in 1..MaxSlots, NEW name \in Strings, NEW flag \in BOOLEAN,
           \/ slots' = [slots EXCEPT ![i].name = name]
           \/ slots' = [slots EXCEPT ![i].active = flag]
    PROVE  /\ slots' \in Slots
           /\ \A j \in 1..MaxSlots :
                 /\ slots'[j].handle = slots[j].handle
                 /\ j # i => slots'[j] = slots[j]
           /\ slots' = [slots EXCEPT ![i].name = name] =>
                 slots'[i].name = name /\ slots'[i].active = slots[i].active
           /\ slots' = [slots EXCEPT ![i].active = flag] =>
                 slots'[i].active = flag /\ slots'[i].name = slots[i].name
<1>1. slots[i] \in SlotTypes /\ DOMAIN slots = 1..MaxSlots
  BY DEF Slots
<1>2. PICK x : x = slots'[i]
  OBVIOUS
<1>3. \A j \in 1..MaxSlots : j # i => slots'[j] = slots[j]
  BY DEF Slots
<1>4. CASE slots' = [slots EXCEPT ![i].name = name]
  <2>1. x = [slots[i] EXCEPT !.name = name]
    BY <1>1, <1>2, <1>4
  <2>2. x \in SlotTypes /\ x.handle = slots[i].handle /\ x.name = name /\ x.active = slots[i].active
    BY <1>1, <2>1 DEF SlotTypes
  <2>3. slots' \in Slots
    <3>1. slots' = [slots EXCEPT ![i] = x]
      BY <1>4, <2>1
    <3> QED BY <2>2, <3>1 DEF Slots
  <2>4. slots' = [slots EXCEPT ![i].active = flag] => x.active = flag
    <3>1. slots' = [slots EXCEPT ![i].active = flag] => x = [slots[i] EXCEPT !.active = flag]
      BY <1>1, <1>2
    <3> QED BY <1>1, <3>1 DEF SlotTypes
  <2>5. slots' = [slots EXCEPT ![i].active = flag] => x.name = slots[i].name
    <3>1. slots' = [slots EXCEPT ![i].active = flag] => x = [slots[i] EXCEPT !.active = flag]
      BY <1>1, <1>2
    <3> QED BY <1>1, <3>1 DEF SlotTypes
  <2> QED BY <1>2, <1>3, <2>2, <2>3, <2>4, <2>5
<1>5. CASE slots' = [slots EXCEPT ![i].active = flag]
  <2>1. x = [slots[i] EXCEPT !.active = flag]
    BY <1>1, <1>2, <1>5
  <2>2. x \in SlotTypes /\ x.handle = slots[i].handle /\ x.active = flag /\ x.name = slots[i].name
    BY <1>1, <2>1 DEF SlotTypes
  <2>3. slots' \in Slots
    <3>1. slots' = [slots EXCEPT ![i] = x]
      BY <1>5, <2>1
    <3> QED BY <2>2, <3>1 DEF Slots
  <2>4. slots' = [slots EXCEPT ![i].name = name] =>
          x.name = name /\ x.active = slots[i].active
    <3>1. slots' = [slots EXCEPT ![i].name = name] => x = [slots[i] EXCEPT !.name = name]
      BY <1>1, <1>2
    <3> QED BY <1>1, <3>1 DEF SlotTypes
  <2> QED BY <1>2, <1>3, <2>2, <2>3, <2>4
<1> QED BY <1>4, <1>5

\* A workspace that has been announced is not in the table and joins it.
LEMMA WorkspaceJoins ==
    ASSUME World, HandleWorkspace, UNCHANGED compositorVars
    PROVE  World'
<1> DEFINE e == Head(events)
           h == e.handle
<1>1. /\ Take("workspace") /\ AddWorkspace(h)
      /\ UNCHANGED current /\ events \in Seq(Sent) /\ TableTypeOK /\ InUse
  BY DEF HandleWorkspace, World
<1>2. events # <<>> /\ events' = Tail(events) /\ h \in Handles /\ e \in Of("workspace", h)
  <2>1. "workspace" \notin {"done", "sync", "finished"}
    OBVIOUS
  <2> QED BY <1>1, <2>1, TakeFacts
<1>3. ~InTable(h)
  BY <1>1, <1>2, QueueTaken DEF World, Announced, Coming
<1> HIDE DEF h, e
<1>4. MaxSlots \in Nat /\ count \in 0..MaxSlots
  BY <1>1, PagerdAssumption DEF TableTypeOK
<1>5. TableTypeOK' /\ InUse' /\ \A g \in Handles : InTable(g)' => InTable(g) \/ g = h
  <2>1. CASE count = MaxSlots
    <3>1. UNCHANGED <<slots, count, slotOf>>
      BY <1>1, <2>1 DEF AddWorkspace
    <3> QED BY <1>1, <3>1 DEF TableTypeOK, InUse, InTable
  <2>2. CASE count # MaxSlots
    <3>1. /\ count' = count + 1 /\ count + 1 \in 1..MaxSlots /\ slots' \in Slots
          /\ \A i \in 1..count : slots'[i] = slots[i]
          /\ slots'[count + 1] = NewSlot(h)
          /\ slotOf' \in [Handles -> 0..MaxSlots]
          /\ \A g \in Handles : slotOf'[g] = IF g = h THEN count + 1 ELSE slotOf[g]
      BY <1>1, <1>2, <2>2, AddShape
    <3>2. TableTypeOK'
      BY <1>1, <1>4, <3>1 DEF TableTypeOK, Slots
    <3>3. slots'[count + 1].handle = h
      <4>1. NewSlot(h).handle = h
        BY DEF NewSlot
      <4> QED BY <3>1, <4>1
    <3>4. \A i \in 1..count' : i \in 1..count \/ i = count + 1
      BY <1>4, <3>1
    <3>5. \A i \in 1..count : slots[i].handle \in Handles /\ slots[i].handle # h /\ slotOf[slots[i].handle] # 0
      BY <1>1, <1>3 DEF InUse, InTable
    <3>6. \A i \in 1..count' : slots'[i].handle \in Handles /\ slotOf'[slots'[i].handle] # 0
      BY <1>2, <1>4, <3>1, <3>3, <3>4, <3>5
    <3>7. \A i, j \in 1..count' : slots'[i].handle = slots'[j].handle => i = j
      BY <1>1, <3>1, <3>3, <3>4, <3>5 DEF InUse
    <3>8. \A g \in Handles : InTable(g)' => InTable(g) \/ g = h
      BY <3>1, <3>3, <3>4 DEF InTable
    <3> QED BY <3>2, <3>6, <3>7, <3>8 DEF InUse
  <2> QED BY <2>1, <2>2
<1>6. \A g \in Handles : InTable(g)' => InTable(g) \/ Head(events) \in Of("workspace", g)
  BY <1>2, <1>5 DEF e
<1> QED BY <1>2, <1>5, <1>6, TakeKeepsWorld

\* What is stored for a workspace changes no other part of the world.
LEMMA StoreWorld ==
    ASSUME World, HandleName \/ HandleState, UNCHANGED compositorVars
    PROVE  World'
<1> DEFINE e == Head(events)
           h == e.handle
           i == slotOf[h]
<1>1. events \in Seq(Sent) /\ TableTypeOK /\ InUse /\ MaxSlots \in Nat /\ slots \in Slots
  BY PagerdAssumption DEF World, TableTypeOK, Slots
<1>2. /\ events # <<>> /\ events' = Tail(events) /\ h \in Handles /\ e \in Sent
  <2>1. "name" \notin {"done", "sync", "finished"} /\ "state" \notin {"done", "sync", "finished"}
    OBVIOUS
  <2> QED BY <1>1, <2>1, TakeFacts DEF HandleName, HandleState
<1>3. e.name \in Strings /\ e.active \in BOOLEAN
  BY <1>2 DEF Sent, EventTypes
<1>4. i \in 0..MaxSlots
  BY <1>1, <1>2 DEF TableTypeOK
<1>5. /\ UNCHANGED <<count, slotOf>>
      /\ \/ UNCHANGED <<slots, current>>
         \/ i # 0 /\ slots' = [slots EXCEPT ![i].name = e.name] /\ UNCHANGED current
         \/ /\ i # 0 /\ slots' = [slots EXCEPT ![i].active = e.active]
            /\ current' \in {slots[i].name, current}
  BY DEF HandleName, HandleState
<1> HIDE DEF i, h, e
<1>6. /\ slots' \in Slots /\ \A j \in 1..MaxSlots : slots'[j].handle = slots[j].handle
      /\ current' \in Strings
  <2>1. current \in Strings
    BY <1>1 DEF TableTypeOK
  <2>2. CASE UNCHANGED <<slots, current>>
    BY <1>1, <2>1, <2>2
  <2>3. CASE i # 0 /\ ~UNCHANGED <<slots, current>>
    <3>1. i \in 1..MaxSlots
      BY <1>4, <2>3
    <3>2. slots' \in Slots /\ \A j \in 1..MaxSlots : slots'[j].handle = slots[j].handle
      BY <1>1, <1>3, <1>5, <2>3, <3>1, StoreShape
    <3>3. slots[i].name \in Strings
      BY <1>1, <3>1 DEF Slots, SlotTypes
    <3> QED BY <1>5, <2>1, <2>3, <3>2, <3>3
  <2> QED BY <1>5, <2>2, <2>3
<1>7. TableTypeOK'
  BY <1>1, <1>5, <1>6 DEF TableTypeOK, Slots
<1>8. count \in 0..MaxSlots /\ \A j \in 1..count : j \in 1..MaxSlots
  BY <1>1 DEF TableTypeOK
<1>9. InUse' /\ \A g \in Handles : InTable(g)' => InTable(g)
  BY <1>1, <1>5, <1>6, <1>8 DEF InUse, InTable
<1> QED BY <1>2, <1>7, <1>9, TakeKeepsWorld

\* A workspace that leaves makes room and adds nothing.
LEMMA WorkspaceLeaves ==
    ASSUME World, HandleRemoved, UNCHANGED compositorVars
    PROVE  World'
<1> DEFINE h == Head(events).handle
<1>1. events \in Seq(Sent) /\ TableTypeOK /\ InUse /\ MaxSlots \in Nat
  BY PagerdAssumption DEF World, TableTypeOK
<1>2. events # <<>> /\ events' = Tail(events) /\ h \in Handles
  <2>1. "removed" \notin {"done", "sync", "finished"}
    OBVIOUS
  <2> QED BY <1>1, <2>1, TakeFacts DEF HandleRemoved
<1>3. /\ UNCHANGED <<slotOf, current>>
      /\ UNCHANGED <<slots, count>> \/ RemoveWorkspace(h)
  BY DEF HandleRemoved
<1> HIDE DEF h
<1>4. CASE UNCHANGED <<slots, count>>
  <2>1. UNCHANGED tableVars
    BY <1>3, <1>4 DEF tableVars
  <2> QED BY <1>2, <2>1, TakeStill
<1>5. CASE RemoveWorkspace(h) /\ ~InTable(h)
  <2>1. UNCHANGED <<slots, count>>
    BY <1>5 DEF RemoveWorkspace, InTable
  <2>2. UNCHANGED tableVars
    BY <1>3, <2>1 DEF tableVars
  <2> QED BY <1>2, <2>2, TakeStill
<1>6. CASE RemoveWorkspace(h) /\ InTable(h)
  <2>1. PICK gone \in 1..count :
           /\ slots' \in Slots /\ count' = count - 1
           /\ \A i \in 1..(count - 1) : slots'[i] = IF i < gone THEN slots[i] ELSE slots[i + 1]
    BY <1>1, <1>2, <1>6, RemoveShape
  <2>2. count \in Nat /\ count <= MaxSlots /\ MaxSlots \in Nat
    BY <1>1 DEF TableTypeOK
  <2>3. count' \in 0..MaxSlots
    BY <2>1, <2>2
  <2>4. TableTypeOK'
    BY <1>1, <1>3, <2>1, <2>3 DEF TableTypeOK, Slots
  <2> DEFINE old(i) == IF i < gone THEN i ELSE i + 1
  <2>5. \A i \in 1..count' : old(i) \in 1..count /\ slots'[i] = slots[old(i)]
    BY <2>1, <2>2
  <2>6. \A i, j \in 1..count' : old(i) = old(j) => i = j
    BY <2>1, <2>2
  <2> HIDE DEF old
  <2>7. InUse'
    BY <1>1, <1>3, <2>5, <2>6 DEF InUse
  <2>8. \A g \in Handles : InTable(g)' => InTable(g)
    BY <2>5 DEF InTable
  <2> QED BY <1>2, <2>4, <2>7, <2>8, TakeKeepsWorld
<1> QED BY <1>3, <1>4, <1>5, <1>6

-----------------------------------------------------------------------------
(* What the compositor announces *)

\* An announcement says what there is of the workspace, its name before its state.
Announces(q, h, name, isActive) ==
    /\ q \in Seq(Sent)
    /\ \A t \in {"workspace", "name", "state"} : Meets(q, Of(t, h))
    /\ \A T : Meets(q, T) => \E e \in T : /\ e.handle = h /\ e.type \in {"workspace", "name", "state"}
                                          /\ e.type = "name" => e.name = name
                                          /\ e.type = "state" => (e.active <=> isActive)
    /\ FirstIn(q, Of("workspace", h), About(h)) /\ Led(q, Of("name", h), Of("state", h))

LEMMA AnnouncementFacts ==
    ASSUME NEW h \in Handles, NEW name \in Names, NEW isActive \in BOOLEAN
    PROVE  Announces(Announcement(h, name, isActive), h, name, isActive)
<1>1. PICK a, b, c : /\ a = Ev("workspace", h) /\ b = NameEvent(h, name)
                     /\ c = StateEvent(h, isActive)
  OBVIOUS
<1>2. PICK q : q = Announcement(h, name, isActive)
  OBVIOUS
<1>3. q = <<a, b, c>>
  BY <1>1, <1>2 DEF Announcement
<1>4. /\ a \in Sent \cap Of("workspace", h) /\ b \in Sent \cap Of("name", h) /\ b.name = name
      /\ c \in Sent \cap Of("state", h) /\ (c.active <=> isActive)
  BY <1>1, EventFacts
<1>5. q \in Seq(Sent) /\ DOMAIN q = 1..3 /\ q[1] = a /\ q[2] = b /\ q[3] = c
  BY <1>3, <1>4
<1>6. 1 \in 1..3 /\ 2 \in 1..3 /\ 3 \in 1..3 /\ \A j \in 1..3 : j \in {1, 2, 3}
  OBVIOUS
<1>7. \A T : Meets(q, T) <=> a \in T \/ b \in T \/ c \in T
  <2> TAKE T
  <2>1. Meets(q, T) => a \in T \/ b \in T \/ c \in T
    BY <1>5, <1>6 DEF Meets
  <2>2. a \in T \/ b \in T \/ c \in T => Meets(q, T)
    BY <1>5, <1>6 DEF Meets
  <2> QED BY <2>1, <2>2
<1>8. \A t \in {"workspace", "name", "state"} : Meets(q, Of(t, h))
  BY <1>4, <1>7
<1>9. /\ a.handle = h /\ a.type = "workspace" /\ b.handle = h /\ b.type = "name"
      /\ c.handle = h /\ c.type = "state"
  BY <1>4 DEF Of
<1>10. \A T : Meets(q, T) => \E e \in T : /\ e.handle = h /\ e.type \in {"workspace", "name", "state"}
                                          /\ e.type = "name" => e.name = name
                                          /\ e.type = "state" => (e.active <=> isActive)
  BY <1>4, <1>7, <1>9
<1>11. FirstIn(q, Of("workspace", h), About(h))
  <2> SUFFICES ASSUME NEW m \in 1..3, NEW n \in 1..3, q[m] \in Of("workspace", h) PROVE m <= n
    BY <1>5 DEF FirstIn
  <2>1. m = 1
    BY <1>5, <1>6, <1>9, Zenon DEF Of
  <2> QED BY <2>1
<1>12. Led(q, Of("name", h), Of("state", h))
  <2> SUFFICES ASSUME NEW n \in 1..3, q[n] \in Of("state", h)
               PROVE  \E m \in 1..3 : m < n /\ q[m] \in Of("name", h)
    BY <1>5 DEF Led
  <2>1. n = 3
    BY <1>5, <1>6, <1>9, Zenon DEF Of
  <2> QED BY <1>4, <1>5, <1>6, <2>1
<1> QED BY <1>2, <1>5, <1>8, <1>10, <1>11, <1>12 DEF Announces

\* What is there at the start.
LEMMA InitDesktop == Init => DesktopOK
<1> SUFFICES ASSUME Init PROVE DesktopOK
  OBVIOUS
<1>1. /\ order = InitialHandles /\ active = Head(InitialHandles)
      /\ nameOf = [h \in Handles |-> IF h \in DOMAIN InitialName THEN InitialName[h] ELSE ""]
  BY DEF Init
<1>2. /\ order \in Seq(Handles) \ {<<>>} /\ IsInjective(order)
      /\ InitialName \in [Existing -> Names]
  BY <1>1, WorkspaceSyncAssumption DEF Existing
<1>3. \A h \in Existing : h \in Handles
  BY <1>2 DEF Existing, Range
<1>4. active \in Existing
  <2>1. 1 \in DOMAIN order /\ Head(order) = order[1]
    BY <1>2
  <2> QED BY <1>1, <2>1 DEF Existing, Range
<1> DEFINE none == ""
<1>5. none \in Strings /\ \A name \in Names : name \in Strings
  BY DEF Strings
<1>6. \A h \in Handles : nameOf[h] = IF h \in Existing THEN InitialName[h] ELSE none
  BY <1>1, <1>2
<1>7. nameOf = [h \in Handles |-> IF h \in Existing THEN InitialName[h] ELSE none]
  BY <1>1, <1>2
<1> HIDE DEF none
<1>8. nameOf \in [Handles -> Strings]
  BY <1>2, <1>5, <1>7
<1> QED BY <1>2, <1>3, <1>4, <1>6, <1>8 DEF DesktopOK

\* What is on its way at the start: everything there is, in its order.
LEMMA InitEvents ==
    ASSUME Init
    PROVE  /\ events \in Seq(Sent)
           /\ \A h \in Handles :
                 /\ FirstIn(events, Of("workspace", h), About(h))
                 /\ Led(events, Of("name", h), Of("state", h))
                 /\ h \in Existing => \A t \in {"workspace", "name", "state"} : Meets(events, Of(t, h))
                 /\ h \notin Existing => ~Meets(events, About(h))
                 /\ ~Meets(events, Of("name", h) \ Told(h))
                 /\ ~Meets(events, Of("state", h) \ Seen(h))
                 /\ ~Meets(events, Of("removed", h))
           /\ \A g, h \in Handles :
                 Before(g, h) => AllBefore(events, Of("workspace", g), Of("workspace", h))
<1>1. PICK n : n = Len(order)
  OBVIOUS
<1>2. PICK blocks : blocks = [i \in DOMAIN order |->
                                 Announcement(order[i], nameOf[order[i]], order[i] = active)]
  OBVIOUS
<1>3. PICK t : t = FlattenSeq(blocks)
  OBVIOUS
<1>4. PICK d, s : d = Done /\ s = <<Ev("sync", "none")>>
  OBVIOUS
<1>5. events = (t \o d) \o s /\ order # <<>>
  BY <1>2, <1>3, <1>4, WorkspaceSyncAssumption DEF Init
<1>6. DesktopOK /\ order \in Seq(Handles) /\ IsInjective(order)
  BY InitDesktop DEF DesktopOK
<1>7. n \in Nat \ {0} /\ DOMAIN order = 1..n
  BY <1>1, <1>5, <1>6
<1>8. \A i \in 1..n : order[i] \in Existing /\ order[i] \in Handles /\ nameOf[order[i]] \in Names
  <2>1. \A i \in 1..n : order[i] \in Existing
    BY <1>7 DEF Existing, Range
  <2> QED BY <1>6, <2>1, ExistingNamed
<1>9. \A i \in 1..n : Announces(blocks[i], order[i], nameOf[order[i]], order[i] = active)
  <2> SUFFICES ASSUME NEW i \in 1..n
               PROVE  Announces(blocks[i], order[i], nameOf[order[i]], order[i] = active)
    OBVIOUS
  <2>1. blocks[i] = Announcement(order[i], nameOf[order[i]], order[i] = active)
    BY <1>2, <1>7
  <2>2. (order[i] = active) \in BOOLEAN
    OBVIOUS
  <2> QED BY <1>8, <2>1, <2>2, AnnouncementFacts
<1>10. blocks \in [1..n -> Seq(Sent)]
  <2>1. \A i \in 1..n : blocks[i] \in Seq(Sent)
    BY <1>9 DEF Announces
  <2> QED BY <1>2, <1>7, <2>1
<1> DEFINE Apart(T, A) == \A i, j \in 1..n : i < j => ~(Meets(blocks[i], A) /\ Meets(blocks[j], T))
<1>11. /\ t \in Seq(Sent)
       /\ \A T : Meets(t, T) <=> \E i \in 1..n : Meets(blocks[i], T)
       /\ \A T, A : Apart(T, A) /\ (\A i \in 1..n : AllBefore(blocks[i], T, A)) => AllBefore(t, T, A)
       /\ \A T, A : Apart(T, A) /\ (\A i \in 1..n : FirstIn(blocks[i], T, A)) => FirstIn(t, T, A)
       /\ \A T, U : (\A i \in 1..n : Led(blocks[i], T, U)) => Led(t, T, U)
  BY <1>3, <1>7, <1>10, FlattenedKinds
<1> HIDE DEF Apart
<1>12. ASSUME NEW i \in 1..n, NEW T, Meets(blocks[i], T)
       PROVE  \E e \in T : /\ e.handle = order[i] /\ e.type \in {"workspace", "name", "state"}
                           /\ e.type = "name" => e.name = nameOf[order[i]]
                           /\ e.type = "state" => (e.active <=> order[i] = active)
  BY <1>9, <1>12 DEF Announces
<1>13. ASSUME NEW i \in 1..n, NEW h, Meets(blocks[i], About(h))
       PROVE  h = order[i]
  BY <1>12, <1>13 DEF About
<1>14. \A q, A, T : T \subseteq A /\ Meets(q, T) => Meets(q, A)
  BY DEF Meets
<1>15. \A h, k : Of(k, h) \subseteq About(h)
  BY DEF Of, About
<1>16. PICK r : r = d \o s
  OBVIOUS
<1>17. r \in Seq(Sent) /\ events = t \o r /\ \A h \in Handles : ~Meets(r, About(h))
  <2>1. IsList(d) /\ Range(d) = {Ev("done", "none")}
    BY <1>4, DoneList
  <2>2. IsList(s) /\ Range(s) = {Ev("sync", "none")}
    BY <1>4, OneList
  <2>3. IsList(r) /\ Range(r) = {Ev("done", "none"), Ev("sync", "none")}
    <3>1. IsList(d \o s) /\ Range(d \o s) = Range(d) \cup Range(s)
      BY <2>1, <2>2, ConcatList
    <3>2. \A x, y : {x} \cup {y} = {x, y}
      OBVIOUS
    <3> QED BY <1>16, <2>1, <2>2, <3>1, <3>2
  <2>4. \A e \in Range(r) : e \in Sent /\ \A h \in Handles : e \notin About(h)
    BY <2>3, EndFacts
  <2>5. r \in Seq(Sent) /\ \A h \in Handles : ~Meets(r, About(h))
    BY <2>3, <2>4, ListOver, MeetsRange
  <2>6. d \in Seq(Sent) /\ s \in Seq(Sent)
    <3>1. Ev("done", "none") \in Sent /\ Ev("sync", "none") \in Sent
      BY EndFacts
    <3> QED BY <2>1, <2>2, <3>1, ListOver
  <2>7. \A x, y, z \in Seq(Sent) : (x \o y) \o z = x \o (y \o z)
    BY ConcatAssociative
  <2> QED BY <1>5, <1>11, <1>16, <2>5, <2>6, <2>7
<1>18. ASSUME NEW h \in Handles, NEW T, T \subseteq About(h) PROVE ~Meets(r, T)
  BY <1>14, <1>17, <1>18
<1>19. events \in Seq(Sent) /\ \A T : Meets(events, T) <=> Meets(t, T) \/ Meets(r, T)
  BY <1>11, <1>17, QueueGrown
<1>20. ASSUME NEW h \in Handles, NEW T, T \subseteq About(h)
       PROVE  Meets(events, T) <=> \E i \in 1..n : order[i] = h /\ Meets(blocks[i], T)
  <2>1. Meets(events, T) <=> \E i \in 1..n : Meets(blocks[i], T)
    BY <1>11, <1>18, <1>19, <1>20
  <2>2. \A i \in 1..n : Meets(blocks[i], T) => order[i] = h
    BY <1>13, <1>14, <1>20
  <2> QED BY <2>1, <2>2
<1>21. ASSUME NEW h \in Handles PROVE FirstIn(events, Of("workspace", h), About(h))
  <2> DEFINE T == Of("workspace", h)
             A == About(h)
  <2>1. T \subseteq A
    BY <1>15
  <2>2. \A i \in 1..n : FirstIn(blocks[i], T, A)
    <3> SUFFICES ASSUME NEW i \in 1..n PROVE FirstIn(blocks[i], T, A)
      OBVIOUS
    <3>1. CASE order[i] = h
      BY <1>9, <3>1 DEF Announces
    <3>2. CASE order[i] # h
      <4>1. ~Meets(blocks[i], A)
        BY <1>13, <3>2
      <4> QED BY <4>1 DEF Meets, FirstIn
    <3> QED BY <3>1, <3>2
  <2>3. Apart(T, A)
    <3> SUFFICES ASSUME NEW i \in 1..n, NEW j \in 1..n, i < j, Meets(blocks[i], A), Meets(blocks[j], T)
                 PROVE  FALSE
      BY DEF Apart
    <3>1. order[i] = h /\ order[j] = h
      BY <1>13, <1>14, <2>1
    <3> QED BY <1>6, <1>7, <3>1 DEF IsInjective
  <2>4. ~Meets(r, T) /\ ~Meets(r, A)
    BY <1>17, <1>18, <2>1
  <2> HIDE DEF T, A
  <2>5. FirstIn(t, T, A)
    BY <1>11, <2>2, <2>3
  <2> QED BY <1>11, <1>17, <2>4, <2>5, QueueGrown DEF T, A
<1>22. ASSUME NEW h \in Handles PROVE Led(events, Of("name", h), Of("state", h))
  <2> DEFINE T == Of("name", h)
             U == Of("state", h)
  <2>1. \A i \in 1..n : Led(blocks[i], T, U)
    <3> SUFFICES ASSUME NEW i \in 1..n PROVE Led(blocks[i], T, U)
      OBVIOUS
    <3>1. CASE order[i] = h
      BY <1>9, <3>1 DEF Announces
    <3>2. CASE order[i] # h
      <4>1. ~Meets(blocks[i], U)
        BY <1>13, <1>14, <1>15, <3>2
      <4> QED BY <4>1 DEF Meets, Led
    <3> QED BY <3>1, <3>2
  <2>2. ~Meets(r, U)
    BY <1>15, <1>18
  <2> HIDE DEF T, U
  <2>3. Led(t, T, U) /\ Led(r, T, U)
    BY <1>11, <2>1, <2>2 DEF Led, Meets
  <2> QED BY <1>11, <1>17, <2>3, LedGrown DEF T, U
<1>23. ASSUME NEW h \in Existing, NEW k \in {"workspace", "name", "state"} PROVE Meets(events, Of(k, h))
  <2>1. PICK i \in 1..n : order[i] = h
    BY <1>7 DEF Existing, Range
  <2>2. Meets(blocks[i], Of(k, h))
    BY <1>9, <2>1 DEF Announces
  <2> QED BY <1>11, <1>19, <2>2
<1>24. ASSUME NEW h \in Handles
       PROVE  /\ h \notin Existing => ~Meets(events, About(h))
              /\ ~Meets(events, Of("name", h) \ Told(h))
              /\ ~Meets(events, Of("state", h) \ Seen(h))
              /\ ~Meets(events, Of("removed", h))
  <2>1. h \notin Existing => ~Meets(events, About(h))
    BY <1>8, <1>20
  <2>2. ~Meets(events, Of("name", h) \ Told(h))
    <3>1. \A i \in 1..n : order[i] = h => ~Meets(blocks[i], Of("name", h) \ Told(h))
      BY <1>12 DEF Told, Of
    <3>2. Of("name", h) \ Told(h) \subseteq About(h)
      BY <1>15
    <3> QED BY <1>20, <3>1, <3>2
  <2>3. ~Meets(events, Of("state", h) \ Seen(h))
    <3>1. \A i \in 1..n : order[i] = h => ~Meets(blocks[i], Of("state", h) \ Seen(h))
      BY <1>12 DEF Seen, Of
    <3>2. Of("state", h) \ Seen(h) \subseteq About(h)
      BY <1>15
    <3> QED BY <1>20, <3>1, <3>2
  <2>4. ~Meets(events, Of("removed", h))
    <3>1. \A i \in 1..n : ~Meets(blocks[i], Of("removed", h))
      BY <1>12 DEF Of
    <3>2. Of("removed", h) \subseteq About(h)
      BY <1>15
    <3> QED BY <1>20, <3>1, <3>2
  <2> QED BY <2>1, <2>2, <2>3, <2>4
<1>25. ASSUME NEW g \in Handles, NEW h \in Handles, Before(g, h)
       PROVE  AllBefore(events, Of("workspace", g), Of("workspace", h))
  <2> DEFINE T == Of("workspace", g)
             A == Of("workspace", h)
  <2>1. PICK x \in 1..n, y \in 1..n : x < y /\ order[x] = g /\ order[y] = h
    BY <1>7, <1>25 DEF Before
  <2>2. g # h
    BY <1>6, <1>7, <2>1 DEF IsInjective
  <2>3. \A i \in 1..n : (Meets(blocks[i], T) => order[i] = g) /\ (Meets(blocks[i], A) => order[i] = h)
    BY <1>13, <1>14, <1>15
  <2>4. \A i \in 1..n : AllBefore(blocks[i], T, A)
    BY <2>2, <2>3 DEF AllBefore, Meets
  <2>5. Apart(T, A)
    <3> SUFFICES ASSUME NEW i \in 1..n, NEW j \in 1..n, i < j, Meets(blocks[i], A), Meets(blocks[j], T)
                 PROVE  FALSE
      BY DEF Apart
    <3>1. order[i] = order[y] /\ order[j] = order[x]
      BY <2>1, <2>3
    <3>2. i = y /\ j = x
      BY <1>6, <1>7, <3>1 DEF IsInjective
    <3> QED BY <1>7, <2>1, <3>2
  <2>6. ~Meets(r, T)
    BY <1>15, <1>18
  <2> HIDE DEF T, A
  <2>7. AllBefore(t, T, A)
    BY <1>11, <2>4, <2>5
  <2> QED BY <1>11, <1>17, <2>6, <2>7, QueueGrown DEF T, A
<1> QED BY <1>19, <1>21, <1>22, <1>23, <1>24, <1>25

-----------------------------------------------------------------------------
\* At the start the table is empty and the workspaces are announced.
LEMMA InitTable ==
    ASSUME Init
    PROVE  TableTypeOK /\ count = 0 /\ InUse /\ \A h : ~InTable(h)
<1>1. count = 0 /\ MaxSlots \in Nat \ {0}
  BY PagerdAssumption DEF Init, PagerdInit
<1>2. EmptySlot \in SlotTypes
  BY DEF EmptySlot, SlotTypes, Strings
<1>3. slots \in [1..MaxSlots -> SlotTypes]
  <2>1. slots = [i \in 1..MaxSlots |-> EmptySlot]
    BY DEF Init, PagerdInit
  <2> QED BY <1>2, <2>1
<1>4. slotOf \in [Handles -> 0..MaxSlots]
  <2>1. slotOf = [h \in Handles |-> 0]
    BY DEF Init, PagerdInit
  <2> QED BY <1>1, <2>1
<1>5. count \in 0..MaxSlots
  BY <1>1
<1>6. TableTypeOK
  <2>1. current \in Strings
    BY DEF Strings, Init, PagerdInit
  <2> QED BY <1>3, <1>4, <1>5, <2>1 DEF TableTypeOK
<1>7. 1..count = {}
  BY <1>1
<1> QED BY <1>1, <1>6, <1>7 DEF InUse, InTable

LEMMA InitWorld == Init => World
<1> SUFFICES ASSUME Init PROVE World
  OBVIOUS
<1>1. DesktopOK /\ events \in Seq(Sent)
  BY InitDesktop, InitEvents
<1>2. TableTypeOK /\ InUse /\ \A h : ~InTable(h)
  BY InitTable
<1>3. ASSUME NEW h \in Handles PROVE Announced(h)
  <2>1. /\ FirstIn(events, Of("workspace", h), About(h))
        /\ h \in Existing => \A t \in {"workspace", "name", "state"} : Meets(events, Of(t, h))
        /\ h \notin Existing => ~Meets(events, About(h))
    BY InitEvents
  <2>2. Coming(h) => Meets(events, About(h))
    BY DEF Coming, Meets, Of, About
  <2>3. nameOf[h] = "" => h \notin Existing
    BY <1>1, ExistingNamed
  <2> QED BY <1>2, <2>1, <2>2, <2>3 DEF Announced
<1> QED BY <1>1, <1>2, <1>3 DEF World

-----------------------------------------------------------------------------
\* A workspace that was not known before comes behind the others.
LEMMA CreatesChange ==
    ASSUME World, Creates
    PROVE  \E r : Change(r)
<1>1. PICK h \in Handles \ Existing, name \in Names \ UsedNames :
         /\ nameOf[h] = "" /\ order' = Append(order, h) /\ nameOf' = [nameOf EXCEPT ![h] = name]
         /\ events' = events \o Announcement(h, name, FALSE) \o Done
  BY DEF Creates
<1>2. active' = active /\ UNCHANGED tableVars
  BY DEF Creates, CompositorChange
<1>3. /\ DesktopOK /\ order \in Seq(Handles) /\ IsInjective(order) /\ events \in Seq(Sent)
      /\ nameOf \in [Handles -> Strings] /\ active \in Existing
  BY DEF World, DesktopOK
<1>4. h \notin Existing
  BY <1>1
<1>5. /\ order' \in Seq(Handles) /\ Len(order) \in Nat /\ Len(order') = Len(order) + 1
      /\ DOMAIN order = 1..Len(order) /\ DOMAIN order' = 1..(Len(order) + 1)
      /\ \A i \in 1..Len(order) : order'[i] = order[i] /\ order[i] \in Existing
      /\ order'[Len(order) + 1] = h
  <2>1. /\ order' \in Seq(Handles) /\ Len(order) \in Nat /\ Len(order') = Len(order) + 1
        /\ DOMAIN order = 1..Len(order)
        /\ \A i \in 1..Len(order) : order'[i] = order[i]
        /\ order'[Len(order) + 1] = h
    <3>1. order' = Append(order, h) /\ order \in Seq(Handles)
      BY <1>1, <1>3
    <3>2. order' \in Seq(Handles)
      BY <3>1
    <3>3. IsList(order) /\ DOMAIN order = 1..Len(order) /\ Len(order) \in Nat
      BY <3>1, SeqIsList
    <3> QED BY <3>1, <3>2, <3>3, AppendShape
  <2>2. DOMAIN order' = 1..Len(order')
    BY <2>1
  <2>3. \A i \in 1..Len(order) : order[i] \in Existing
    BY <2>1 DEF Existing, Range
  <2> QED BY <2>1, <2>2, <2>3
<1>6. Existing' = Existing \cup {h}
  <2>1. Existing' \subseteq Existing \cup {h}
    <3> SUFFICES ASSUME NEW i \in DOMAIN order' PROVE order'[i] \in Existing \cup {h}
      BY DEF Existing, Range
    <3>1. i \in 1..Len(order) \/ i = Len(order) + 1
      BY <1>5
    <3> QED BY <1>5, <3>1
  <2>2. \A i \in DOMAIN order : i \in DOMAIN order' /\ order[i] = order'[i]
    BY <1>5
  <2>3. Len(order) + 1 \in DOMAIN order'
    BY <1>5
  <2> QED BY <1>5, <2>1, <2>2, <2>3 DEF Existing, Range
<1>7. name \in Names /\ name \in Strings /\ name # ""
  BY <1>1, PagerdAssumption DEF Strings
<1>8. \A g \in Handles : nameOf'[g] = IF g = h THEN name ELSE nameOf[g]
  BY <1>1, <1>3
<1>9. IsInjective(order')
  <2> SUFFICES ASSUME NEW i \in 1..(Len(order) + 1), NEW j \in 1..(Len(order) + 1), order'[i] = order'[j]
               PROVE  i = j
    BY <1>5 DEF IsInjective
  <2>1. (i \in 1..Len(order) \/ i = Len(order) + 1) /\ (j \in 1..Len(order) \/ j = Len(order) + 1)
    BY <1>5
  <2>2. CASE i \in 1..Len(order) /\ j \in 1..Len(order)
    BY <1>3, <1>5, <2>2 DEF IsInjective
  <2> QED BY <1>4, <1>5, <2>1, <2>2
<1>10. DesktopOK'
  <2>1. \A g \in Existing : g \in Handles /\ nameOf[g] \in Names
    BY <1>3, ExistingNamed
  <2>2. \A g \in Existing' : nameOf'[g] \in Names
    BY <1>1, <1>6, <1>8, <2>1
  <2>3. nameOf' \in [Handles -> Strings]
    BY <1>1, <1>3, <1>7
  <2> QED BY <1>2, <1>3, <1>5, <1>6, <1>9, <2>2, <2>3 DEF DesktopOK
<1> DEFINE r == Announcement(h, name, FALSE) \o Done
<1>11. PICK q : q = Announcement(h, name, FALSE)
  OBVIOUS
<1>12. Announces(q, h, name, FALSE)
  BY <1>1, <1>11, AnnouncementFacts
<1>13. Done \in Seq(Sent) /\ \A k \in Handles : ~Meets(Done, About(k))
  <2>1. IsList(Done) /\ Range(Done) = {Ev("done", "none")}
    BY DoneList
  <2> QED BY <2>1, EndFacts, ListOver, MeetsRange
<1>14. q \in Seq(Sent)
  BY <1>12 DEF Announces
<1>15. r \in Seq(Sent) /\ events' = events \o r
  <2>1. \A x, y, z \in Seq(Sent) : x \o y \in Seq(Sent) /\ (x \o y) \o z = x \o (y \o z)
    BY ConcatAssociative
  <2>2. events' = (events \o q) \o Done /\ r = q \o Done
    BY <1>1, <1>11
  <2> HIDE DEF r
  <2> QED BY <1>3, <1>13, <1>14, <2>1, <2>2
<1>16. /\ \A T : Meets(r, T) <=> Meets(q, T) \/ Meets(Done, T)
       /\ FirstIn(r, Of("workspace", h), About(h)) /\ Led(r, Of("name", h), Of("state", h))
  <2>1. \A T : Meets(r, T) <=> Meets(q, T) \/ Meets(Done, T)
    BY <1>11, <1>13, <1>14, QueueGrown
  <2>2. ~Meets(Done, Of("workspace", h))
    BY <1>13 DEF Meets, Of, About
  <2>3. FirstIn(q, Of("workspace", h), About(h))
    BY <1>12 DEF Announces
  <2>4. \A T, A : FirstIn(q, T, A) /\ ~Meets(Done, T) => FirstIn(q \o Done, T, A)
    BY <1>13, <1>14, QueueGrown
  <2>5. Led(r, Of("name", h), Of("state", h))
    <3>1. Led(q, Of("name", h), Of("state", h)) /\ Meets(q, Of("name", h))
      BY <1>12 DEF Announces
    <3>2. \A T, U : Led(q, T, U) /\ Meets(q, T) => Led(q \o Done, T, U)
      BY <1>13, <1>14, LedGrown
    <3> QED BY <1>11, <3>1, <3>2
  <2> QED BY <1>11, <2>1, <2>2, <2>3, <2>4, <2>5
<1> HIDE DEF r
<1>17. ASSUME NEW k \in Handles, NEW T, T \subseteq About(k)
       PROVE  Meets(r, T) => \E e \in T : /\ k = h /\ e.type \in {"workspace", "name", "state"}
                                          /\ e.type = "name" => e.name = name
                                          /\ e.type = "state" => ~e.active
  <2>1. ~Meets(Done, T)
    BY <1>13, <1>17 DEF Meets
  <2>2. Meets(r, T) => \E e \in T : /\ e.handle = h /\ e.type \in {"workspace", "name", "state"}
                                    /\ e.type = "name" => e.name = name
                                    /\ e.type = "state" => ~e.active
    BY <1>12, <1>16, <2>1 DEF Announces
  <2> QED BY <1>17, <2>2 DEF About
<1>18. ASSUME NEW k \in Handles PROVE Reported(r, k)
  <2>1. \A t : Of(t, k) \subseteq About(k)
    BY DEF Of, About
  <2>2. CASE k # h
    <3>1. \A T : T \subseteq About(k) => ~Meets(r, T)
      BY <1>17, <2>2
    <3>2. \A t : ~Meets(r, Of(t, k)) /\ \A T : ~Meets(r, Of(t, k) \ T)
      BY <2>1, <3>1
    <3>3. (k \in Existing' <=> k \in Existing) /\ nameOf'[k] = nameOf[k]
      BY <1>6, <1>8, <2>2
    <3> QED BY <1>2, <3>1, <3>2, <3>3 DEF Reported
  <2>3. CASE k = h
    <3>1. Meets(r, Of("workspace", h)) /\ Meets(r, Of("name", h)) /\ Meets(r, Of("state", h))
      BY <1>12, <1>16 DEF Announces
    <3>2. ~Meets(r, Of("removed", h))
      BY <1>17, <2>1, <2>3 DEF Of
    <3>3. nameOf'[h] = name /\ h \in Existing' /\ h # active'
      BY <1>2, <1>3, <1>4, <1>6, <1>8
    <3>4. ~Meets(r, Of("name", h) \ Told(h)')
      <4>1. Of("name", h) \ Told(h)' \subseteq About(h)
        BY DEF Of, About
      <4>2. \A e \in Of("name", h) \ Told(h)' : e.type = "name" /\ e.name # name
        BY <3>3 DEF Told, Of
      <4> QED BY <1>17, <4>1, <4>2
    <3>5. ~Meets(r, Of("state", h) \ Seen(h)')
      <4>1. Of("state", h) \ Seen(h)' \subseteq About(h)
        BY DEF Of, About
      <4>2. \A e \in Of("state", h) \ Seen(h)' : e.type = "state" /\ e.active
        BY <3>3 DEF Seen, Of
      <4> QED BY <1>17, <4>1, <4>2
    <3> QED BY <1>1, <1>2, <1>4, <1>7, <1>16, <2>3, <3>1, <3>2, <3>3, <3>4, <3>5 DEF Reported
  <2> QED BY <2>2, <2>3
<1>19. ASSUME NEW f \in Handles, NEW g \in Handles, Before(f, g)'
       PROVE  Before(f, g) \/ (f \in Existing /\ g \notin Existing)
  <2>1. PICK i \in DOMAIN order', j \in DOMAIN order' : i < j /\ order'[i] = f /\ order'[j] = g
    BY <1>19 DEF Before
  <2>2. CASE j = Len(order) + 1
    <3>1. i \in 1..Len(order) /\ order[i] = f
      BY <1>5, <2>1, <2>2
    <3>2. f \in Existing
      BY <1>3, <3>1 DEF Existing, Range
    <3> QED BY <1>4, <1>5, <2>1, <2>2, <3>2
  <2>3. CASE j # Len(order) + 1
    <3>1. i \in DOMAIN order /\ j \in DOMAIN order /\ order[i] = f /\ order[j] = g
      BY <1>5, <2>1, <2>3
    <3> QED BY <2>1, <3>1 DEF Before
  <2> QED BY <2>2, <2>3
<1> QED BY <1>2, <1>10, <1>15, <1>18, <1>19 DEF Change

\* Every step of the compositor is such a change, and so is a request that it carries out.
LEMMA CompositorChanges ==
    ASSUME World, Compositor
    PROVE  \E r : Change(r)
<1>1. CASE UserSwitches
  <2>1. UNCHANGED <<order, nameOf, tableVars>>
    BY <1>1 DEF UserSwitches, CompositorChange
  <2>2. PICK h \in Existing : active' = h /\ events' = events \o Activation(h) \o Done
    BY <1>1 DEF UserSwitches
  <2> QED BY <2>1, <2>2, ActivatesChange
<1> QED BY <1>1, CreatesChange, RenamesChange, RemovesChange, FinishesChange DEF Compositor

LEMMA RequestChanges ==
    ASSUME World, CompositorActivates
    PROVE  UNCHANGED <<events, compositorVars>> \/ \E r : Change(r)
<1>1. PICK h : h = Head(requests)
  OBVIOUS
<1>2. UNCHANGED <<order, nameOf, tableVars>>
  BY DEF CompositorActivates
<1>3. \/ h \notin Existing /\ UNCHANGED <<active, events>>
      \/ h \in Existing /\ h = active /\ active' = h /\ events' = events \o <<>>
      \/ h \in Existing /\ active' = h /\ events' = events \o (Activation(h) \o Done)
  BY <1>1 DEF CompositorActivates
<1>4. events \in Seq(Sent)
  BY DEF World
<1>5. CASE h \notin Existing /\ UNCHANGED <<active, events>>
  BY <1>2, <1>5 DEF compositorVars
<1>6. CASE h \in Existing /\ h = active /\ active' = h /\ events' = events \o <<>>
  BY <1>2, <1>4, <1>6 DEF compositorVars
<1>7. CASE h \in Existing /\ active' = h /\ events' = events \o (Activation(h) \o Done)
  <2>1. IsList(events) /\ IsList(Activation(h)) /\ IsList(Done)
    BY <1>4, ActivationList, DoneList, SeqIsList
  <2>2. (events \o Activation(h)) \o Done = events \o (Activation(h) \o Done)
    BY <2>1, ConcatAssociative DEF IsList
  <2> QED BY <1>2, <1>7, <2>2, ActivatesChange
<1> QED BY <1>3, <1>5, <1>6, <1>7

-----------------------------------------------------------------------------
\* Steps of nobody in it leave the world as it is.
LEMMA WorldStays ==
    ASSUME World, UNCHANGED <<events, compositorVars, tableVars>>
    PROVE  World'
<1>1. TableTypeOK' /\ InUse' /\ \A g : InTable(g)' <=> InTable(g)
  BY DEF World, TableTypeOK, InUse, InTable, tableVars
<1>2. DesktopOK'
  BY DEF World, DesktopOK, compositorVars, Existing
<1>3. ASSUME NEW h \in Handles PROVE Announced(h)'
  <2>1. Announced(h) /\ nameOf' = nameOf /\ events' = events
    BY DEF World, compositorVars
  <2> QED BY <1>1, <2>1 DEF Announced, Coming
<1>4. events' \in Seq(Sent)
  BY DEF World
<1> QED BY <1>1, <1>2, <1>3, <1>4 DEF World

\* The loop's other steps and the faults, which may lose what was on its way.
Loops ==
    \/ EndDispatch \/ ReadFifo \/ CarryOut \/ OpenFifo \/ OpenAtStartup
    \/ UpdateState \/ PublishWorkspaces \/ PublishPager \/ Killed \/ Signal
Ends == HandleDone \/ HandleSync \/ HandleFinished

LEMMA LoopWorld ==
    ASSUME World, UNCHANGED compositorVars, Ends \/ Loops \/ WaylandFails
    PROVE  World' /\ UNCHANGED tableVars
<1>1. CASE Ends
  <2>1. events # <<>> /\ events' = Tail(events) /\ UNCHANGED tableVars
    BY <1>1 DEF Ends, HandleDone, HandleSync, HandleFinished, Take
  <2> QED BY <2>1, TakeStill
<1>2. CASE Loops
  <2>1. UNCHANGED events /\ UNCHANGED tableVars
    BY <1>2 DEF Loops, EndDispatch, ReadFifo, CarryOut, OpenFifo, OpenAtStartup, UpdateState,
                PublishWorkspaces, PublishPager, PublishTopic, Killed, Signal
  <2> QED BY <2>1, WorldStays
<1>3. CASE WaylandFails
  <2>1. events' = <<>> /\ UNCHANGED tableVars
    BY <1>3 DEF WaylandFails
  <2>2. events' \in Seq(Sent) /\ \A j : j \notin DOMAIN events'
    BY <2>1
  <2>3. TableTypeOK' /\ InUse' /\ \A g : InTable(g)' <=> InTable(g)
    BY <2>1 DEF World, TableTypeOK, InUse, InTable, tableVars
  <2>4. DesktopOK'
    BY DEF World, DesktopOK, compositorVars, Existing
  <2>5. ASSUME NEW h \in Handles PROVE Announced(h)'
    <3>1. (nameOf[h] = "" => ~InTable(h)) /\ nameOf' = nameOf
      BY DEF World, Announced, compositorVars
    <3> QED BY <2>2, <2>3, <3>1 DEF Announced, Coming, Meets, FirstIn
  <2> QED BY <2>1, <2>2, <2>3, <2>4, <2>5 DEF World
<1> QED BY <1>1, <1>2, <1>3

\* Whose step it is.
Elsewhere ==
    \/ Daemon \/ DaemonStops \/ DaemonStarts \/ (\E c \in Clients : SwitchCommand(c))
    \/ UNCHANGED syncVars

LEMMA StepCases ==
    ASSUME [Next]_syncVars
    PROVE  \/ /\ UNCHANGED <<compositorVars, pending>>
              /\ \/ HandleWorkspace \/ HandleName \/ HandleState \/ HandleRemoved
                 \/ Ends \/ Loops \/ WaylandFails
           \/ Compositor \/ CompositorActivates \/ Elsewhere
<1>1. CASE PagerdStep
  BY <1>1 DEF PagerdStep, Pagerd, PagerdFaults, Listeners, Ends, Loops
<1>2. CASE ~PagerdStep
  BY <1>2 DEF Next, Elsewhere
<1> QED BY <1>1, <1>2

LEMMA ElsewhereStays ==
    ASSUME Elsewhere
    PROVE  UNCHANGED <<events, compositorVars, tableVars>>
<1>1. CASE HandleFrame
  BY <1>1 DEF HandleFrame
<1>2. ASSUME NEW c \in Clients, SwitchEffect(c) \/ SwitchCommand(c)
      PROVE  UNCHANGED <<events, compositorVars, tableVars>>
  BY <1>2 DEF SwitchEffect, SwitchCommand
<1>3. CASE DaemonStops \/ DaemonStarts \/ UNCHANGED syncVars
  BY <1>3 DEF DaemonStops, DaemonStarts, syncVars, vars
<1> QED BY <1>1, <1>2, <1>3 DEF Elsewhere, Daemon

LEMMA StepWorld == World /\ [Next]_syncVars => World'
<1> SUFFICES ASSUME World, [Next]_syncVars PROVE World'
  OBVIOUS
<1>1. ASSUME UNCHANGED compositorVars,
             \/ HandleWorkspace \/ HandleName \/ HandleState \/ HandleRemoved
             \/ Ends \/ Loops \/ WaylandFails
      PROVE  World'
  BY <1>1, WorkspaceJoins, StoreWorld, WorkspaceLeaves, LoopWorld
<1>2. CASE Compositor
  BY <1>2, CompositorChanges, ChangeKeepsWorld
<1>3. CASE CompositorActivates
  <2>1. CASE UNCHANGED <<events, compositorVars>>
    <3>1. UNCHANGED tableVars
      BY <1>3 DEF CompositorActivates
    <3> QED BY <2>1, <3>1, WorldStays
  <2> QED BY <1>3, <2>1, RequestChanges, ChangeKeepsWorld
<1>4. CASE Elsewhere
  BY <1>4, ElsewhereStays, WorldStays
<1> QED BY <1>1, <1>2, <1>3, <1>4, StepCases

-----------------------------------------------------------------------------
(* Everything keeps its type *)

QueueTypes ==
    /\ requests \in Seq(Handles) /\ fifo \in Seq(Strings) /\ Len(fifo) <= FifoCapacity
    /\ lines \in Seq(Strings) /\ pending \in [Clients -> Strings]

DaemonTypes == [workspaces: Seq(Names) \ {<<>>}, current: Names]

\* The publisher writes to the last stream; with it the others have lost their reader.
LinkTypes ==
    /\ streams \in Seq(StreamTypes) /\ publisher = Len(streams) /\ up \in BOOLEAN
    /\ daemon \in DaemonTypes
    /\ \A i \in DOMAIN streams :
          /\ streams[i].live => up
          /\ streams[i].frames # <<>> => streams[i].live /\ streams[publisher].live

LoopTypes ==
    /\ ControlTypeOK
    /\ pc \in {"update", "workspaces", "pager"} => resume # "none"
    /\ pc = "carry" <=> lines # <<>>
    /\ pc \in {"poll", "carry"} => running

Types == World /\ QueueTypes /\ LinkTypes /\ LoopTypes

TableNames == {slots[i].name : i \in 1..count} \ {""}

-----------------------------------------------------------------------------
\* What a frame of the table says.
LEMMA FrameFacts ==
    ASSUME TableTypeOK
    PROVE  /\ Frame \in [names: Seq(Names), current: Strings]
           /\ Frame.names \in Seq(Names) /\ Range(Frame.names) = TableNames /\ Frame.current = current
<1>1. PICK q : q = [i \in 1..count |-> slots[i].name]
  OBVIOUS
<1> DEFINE empty == ""
<1>2. count \in Nat /\ \A i \in 1..count : slots[i].name \in Strings
  <2>1. count \in 0..MaxSlots /\ MaxSlots \in Nat /\ \A i \in 1..MaxSlots : slots[i] \in SlotTypes
    BY PagerdAssumption DEF TableTypeOK
  <2>2. \A x \in SlotTypes : x.name \in Strings
    BY DEF SlotTypes
  <2> QED BY <2>1, <2>2
<1>3. q \in Seq(Strings) /\ Range(q) = {slots[i].name : i \in 1..count}
  <2>1. \A i \in 1..count : q[i] \in Strings
    BY <1>1, <1>2
  <2>2. DOMAIN q = 1..count /\ q = [i \in 1..count |-> q[i]]
    BY <1>1
  <2>3. IsList(q) /\ Range(q) = {q[i] : i \in 1..count}
    BY <1>2, <2>2, MadeList
  <2>4. q \in Seq(Strings)
    BY <2>1, <2>3, ListOver
  <2> QED BY <1>1, <2>3, <2>4
<1>4. PICK n : n = Outside({empty}, q)
  OBVIOUS
<1>5. Strings \ {empty} = Names
  BY PagerdAssumption DEF Strings
<1>6. n \in Seq(Names) /\ Range(n) = TableNames
  <2>1. n \in Seq(Strings \ {empty}) /\ Range(n) = Range(q) \ {empty}
    BY <1>3, <1>4, OutsideList
  <2> QED BY <1>3, <1>5, <2>1 DEF TableNames
<1>7. Frame = [names |-> n, current |-> current]
  BY <1>1, <1>4 DEF Frame
<1>8. current \in Strings
  BY DEF TableTypeOK
<1> HIDE DEF empty
<1> QED BY <1>6, <1>7, <1>8

\* What the daemon makes of a frame.
Absorbs(p, state, frame) ==
    /\ p \in DaemonTypes
    /\ Range(p.workspaces) = Range(state.workspaces) \cup Range(frame.names)
    /\ frame.current \in Range(frame.names) => p.current = frame.current

LEMMA PublishedFacts ==
    ASSUME NEW state \in DaemonTypes, NEW frame \in [names: Seq(Names), current: Strings]
    PROVE  Absorbs(Published(state, frame), state, frame)
<1>1. PICK known, old, new : known = state.workspaces /\ old = state.current /\ new = frame.names
  OBVIOUS
<1>2. PICK asked : asked = frame.current
  OBVIOUS
<1>3. known \in Seq(Names) /\ known # <<>> /\ old \in Names /\ new \in Seq(Names)
  BY <1>1 DEF DaemonTypes
<1>4. PICK names : names = Runtime!CanonicalNames(known, new)
  OBVIOUS
<1>5. PICK added : added = Outside(Range(known), new)
  OBVIOUS
<1>6. added \in Seq(Names) /\ Range(added) = Range(new) \ Range(known)
  BY <1>3, <1>5, OutsideList
<1>7. names = known \o added
  <2>1. Runtime!Outside(Range(known), new) = Outside(Range(known), new)
    BY DEF Runtime!Outside, Outside
  <2>2. Runtime!Range(known) = Range(known)
    BY DEF Runtime!Range, Range
  <2> QED BY <1>4, <1>5, <2>1, <2>2 DEF Runtime!CanonicalNames
<1>8. /\ names \in Seq(Names) /\ names # <<>>
      /\ Range(names) = Range(known) \cup Range(new)
  <2>1. names \in Seq(Names) /\ Len(names) = Len(known) + Len(added)
    BY <1>3, <1>6, <1>7
  <2>2. Len(known) \in Nat \ {0} /\ Len(added) \in Nat
    BY <1>3, <1>6
  <2>3. names # <<>>
    BY <2>1, <2>2
  <2>4. Range(names) = Range(known) \cup Range(added)
    BY <1>3, <1>6, <1>7, SeqIsList, ConcatList
  <2> QED BY <1>6, <2>1, <2>3, <2>4
<1>9. PICK c : c = Runtime!ResolveCurrent(asked, names, old)
  OBVIOUS
<1>10. c \in Names /\ (asked \in Range(names) => c = asked)
  <2>1. Head(names) \in Names
    BY <1>8
  <2>2. Range(names) \subseteq Names
    BY <1>8, SeqIsList
  <2>3. Runtime!Range(names) = Range(names)
    BY DEF Runtime!Range, Range
  <2> QED BY <1>3, <1>8, <1>9, <2>1, <2>2, <2>3 DEF Runtime!ResolveCurrent
<1>11. Published(state, frame) = [workspaces |-> names, current |-> c]
  BY <1>1, <1>2, <1>4, <1>9 DEF Published
<1>12. PICK p : p = Published(state, frame)
  OBVIOUS
<1>13. p.workspaces = names /\ p.current = c /\ p \in DaemonTypes
  BY <1>8, <1>10, <1>11, <1>12 DEF DaemonTypes
<1> QED BY <1>1, <1>2, <1>8, <1>10, <1>12, <1>13 DEF Absorbs

\* The slot of a name.
LEMMA NamedSlot ==
    ASSUME TableTypeOK, NEW name
    PROVE  /\ SlotNamed(name) \in 0..count
           /\ SlotNamed(name) # 0 => slots[SlotNamed(name)].name = name
<1> DEFINE q == SubSeq(slots, 1, count)
           I == {i \in 1..Len(q) : q[i].name = name}
<1>1. count \in 0..MaxSlots /\ MaxSlots \in Nat /\ slots \in [1..MaxSlots -> SlotTypes]
  BY PagerdAssumption DEF TableTypeOK
<1>2. Len(q) = count /\ \A i \in 1..count : q[i] = slots[i]
  <2>1. q = [i \in 1..count |-> slots[i]]
    BY <1>1
  <2> HIDE DEF q
  <2> QED BY <1>1, <2>1
<1>3. SlotNamed(name) = IF I # {} THEN Min(I) ELSE 0
  BY DEF SlotNamed, SelectInSeq
<1> HIDE DEF q
<1>4. I = {i \in 1..count : slots[i].name = name}
  BY <1>2
<1> HIDE DEF I
<1>5. ASSUME I # {} PROVE Min(I) \in I
  <2>1. I \subseteq Nat
    BY <1>1, <1>4
  <2>2. \E x \in I : \A y \in I : x <= y
    BY <1>5, <2>1, SmallestExists
  <2> QED BY <2>2 DEF Min
<1> QED BY <1>1, <1>3, <1>4, <1>5

-----------------------------------------------------------------------------
\* A listener touches nothing outside the table and the loop.
LEMMA ListenersStay ==
    ASSUME HandleWorkspace \/ HandleName \/ HandleState \/ HandleRemoved \/ Ends
    PROVE  UNCHANGED <<requests, fifo, lines, publisher, up, daemon, streams>>
<1>1. CASE HandleWorkspace \/ HandleName \/ HandleState \/ HandleRemoved
  <2>1. UNCHANGED outsideVars
    BY <1>1 DEF HandleWorkspace, HandleName, HandleState, HandleRemoved
  <2> QED BY <2>1 DEF outsideVars, fifoVars, linkVars
<1>2. CASE HandleDone \/ HandleSync
  <2>1. UNCHANGED outsideVars
    BY <1>2 DEF HandleDone, HandleSync
  <2> QED BY <2>1 DEF outsideVars, fifoVars, linkVars
<1>3. CASE HandleFinished
  BY <1>3 DEF HandleFinished, fifoVars, linkVars
<1> QED BY <1>1, <1>2, <1>3 DEF Ends

LEMMA ChangesStay ==
    ASSUME Compositor
    PROVE  /\ CompositorChange
           /\ UNCHANGED <<requests, fifo, lines, pending, publisher, up, daemon, streams>>
<1>1. CompositorChange
  BY DEF Compositor, UserSwitches, Creates, Renames, Removes, Finishes
<1> QED BY <1>1 DEF CompositorChange, fifoVars, linkVars

-----------------------------------------------------------------------------
\* A read of the FIFO takes one line at least.
LEMMA ReadTyped ==
    ASSUME QueueTypes, ReadFifo
    PROVE  /\ fifo' \in Seq(Strings) /\ lines' \in Seq(Strings) /\ lines' # <<>>
           /\ Len(fifo') <= FifoCapacity
<1> DEFINE n == IF Len(fifo) < LinesPerRead THEN Len(fifo) ELSE LinesPerRead
           whole == SubSeq(fifo, 1, n)
           rest == SubSeq(fifo, n + 1, Len(fifo))
           empty == ""
<1>1. fifo \in Seq(Strings) /\ fifo # <<>> /\ Len(fifo) <= FifoCapacity /\ empty \in Strings
  BY DEF QueueTypes, ReadFifo, Strings
<1>2. n \in 1..Len(fifo) /\ Len(fifo) \in Nat /\ FifoCapacity \in Nat
  <2>1. Len(fifo) \in Nat /\ Len(fifo) >= 1
    <3>1. \A q \in Seq(Strings) : q # <<>> => Len(q) \in Nat /\ Len(q) >= 1
      BY EmptySeq
    <3>2. fifo \in Seq(Strings) /\ fifo # <<>>
      BY <1>1
    <3> QED BY <3>1, <3>2
  <2>2. LinesPerRead \in Nat \ {0} /\ FifoCapacity \in Nat
    BY PagerdAssumption, WorkspaceSyncAssumption
  <2> QED BY <2>1, <2>2
<1>3. \/ lines' = whole /\ fifo' = rest
      \/ /\ rest # <<>>
         /\ \E piece \in Cuts[Head(rest)] \cup {empty} : lines' = Append(whole, piece)
         /\ fifo' = <<empty>> \o Tail(rest) /\ Head(rest) # empty
  BY DEF ReadFifo
<1> HIDE DEF n, empty
<1>4. whole \in Seq(Strings) /\ whole # <<>>
  <2>1. whole \in Seq(Strings) /\ Len(whole) = n
    BY <1>1, <1>2
  <2> HIDE DEF whole
  <2> QED BY <1>2, <2>1
<1>5. rest \in Seq(Strings) /\ Len(rest) <= FifoCapacity
  <2>1. rest \in Seq(Strings) /\ Len(rest) = Len(fifo) - n
    BY <1>1, <1>2
  <2> HIDE DEF rest
  <2> QED BY <1>1, <1>2, <2>1
<1> HIDE DEF whole, rest
<1>6. CASE lines' = whole /\ fifo' = rest
  BY <1>4, <1>5, <1>6
<1>7. ASSUME rest # <<>>, Head(rest) # empty, NEW piece \in Cuts[Head(rest)] \cup {empty},
             lines' = Append(whole, piece), fifo' = <<empty>> \o Tail(rest)
      PROVE  /\ fifo' \in Seq(Strings) /\ lines' \in Seq(Strings) /\ lines' # <<>>
             /\ Len(fifo') <= FifoCapacity
  <2>1. Head(rest) \in Names
    <3>1. Head(rest) \in Strings
      BY <1>5, <1>7
    <3> QED BY <1>7, <3>1 DEF Strings, empty
  <2>2. piece \in Strings
    <3>1. Cuts[Head(rest)] \subseteq Strings
      BY <2>1, PagerdAssumption DEF Strings
    <3> QED BY <1>1, <1>7, <3>1
  <2>3. Tail(rest) \in Seq(Strings) /\ Len(Tail(rest)) = Len(rest) - 1 /\ Len(rest) \in Nat
    BY <1>5, <1>7
  <2>4. PICK a, b : a = <<empty>> /\ b = Tail(rest)
    OBVIOUS
  <2>5. a \in Seq(Strings) /\ Len(a) = 1
    BY <1>1, <2>4
  <2>6. fifo' = a \o b
    BY <1>7, <2>4
  <2>7. fifo' \in Seq(Strings) /\ Len(fifo') = Len(a) + Len(b)
    BY <2>3, <2>4, <2>5, <2>6
  <2>8. lines' \in Seq(Strings) /\ Len(lines') = Len(whole) + 1 /\ Len(whole) \in Nat
    BY <1>4, <1>7, <2>2
  <2>9. lines' # <<>>
    BY <2>8
  <2>10. Len(fifo') <= FifoCapacity
    <3>1. Len(b) = Len(rest) - 1
      BY <2>3, <2>4
    <3> QED BY <1>2, <1>5, <2>3, <2>5, <2>7, <3>1
  <2> QED BY <2>7, <2>8, <2>9, <2>10
<1> QED BY <1>3, <1>6, <1>7

LEMMA CarryTyped ==
    ASSUME World, QueueTypes, CarryOut, lines # <<>>
    PROVE  requests' \in Seq(Handles) /\ lines' \in Seq(Strings)
<1>1. lines' = Tail(lines) /\ lines \in Seq(Strings) /\ requests \in Seq(Handles)
  BY DEF CarryOut, QueueTypes
<1>2. lines' \in Seq(Strings)
  BY <1>1
<1>3. PICK i : i = SlotNamed(Head(lines))
  OBVIOUS
<1>4. UNCHANGED requests \/ (i # 0 /\ requests' = Append(requests, slots[i].handle))
  BY <1>3 DEF CarryOut
<1>5. i # 0 => slots[i].handle \in Handles
  <2>1. i \in 0..count /\ count \in Nat
    BY <1>3, NamedSlot DEF World, TableTypeOK
  <2> QED BY <2>1 DEF World, InUse
<1>6. requests' \in Seq(Handles)
  <2>1. \A q \in Seq(Handles) : \A h \in Handles : Append(q, h) \in Seq(Handles)
    OBVIOUS
  <2> QED BY <1>1, <1>4, <1>5, <2>1
<1> QED BY <1>2, <1>6

LEMMA QueuesStay ==
    ASSUME QueueTypes, UNCHANGED <<requests, fifo, lines, pending>>
    PROVE  QueueTypes'
  BY DEF QueueTypes

LEMMA StepQueues ==
    ASSUME Types, [Next]_syncVars
    PROVE  QueueTypes'
<1>1. World /\ QueueTypes /\ (pc = "carry" => lines # <<>>)
  BY DEF Types, LoopTypes
<1>2. ASSUME UNCHANGED pending,
             \/ HandleWorkspace \/ HandleName \/ HandleState \/ HandleRemoved
             \/ Ends \/ Loops \/ WaylandFails
      PROVE  QueueTypes'
  <2>1. CASE HandleWorkspace \/ HandleName \/ HandleState \/ HandleRemoved \/ Ends
    BY <1>1, <1>2, <2>1, ListenersStay, QueuesStay
  <2>2. CASE \/ EndDispatch \/ OpenFifo \/ OpenAtStartup \/ UpdateState \/ PublishWorkspaces
             \/ PublishPager \/ Killed \/ Signal \/ WaylandFails
    <3>1. UNCHANGED <<requests, fifo, lines>>
      BY <2>2 DEF EndDispatch, OpenFifo, OpenAtStartup, UpdateState, PublishWorkspaces,
                  PublishPager, PublishTopic, Killed, Signal, WaylandFails, fifoVars
    <3> QED BY <1>1, <1>2, <3>1, QueuesStay
  <2>3. CASE ReadFifo
    <3>1. UNCHANGED requests
      BY <2>3 DEF ReadFifo
    <3> QED BY <1>1, <1>2, <2>3, <3>1, ReadTyped DEF QueueTypes
  <2>4. CASE CarryOut
    <3>1. UNCHANGED fifo /\ pc = "carry"
      BY <2>4 DEF CarryOut
    <3> QED BY <1>1, <1>2, <2>4, <3>1, CarryTyped DEF QueueTypes
  <2> QED BY <1>2, <2>1, <2>2, <2>3, <2>4 DEF Loops
<1>3. CASE Compositor
  BY <1>1, <1>3, ChangesStay, QueuesStay
<1>4. CASE CompositorActivates
  <2>1. requests # <<>> /\ requests' = Tail(requests) /\ UNCHANGED <<fifo, lines, pending>>
    BY <1>4 DEF CompositorActivates, fifoVars
  <2>2. requests' \in Seq(Handles)
    BY <1>1, <2>1 DEF QueueTypes
  <2> QED BY <1>1, <2>1, <2>2 DEF QueueTypes
<1>5. CASE HandleFrame \/ DaemonStarts \/ UNCHANGED syncVars
  <2>1. UNCHANGED <<requests, fifo, lines, pending>>
    BY <1>5 DEF HandleFrame, DaemonStarts, syncVars, vars, outsideVars, fifoVars
  <2> QED BY <1>1, <2>1, QueuesStay
<1>6. CASE DaemonStops
  <2>1. UNCHANGED <<requests, fifo, lines>> /\ pending' = [c \in Clients |-> ""]
    BY <1>6 DEF DaemonStops, fifoVars
  <2>2. pending' \in [Clients -> Strings]
    BY <2>1 DEF Strings
  <2> QED BY <1>1, <2>1, <2>2 DEF QueueTypes
<1>7. ASSUME NEW c \in Clients, SwitchEffect(c) PROVE QueueTypes'
  <2>1. /\ UNCHANGED <<requests, lines>> /\ pending' = [pending EXCEPT ![c] = ""]
        /\ UNCHANGED fifo \/ (Len(fifo) < FifoCapacity /\ fifo' = Append(fifo, pending[c]))
    BY <1>7 DEF SwitchEffect
  <2>2. pending' \in [Clients -> Strings]
    <3>1. \A x \in Strings : [pending EXCEPT ![c] = x] \in [Clients -> Strings]
      BY <1>1 DEF QueueTypes
    <3> QED BY <2>1, <3>1 DEF Strings
  <2>3. fifo' \in Seq(Strings) /\ Len(fifo') <= FifoCapacity
    <3>1. pending[c] \in Strings /\ fifo \in Seq(Strings) /\ Len(fifo) <= FifoCapacity
      BY <1>1 DEF QueueTypes
    <3>2. FifoCapacity \in Nat
      BY WorkspaceSyncAssumption
    <3>3. UNCHANGED fifo \/ (Len(fifo) < FifoCapacity /\ fifo' = Append(fifo, pending[c]))
      BY <2>1
    <3> QED BY <3>1, <3>2, <3>3
  <2> QED BY <1>1, <2>1, <2>2, <2>3 DEF QueueTypes
<1>8. ASSUME NEW c \in Clients, SwitchCommand(c), daemon \in DaemonTypes PROVE QueueTypes'
  <2>1. UNCHANGED <<requests, fifo, lines>>
    BY <1>8 DEF SwitchCommand, fifoVars
  <2>2. PICK name \in Range(daemon.workspaces) : pending' = [pending EXCEPT ![c] = name]
    BY <1>8 DEF SwitchCommand
  <2>3. name \in Strings
    <3>1. daemon.workspaces \in Seq(Names)
      BY <1>8 DEF DaemonTypes
    <3>2. Range(daemon.workspaces) \subseteq Names
      BY <3>1, SeqIsList
    <3> QED BY <3>2 DEF Strings
  <2>4. pending' \in [Clients -> Strings]
    BY <1>1, <2>2, <2>3 DEF QueueTypes
  <2> QED BY <1>1, <2>1, <2>4 DEF QueueTypes
<1>9. daemon \in DaemonTypes
  BY DEF Types, LinkTypes
<1> QED BY <1>2, <1>3, <1>4, <1>5, <1>6, <1>7, <1>8, <1>9, StepCases DEF Elsewhere, Daemon

-----------------------------------------------------------------------------
FrameTypes == [names: Seq(Names), current: Strings]

LEMMA StreamFrames ==
    ASSUME streams \in Seq(StreamTypes), NEW i \in DOMAIN streams
    PROVE  streams[i].frames \in Seq(FrameTypes)
<1>1. streams[i] \in StreamTypes
  OBVIOUS
<1>2. \A s \in StreamTypes : s.frames \in Seq(FrameTypes)
  BY DEF StreamTypes, FrameTypes
<1> QED BY <1>1, <1>2


\* A stream whose frames change.
LEMMA StreamShape ==
    ASSUME streams \in Seq(StreamTypes), NEW i \in DOMAIN streams, NEW q \in Seq(FrameTypes),
           streams' = [streams EXCEPT ![i].frames = q]
    PROVE  /\ streams' \in Seq(StreamTypes) /\ Len(streams') = Len(streams)
           /\ DOMAIN streams' = DOMAIN streams
           /\ \A j \in DOMAIN streams :
                 /\ streams'[j].live = streams[j].live
                 /\ streams'[j].frames = IF j = i THEN q ELSE streams[j].frames
<1>1. /\ DOMAIN streams = 1..Len(streams) /\ Len(streams) \in Nat
      /\ \A j \in DOMAIN streams : streams[j] \in StreamTypes
  OBVIOUS
<1>2. PICK s : s = [frames |-> q, live |-> streams[i].live]
  OBVIOUS
<1>3. s = [streams[i] EXCEPT !.frames = q]
  BY <1>1, <1>2 DEF StreamTypes
<1>4. s \in StreamTypes /\ s.frames = q /\ s.live = streams[i].live
  <2>1. streams[i].live \in BOOLEAN
    BY <1>1 DEF StreamTypes
  <2> QED BY <1>2, <2>1 DEF StreamTypes, FrameTypes
<1>5. streams' = [streams EXCEPT ![i] = s]
  BY <1>3
<1>6. streams' \in Seq(StreamTypes) /\ Len(streams') = Len(streams) /\ DOMAIN streams' = DOMAIN streams
  BY <1>1, <1>4, <1>5
<1>7. \A j \in DOMAIN streams : streams'[j] = IF j = i THEN s ELSE streams[j]
  BY <1>1, <1>5
<1> QED BY <1>4, <1>6, <1>7

\* A stream that is added becomes the publisher's.
LEMMA OpensLinks ==
    ASSUME LinkTypes, OpenPublisher, UNCHANGED <<up, daemon>>
    PROVE  LinkTypes'
<1>1. /\ streams \in Seq(StreamTypes) /\ publisher = Len(streams) /\ up \in BOOLEAN
      /\ daemon \in DaemonTypes
      /\ \A i \in DOMAIN streams :
          /\ streams[i].live => up
          /\ streams[i].frames # <<>> => streams[i].live /\ streams[publisher].live
  BY DEF LinkTypes
<1>2. CASE ~up
  <2>1. UNCHANGED <<streams, publisher>>
    BY <1>2 DEF OpenPublisher
  <2> QED BY <1>1, <2>1 DEF LinkTypes
<1>3. CASE up
  <2>1. PICK s : s = [frames |-> <<>>, live |-> TRUE]
    OBVIOUS
  <2>2. s \in StreamTypes /\ s.frames = <<>> /\ s.live
    BY <2>1 DEF StreamTypes
  <2>3. streams' = Append(streams, s) /\ publisher' = Len(streams')
    BY <1>3, <2>1 DEF OpenPublisher
  <2>4. /\ streams' \in Seq(StreamTypes) /\ publisher' = Len(streams) + 1 /\ Len(streams) \in Nat
        /\ DOMAIN streams' = 1..(Len(streams) + 1) /\ streams'[Len(streams) + 1] = s
        /\ \A i \in DOMAIN streams : streams'[i] = streams[i]
        /\ DOMAIN streams = 1..Len(streams)
    BY <1>1, <2>2, <2>3
  <2>5. \A i \in DOMAIN streams' : i \in DOMAIN streams \/ i = Len(streams) + 1
    BY <2>4
  <2> QED BY <1>1, <1>3, <2>2, <2>3, <2>4, <2>5 DEF LinkTypes
<1> QED BY <1>2, <1>3

\* What is published comes last in the publisher's stream, if that is read.
Publishes(frame) ==
    \/ /\ publisher # 0 /\ streams[publisher].live /\ UNCHANGED <<daemon, excuses>>
       /\ \E q : /\ q = Append(streams[publisher].frames, frame)
                 /\ streams' = [streams EXCEPT ![publisher].frames = q]
    \/ /\ publisher = 0 /\ up /\ daemon' = Published(daemon, frame)
       /\ excuses' = excuses \ Settled /\ UNCHANGED streams
    \/ /\ ~(publisher # 0 /\ streams[publisher].live) /\ ~(publisher = 0 /\ up)
       /\ excuses' = excuses \cup {"publish"} /\ UNCHANGED <<streams, daemon>>

LEMMA TopicCases == ASSUME PublishTopic PROVE Publishes(Frame) /\ UNCHANGED <<publisher, up>>
<1>1. UNCHANGED <<publisher, up>>
  BY DEF PublishTopic
<1>2. CASE publisher # 0 /\ streams[publisher].live
  <2>1. /\ streams' = [streams EXCEPT ![publisher].frames = Append(@, Frame)]
        /\ UNCHANGED <<daemon, excuses>>
    BY <1>2 DEF PublishTopic
  <2> QED BY <1>1, <1>2, <2>1 DEF Publishes
<1>3. CASE publisher = 0 /\ up
  <2>1. /\ daemon' = Published(daemon, Frame) /\ excuses' = excuses \ Settled
        /\ UNCHANGED streams
    BY <1>3 DEF PublishTopic
  <2> QED BY <1>1, <1>3, <2>1 DEF Publishes
<1>4. CASE ~(publisher # 0 /\ streams[publisher].live) /\ ~(publisher = 0 /\ up)
  <2>1. excuses' = excuses \cup {"publish"} /\ UNCHANGED <<streams, daemon>>
    BY <1>4 DEF PublishTopic
  <2> QED BY <1>1, <1>4, <2>1 DEF Publishes
<1> QED BY <1>2, <1>3, <1>4

LEMMA TopicLinks ==
    ASSUME TableTypeOK, LinkTypes, PublishTopic
    PROVE  LinkTypes'
<1>1. /\ streams \in Seq(StreamTypes) /\ publisher = Len(streams) /\ up \in BOOLEAN
      /\ daemon \in DaemonTypes
      /\ \A i \in DOMAIN streams :
          /\ streams[i].live => up
          /\ streams[i].frames # <<>> => streams[i].live /\ streams[publisher].live
  BY DEF LinkTypes
<1>2. UNCHANGED <<publisher, up>>
  BY DEF PublishTopic
<1>3. PICK f : f = Frame
  OBVIOUS
<1>4. f \in FrameTypes /\ f \in [names: Seq(Names), current: Strings]
  BY <1>3, FrameFacts DEF FrameTypes
<1>5. Publishes(f)
  BY <1>3, TopicCases
<1>6. ASSUME publisher # 0, streams[publisher].live, UNCHANGED daemon,
             NEW q, q = Append(streams[publisher].frames, f),
             streams' = [streams EXCEPT ![publisher].frames = q]
      PROVE  LinkTypes'
  <2>1. publisher \in DOMAIN streams /\ streams \in Seq(StreamTypes)
    BY <1>1, <1>6
  <2>2. streams[publisher].frames \in Seq(FrameTypes)
    BY <2>1, StreamFrames
  <2>3. q \in Seq(FrameTypes)
    BY <1>4, <1>6, <2>2
  <2>4. /\ streams' \in Seq(StreamTypes) /\ Len(streams') = Len(streams)
        /\ DOMAIN streams' = DOMAIN streams
        /\ \A j \in DOMAIN streams :
              /\ streams'[j].live = streams[j].live
              /\ streams'[j].frames = IF j = publisher THEN q ELSE streams[j].frames
    BY <1>6, <2>1, <2>3, StreamShape
  <2> QED BY <1>1, <1>2, <1>6, <2>1, <2>4 DEF LinkTypes
<1>7. CASE daemon' = Published(daemon, f) /\ UNCHANGED streams
  <2>1. daemon' \in DaemonTypes
    BY <1>1, <1>4, <1>7, PublishedFacts DEF Absorbs
  <2> QED BY <1>1, <1>2, <1>7, <2>1 DEF LinkTypes
<1>8. CASE UNCHANGED <<streams, daemon>>
  BY <1>1, <1>2, <1>8 DEF LinkTypes
<1> QED BY <1>5, <1>6, <1>7, <1>8 DEF Publishes

\* The frame that is handled is taken from its stream.
Absorbed(i, f) ==
    /\ up /\ i \in DOMAIN streams /\ streams[i].live /\ streams[i].frames # <<>>
    /\ f = Head(streams[i].frames) /\ daemon' = Published(daemon, f)
    /\ \E q : q = Tail(streams[i].frames) /\ streams' = [streams EXCEPT ![i].frames = q]
    /\ excuses' = IF \E j \in 1..(i - 1) : streams[j].frames # <<>>
                  THEN (excuses \ Settled) \cup {"crossed"} ELSE excuses \ Settled

LEMMA FrameCases == ASSUME HandleFrame PROVE \E i, f : Absorbed(i, f)
<1>1. PICK i \in DOMAIN streams :
          /\ streams[i].live /\ streams[i].frames # <<>>
          /\ daemon' = Published(daemon, Head(streams[i].frames))
          /\ streams' = [streams EXCEPT ![i].frames = Tail(@)]
          /\ excuses' = IF \E j \in 1..(i - 1) : streams[j].frames # <<>>
                        THEN (excuses \ Settled) \cup {"crossed"} ELSE excuses \ Settled
  BY DEF HandleFrame
<1>2. up
  BY DEF HandleFrame
<1>3. PICK f : f = Head(streams[i].frames)
  OBVIOUS
<1>4. streams' = [streams EXCEPT ![i].frames = Tail(streams[i].frames)]
  BY <1>1
<1> QED BY <1>1, <1>2, <1>3, <1>4 DEF Absorbed

LEMMA HandledShape ==
    ASSUME LinkTypes, NEW i, NEW f, Absorbed(i, f)
    PROVE  /\ f \in FrameTypes /\ Absorbs(daemon', daemon, f)
           /\ streams' \in Seq(StreamTypes) /\ Len(streams') = Len(streams)
           /\ DOMAIN streams' = DOMAIN streams
           /\ \A j \in DOMAIN streams :
                 /\ streams'[j].live = streams[j].live
                 /\ streams'[j].frames =
                       IF j = i THEN Tail(streams[i].frames) ELSE streams[j].frames
<1>1. streams \in Seq(StreamTypes) /\ daemon \in DaemonTypes
  BY DEF LinkTypes
<1>2. /\ i \in DOMAIN streams /\ streams[i].frames # <<>> /\ f = Head(streams[i].frames)
      /\ daemon' = Published(daemon, f)
  BY DEF Absorbed
<1>3. PICK q : q = Tail(streams[i].frames) /\ streams' = [streams EXCEPT ![i].frames = q]
  BY DEF Absorbed
<1>4. streams[i].frames \in Seq(FrameTypes)
  BY <1>1, <1>2, StreamFrames
<1>5. f \in FrameTypes /\ q \in Seq(FrameTypes)
  BY <1>2, <1>3, <1>4
<1>6. f \in [names: Seq(Names), current: Strings]
  BY <1>5 DEF FrameTypes
<1>7. Absorbs(daemon', daemon, f)
  BY <1>1, <1>2, <1>6, PublishedFacts
<1>8. /\ streams' \in Seq(StreamTypes) /\ Len(streams') = Len(streams)
      /\ DOMAIN streams' = DOMAIN streams
      /\ \A j \in DOMAIN streams :
            /\ streams'[j].live = streams[j].live
            /\ streams'[j].frames = IF j = i THEN q ELSE streams[j].frames
  BY <1>1, <1>2, <1>3, <1>5, StreamShape
<1> QED BY <1>3, <1>5, <1>7, <1>8

LEMMA FrameLinks ==
    ASSUME LinkTypes, HandleFrame
    PROVE  LinkTypes'
<1>1. PICK i, f : Absorbed(i, f)
  BY FrameCases
<1>2. /\ Absorbs(daemon', daemon, f)
      /\ streams' \in Seq(StreamTypes) /\ Len(streams') = Len(streams)
      /\ DOMAIN streams' = DOMAIN streams
      /\ \A j \in DOMAIN streams :
            /\ streams'[j].live = streams[j].live
            /\ streams'[j].frames = IF j = i THEN Tail(streams[i].frames) ELSE streams[j].frames
  BY <1>1, HandledShape
<1>3. UNCHANGED <<publisher, up>>
  BY DEF HandleFrame
<1>4. /\ publisher = Len(streams) /\ up \in BOOLEAN /\ streams \in Seq(StreamTypes)
      /\ \A j \in DOMAIN streams :
          /\ streams[j].live => up
          /\ streams[j].frames # <<>> => streams[j].live /\ streams[publisher].live
  BY DEF LinkTypes
<1>5. daemon' \in DaemonTypes
  BY <1>2 DEF Absorbs
<1>6. i \in DOMAIN streams /\ streams[i].frames # <<>>
  BY <1>1 DEF Absorbed
<1>7. publisher \in DOMAIN streams
  BY <1>4, <1>6
<1>8. \A j \in DOMAIN streams : streams'[j].frames # <<>> => streams[j].frames # <<>>
  BY <1>2, <1>6
<1> QED BY <1>2, <1>3, <1>4, <1>5, <1>7, <1>8 DEF LinkTypes

\* A daemon that ends leaves its streams without a reader.
LEMMA StopsLinks ==
    ASSUME LinkTypes, DaemonStops
    PROVE  /\ LinkTypes' /\ ~up' /\ DOMAIN streams' = DOMAIN streams
           /\ \A i \in DOMAIN streams : streams'[i].frames = <<>> /\ ~streams'[i].live
<1>1. up' = FALSE /\ UNCHANGED <<publisher, daemon>>
  BY DEF DaemonStops
<1>2. PICK s : s = [frames |-> <<>>, live |-> FALSE]
  OBVIOUS
<1>3. s \in StreamTypes /\ s.frames = <<>> /\ ~s.live
  BY <1>2 DEF StreamTypes
<1>4. streams' = [i \in DOMAIN streams |-> s]
  BY <1>2 DEF DaemonStops
<1>5. DOMAIN streams = 1..Len(streams) /\ Len(streams) \in Nat
  BY DEF LinkTypes
<1>6. streams' \in Seq(StreamTypes) /\ DOMAIN streams' = DOMAIN streams /\ Len(streams') = Len(streams)
  <2>1. streams' \in [1..Len(streams) -> StreamTypes]
    BY <1>3, <1>4, <1>5
  <2> QED BY <1>5, <2>1
<1>7. \A i \in DOMAIN streams : streams'[i] = s
  BY <1>4
<1> QED BY <1>1, <1>3, <1>6, <1>7 DEF LinkTypes

LEMMA DaemonTyped == [workspaces |-> InitialNames, current |-> Head(InitialNames)] \in DaemonTypes
<1>1. InitialNames \in Seq(Names) /\ InitialNames # <<>>
  BY WorkspaceSyncAssumption
<1>2. Head(InitialNames) \in Names
  BY <1>1
<1> QED BY <1>1, <1>2 DEF DaemonTypes

LEMMA LinksStay ==
    ASSUME LinkTypes, UNCHANGED <<publisher, up, streams>>, daemon' \in DaemonTypes
    PROVE  LinkTypes'
  BY DEF LinkTypes

LEMMA StepLinks ==
    ASSUME Types, [Next]_syncVars
    PROVE  LinkTypes'
<1>1. World /\ LinkTypes /\ TableTypeOK /\ daemon \in DaemonTypes
  BY DEF Types, LinkTypes, World
<1>2. CASE \/ HandleWorkspace \/ HandleName \/ HandleState \/ HandleRemoved
           \/ Ends \/ Loops \/ WaylandFails
  <2>1. CASE HandleWorkspace \/ HandleName \/ HandleState \/ HandleRemoved \/ Ends
    BY <1>1, <2>1, ListenersStay, LinksStay
  <2>2. CASE \/ EndDispatch \/ ReadFifo \/ CarryOut \/ OpenFifo \/ Killed \/ Signal \/ WaylandFails
    <3>1. UNCHANGED <<publisher, up, daemon, streams>>
      BY <2>2 DEF EndDispatch, ReadFifo, CarryOut, OpenFifo, Killed, Signal, WaylandFails, linkVars
    <3> QED BY <1>1, <3>1, LinksStay
  <2>3. CASE OpenAtStartup \/ UpdateState
    <3>1. UNCHANGED <<up, daemon>> /\ (OpenPublisher \/ UNCHANGED <<streams, publisher>>)
      BY <2>3 DEF OpenAtStartup, UpdateState
    <3> QED BY <1>1, <3>1, OpensLinks, LinksStay
  <2>4. CASE PublishWorkspaces \/ PublishPager
    BY <1>1, <2>4, TopicLinks DEF PublishWorkspaces, PublishPager
  <2> QED BY <1>2, <2>1, <2>2, <2>3, <2>4 DEF Loops
<1>3. CASE Compositor
  BY <1>1, <1>3, ChangesStay, LinksStay
<1>4. CASE CompositorActivates \/ UNCHANGED syncVars \/ \E c \in Clients : SwitchEffect(c)
  <2>1. UNCHANGED <<publisher, up, daemon, streams>>
    BY <1>4 DEF CompositorActivates, SwitchEffect, linkVars, syncVars, vars, outsideVars
  <2> QED BY <1>1, <2>1, LinksStay
<1>5. CASE HandleFrame
  BY <1>1, <1>5, FrameLinks
<1>6. CASE DaemonStops
  BY <1>1, <1>6, StopsLinks
<1>7. CASE DaemonStarts
  <2>1. ~up /\ up' = TRUE /\ daemon' \in DaemonTypes /\ UNCHANGED <<publisher, streams>>
    BY <1>7, DaemonTyped DEF DaemonStarts
  <2> QED BY <1>1, <2>1 DEF LinkTypes
<1>8. ASSUME NEW c \in Clients, SwitchCommand(c) PROVE LinkTypes'
  <2>1. UNCHANGED <<publisher, up, streams>>
    BY <1>8 DEF SwitchCommand
  <2>2. PICK name \in Range(daemon.workspaces) : daemon' = [daemon EXCEPT !.current = name]
    BY <1>8 DEF SwitchCommand
  <2>3. name \in Names
    <3>1. daemon.workspaces \in Seq(Names)
      BY <1>1 DEF DaemonTypes
    <3>2. Range(daemon.workspaces) \subseteq Names
      BY <3>1, SeqIsList
    <3> QED BY <3>2
  <2>4. daemon' \in DaemonTypes
    BY <1>1, <2>2, <2>3 DEF DaemonTypes
  <2> QED BY <1>1, <2>1, <2>4, LinksStay
<1> QED BY <1>2, <1>3, <1>4, <1>5, <1>6, <1>7, <1>8, StepCases DEF Elsewhere, Daemon

-----------------------------------------------------------------------------
\* A listener that is called in the loop's poll begins the work of handle_wayland_ready.
LEMMA TakeLoop ==
    ASSUME NEW type, Take(type)
    PROVE  /\ pc \in {"roundtrip", "synced", "poll", "dispatch"} /\ pc # "carry"
           /\ Dispatching \in {"roundtrip", "synced", "dispatch"}
  BY DEF Take, Dispatching

LoopStays == UNCHANGED <<dirty, running, reading, lines, pc, resume>>

LEMMA LoopUnmoved == ASSUME LoopTypes, LoopStays PROVE LoopTypes'
  BY DEF LoopTypes, ControlTypeOK, LoopStays

\* A step of the program to another place.
LEMMA LoopMoves ==
    ASSUME LoopTypes, pc # "carry", UNCHANGED lines,
           {dirty, running, reading}' \subseteq BOOLEAN,
           pc' \in {"roundtrip", "synced", "open", "update", "workspaces", "pager", "poll",
                    "dispatch", "over"},
           resume' \in {"none", "roundtrip", "synced", "dispatch", "loop"},
           pc' \in {"update", "workspaces", "pager"} => resume' # "none",
           pc' = "poll" => running'
    PROVE  LoopTypes'
  BY DEF LoopTypes, ControlTypeOK

LEMMA ListenersLoop ==
    ASSUME World, LoopTypes, HandleWorkspace \/ HandleName \/ HandleState \/ HandleRemoved \/ Ends
    PROVE  LoopTypes'
<1>1. /\ {dirty, running, reading} \subseteq BOOLEAN
      /\ resume \in {"none", "roundtrip", "synced", "dispatch", "loop"}
  BY DEF LoopTypes, ControlTypeOK
<1>2. ASSUME NEW type, Take(type), pc' = Dispatching, UNCHANGED <<reading, resume, lines>>,
             dirty' \in BOOLEAN, running' \in BOOLEAN
      PROVE  LoopTypes'
  BY <1>1, <1>2, TakeLoop, LoopMoves
<1>3. CASE HandleWorkspace
  <2>1. /\ Take("workspace") /\ pc' = Dispatching /\ UNCHANGED <<running, reading, lines, resume>>
        /\ dirty' = dirty
    BY <1>3 DEF HandleWorkspace, outsideVars, fifoVars
  <2> QED BY <1>1, <1>2, <2>1
<1>4. CASE HandleName
  <2>1. /\ Take("name") /\ pc' = Dispatching /\ UNCHANGED <<running, reading, lines, resume>>
        /\ dirty' = dirty \/ dirty' = TRUE
    BY <1>4 DEF HandleName, outsideVars, fifoVars
  <2> QED BY <1>1, <1>2, <2>1
<1>5. CASE HandleState
  <2>1. /\ Take("state") /\ pc' = Dispatching /\ UNCHANGED <<running, reading, lines, resume>>
        /\ dirty' = dirty \/ dirty' = TRUE
    BY <1>5 DEF HandleState, outsideVars, fifoVars
  <2> QED BY <1>1, <1>2, <2>1
<1>6. CASE HandleRemoved
  <2>1. /\ Take("removed") /\ pc' = Dispatching /\ UNCHANGED <<running, reading, lines, resume>>
        /\ dirty' = dirty \/ dirty' = TRUE
    BY <1>6 DEF HandleRemoved, RemoveWorkspace, outsideVars, fifoVars
  <2> QED BY <1>1, <1>2, <2>1
<1>7. CASE HandleDone
  <2>1. /\ Take("done") /\ UNCHANGED <<dirty, running, reading, lines>>
        /\ \/ pc' = "update" /\ resume' = Dispatching
           \/ pc' = Dispatching /\ UNCHANGED resume
    BY <1>7 DEF HandleDone, outsideVars, fifoVars, tableVars
  <2> QED BY <1>1, <2>1, TakeLoop, LoopMoves
<1>8. CASE HandleSync
  <2>1. Take("sync") /\ pc' = "synced" /\ UNCHANGED <<dirty, running, reading, lines, resume>>
    BY <1>8 DEF HandleSync, outsideVars, fifoVars
  <2> QED BY <1>1, <2>1, TakeLoop, LoopMoves
<1>9. CASE HandleFinished
  <2>1. /\ Take("finished") /\ pc' = Dispatching /\ running' = FALSE
        /\ UNCHANGED <<dirty, reading, lines, resume>>
    BY <1>9 DEF HandleFinished, fifoVars
  <2> QED BY <1>1, <1>2, <2>1
<1> QED BY <1>3, <1>4, <1>5, <1>6, <1>7, <1>8, <1>9 DEF Ends

LEMMA LoopsLoop ==
    ASSUME QueueTypes, LoopTypes, Loops \/ WaylandFails
    PROVE  LoopTypes'
<1>1. /\ {dirty, running, reading} \subseteq BOOLEAN
      /\ pc \in {"roundtrip", "synced", "open", "update", "workspaces", "pager", "poll",
                 "carry", "dispatch", "over"}
      /\ resume \in {"none", "roundtrip", "synced", "dispatch", "loop"}
      /\ pc \in {"update", "workspaces", "pager"} => resume # "none"
      /\ pc \in {"poll", "carry"} => running
      /\ pc = "carry" <=> lines # <<>>
  BY DEF LoopTypes, ControlTypeOK
<1>2. ASSUME Loop
      PROVE  /\ reading' \in BOOLEAN /\ pc' \in {"poll", "over"} /\ (pc' = "poll" => running)
  BY <1>1, <1>2 DEF Loop
<1>3. CASE EndDispatch
  <2>1. /\ pc = "dispatch" /\ UNCHANGED <<lines, dirty, running>>
        /\ \/ pc' = "update" /\ resume' = "loop" /\ UNCHANGED reading
           \/ Loop /\ UNCHANGED resume
    BY <1>3 DEF EndDispatch
  <2> QED BY <1>1, <1>2, <2>1, LoopMoves
<1>4. CASE OpenFifo \/ OpenAtStartup \/ UpdateState
  <2>1. /\ pc \in {"synced", "open", "update"} /\ UNCHANGED <<lines, dirty, running>>
        /\ \/ pc' = "open" /\ UNCHANGED resume
           \/ pc' = "update" /\ resume' = "loop"
           \/ pc = "update" /\ pc' = "workspaces" /\ UNCHANGED resume
        /\ reading' \in {TRUE, FALSE, reading}
    BY <1>4 DEF OpenFifo, OpenAtStartup, UpdateState, fifoVars
  <2> QED BY <1>1, <2>1, LoopMoves
<1>5. CASE PublishWorkspaces
  <2>1. /\ pc = "workspaces" /\ pc' = "pager" /\ UNCHANGED <<lines, dirty, running, reading, resume>>
    BY <1>5 DEF PublishWorkspaces, PublishTopic
  <2> QED BY <1>1, <2>1, LoopMoves
<1>6. CASE PublishPager
  <2>1. /\ pc = "pager" /\ UNCHANGED <<lines, running>> /\ dirty' = FALSE /\ resume' = "none"
        /\ \/ Loop
           \/ resume # "loop" /\ pc' = resume /\ UNCHANGED reading
    BY <1>6 DEF PublishPager, PublishTopic
  <2> QED BY <1>1, <1>2, <2>1, LoopMoves
<1>7. CASE Killed \/ Signal \/ WaylandFails
  <2>1. pc # "carry" /\ UNCHANGED <<lines, dirty, resume>>
    BY <1>7 DEF Killed, Signal, WaylandFails
  <2>2. \/ pc' = "over" /\ reading' = FALSE /\ UNCHANGED running
        \/ pc = "dispatch" /\ running' = FALSE /\ UNCHANGED <<pc, reading>>
    BY <1>7 DEF Killed, Signal, WaylandFails
  <2> QED BY <1>1, <2>1, <2>2, LoopMoves
<1>8. ASSUME pc' \in {"poll", "carry"}, pc \in {"poll", "carry"}, pc' = "carry" <=> lines' # <<>>,
             UNCHANGED <<dirty, running, reading, resume>>
      PROVE  LoopTypes'
  BY <1>1, <1>8 DEF LoopTypes, ControlTypeOK
<1>9. CASE CarryOut
  <2>1. /\ pc = "carry" /\ pc' = IF lines' = <<>> THEN "poll" ELSE "carry"
        /\ UNCHANGED <<dirty, running, reading, resume>>
    BY <1>9 DEF CarryOut
  <2>2. PICK empty : empty = <<>>
    OBVIOUS
  <2>3. /\ pc \in {"poll", "carry"} /\ pc' \in {"poll", "carry"}
        /\ pc' = "carry" <=> lines' # empty
        /\ UNCHANGED <<dirty, running, reading, resume>>
    BY <2>1, <2>2
  <2> QED BY <1>8, <2>2, <2>3
<1>10. CASE ReadFifo
  <2>1. /\ pc = "poll" /\ pc' = "carry" /\ UNCHANGED <<dirty, running, reading, resume>>
    BY <1>10 DEF ReadFifo
  <2>2. lines' # <<>>
    BY <1>10, ReadTyped
  <2> QED BY <1>8, <2>1, <2>2
<1> QED BY <1>3, <1>4, <1>5, <1>6, <1>7, <1>9, <1>10 DEF Loops

LEMMA StepLoop ==
    ASSUME Types, [Next]_syncVars
    PROVE  LoopTypes'
<1>1. World /\ QueueTypes /\ LoopTypes
  BY DEF Types
<1>2. CASE HandleWorkspace \/ HandleName \/ HandleState \/ HandleRemoved \/ Ends
  BY <1>1, <1>2, ListenersLoop
<1>3. CASE Loops \/ WaylandFails
  BY <1>1, <1>3, LoopsLoop
<1>4. CASE Compositor
  <2>1. CompositorChange
    BY <1>4, ChangesStay
  <2>2. LoopStays
    BY <2>1 DEF CompositorChange, fifoVars, LoopStays
  <2> QED BY <1>1, <2>2, LoopUnmoved
<1>5. CASE CompositorActivates \/ Elsewhere
  <2>1. ASSUME NEW c \in Clients, SwitchEffect(c) \/ SwitchCommand(c) PROVE LoopStays
    BY <2>1 DEF SwitchEffect, SwitchCommand, fifoVars, LoopStays
  <2>2. ASSUME CompositorActivates \/ HandleFrame \/ DaemonStops \/ DaemonStarts \/ UNCHANGED syncVars
        PROVE  LoopStays
    BY <2>2 DEF CompositorActivates, HandleFrame, DaemonStops, DaemonStarts, fifoVars, LoopStays,
                syncVars, vars, outsideVars
  <2> QED BY <1>1, <1>5, <2>1, <2>2, LoopUnmoved DEF Elsewhere, Daemon
<1> QED BY <1>2, <1>3, <1>4, <1>5, StepCases

-----------------------------------------------------------------------------
LEMMA InitTypes == Init => Types
<1> SUFFICES ASSUME Init PROVE Types
  OBVIOUS
<1>1. World
  BY InitWorld
<1>2. QueueTypes
  <2>1. requests = <<>> /\ fifo = <<>> /\ lines = <<>> /\ pending = [c \in Clients |-> ""]
    BY DEF Init, PagerdInit
  <2>2. pending \in [Clients -> Strings]
    BY <2>1 DEF Strings
  <2>3. FifoCapacity \in Nat
    BY WorkspaceSyncAssumption
  <2>4. requests \in Seq(Handles) /\ fifo \in Seq(Strings) /\ lines \in Seq(Strings)
    <3>1. \A S : <<>> \in Seq(S)
      BY EmptySeq
    <3> QED BY <2>1, <3>1
  <2>5. Len(fifo) <= FifoCapacity
    <3>1. Len(fifo) = 0
      <4>1. Len(<<>>) = 0
        BY EmptySeq
      <4> QED BY <2>1, <4>1
    <3> QED BY <2>3, <3>1
  <2> QED BY <2>2, <2>4, <2>5 DEF QueueTypes
<1>3. LinkTypes
  <2>1. streams = <<>> /\ publisher = 0 /\ up = TRUE /\ daemon \in DaemonTypes
    BY DaemonTyped DEF Init, PagerdInit
  <2>2. streams \in Seq(StreamTypes) /\ publisher = Len(streams) /\ DOMAIN streams = {}
    BY <2>1
  <2> QED BY <2>1, <2>2 DEF LinkTypes
<1>4. LoopTypes
  BY DEF Init, PagerdInit, LoopTypes, ControlTypeOK
<1> QED BY <1>1, <1>2, <1>3, <1>4 DEF Types

LEMMA StepTypes == Types /\ [Next]_syncVars => Types'
<1> SUFFICES ASSUME Types, [Next]_syncVars PROVE Types'
  OBVIOUS
<1>1. World'
  BY StepWorld DEF Types
<1> QED BY <1>1, StepQueues, StepLinks, StepLoop DEF Types

LEMMA TypesFollow == Types => TypeOK
<1> SUFFICES ASSUME Types PROVE TypeOK
  OBVIOUS
<1>1. World /\ QueueTypes /\ LinkTypes /\ LoopTypes
  BY DEF Types
<1>2. TableTypeOK /\ ControlTypeOK
  BY <1>1 DEF World, LoopTypes
<1>3. events \in Seq(EventTypes)
  <2>1. events \in Seq(Sent) /\ Sent \subseteq EventTypes
    BY <1>1 DEF World, Sent
  <2> QED BY <2>1
<1>4. daemon \in [workspaces: Seq(Names), current: Names]
  BY <1>1 DEF LinkTypes, DaemonTypes
<1>5. streams \in Seq(StreamTypes) /\ publisher \in 0..Len(streams) /\ up \in BOOLEAN
  <2>1. streams \in Seq(StreamTypes) /\ publisher = Len(streams) /\ up \in BOOLEAN
    BY <1>1 DEF LinkTypes
  <2>2. Len(streams) \in Nat
    BY <2>1
  <2> QED BY <2>1, <2>2
<1>6. InterfaceTypeOK
  BY <1>1, <1>3, <1>4, <1>5 DEF InterfaceTypeOK, QueueTypes
<1>7. /\ order \in Seq(Handles) /\ nameOf \in [Handles -> Strings] /\ active \in Range(order)
      /\ \A i, j \in 1..count : slots[i].handle = slots[j].handle => i = j
  BY <1>1 DEF World, DesktopOK, InUse, Existing
<1> QED BY <1>2, <1>6, <1>7 DEF TypeOK

\* The queues, the streams, the table and the loop keep their types, and no workspace is
\* twice in the table: the listeners, which are called for whatever slot a workspace had
\* when it was announced (nscde_pagerd.c), never leave it.
THEOREM WorkspaceTypesHold == Spec => []TypeOK
<1>1. Spec => []Types
  BY InitTypes, StepTypes, PTL DEF Spec
<1> QED BY <1>1, TypesFollow, PTL
-----------------------------------------------------------------------------
(* While nothing has gone wrong, the table and the events lead to the compositor's list *)

Sound == running /\ pc # "over" /\ excuses \cap {"full", "slots"} = {}

\* A workspace that exists is in the table or announced; one that does not will be removed.
Membership(h) ==
    /\ h \in Existing => InTable(h) \/ Coming(h)
    /\ (InTable(h) \/ Coming(h)) /\ h \notin Existing => Meets(events, Of("removed", h))
    /\ Meets(events, Of("removed", h)) => h \notin Existing

Precedes(g, h) == \A i, j \in 1..count : slots[i].handle = g /\ slots[j].handle = h => i < j

InOrder(g, h) ==
    Before(g, h) => /\ Precedes(g, h) /\ (InTable(h) => ~Coming(g))
                    /\ AllBefore(events, Of("workspace", g), Of("workspace", h))

\* The last name on its way is the workspace's, and one is on its way if the slot has another.
NameComes(h) ==
    h \in Existing =>
        /\ EndsIn(events, Of("name", h), Told(h))
        /\ \A i \in 1..count : slots[i].handle = h /\ slots[i].name # nameOf[h]
                               => Meets(events, Of("name", h))

StateComes(h) ==
    h \in Existing =>
        /\ EndsIn(events, Of("state", h), Seen(h))
        /\ \A i \in 1..count : slots[i].handle = h /\ ~(slots[i].active <=> h = active)
                               => Meets(events, Of("state", h))

\* A workspace has its name before a state of it arrives.
NamedFirst(h) ==
    (Coming(h) \/ \E i \in 1..count : slots[i].handle = h /\ slots[i].name = "")
    => Led(events, Of("name", h), Of("state", h))

Agreement ==
    /\ \A h \in Handles : Membership(h) /\ NameComes(h) /\ StateComes(h) /\ NamedFirst(h)
    /\ \A g, h \in Handles : InOrder(g, h)

\* What a listener makes of the oldest event in the slot of the workspace it is about.
Handled ==
    LET e == Head(events)
    IN  /\ events # <<>> /\ events' = Tail(events) /\ UNCHANGED compositorVars
        /\ \A i \in 1..count' :
              \/ e \in Of("workspace", slots'[i].handle)
              \/ \E k \in 1..count :
                    LET h == slots[k].handle
                    IN  /\ slots'[i].handle = h
                        /\ slots'[i].name = IF e \in Of("name", h) THEN e.name ELSE slots[k].name
                        /\ slots'[i].active = IF e \in Of("state", h) THEN e.active
                                              ELSE slots[k].active
        /\ \A h \in Handles :
              /\ InTable(h) /\ e \notin Of("removed", h) => InTable(h)'
              /\ e \in Of("workspace", h) => InTable(h)'
              /\ e \in Of("removed", h) => ~InTable(h)'
        /\ \A g, h \in Handles :
              Precedes(g, h) /\ g # h /\ (e \in Of("workspace", g) => ~InTable(h)) => Precedes(g, h)'

LEMMA HandledAgrees ==
    ASSUME World, Agreement, Handled
    PROVE  Agreement'
<1>a. PICK e : e = Head(events)
  OBVIOUS
<1>b. PICK t : t = Tail(events)
  OBVIOUS
<1>1. /\ events' = t /\ UNCHANGED <<order, nameOf, active>> /\ Existing' = Existing
      /\ \A g, h : Before(g, h)' <=> Before(g, h)
  BY <1>b DEF Handled, compositorVars, Existing, Before
<1>2. /\ \A T : Meets(events, T) <=> e \in T \/ Meets(t, T)
      /\ \A T, G : EndsIn(events, T, G) => EndsIn(t, T, G) /\ (e \in T \ G => Meets(t, T))
      /\ \A T, U : AllBefore(events, T, U) => AllBefore(t, T, U) /\ (e \in U => ~Meets(t, T))
      /\ \A T, A : FirstIn(events, T, A) => (e \in A => ~Meets(t, T))
  <2>1. events \in Seq(Sent) /\ events # <<>>
    BY DEF World, Handled
  <2> QED BY <1>a, <1>b, <2>1, QueueTaken
<1>3. \A i \in 1..count' :
         \/ e \in Of("workspace", slots'[i].handle)
         \/ \E k \in 1..count :
               /\ slots'[i].handle = slots[k].handle
               /\ slots'[i].name = IF e \in Of("name", slots[k].handle) THEN e.name ELSE slots[k].name
               /\ slots'[i].active = IF e \in Of("state", slots[k].handle) THEN e.active
                                        ELSE slots[k].active
  BY <1>a DEF Handled
<1>4. ASSUME NEW h \in Handles
      PROVE  /\ InTable(h) /\ e \notin Of("removed", h) => InTable(h)'
             /\ e \in Of("workspace", h) => InTable(h)'
             /\ e \in Of("removed", h) => ~InTable(h)'
             /\ InTable(h)' => InTable(h) \/ e \in Of("workspace", h)
  <2>1. InTable(h)' => InTable(h) \/ e \in Of("workspace", h)
    BY <1>3 DEF InTable
  <2> QED BY <1>a, <2>1 DEF Handled
<1>5. ASSUME NEW h \in Handles
      PROVE  /\ FirstIn(events, Of("workspace", h), About(h))
             /\ Coming(h) => Meets(events, Of("name", h)) /\ Meets(events, Of("state", h))
  BY DEF World, Announced
<1>6. \A h : Coming(h)' <=> Meets(t, Of("workspace", h))
  BY <1>1 DEF Coming, Meets, Of
<1>7. ASSUME NEW h \in Handles PROVE Membership(h)'
  <2>1. Membership(h)
    BY DEF Agreement
  <2>2. h \in Existing => InTable(h)' \/ Meets(t, Of("workspace", h))
    BY <1>2, <1>4, <2>1 DEF Membership, Coming
  <2>3. ASSUME InTable(h)' \/ Meets(t, Of("workspace", h)), h \notin Existing
        PROVE  Meets(t, Of("removed", h))
    <3>1. InTable(h) \/ Coming(h)
      BY <1>2, <1>4, <2>3 DEF Coming
    <3>2. Meets(events, Of("removed", h))
      BY <2>1, <2>3, <3>1 DEF Membership
    <3>3. e \notin Of("removed", h)
      BY <1>2, <1>4, <1>5, <2>3, KindFacts
    <3> QED BY <1>2, <3>2, <3>3
  <2>4. Meets(t, Of("removed", h)) => h \notin Existing
    BY <1>2, <2>1 DEF Membership
  <2> QED BY <1>1, <1>6, <2>2, <2>3, <2>4 DEF Membership, Meets, Of
<1>8. ASSUME NEW h \in Handles PROVE NameComes(h)'
  <2> SUFFICES ASSUME h \in Existing
               PROVE  /\ EndsIn(t, Of("name", h), Told(h))
                      /\ \A i \in 1..count' : slots'[i].handle = h /\ slots'[i].name # nameOf[h]
                                              => Meets(t, Of("name", h))
    BY <1>1 DEF NameComes, Told, Meets, EndsIn, Of
  <2>1. /\ EndsIn(events, Of("name", h), Told(h))
        /\ \A i \in 1..count : slots[i].handle = h /\ slots[i].name # nameOf[h]
                               => Meets(events, Of("name", h))
    BY DEF Agreement, NameComes
  <2>2. ASSUME NEW i \in 1..count', slots'[i].handle = h, slots'[i].name # nameOf[h]
        PROVE  Meets(t, Of("name", h))
    <3>1. CASE e \in Of("workspace", h)
      <4>1. Meets(events, Of("name", h))
        BY <1>2, <1>5, <3>1 DEF Coming
      <4>2. e \notin Of("name", h)
        BY <3>1 DEF Of
      <4> QED BY <1>2, <4>1, <4>2
    <3>2. CASE e \notin Of("workspace", h)
      <4>1. PICK k \in 1..count :
               /\ slots[k].handle = h
               /\ slots'[i].name = IF e \in Of("name", h) THEN e.name ELSE slots[k].name
        BY <1>3, <2>2, <3>2
      <4>2. CASE e \in Of("name", h)
        <5>1. e \notin Told(h)
          BY <2>2, <4>1, <4>2 DEF Told
        <5> QED BY <1>2, <2>1, <4>2, <5>1
      <4>3. CASE e \notin Of("name", h)
        BY <1>2, <2>1, <2>2, <4>1, <4>3
      <4> QED BY <4>2, <4>3
    <3> QED BY <3>1, <3>2
  <2> QED BY <1>2, <2>1, <2>2
<1>9. ASSUME NEW h \in Handles PROVE StateComes(h)'
  <2> SUFFICES ASSUME h \in Existing
               PROVE  /\ EndsIn(t, Of("state", h), Seen(h))
                      /\ \A i \in 1..count' : slots'[i].handle = h /\ ~(slots'[i].active <=> h = active)
                                              => Meets(t, Of("state", h))
    BY <1>1 DEF StateComes, Seen, Meets, EndsIn, Of
  <2>1. /\ EndsIn(events, Of("state", h), Seen(h))
        /\ \A i \in 1..count : slots[i].handle = h /\ ~(slots[i].active <=> h = active)
                               => Meets(events, Of("state", h))
    BY DEF Agreement, StateComes
  <2>2. ASSUME NEW i \in 1..count', slots'[i].handle = h, ~(slots'[i].active <=> h = active)
        PROVE  Meets(t, Of("state", h))
    <3>1. CASE e \in Of("workspace", h)
      <4>1. Meets(events, Of("state", h))
        BY <1>2, <1>5, <3>1 DEF Coming
      <4>2. e \notin Of("state", h)
        BY <3>1 DEF Of
      <4> QED BY <1>2, <4>1, <4>2
    <3>2. CASE e \notin Of("workspace", h)
      <4>1. PICK k \in 1..count :
               /\ slots[k].handle = h
               /\ slots'[i].active = IF e \in Of("state", h) THEN e.active ELSE slots[k].active
        BY <1>3, <2>2, <3>2
      <4>2. CASE e \in Of("state", h)
        <5>1. slots'[i].active = e.active
          BY <4>1, <4>2
        <5>2. e \notin Seen(h)
          BY <2>2, <5>1 DEF Seen
        <5> QED BY <1>2, <2>1, <4>2, <5>2
      <4>3. CASE e \notin Of("state", h)
        <5>1. slots'[i].active = slots[k].active
          BY <4>1, <4>3
        <5> QED BY <1>2, <2>1, <2>2, <4>1, <4>3, <5>1
      <4> QED BY <4>2, <4>3
    <3> QED BY <3>1, <3>2
  <2> QED BY <1>2, <2>1, <2>2
<1>10. ASSUME NEW g \in Handles, NEW h \in Handles PROVE InOrder(g, h)'
  <2> SUFFICES ASSUME Before(g, h)
               PROVE  /\ Precedes(g, h)' /\ (InTable(h)' => ~Meets(t, Of("workspace", g)))
                      /\ AllBefore(t, Of("workspace", g), Of("workspace", h))
    BY <1>1, <1>6 DEF InOrder, AllBefore, Of
  <2>1. /\ Precedes(g, h) /\ (InTable(h) => ~Coming(g))
        /\ AllBefore(events, Of("workspace", g), Of("workspace", h))
    BY DEF Agreement, InOrder
  <2>2. g # h
    BY DEF Before, World, DesktopOK, IsInjective
  <2>3. e \in Of("workspace", g) => ~InTable(h)
    BY <1>2, <2>1 DEF Coming
  <2>4. Precedes(g, h)'
    BY <1>a, <2>1, <2>2, <2>3 DEF Handled
  <2>5. InTable(h)' => ~Meets(t, Of("workspace", g))
    BY <1>2, <1>4, <2>1 DEF Coming
  <2> QED BY <1>2, <2>1, <2>4, <2>5
<1>11. ASSUME NEW h \in Handles PROVE NamedFirst(h)'
  <2> DEFINE empty == ""
  <2> SUFFICES ASSUME Meets(t, Of("workspace", h))
                      \/ \E i \in 1..count' : slots'[i].handle = h /\ slots'[i].name = empty
               PROVE  Led(t, Of("name", h), Of("state", h))
    BY <1>1, <1>6 DEF NamedFirst, Led, Of
  <2>1. NamedFirst(h) /\ empty \notin Names
    BY PagerdAssumption DEF Agreement
  <2>2. (Coming(h) \/ \E k \in 1..count : slots[k].handle = h /\ slots[k].name = empty)
        => Led(events, Of("name", h), Of("state", h))
    BY <2>1 DEF NamedFirst
  <2> HIDE DEF empty
  <2>3. e \notin Of("name", h) /\ Led(events, Of("name", h), Of("state", h))
    <3>1. CASE Meets(t, Of("workspace", h))
      <4>1. Coming(h) /\ e \notin About(h)
        BY <1>2, <1>5, <3>1 DEF Coming
      <4> QED BY <2>2, <4>1, KindFacts
    <3>2. ASSUME NEW i \in 1..count', slots'[i].handle = h, slots'[i].name = empty,
                 e \in Of("workspace", h)
          PROVE  Coming(h) /\ e \notin Of("name", h)
      BY <1>2, <3>2 DEF Coming, Of
    <3>3. ASSUME NEW i \in 1..count', slots'[i].handle = h, slots'[i].name = empty,
                 e \notin Of("workspace", h)
          PROVE  /\ e \notin Of("name", h)
                 /\ \E k \in 1..count : slots[k].handle = h /\ slots[k].name = empty
      <4>1. PICK k \in 1..count :
               /\ slots[k].handle = h
               /\ slots'[i].name = IF e \in Of("name", h) THEN e.name ELSE slots[k].name
        BY <1>3, <3>3
      <4>2. e \in Of("name", h) => e.name \in Names
        <5>1. e \in Sent
          BY <1>a, QueueTaken DEF World, Handled
        <5> QED BY <5>1 DEF Sent, Of
      <4> QED BY <2>1, <3>3, <4>1, <4>2
    <3> QED BY <2>2, <3>1, <3>2, <3>3
  <2>4. Led(events, Of("name", h), Of("state", h)) /\ e \notin Of("name", h)
        => Led(t, Of("name", h), Of("state", h))
    <3>1. events \in Seq(Sent) /\ events # <<>>
      BY DEF World, Handled
    <3>2. \A T, U : Led(events, T, U) => (e \notin T => Led(t, T, U))
      BY <1>a, <1>b, <3>1, LedTaken
    <3> QED BY <3>2
  <2> QED BY <2>3, <2>4
<1> QED BY <1>7, <1>8, <1>9, <1>10, <1>11 DEF Agreement

-----------------------------------------------------------------------------
(* What the compositor changes, it reports *)

Activations == {e \in EventTypes : e.type = "state" /\ e.active}

CurrentShown ==
    \E i \in 1..count :
        /\ slots[i].handle = active /\ slots[i].active /\ slots[i].name # ""
        /\ "renamed" \notin excuses => current = slots[i].name

\* The last activation on its way is the active workspace's; with none on its way its name
\* is the current one.
CurrentComes ==
    /\ EndsIn(events, Activations, About(active))
    /\ ~Meets(events, Activations) => CurrentShown

LEMMA ChangeAgrees ==
    ASSUME World, Agreement, NEW r, Change(r)
    PROVE  Agreement'
<1>1. /\ events \in Seq(Sent) /\ r \in Seq(Sent) /\ events' = events \o r
      /\ UNCHANGED tableVars /\ DesktopOK'
  BY DEF World, Change
<1>2. /\ \A T : Meets(events', T) <=> Meets(events, T) \/ Meets(r, T)
      /\ \A T, G, H : EndsIn(events, T, G) /\ ~Meets(r, T \ H) /\ (Meets(r, T) \/ G \subseteq H)
                      => EndsIn(events', T, H)
      /\ \A T, U : AllBefore(events, T, U) /\ ~Meets(r, T) => AllBefore(events', T, U)
  BY <1>1, QueueGrown
<1>3. /\ UNCHANGED <<slots, count>> /\ \A h : InTable(h)' <=> InTable(h)
      /\ \A g, h : Precedes(g, h)' <=> Precedes(g, h)
  BY <1>1 DEF InTable, Precedes, tableVars
<1>4. ASSUME NEW h \in Handles PROVE Coming(h)' <=> Meets(events', Of("workspace", h))
  BY DEF Coming, Meets, Of
<1>5. ASSUME NEW h \in Handles, nameOf[h] = ""
      PROVE  ~InTable(h) /\ ~Meets(events, About(h)) /\ \A t : ~Meets(events, Of(t, h))
  <2>1. ~InTable(h) /\ ~Meets(events, About(h))
    BY <1>5 DEF World, Announced
  <2> QED BY <2>1 DEF Meets, Of, About
<1>6. ASSUME NEW h \in Handles PROVE Reported(r, h)
  BY DEF Change
<1>7. ASSUME NEW h \in Handles PROVE Membership(h)'
  <2>1. Membership(h)
    BY DEF Agreement
  <2>2. h \in Existing' => InTable(h) \/ Meets(events', Of("workspace", h))
    BY <1>2, <1>6, <2>1 DEF Membership, Coming, Reported
  <2>3. ASSUME InTable(h) \/ Meets(events', Of("workspace", h)), h \notin Existing'
        PROVE  Meets(events', Of("removed", h))
    BY <1>2, <1>6, <2>1, <2>3 DEF Membership, Coming, Reported
  <2>4. Meets(events', Of("removed", h)) => h \notin Existing'
    BY <1>2, <1>5, <1>6, <2>1 DEF Membership, Reported
  <2> QED BY <1>3, <1>4, <2>2, <2>3, <2>4 DEF Membership, Meets, Of
<1>8. ASSUME NEW h \in Handles PROVE NameComes(h)'
  <2> DEFINE T == Of("name", h)
             G == Told(h)
             H == Told(h)'
  <2> SUFFICES ASSUME h \in Existing'
               PROVE  /\ EndsIn(events', T, H)
                      /\ \A i \in 1..count : slots[i].handle = h /\ slots[i].name # nameOf'[h]
                                             => Meets(events', T)
    BY <1>3 DEF NameComes, Told, Meets, EndsIn, Of
  <2>1. h \in Existing => /\ EndsIn(events, T, G)
                          /\ \A i \in 1..count : slots[i].handle = h /\ slots[i].name # nameOf[h]
                                                 => Meets(events, T)
    BY DEF Agreement, NameComes
  <2>2. /\ ~Meets(r, T \ H) /\ (nameOf'[h] # nameOf[h] => Meets(r, T))
        /\ h \notin Existing => nameOf[h] = "" /\ Meets(r, T)
    BY <1>6 DEF Reported
  <2>3. nameOf'[h] = nameOf[h] => G \subseteq H
    BY DEF Told, Of
  <2>4. ASSUME h \notin Existing PROVE EndsIn(events, T, G)
    BY <1>5, <2>2, <2>4 DEF EndsIn, Meets
  <2> HIDE DEF T, G, H
  <2>5. EndsIn(events', T, H)
    BY <1>2, <2>1, <2>2, <2>3, <2>4
  <2>6. ASSUME NEW i \in 1..count, slots[i].handle = h, slots[i].name # nameOf'[h]
        PROVE  Meets(events', T)
    BY <1>2, <2>1, <2>2, <2>6
  <2> QED BY <2>5, <2>6
<1>9. ASSUME NEW h \in Handles PROVE StateComes(h)'
  <2> DEFINE T == Of("state", h)
             G == Seen(h)
             H == Seen(h)'
  <2> SUFFICES ASSUME h \in Existing'
               PROVE  /\ EndsIn(events', T, H)
                      /\ \A i \in 1..count : slots[i].handle = h /\ ~(slots[i].active <=> h = active')
                                             => Meets(events', T)
    BY <1>3 DEF StateComes, Seen, Meets, EndsIn, Of
  <2>1. h \in Existing => /\ EndsIn(events, T, G)
                          /\ \A i \in 1..count : slots[i].handle = h /\ ~(slots[i].active <=> h = active)
                                                 => Meets(events, T)
    BY DEF Agreement, StateComes
  <2>2. /\ ~Meets(r, T \ H) /\ (~((h = active') <=> (h = active)) => Meets(r, T))
        /\ h \notin Existing => nameOf[h] = "" /\ Meets(r, T)
    BY <1>6 DEF Reported
  <2>3. ((h = active') <=> (h = active)) => G \subseteq H
    BY DEF Seen, Of
  <2>4. ASSUME h \notin Existing PROVE EndsIn(events, T, G)
    BY <1>5, <2>2, <2>4 DEF EndsIn, Meets
  <2> HIDE DEF T, G, H
  <2>5. EndsIn(events', T, H)
    BY <1>2, <2>1, <2>2, <2>3, <2>4
  <2>6. ASSUME NEW i \in 1..count, slots[i].handle = h, ~(slots[i].active <=> h = active')
        PROVE  Meets(events', T)
    BY <1>2, <2>1, <2>2, <2>6
  <2> QED BY <2>5, <2>6
<1>10. ASSUME NEW g \in Handles, NEW h \in Handles, Before(g, h)' PROVE InOrder(g, h)'
  <2>1. Before(g, h) \/ (g \in Existing /\ h \notin Existing)
    BY <1>10 DEF Change
  <2>2. Before(g, h)' => h \in Existing'
    BY DEF Before, Existing, Range
  <2>3. Before(g, h) => g \in Existing
    BY DEF Before, Existing, Range
  <2>4. ~Meets(r, Of("workspace", g))
    BY <1>6, <2>1, <2>3 DEF Reported
  <2>5. /\ Precedes(g, h) /\ (InTable(h) => ~Coming(g))
        /\ AllBefore(events, Of("workspace", g), Of("workspace", h))
    <3>1. CASE Before(g, h)
      BY <3>1 DEF Agreement, InOrder
    <3>2. CASE h \notin Existing
      <4>1. ~InTable(h) /\ ~Meets(events, Of("workspace", h))
        BY <1>5, <1>6, <1>10, <2>2, <3>2 DEF Reported
      <4>2. Precedes(g, h)
        BY <4>1 DEF Precedes, InTable
      <4>3. AllBefore(events, Of("workspace", g), Of("workspace", h))
        BY <4>1 DEF AllBefore, Meets
      <4> QED BY <4>1, <4>2, <4>3
    <3> QED BY <2>1, <3>1, <3>2
  <2>6. AllBefore(events', Of("workspace", g), Of("workspace", h))
    BY <1>2, <2>4, <2>5
  <2>7. InTable(h)' => ~Meets(events', Of("workspace", g))
    BY <1>2, <1>3, <2>4, <2>5 DEF Coming
  <2> QED BY <1>3, <1>4, <2>5, <2>6, <2>7 DEF InOrder, AllBefore, Of
<1>11. \A g, h \in Handles : InOrder(g, h)'
  BY <1>10 DEF InOrder
<1>12. \A T, U : Led(events, T, U) /\ (Meets(events, T) \/ Led(r, T, U)) => Led(events', T, U)
  BY <1>1, LedGrown
<1>13. ASSUME NEW h \in Handles PROVE NamedFirst(h)'
  <2> DEFINE empty == ""
             T == Of("name", h)
             U == Of("state", h)
  <2> SUFFICES ASSUME Meets(events', Of("workspace", h))
                      \/ \E i \in 1..count : slots[i].handle = h /\ slots[i].name = empty
               PROVE  Led(events', T, U)
    BY <1>3, <1>4 DEF NamedFirst, Led, Of
  <2>1. (Coming(h) \/ \E i \in 1..count : slots[i].handle = h /\ slots[i].name = empty)
        => Led(events, T, U)
    BY DEF Agreement, NamedFirst
  <2>2. \A q : (~Meets(q, U) \/ ~Meets(q, About(h))) => Led(q, T, U)
    BY DEF Led, Meets, Of, About
  <2>3. Reported(r, h) /\ Announced(h)
    BY <1>6 DEF World
  <2>4. Led(events, T, U) /\ (Meets(events, T) \/ Led(r, T, U))
    <3>1. CASE Coming(h)
      <4>1. Meets(events, T)
        BY <2>3, <3>1 DEF Announced
      <4> QED BY <2>1, <3>1, <4>1
    <3>2. CASE Meets(r, Of("workspace", h))
      <4>1. /\ nameOf[h] = "" /\ Led(r, T, U)
        BY <2>3, <3>2 DEF Reported
      <4>2. ~Meets(events, About(h))
        BY <1>5, <4>1
      <4> QED BY <2>2, <4>1, <4>2
    <3>3. ASSUME NEW i \in 1..count, slots[i].handle = h, slots[i].name = empty
          PROVE  Led(events, T, U) /\ (Meets(events, T) \/ Led(r, T, U))
      <4>1. Led(events, T, U)
        BY <2>1, <3>3
      <4>2. CASE h \in Existing
        <5>1. nameOf[h] # empty
          BY <4>2, ExistingNamed DEF World
        <5>2. NameComes(h)
          BY DEF Agreement
        <5> HIDE DEF empty
        <5> QED BY <3>3, <4>1, <4>2, <5>1, <5>2 DEF NameComes
      <4>3. CASE h \notin Existing
        <5>1. nameOf[h] # ""
          BY <1>5, <3>3 DEF InTable
        <5>2. ~Meets(r, About(h))
          BY <2>3, <4>3, <5>1 DEF Reported
        <5> QED BY <2>2, <4>1, <5>2
      <4> QED BY <4>2, <4>3
    <3>4. Meets(events', Of("workspace", h)) => Coming(h) \/ Meets(r, Of("workspace", h))
      BY <1>2 DEF Coming
    <3> QED BY <3>1, <3>2, <3>3, <3>4
  <2> QED BY <1>12, <2>4
<1> QED BY <1>7, <1>8, <1>9, <1>11, <1>13 DEF Agreement

\* A change of the active workspace is reported by an activation.
LEMMA ActiveReported ==
    ASSUME World, NEW r, Change(r), active' # active
    PROVE  Meets(r, Activations)
<1>1. PICK h \in Handles : h = active' /\ h # active /\ h \in Existing'
  BY DEF Change, DesktopOK, Existing, Range
<1>2. Reported(r, h)
  BY DEF Change
<1>3. Meets(r, Of("state", h))
  BY <1>1, <1>2 DEF Reported
<1>4. PICK j \in DOMAIN r : r[j] \in Of("state", h)
  BY <1>3 DEF Meets
<1>5. r[j] \in Seen(h)'
  BY <1>2, <1>4 DEF Reported, Meets
<1> QED BY <1>1, <1>4, <1>5 DEF Seen, Of, Activations, Meets

\* The last activation stays the active workspace's.
LEMMA ChangeActivates ==
    ASSUME World, CurrentComes, NEW r, Change(r), UNCHANGED excuses
    PROVE  CurrentComes'
<1>1. /\ events \in Seq(Sent) /\ r \in Seq(Sent) /\ events' = events \o r
      /\ UNCHANGED tableVars /\ DesktopOK'
  BY DEF World, Change
<1>2. /\ \A T : Meets(events', T) <=> Meets(events, T) \/ Meets(r, T)
      /\ \A T, G, H : EndsIn(events, T, G) /\ ~Meets(r, T \ H) /\ (Meets(r, T) \/ G \subseteq H)
                      => EndsIn(events', T, H)
  BY <1>1, QueueGrown
<1>3. active \in Handles /\ active' \in Handles /\ active' \in Existing'
  BY <1>1 DEF World, DesktopOK, Existing, Range
<1>4. ~Meets(r, Activations \ About(active'))
  <2> SUFFICES ASSUME NEW j \in DOMAIN r, r[j] \in Activations PROVE r[j].handle = active'
    BY DEF Meets, Activations, About
  <2>1. r[j] \in Sent
    BY <1>1
  <2>2. r[j].handle \in Handles /\ r[j] \in Of("state", r[j].handle)
    BY <2>1 DEF Sent, Activations, Of
  <2>3. r[j] \in Seen(r[j].handle)'
    BY <2>2 DEF Change, Reported, Meets
  <2> QED BY <2>3 DEF Seen, Activations
<1>5. active' # active => Meets(r, Activations)
  BY ActiveReported
<1>6. UNCHANGED <<slots, count, current>>
  BY <1>1 DEF tableVars
<1>7. EndsIn(events', Activations, About(active'))
  BY <1>2, <1>4, <1>5 DEF CurrentComes
<1>8. ~Meets(events', Activations) => CurrentShown'
  <2>1. CASE active' = active
    <3>1. CurrentShown => CurrentShown'
      BY <1>6, <2>1 DEF CurrentShown
    <3> QED BY <1>2, <3>1 DEF CurrentComes
  <2>2. CASE active' # active
    BY <1>2, <1>5, <2>2
  <2> QED BY <2>1, <2>2
<1> QED BY <1>7, <1>8 DEF CurrentComes, Activations, About, EndsIn, Meets

-----------------------------------------------------------------------------
(* The listeners *)

\* An event that concerns no slot leaves the table.
LEMMA HandledStill ==
    ASSUME World, events # <<>>, events' = Tail(events), UNCHANGED <<compositorVars, slots, count>>,
           \A h \in Handles :
               /\ Head(events) \notin Of("workspace", h)
               /\ \A type \in {"name", "state", "removed"} :
                     Head(events) \in Of(type, h) => ~InTable(h)
    PROVE  Handled
<1>1. PICK e : e = Head(events)
  OBVIOUS
<1>2. \A i \in 1..count : slots[i].handle \in Handles /\ InTable(slots[i].handle)
  BY DEF World, InUse, InTable
<1>3. \A h : InTable(h)' <=> InTable(h)
  BY DEF InTable
<1>4. \A g, h : Precedes(g, h)' <=> Precedes(g, h)
  BY DEF Precedes
<1>5. \A i \in 1..count : e \notin Of("name", slots[i].handle) /\ e \notin Of("state", slots[i].handle)
  BY <1>1, <1>2
<1>6. ASSUME NEW i \in 1..count'
      PROVE  \E k \in 1..count :
                LET h == slots[k].handle
                IN  /\ slots'[i].handle = h
                    /\ slots'[i].name = IF e \in Of("name", h) THEN e.name ELSE slots[k].name
                    /\ slots'[i].active = IF e \in Of("state", h) THEN e.active
                                             ELSE slots[k].active
  BY <1>5, <1>6
<1> QED BY <1>1, <1>3, <1>4, <1>6 DEF Handled
\* The current workspace follows the activations.
LEMMA TakeCurrent ==
    ASSUME World, CurrentComes, events # <<>>, events' = Tail(events), UNCHANGED compositorVars,
           Head(events) \in Activations \cap About(active) => CurrentShown',
           Head(events) \notin Activations /\ CurrentShown =>
               CurrentShown' \/ Meets(events, Activations)
    PROVE  CurrentComes'
<1>1. PICK e : e = Head(events)
  OBVIOUS
<1>2. /\ \A T : Meets(events, T) <=> e \in T \/ Meets(events', T)
      /\ \A T, G : EndsIn(events, T, G) => EndsIn(events', T, G) /\ (e \in T \ G => Meets(events', T))
  BY <1>1, QueueTaken DEF World
<1>3. active' = active
  BY DEF compositorVars
<1>4. EndsIn(events, Activations, About(active))
  BY DEF CurrentComes
<1>5. EndsIn(events', Activations, About(active))
  BY <1>2, <1>4
<1>6. Meets(events', Activations) \/ CurrentShown'
  <2>1. CASE e \in Activations
    BY <1>1, <1>2, <1>4, <2>1
  <2>2. CASE e \notin Activations
    BY <1>1, <1>2, <2>2 DEF CurrentComes
  <2> QED BY <2>1, <2>2
<1> QED BY <1>3, <1>5, <1>6 DEF CurrentComes, Activations, About, EndsIn, Meets

-----------------------------------------------------------------------------
\* Nothing of a workspace that has not been announced comes before its announcement.
LEMMA NotComing ==
    ASSUME World, events # <<>>, NEW h \in Handles, Head(events) \in About(h),
           Head(events) \notin Of("workspace", h)
    PROVE  ~Coming(h)
<1>1. FirstIn(events, Of("workspace", h), About(h))
  BY DEF World, Announced
<1> QED BY <1>1, QueueTaken DEF World, Coming
LEMMA WorkspaceHandled ==
    ASSUME World, CurrentComes, HandleWorkspace, UNCHANGED compositorVars, "full" \notin excuses'
    PROVE  Handled /\ CurrentComes'
<1> DEFINE e == Head(events)
           h == e.handle
<1>1. /\ Take("workspace") /\ AddWorkspace(h)
      /\ UNCHANGED current /\ events \in Seq(Sent) /\ TableTypeOK /\ InUse
  BY DEF HandleWorkspace, World
<1>2. events # <<>> /\ events' = Tail(events) /\ h \in Handles /\ e \in Of("workspace", h)
  <2>1. "workspace" \notin {"done", "sync", "finished"}
    OBVIOUS
  <2> QED BY <1>1, <2>1, TakeFacts
<1>3. ~InTable(h)
  BY <1>1, <1>2, QueueTaken DEF World, Announced, Coming
<1>4. \A g : /\ e \notin Of("name", g) /\ e \notin Of("state", g) /\ e \notin Of("removed", g)
             /\ e \in Of("workspace", g) => g = h
  BY <1>2 DEF Of
<1>5. e \notin Activations
  BY <1>2 DEF Of, Activations
<1> HIDE DEF h, e
<1>7. MaxSlots \in Nat /\ count \in 0..MaxSlots
  BY <1>1, PagerdAssumption DEF TableTypeOK
<1>8. count # MaxSlots
  BY <1>1 DEF AddWorkspace
<1>9. /\ count' = count + 1 /\ \A i \in 1..count : slots'[i] = slots[i]
      /\ slots'[count + 1] = NewSlot(h) /\ UNCHANGED excuses
  BY <1>1, <1>2, <1>8, AddShape
<1>10. NewSlot(h).handle = h
  BY DEF NewSlot
<1>11. \A i \in 1..count' : i \in 1..count \/ i = count + 1
  BY <1>7, <1>9
<1>12. \A i \in 1..count : i \in 1..count' /\ i < count + 1 /\ slots[i].handle # h
  BY <1>3, <1>7, <1>9 DEF InTable
<1>13. count + 1 \in 1..count'
  BY <1>7, <1>9
<1>14. ASSUME NEW i \in 1..count'
       PROVE  \/ e \in Of("workspace", slots'[i].handle)
              \/ \E k \in 1..count :
                    LET g == slots[k].handle
                    IN  /\ slots'[i].handle = g
                        /\ slots'[i].name = IF e \in Of("name", g) THEN e.name ELSE slots[k].name
                        /\ slots'[i].active = IF e \in Of("state", g) THEN e.active
                                                 ELSE slots[k].active
  <2>1. CASE i \in 1..count
    BY <1>4, <1>9, <2>1
  <2>2. CASE i = count + 1
    BY <1>2, <1>9, <1>10, <2>2
  <2> QED BY <1>11, <2>1, <2>2
<1>15. ASSUME NEW g \in Handles
       PROVE  /\ InTable(g) /\ e \notin Of("removed", g) => InTable(g)'
              /\ e \in Of("workspace", g) => InTable(g)'
              /\ e \in Of("removed", g) => ~InTable(g)'
  <2>1. InTable(g) => InTable(g)'
    BY <1>9, <1>12 DEF InTable
  <2>2. g = h => InTable(g)'
    BY <1>9, <1>10, <1>13 DEF InTable
  <2> QED BY <1>4, <2>1, <2>2
<1>16. ASSUME NEW f \in Handles, NEW g \in Handles, f # g, Precedes(f, g), e \in Of("workspace", f) => ~InTable(g)
       PROVE  Precedes(f, g)'
  <2> SUFFICES ASSUME NEW i \in 1..count', NEW j \in 1..count', slots'[i].handle = f, slots'[j].handle = g
               PROVE  i < j
    BY DEF Precedes
  <2>1. CASE i \in 1..count /\ j \in 1..count
    BY <1>9, <1>16, <2>1 DEF Precedes
  <2>2. CASE i \in 1..count /\ j = count + 1
    BY <1>12, <2>2
  <2>3. CASE i = count + 1
    <3>1. f = h
      BY <1>9, <1>10, <2>3
    <3>2. ~InTable(g) /\ g # h
      BY <1>2, <1>16, <3>1
    <3>3. j \in 1..count
      BY <1>9, <1>10, <1>11, <3>2
    <3> QED BY <1>9, <3>2, <3>3 DEF InTable
  <2> QED BY <1>11, <2>1, <2>2, <2>3
<1>17. Handled
  BY <1>2, <1>14, <1>15, <1>16 DEF Handled, e
<1>18. CurrentComes'
  <2>1. CurrentShown => CurrentShown'
    <3>1. active' = active
      BY DEF compositorVars
    <3> QED BY <1>1, <1>9, <1>12, <3>1 DEF CurrentShown
  <2> QED BY <1>2, <1>5, <1>9, <2>1, TakeCurrent DEF e
<1> QED BY <1>17, <1>18

-----------------------------------------------------------------------------
\* An event about the workspace of a slot, stored in it.
LEMMA StoreHandled ==
    ASSUME World, HandleName \/ HandleState, UNCHANGED compositorVars, "slots" \notin excuses'
    PROVE  Handled
<1>1. PICK h : h = Head(events).handle
  OBVIOUS
<1>2. PICK i : i = slotOf[h]
  OBVIOUS
<1>3. PICK e : e = Head(events)
  OBVIOUS
<1>4. events \in Seq(Sent) /\ TableTypeOK /\ InUse /\ slots \in Slots /\ MaxSlots \in Nat
  BY PagerdAssumption DEF World, TableTypeOK, Slots
<1>5. /\ events # <<>> /\ events' = Tail(events) /\ h \in Handles /\ e \in Sent /\ e.handle = h
      /\ HandleName => e.type = "name" 
      /\ HandleState => e.type = "state"
  <2>1. "name" \notin {"done", "sync", "finished"} /\ "state" \notin {"done", "sync", "finished"}
    OBVIOUS
  <2> QED BY <1>1, <1>3, <1>4, <2>1, TakeFacts DEF HandleName, HandleState
<1>6. e.name \in Strings /\ e.active \in BOOLEAN /\ e \in EventTypes
  BY <1>5 DEF Sent, EventTypes
<1>7. count' = count
  BY DEF HandleName, HandleState
<1>8. \A g : e \notin Of("workspace", g) /\ e \notin Of("removed", g)
  BY <1>5 DEF Of
<1>9. CASE i = 0
  <2>1. UNCHANGED slots
    BY <1>1, <1>2, <1>9 DEF HandleName, HandleState
  <2>2. ~InTable(h)
    BY <1>2, <1>4, <1>9 DEF InTable, InUse
  <2>3. \A g, t : e \in Of(t, g) => g = h
    BY <1>5 DEF Of
  <2>4. \A g \in Handles :
           /\ e \notin Of("workspace", g)
           /\ \A type \in {"name", "state", "removed"} : e \in Of(type, g) => ~InTable(g)
    BY <1>8, <2>2, <2>3
  <2> QED BY <1>3, <1>5, <1>7, <2>1, <2>4, HandledStill
<1>10. CASE i # 0
  <2>1. i \in 1..count /\ i \in 1..MaxSlots /\ slots[i].handle = h
    <3>1. excuses' = excuses \cup {"slots"} \/ ~Strays(h) \/ "slots" \in excuses'
      BY <1>1, <1>2, <1>10 DEF HandleName, HandleState
    <3>2. ~Strays(h)
      BY <3>1
    <3>3. i \in 0..MaxSlots /\ count \in 0..MaxSlots
      BY <1>2, <1>4, <1>5 DEF TableTypeOK
    <3> QED BY <1>2, <1>4, <1>10, <3>2, <3>3 DEF Strays
  <2>2. \A j \in 1..count : j \in 1..MaxSlots /\ (j # i => slots[j].handle # h)
    BY <1>4, <2>1 DEF InUse, TableTypeOK
  <2>3. /\ HandleName => slots' = [slots EXCEPT ![i].name = e.name]
        /\ HandleState => slots' = [slots EXCEPT ![i].active = e.active]
    BY <1>1, <1>2, <1>3, <1>10 DEF HandleName, HandleState
  <2>4. /\ \A j \in 1..MaxSlots : slots'[j].handle = slots[j].handle /\ (j # i => slots'[j] = slots[j])
        /\ HandleName => slots'[i].name = e.name /\ slots'[i].active = slots[i].active
        /\ HandleState => slots'[i].active = e.active /\ slots'[i].name = slots[i].name
    BY <1>4, <1>6, <2>1, <2>3, StoreShape
  <2>5. \A t, g : e \in Of(t, g) <=> e.type = t /\ g = h
    BY <1>5, <1>6 DEF Of
  <2>6. ASSUME NEW j \in 1..count
        PROVE  /\ slots'[j].name = IF e \in Of("name", slots[j].handle) THEN e.name ELSE slots[j].name
               /\ slots'[j].active = IF e \in Of("state", slots[j].handle) THEN e.active
                                        ELSE slots[j].active
    <3>1. CASE j = i /\ HandleName
      <4>1. e \in Of("name", h) /\ e \notin Of("state", h)
        BY <1>5, <2>5, <3>1
      <4> QED BY <2>1, <2>4, <3>1, <4>1
    <3>2. CASE j = i /\ HandleState
      <4>1. e \in Of("state", h) /\ e \notin Of("name", h)
        BY <1>5, <2>5, <3>2
      <4> QED BY <2>1, <2>4, <3>2, <4>1
    <3>3. CASE j # i
      BY <2>2, <2>4, <2>5, <3>3
    <3> QED BY <3>1, <3>2, <3>3
  <2>7. \A g : (InTable(g)' <=> InTable(g))
    BY <1>7, <2>2, <2>4 DEF InTable
  <2>8. \A f, g : Precedes(f, g)' <=> Precedes(f, g)
    BY <1>7, <2>2, <2>4 DEF Precedes
  <2>9. \A j \in 1..count : slots'[j].handle = slots[j].handle
    BY <2>2, <2>4
  <2>10. ASSUME NEW j \in 1..count'
         PROVE  \E k \in 1..count :
                   LET g == slots[k].handle
                   IN  /\ slots'[j].handle = g
                       /\ slots'[j].name = IF e \in Of("name", g) THEN e.name ELSE slots[k].name
                       /\ slots'[j].active = IF e \in Of("state", g) THEN e.active
                                                ELSE slots[k].active
    BY <1>7, <2>6, <2>9
  <2> QED BY <1>3, <1>5, <1>8, <2>7, <2>8, <2>10 DEF Handled
<1> QED BY <1>9, <1>10
\* While neither the slots nor the active workspace change ...
LEMMA SameShown ==
    ASSUME UNCHANGED <<slots, count, current, active, excuses>>
    PROVE  CurrentShown => CurrentShown'
  BY DEF CurrentShown

\* A new name of a workspace that is shown as active leaves the old one the current one.
LEMMA NameCurrent ==
    ASSUME World, CurrentComes, HandleName, UNCHANGED compositorVars, "slots" \notin excuses'
    PROVE  CurrentComes'
<1>1. PICK h : h = Head(events).handle
  OBVIOUS
<1>2. PICK i : i = slotOf[h]
  OBVIOUS
<1>3. PICK e : e = Head(events)
  OBVIOUS
<1>4. events \in Seq(Sent) /\ TableTypeOK /\ InUse /\ slots \in Slots /\ MaxSlots \in Nat
  BY PagerdAssumption DEF World, TableTypeOK, Slots
<1>5. /\ events # <<>> /\ events' = Tail(events) /\ h \in Handles /\ e \in Sent /\ e.handle = h
      /\ e.type = "name"
  <2>1. "name" \notin {"done", "sync", "finished"}
    OBVIOUS
  <2> QED BY <1>1, <1>3, <1>4, <2>1, TakeFacts DEF HandleName
<1>6. /\ e.name \in Names /\ e.name \in Strings /\ e.name # "" /\ e \notin Activations
      /\ UNCHANGED <<count, current, active>>
  <2>1. e.name \in Names /\ e.name \in Strings
    BY <1>5 DEF Sent, EventTypes
  <2>2. e.name # ""
    BY <2>1, PagerdAssumption
  <2> QED BY <1>5, <2>1, <2>2 DEF Activations, HandleName, compositorVars
<1>7. CASE i = 0
  <2>1. UNCHANGED <<slots, excuses>>
    BY <1>1, <1>2, <1>7 DEF HandleName
  <2> QED BY <1>3, <1>5, <1>6, <2>1, SameShown, TakeCurrent
<1>8. CASE i # 0
  <2>1. /\ slots' = [slots EXCEPT ![i].name = e.name]
        /\ excuses' = excuses \cup (IF Strays(h) THEN {"slots"} ELSE {})
                              \cup (IF slots[i].active THEN {"renamed"} ELSE {})
    BY <1>1, <1>2, <1>3, <1>8 DEF HandleName
  <2>2. ~Strays(h)
    BY <2>1
  <2>3. i \in 1..count /\ i \in 1..MaxSlots /\ count \in 0..MaxSlots
    <3>1. i \in 0..MaxSlots /\ count \in 0..MaxSlots
      BY <1>2, <1>4, <1>5 DEF TableTypeOK
    <3> QED BY <1>2, <1>4, <1>8, <2>2, <3>1 DEF Strays
  <2>4. /\ \A j \in 1..MaxSlots : slots'[j].handle = slots[j].handle /\ (j # i => slots'[j] = slots[j])
        /\ slots'[i].name = e.name /\ slots'[i].active = slots[i].active
    <3>1. FALSE \in BOOLEAN
      OBVIOUS
    <3> QED BY <1>4, <1>6, <2>1, <2>3, <3>1, StoreShape
  <2>a. \A k \in 1..count : k \in 1..MaxSlots /\ k \in 1..count'
    <3>1. count' = count /\ MaxSlots \in Nat
      BY <1>4, <1>6
    <3> QED BY <2>3, <3>1
  <2>5. CurrentShown => CurrentShown'
    <3> SUFFICES ASSUME NEW k \in 1..count, slots[k].handle = active, slots[k].active,
                        slots[k].name # "", "renamed" \notin excuses => current = slots[k].name
                 PROVE  CurrentShown'
      BY DEF CurrentShown
    <3>1. k \in 1..MaxSlots /\ k \in 1..count'
      BY <2>a
    <3>2. CASE k = i
      <4>1. "renamed" \in excuses'
        BY <2>1, <3>2
      <4>2. slots'[k].handle = active' /\ slots'[k].active /\ slots'[k].name # ""
        BY <1>6, <2>4, <3>1, <3>2
      <4> QED BY <3>1, <4>1, <4>2 DEF CurrentShown
    <3>3. CASE k # i
      <4>1. slots'[k] = slots[k]
        BY <2>4, <3>1, <3>3
      <4>2. "renamed" \notin excuses' => "renamed" \notin excuses
        BY <2>1
      <4> QED BY <1>6, <3>1, <4>1, <4>2 DEF CurrentShown
    <3> QED BY <3>2, <3>3
  <2> QED BY <1>3, <1>5, <1>6, <2>5, TakeCurrent
<1> QED BY <1>7, <1>8

\* An activation is of a workspace in the table, where it has its name by then.
LEMMA StateCurrent ==
    ASSUME World, Agreement, CurrentComes, HandleState, UNCHANGED compositorVars,
           "slots" \notin excuses'
    PROVE  CurrentComes'
<1>1. PICK h : h = Head(events).handle
  OBVIOUS
<1>2. PICK i : i = slotOf[h]
  OBVIOUS
<1>3. PICK e : e = Head(events)
  OBVIOUS
<1>4. /\ events \in Seq(Sent) /\ TableTypeOK /\ InUse /\ slots \in Slots /\ MaxSlots \in Nat
      /\ active' = active
  BY PagerdAssumption DEF World, TableTypeOK, Slots, compositorVars
<1>5. /\ events # <<>> /\ events' = Tail(events) /\ h \in Handles /\ e \in Sent /\ e.handle = h
      /\ e.type = "state"
  <2>1. "state" \notin {"done", "sync", "finished"}
    OBVIOUS
  <2> QED BY <1>1, <1>3, <1>4, <2>1, TakeFacts DEF HandleState
<1>6. e.active \in BOOLEAN /\ (e \in Activations <=> e.active) /\ UNCHANGED count /\ e \in EventTypes
  BY <1>5 DEF Sent, EventTypes, Activations, HandleState
<1>7. CASE i = 0
  <2>1. UNCHANGED <<slots, current, excuses>>
    BY <1>1, <1>2, <1>7 DEF HandleState
  <2>2. ~InTable(h)
    BY <1>2, <1>4, <1>7 DEF InTable, InUse
  <2>3. ~Coming(h)
    <3>1. e \in About(h) /\ e \notin Of("workspace", h)
      BY <1>5 DEF Sent, About, Of
    <3> QED BY <1>3, <1>5, <3>1, NotComing
  <2>4. h \notin Existing
    BY <1>5, <2>2, <2>3 DEF Agreement, Membership
  <2>5. e \notin About(active)
    BY <1>5, <2>4 DEF About, World, DesktopOK
  <2> QED BY <1>3, <1>4, <1>5, <1>6, <2>1, <2>5, SameShown, TakeCurrent
<1>8. CASE i # 0
  <2>1. /\ slots' = [slots EXCEPT ![i].active = e.active]
        /\ current' = IF e.active /\ slots[i].name # "" THEN slots[i].name ELSE current
        /\ excuses' = (excuses \ (IF e.active THEN {"renamed"} ELSE {}))
                         \cup (IF Strays(h) THEN {"slots"} ELSE {})
    BY <1>1, <1>2, <1>3, <1>8 DEF HandleState
  <2>2. ~Strays(h)
    BY <2>1
  <2>3. i \in 1..count /\ i \in 1..MaxSlots /\ slots[i].handle = h /\ count \in 0..MaxSlots
    <3>1. i \in 0..MaxSlots /\ count \in 0..MaxSlots
      BY <1>2, <1>4, <1>5 DEF TableTypeOK
    <3> QED BY <1>2, <1>4, <1>8, <2>2, <3>1 DEF Strays
  <2>4. /\ \A j \in 1..MaxSlots : slots'[j].handle = slots[j].handle /\ (j # i => slots'[j] = slots[j])
        /\ slots'[i].name = slots[i].name /\ slots'[i].active = e.active
    <3>1. PICK name \in Strings : TRUE
      BY DEF Strings
    <3> QED BY <1>4, <1>6, <2>1, <2>3, <3>1, StoreShape
  <2>5. slots[i].name # ""
    <3>1. ASSUME slots[i].name = "" PROVE Led(events, Of("name", h), Of("state", h))
      BY <1>5, <2>3, <3>1 DEF Agreement, NamedFirst
    <3>2. e \in Of("state", h)
      BY <1>5, <1>6 DEF Of
    <3>3. \A T, U : Led(events, T, U) => e \notin U
      BY <1>3, <1>4, <1>5, LedTaken
    <3> QED BY <3>1, <3>2, <3>3
  <2>6. ASSUME e \in Activations, e \in About(active) PROVE CurrentShown'
    <3>1. h = active /\ e.active
      BY <1>5, <1>6, <2>6 DEF About
    <3>2. current' = slots[i].name /\ i \in 1..count'
      BY <1>6, <2>1, <2>3, <2>5, <3>1
    <3> QED BY <1>4, <2>3, <2>4, <2>5, <3>1, <3>2 DEF CurrentShown
  <2>7. ASSUME e \notin Activations, CurrentShown PROVE CurrentShown' \/ Meets(events, Activations)
    <3>1. ~e.active /\ current' = current /\ ("renamed" \notin excuses' => "renamed" \notin excuses)
      BY <1>6, <2>1, <2>7
    <3>2. PICK k \in 1..count : /\ slots[k].handle = active /\ slots[k].active /\ slots[k].name # ""
                                /\ "renamed" \notin excuses => current = slots[k].name
      BY <2>7 DEF CurrentShown
    <3>3. CASE k # i
      <4>1. k \in 1..MaxSlots /\ k \in 1..count'
        <5>1. count' = count /\ MaxSlots \in Nat
          BY <1>4, <1>6
        <5> QED BY <2>3, <5>1
      <4>2. slots'[k] = slots[k]
        BY <2>4, <3>3, <4>1
      <4> QED BY <1>4, <3>1, <3>2, <4>1, <4>2 DEF CurrentShown
    <3>4. CASE k = i
      <4>1. h = active /\ h \in Existing
        BY <2>3, <3>2, <3>4 DEF World, DesktopOK
      <4>2. e \in Of("state", h)
        BY <1>5, <1>6 DEF Of
      <4>3. Meets(events, Of("state", h)) /\ EndsIn(events, Of("state", h), Seen(h))
        <5>1. Meets(events, Of("state", h))
          BY <1>3, <1>4, <1>5, <4>2, QueueTaken
        <5> QED BY <1>5, <4>1, <5>1 DEF Agreement, StateComes
      <4>4. Meets(events, Of("state", h) \cap Seen(h))
        BY <1>4, <4>3, LastIn
      <4> QED BY <4>1, <4>4 DEF Meets, Seen, Of, Activations
    <3> QED BY <3>3, <3>4
  <2> QED BY <1>3, <1>5, <2>6, <2>7, TakeCurrent
<1> QED BY <1>7, <1>8


\* A workspace leaves; the others close up in their order.
LEMMA RemovedHandled ==
    ASSUME World, Agreement, CurrentComes, HandleRemoved, UNCHANGED compositorVars
    PROVE  Handled /\ CurrentComes'
<1>1. PICK h : h = Head(events).handle
  OBVIOUS
<1>2. PICK e : e = Head(events)
  OBVIOUS
<1>3. events \in Seq(Sent) /\ TableTypeOK /\ InUse /\ MaxSlots \in Nat /\ count \in 0..MaxSlots
  BY PagerdAssumption DEF World, TableTypeOK
<1>4. events # <<>> /\ events' = Tail(events) /\ h \in Handles /\ e \in Of("removed", h)
  <2>1. "removed" \notin {"done", "sync", "finished"}
    OBVIOUS
  <2> QED BY <1>1, <1>2, <1>3, <2>1, TakeFacts DEF HandleRemoved
<1>5. /\ e \notin Activations
      /\ \A g : /\ e \notin Of("workspace", g) /\ e \notin Of("name", g) /\ e \notin Of("state", g)
                /\ e \in Of("removed", g) => g = h
  BY <1>4 DEF Of, Activations
<1>6. UNCHANGED <<current, excuses>>
  BY DEF HandleRemoved
<1>7. CASE ~InTable(h)
  <2>1. UNCHANGED <<slots, count>>
    BY <1>1, <1>7 DEF HandleRemoved, RemoveWorkspace, InTable
  <2>2. CurrentShown => CurrentShown'
    BY <1>6, <2>1, SameShown DEF compositorVars
  <2>3. \A g \in Handles :
           /\ e \notin Of("workspace", g)
           /\ \A type \in {"name", "state", "removed"} : e \in Of(type, g) => ~InTable(g)
    BY <1>5, <1>7
  <2>4. Handled
    BY <1>2, <1>4, <2>1, <2>3, HandledStill
  <2> QED BY <1>2, <1>4, <1>5, <2>1, <2>2, <2>4, TakeCurrent
<1>8. CASE InTable(h)
  <2>1. slotOf[h] # 0
    BY <1>3, <1>8 DEF InTable, InUse
  <2>2. RemoveWorkspace(h)
    BY <1>1, <2>1 DEF HandleRemoved
  <2>3. PICK gone \in 1..count :
           /\ slots[gone].handle = h /\ count' = count - 1
           /\ \A i \in 1..(count - 1) : slots'[i] = IF i < gone THEN slots[i] ELSE slots[i + 1]
    BY <1>3, <1>4, <1>8, <2>2, RemoveShape
  <2> DEFINE old(i) == IF i < gone THEN i ELSE i + 1
             new(j) == IF j < gone THEN j ELSE j - 1
  <2>4. \A i \in 1..count' : old(i) \in 1..count /\ old(i) # gone /\ slots'[i] = slots[old(i)]
    BY <1>3, <2>3
  <2>5. \A i, j \in 1..count' : old(i) < old(j) => i < j
    BY <1>3, <2>3
  <2>6. \A j \in 1..count : j # gone => new(j) \in 1..count' /\ old(new(j)) = j
    BY <1>3, <2>3
  <2> HIDE DEF old, new
  <2>7. \A j \in 1..count : j # gone => slots[j].handle # h
    BY <1>3, <2>3 DEF InUse
  <2>8. ASSUME NEW i \in 1..count'
        PROVE  \E k \in 1..count :
                  LET g == slots[k].handle
                  IN  /\ slots'[i].handle = g
                      /\ slots'[i].name = IF e \in Of("name", g) THEN e.name ELSE slots[k].name
                      /\ slots'[i].active = IF e \in Of("state", g) THEN e.active
                                               ELSE slots[k].active
    BY <1>5, <2>4
  <2>9. ASSUME NEW g \in Handles
        PROVE  /\ InTable(g) /\ e \notin Of("removed", g) => InTable(g)'
               /\ e \in Of("workspace", g) => InTable(g)'
               /\ e \in Of("removed", g) => ~InTable(g)'
    <3>1. ASSUME InTable(g), g # h PROVE InTable(g)'
      <4>1. PICK j \in 1..count : slots[j].handle = g /\ j # gone
        BY <2>3, <3>1 DEF InTable
      <4> QED BY <2>4, <2>6, <4>1 DEF InTable
    <3>2. g = h => ~InTable(g)'
      BY <2>4, <2>7 DEF InTable
    <3> QED BY <1>4, <1>5, <3>1, <3>2
  <2>10. \A f, g \in Handles : Precedes(f, g) => Precedes(f, g)'
    <3> SUFFICES ASSUME NEW f \in Handles, NEW g \in Handles, Precedes(f, g),
                        NEW i \in 1..count', NEW j \in 1..count',
                        slots'[i].handle = f, slots'[j].handle = g
                 PROVE  i < j
      BY DEF Precedes
    <3>1. old(i) < old(j)
      BY <2>4 DEF Precedes
    <3> QED BY <2>5, <3>1
  <2>11. Handled
    BY <1>2, <1>4, <2>8, <2>9, <2>10 DEF Handled
  <2>12. CurrentShown => CurrentShown'
    <3>1. h \notin Existing
      <4>1. Meets(events, Of("removed", h))
        BY <1>2, <1>3, <1>4, QueueTaken
      <4> QED BY <1>4, <4>1 DEF Agreement, Membership
    <3>2. active' = active /\ active # h
      BY <3>1 DEF World, DesktopOK, compositorVars
    <3>3. ASSUME NEW k \in 1..count, slots[k].handle = active
          PROVE  \E i \in 1..count' : slots'[i] = slots[k]
      <4>1. k # gone
        BY <2>3, <3>2, <3>3
      <4> QED BY <2>4, <2>6, <4>1
    <3>4. SUFFICES ASSUME NEW k \in 1..count, slots[k].handle = active, slots[k].active,
                          slots[k].name # "", "renamed" \notin excuses => current = slots[k].name
                   PROVE  CurrentShown'
      BY DEF CurrentShown
    <3>5. PICK i \in 1..count' : slots'[i] = slots[k]
      BY <3>3, <3>4
    <3> QED BY <1>6, <3>2, <3>4, <3>5 DEF CurrentShown
  <2> QED BY <1>2, <1>4, <1>5, <2>11, <2>12, TakeCurrent
<1> QED BY <1>7, <1>8
\* The ends of reports and of roundtrips concern no slot.
LEMMA EndHandled ==
    ASSUME World, CurrentComes, HandleDone \/ HandleSync, UNCHANGED compositorVars
    PROVE  Handled /\ CurrentComes'
<1>1. PICK e : e = Head(events)
  OBVIOUS
<1>2. events # <<>> /\ events' = Tail(events) /\ e.type \in {"done", "sync"} /\ UNCHANGED <<tableVars, excuses>>
  BY <1>1 DEF HandleDone, HandleSync, Take
<1>3. e \notin Activations /\ \A t, g : t \notin {"done", "sync"} => e \notin Of(t, g)
  BY <1>2 DEF Of, Activations
<1>4. UNCHANGED <<slots, count, current>>
  BY <1>2 DEF tableVars
<1>5. CurrentShown => CurrentShown'
  BY <1>2, <1>4, SameShown DEF compositorVars
<1>6. \A g \in Handles :
         /\ e \notin Of("workspace", g)
         /\ \A type \in {"name", "state", "removed"} : e \in Of(type, g) => ~InTable(g)
  BY <1>3
<1>7. Handled
  BY <1>1, <1>2, <1>4, <1>6, HandledStill
<1> QED BY <1>1, <1>2, <1>3, <1>5, <1>7, TakeCurrent

-----------------------------------------------------------------------------
\* Steps that move neither the events nor the table nor the compositor's workspaces.
LEMMA AgreementStays ==
    ASSUME Agreement, CurrentComes, UNCHANGED <<events, compositorVars, tableVars>>,
           "renamed" \in excuses => "renamed" \in excuses'
    PROVE  Agreement' /\ CurrentComes'
<1>1. UNCHANGED <<order, nameOf, active, slots, count, current>> /\ Existing' = Existing
  BY DEF compositorVars, tableVars, Existing
<1>2. \A h : (InTable(h)' <=> InTable(h)) /\ (Coming(h)' <=> Coming(h))
  BY <1>1 DEF InTable, Coming
<1>3. \A g, h : (Before(g, h)' <=> Before(g, h)) /\ (Precedes(g, h)' <=> Precedes(g, h))
  BY <1>1 DEF Before, Precedes
<1>4. ASSUME NEW h \in Handles PROVE Membership(h)' /\ NameComes(h)' /\ StateComes(h)' /\ NamedFirst(h)'
  <2>1. Membership(h) /\ NameComes(h) /\ StateComes(h) /\ NamedFirst(h)
    BY DEF Agreement
  <2>2. Membership(h)'
    BY <1>1, <1>2, <2>1 DEF Membership
  <2>3. NameComes(h)'
    BY <1>1, <2>1 DEF NameComes, Told
  <2>4. StateComes(h)'
    BY <1>1, <2>1 DEF StateComes, Seen
  <2>5. NamedFirst(h)'
    BY <1>1, <1>2, <2>1 DEF NamedFirst
  <2> QED BY <2>2, <2>3, <2>4, <2>5
<1>5. ASSUME NEW g \in Handles, NEW h \in Handles PROVE InOrder(g, h)'
  BY <1>1, <1>2, <1>3 DEF Agreement, InOrder
<1>6. CurrentComes'
  <2>1. CurrentShown => CurrentShown'
    BY <1>1 DEF CurrentShown
  <2> QED BY <1>1, <2>1 DEF CurrentComes
<1> QED BY <1>4, <1>5, <1>6 DEF Agreement

-----------------------------------------------------------------------------
\* What went wrong with the table is neither added nor forgotten outside the listeners.
Kept(excuse) == excuse \in excuses' <=> excuse \in excuses

LEMMA ExcusesKept ==
    ASSUME Loops \/ WaylandFails \/ Ends \/ Compositor \/ CompositorActivates \/ Elsewhere
    PROVE  Kept("full") /\ Kept("slots") /\ Kept("renamed")
<1>1. CASE WaylandFails \/ Ends \/ Compositor
  <2>1. UNCHANGED excuses
    BY <1>1, ChangesStay DEF WaylandFails, Ends, HandleDone, HandleSync, HandleFinished, CompositorChange
  <2> QED BY <2>1 DEF Kept
<1>2. CASE EndDispatch \/ OpenFifo \/ OpenAtStartup \/ UpdateState \/ Killed \/ Signal
  <2>1. UNCHANGED excuses
    BY <1>2 DEF EndDispatch, OpenFifo, OpenAtStartup, UpdateState, Killed, Signal
  <2> QED BY <2>1 DEF Kept
<1>3. CASE ReadFifo
  <2>1. UNCHANGED excuses \/ excuses' = excuses \cup {"cut"}
    BY <1>3 DEF ReadFifo
  <2> QED BY <2>1 DEF Kept
<1>4. CASE CarryOut \/ CompositorActivates
  <2>1. UNCHANGED excuses \/ excuses' = excuses \cup {"unknown"}
    BY <1>4 DEF CarryOut, CompositorActivates
  <2> QED BY <2>1 DEF Kept
<1>5. CASE PublishWorkspaces \/ PublishPager
  <2>1. PublishTopic
    BY <1>5 DEF PublishWorkspaces, PublishPager
  <2>2. \/ UNCHANGED excuses \/ excuses' = excuses \cup {"publish"}
        \/ excuses' = excuses \ Settled
    BY <2>1, TopicCases DEF Publishes
  <2> QED BY <2>2 DEF Kept, Settled
<1>6. CASE HandleFrame
  <2>1. PICK i, f : Absorbed(i, f)
    BY <1>6, FrameCases
  <2>2. excuses' = (excuses \ Settled) \cup {"crossed"} \/ excuses' = excuses \ Settled
    BY <2>1 DEF Absorbed
  <2> QED BY <2>2 DEF Kept, Settled
<1>7. ASSUME NEW c \in Clients, SwitchEffect(c) \/ SwitchCommand(c)
      PROVE  Kept("full") /\ Kept("slots") /\ Kept("renamed")
  <2>1. UNCHANGED excuses \/ excuses' = excuses \cup {"effect"}
    BY <1>7 DEF SwitchEffect, SwitchCommand
  <2> QED BY <2>1 DEF Kept
<1>8. CASE DaemonStops
  <2>1. UNCHANGED excuses \/ excuses' = excuses \cup {"stopped"}
    BY <1>8 DEF DaemonStops
  <2> QED BY <2>1 DEF Kept
<1>9. CASE DaemonStarts \/ UNCHANGED syncVars
  <2>1. UNCHANGED excuses
    BY <1>9 DEF DaemonStarts, syncVars, vars
  <2> QED BY <2>1 DEF Kept
<1> QED BY <1>1, <1>2, <1>3, <1>4, <1>5, <1>6, <1>7, <1>8, <1>9 DEF Loops, Elsewhere, Daemon

\* What has gone wrong stays so.
LEMMA SoundBefore ==
    ASSUME [Next]_syncVars, Sound'
    PROVE  Sound
<1>1. CASE HandleWorkspace \/ HandleName \/ HandleState \/ HandleRemoved
  <2>1. pc # "over" /\ running' = running
    BY <1>1 DEF HandleWorkspace, HandleName, HandleState, HandleRemoved, Take, outsideVars
  <2>2. excuses \cap {"full", "slots"} \subseteq excuses'
    BY <1>1 DEF HandleWorkspace, HandleName, HandleState, HandleRemoved, AddWorkspace
  <2> QED BY <2>1, <2>2 DEF Sound
<1>2. CASE Loops \/ WaylandFails \/ Ends \/ Compositor \/ CompositorActivates \/ Elsewhere
  <2>1. Kept("full") /\ Kept("slots")
    BY <1>2, ExcusesKept
  <2>2. running' => running
    <3>1. CASE WaylandFails \/ Ends
      BY <3>1 DEF WaylandFails, Ends, HandleDone, HandleSync, HandleFinished, outsideVars
    <3>2. CASE Loops
      BY <3>2 DEF Loops, EndDispatch, ReadFifo, CarryOut, OpenFifo, OpenAtStartup, UpdateState,
                  PublishWorkspaces, PublishPager, PublishTopic, Killed, Signal
    <3>3. CASE Compositor
      BY <3>3, ChangesStay DEF CompositorChange
    <3>4. ASSUME NEW c \in Clients, SwitchEffect(c) \/ SwitchCommand(c) PROVE UNCHANGED running
      BY <3>4 DEF SwitchEffect, SwitchCommand
    <3>5. CASE CompositorActivates \/ HandleFrame \/ DaemonStops \/ DaemonStarts \/ UNCHANGED syncVars
      BY <3>5 DEF CompositorActivates, HandleFrame, DaemonStops, DaemonStarts, syncVars, vars, outsideVars
    <3> QED BY <1>2, <3>1, <3>2, <3>3, <3>4, <3>5 DEF Elsewhere, Daemon
  <2>3. pc = "over" => pc' = "over"
    <3>1. CASE WaylandFails \/ Ends
      BY <3>1 DEF WaylandFails, Ends, HandleDone, HandleSync, HandleFinished, Take
    <3>2. CASE Loops
      BY <3>2 DEF Loops, EndDispatch, ReadFifo, CarryOut, OpenFifo, OpenAtStartup, UpdateState,
                  PublishWorkspaces, PublishPager, Killed, Signal
    <3>3. CASE Compositor
      BY <3>3, ChangesStay DEF CompositorChange
    <3>4. ASSUME NEW c \in Clients, SwitchEffect(c) \/ SwitchCommand(c) PROVE UNCHANGED pc
      BY <3>4 DEF SwitchEffect, SwitchCommand
    <3>5. CASE CompositorActivates \/ HandleFrame \/ DaemonStops \/ DaemonStarts \/ UNCHANGED syncVars
      BY <3>5 DEF CompositorActivates, HandleFrame, DaemonStops, DaemonStarts, syncVars, vars
    <3> QED BY <1>2, <3>1, <3>2, <3>3, <3>4, <3>5 DEF Elsewhere, Daemon
  <2> QED BY <2>1, <2>2, <2>3 DEF Sound, Kept
<1> QED BY <1>1, <1>2, StepCases

-----------------------------------------------------------------------------
LEMMA ChangeCase ==
    ASSUME World, Agreement, CurrentComes, UNCHANGED excuses, \E r : Change(r)
    PROVE  Agreement' /\ CurrentComes'
<1>1. PICK r : Change(r)
  OBVIOUS
<1> QED BY <1>1, ChangeAgrees, ChangeActivates

\* While nothing goes wrong, the table and the events on their way keep leading there.
LEMMA StepAgrees ==
    ASSUME World, Agreement, CurrentComes, [Next]_syncVars, Sound'
    PROVE  Agreement' /\ CurrentComes'
<1>1. "full" \notin excuses' /\ "slots" \notin excuses'
  BY DEF Sound
<1>2. ASSUME UNCHANGED compositorVars,
             \/ HandleWorkspace \/ HandleName \/ HandleState \/ HandleRemoved
             \/ Ends \/ Loops \/ WaylandFails
      PROVE  Agreement' /\ CurrentComes'
  <2>1. CASE HandleWorkspace
    BY <1>1, <1>2, <2>1, WorkspaceHandled, HandledAgrees
  <2>2. CASE HandleName
    BY <1>1, <1>2, <2>2, StoreHandled, NameCurrent, HandledAgrees
  <2>3. CASE HandleState
    BY <1>1, <1>2, <2>3, StoreHandled, StateCurrent, HandledAgrees
  <2>4. CASE HandleRemoved
    BY <1>2, <2>4, RemovedHandled, HandledAgrees
  <2>5. CASE HandleDone \/ HandleSync
    BY <1>2, <2>5, EndHandled, HandledAgrees
  <2>6. CASE HandleFinished \/ WaylandFails
    <3>1. pc' = "over" \/ running' = FALSE
      BY <2>6 DEF HandleFinished, WaylandFails
    <3> QED BY <3>1 DEF Sound
  <2>7. CASE Loops
    <3>1. UNCHANGED events
      BY <2>7 DEF Loops, EndDispatch, ReadFifo, CarryOut, OpenFifo, OpenAtStartup, UpdateState,
                  PublishWorkspaces, PublishPager, PublishTopic, Killed, Signal
    <3>2. UNCHANGED tableVars
      BY <1>2, <2>7, LoopWorld
    <3> QED BY <1>2, <2>7, <3>1, <3>2, ExcusesKept, AgreementStays DEF Kept
  <2> QED BY <1>2, <2>1, <2>2, <2>3, <2>4, <2>5, <2>6, <2>7 DEF Ends
<1>3. CASE Compositor
  <2>1. UNCHANGED excuses
    BY <1>3, ChangesStay DEF CompositorChange
  <2> QED BY <1>3, <2>1, CompositorChanges, ChangeCase
<1>4. CASE CompositorActivates
  <2>1. UNCHANGED tableVars /\ (UNCHANGED excuses \/ UNCHANGED <<events, compositorVars>>)
    BY <1>4 DEF CompositorActivates, compositorVars
  <2>2. CASE UNCHANGED <<events, compositorVars>>
    BY <1>4, <2>1, <2>2, ExcusesKept, AgreementStays DEF Kept
  <2>3. CASE UNCHANGED excuses /\ \E r : Change(r)
    BY <2>3, ChangeCase
  <2> QED BY <1>4, <2>1, <2>2, <2>3, RequestChanges
<1>5. CASE Elsewhere
  BY <1>5, ElsewhereStays, ExcusesKept, AgreementStays DEF Kept
<1> QED BY <1>2, <1>3, <1>4, <1>5, StepCases

-----------------------------------------------------------------------------
LEMMA InitAgrees ==
    ASSUME Init
    PROVE  Agreement /\ CurrentComes
<1>1. World /\ DesktopOK /\ count = 0 /\ \A h : ~InTable(h)
  BY InitWorld, InitTable DEF World
<1>2. \A i : i \notin 1..count
  BY <1>1
<1>3. /\ events \in Seq(Sent)
      /\ \A h \in Handles :
            /\ Led(events, Of("name", h), Of("state", h))
            /\ h \in Existing => Meets(events, Of("workspace", h)) /\ Meets(events, Of("state", h))
            /\ h \notin Existing => ~Meets(events, About(h))
            /\ ~Meets(events, Of("name", h) \ Told(h))
            /\ ~Meets(events, Of("state", h) \ Seen(h))
            /\ ~Meets(events, Of("removed", h))
      /\ \A g, h \in Handles :
            Before(g, h) => AllBefore(events, Of("workspace", g), Of("workspace", h))
  BY InitEvents
<1>4. ASSUME NEW h \in Handles
      PROVE  Membership(h) /\ NameComes(h) /\ StateComes(h) /\ NamedFirst(h)
  <2>1. Coming(h) => Meets(events, About(h))
    BY DEF Coming, Meets, Of, About
  <2>2. Membership(h)
    BY <1>1, <1>3, <2>1 DEF Membership, Coming
  <2>3. EndsIn(events, Of("name", h), Told(h)) /\ EndsIn(events, Of("state", h), Seen(h))
    BY <1>3 DEF EndsIn, Meets
  <2>4. NameComes(h) /\ StateComes(h)
    BY <1>2, <2>3 DEF NameComes, StateComes
  <2>5. NamedFirst(h)
    BY <1>3 DEF NamedFirst
  <2> QED BY <2>2, <2>4, <2>5
<1>5. ASSUME NEW g \in Handles, NEW h \in Handles PROVE InOrder(g, h)
  <2>1. Precedes(g, h)
    BY <1>2 DEF Precedes
  <2> QED BY <1>1, <1>3, <2>1 DEF InOrder
<1>6. CurrentComes
  <2>1. active \in Handles /\ active \in Existing
    BY <1>1 DEF DesktopOK, Existing, Range
  <2>2. ASSUME NEW j \in DOMAIN events, events[j] \in Activations PROVE events[j] \in About(active)
    <3>1. events[j] \in Sent
      BY <1>3
    <3>2. events[j].handle \in Handles /\ events[j] \in Of("state", events[j].handle)
      BY <2>2, <3>1 DEF Sent, Activations, Of
    <3>3. events[j] \in Seen(events[j].handle)
      BY <1>3, <3>2 DEF Meets
    <3> QED BY <2>2, <3>3 DEF Seen, Activations, About
  <2>3. PICK j \in DOMAIN events : events[j] \in Of("state", active)
    BY <1>3, <2>1 DEF Meets
  <2>4. events[j] \in Seen(active)
    BY <1>3, <2>1, <2>3 DEF Meets
  <2>5. Meets(events, Activations)
    BY <2>3, <2>4 DEF Seen, Of, Activations, Meets
  <2> QED BY <2>2, <2>5 DEF CurrentComes, EndsIn
<1> QED BY <1>4, <1>5, <1>6 DEF Agreement

-----------------------------------------------------------------------------
Tracking == Sound => Agreement /\ CurrentComes

\* With every event handled the slots are the workspaces, in their order and as they are.
Tracked ==
    /\ count = Len(order)
    /\ \A i \in 1..count : slots[i] = [handle |-> order[i], name |-> nameOf[order[i]],
                                      active |-> order[i] = active]
    /\ "renamed" \notin excuses => current = nameOf[active]

LEMMA AgreementTracks ==
    ASSUME World, Agreement, CurrentComes, events = <<>>
    PROVE  Tracked
<1>1. \A T : ~Meets(events, T)
  BY DEF Meets
<1>2. /\ DesktopOK /\ TableTypeOK /\ InUse /\ slots \in Slots /\ count \in 0..MaxSlots
      /\ count \in Nat /\ MaxSlots \in Nat
  <2>1. MaxSlots \in Nat
    BY PagerdAssumption
  <2>2. DesktopOK /\ TableTypeOK /\ InUse
    BY DEF World
  <2> QED BY <2>1, <2>2 DEF TableTypeOK, Slots
<1>3. PICK r : r = [i \in 1..count |-> slots[i].handle]
  OBVIOUS
<1>4. /\ r \in Seq(Handles) /\ Len(r) = count /\ DOMAIN r = 1..count
      /\ \A i \in 1..count : r[i] = slots[i].handle
  <2>1. \A i \in 1..count : slots[i].handle \in Handles
    BY <1>2 DEF InUse
  <2> QED BY <1>2, <1>3, <2>1
<1>5. IsInjective(r)
  BY <1>2, <1>4 DEF InUse, IsInjective
<1>6. order \in Seq(Handles) /\ IsInjective(order)
  BY <1>2 DEF DesktopOK
<1>7. Range(order) = Range(r)
  <2>1. \A h \in Handles : h \in Existing <=> InTable(h)
    BY <1>1 DEF Agreement, Membership, Coming
  <2>2. \A h : InTable(h) <=> h \in Range(r)
    BY <1>4 DEF InTable, Range
  <2>3. Range(order) \subseteq Handles
    BY <1>6 DEF Range
  <2>4. Range(r) \subseteq Handles
    BY <1>4 DEF Range
  <2> QED BY <2>1, <2>2, <2>3, <2>4 DEF Existing
<1>8. ASSUME NEW i \in DOMAIN order, NEW j \in DOMAIN order, NEW m \in DOMAIN r, NEW n \in DOMAIN r,
             i < j, r[m] = order[i], r[n] = order[j]
      PROVE  m < n
  <2>1. order[i] \in Handles /\ order[j] \in Handles
    BY <1>6
  <2>2. Before(order[i], order[j])
    BY <1>8 DEF Before
  <2>3. Precedes(order[i], order[j])
    BY <2>1, <2>2 DEF Agreement, InOrder
  <2> QED BY <1>4, <1>8, <2>3 DEF Precedes
<1>9. order = r
  BY <1>4, <1>5, <1>6, <1>7, <1>8, SameOrder
<1>10. ASSUME NEW i \in 1..count
       PROVE  /\ slots[i] \in SlotTypes /\ slots[i].handle = order[i]
              /\ slots[i].name = nameOf[order[i]] /\ (slots[i].active <=> order[i] = active)
  <2>1. slots[i] \in SlotTypes /\ slots[i].handle = order[i]
    BY <1>2, <1>4, <1>9 DEF Slots
  <2>2. order[i] \in Existing /\ order[i] \in Handles
    BY <1>4, <1>6, <1>9 DEF Existing, Range
  <2>3. NameComes(order[i]) /\ StateComes(order[i])
    BY <2>2 DEF Agreement
  <2>4. slots[i].name = nameOf[order[i]]
    BY <1>1, <2>1, <2>2, <2>3 DEF NameComes
  <2>5. slots[i].active <=> order[i] = active
    BY <1>1, <2>1, <2>2, <2>3 DEF StateComes
  <2> QED BY <2>1, <2>4, <2>5
<1>11. ASSUME NEW i \in 1..count
       PROVE  slots[i] = [handle |-> order[i], name |-> nameOf[order[i]], active |-> order[i] = active]
  <2>1. PICK flag \in BOOLEAN : flag = (order[i] = active)
    OBVIOUS
  <2>2. slots[i].active = flag
    BY <1>10, <2>1 DEF SlotTypes
  <2>3. slots[i] = [handle |-> order[i], name |-> nameOf[order[i]], active |-> flag]
    BY <1>10, <2>2 DEF SlotTypes
  <2> QED BY <2>1, <2>3
<1>12. "renamed" \notin excuses => current = nameOf[active]
  <2>1. CurrentShown
    BY <1>1 DEF CurrentComes
  <2> QED BY <1>10, <2>1 DEF CurrentShown
<1>13. count = Len(order)
  BY <1>4, <1>9
<1> QED BY <1>11, <1>12, <1>13 DEF Tracked

TrackingInvariant == Types /\ Tracking

LEMMA InitTracks == Init => TrackingInvariant
<1> SUFFICES ASSUME Init PROVE TrackingInvariant
  OBVIOUS
<1> QED BY InitTypes, InitAgrees DEF TrackingInvariant, Tracking

LEMMA StepTracks == TrackingInvariant /\ [Next]_syncVars => TrackingInvariant'
<1> SUFFICES ASSUME TrackingInvariant, [Next]_syncVars PROVE TrackingInvariant'
  OBVIOUS
<1>1. Types'
  BY StepTypes DEF TrackingInvariant
<1>2. ASSUME Sound' PROVE Agreement' /\ CurrentComes'
  <2>1. World /\ Agreement /\ CurrentComes
    BY <1>2, SoundBefore DEF TrackingInvariant, Tracking, Types
  <2> QED BY <1>2, <2>1, StepAgrees
<1> QED BY <1>1, <1>2 DEF TrackingInvariant, Tracking

LEMMA TracksFollows == TrackingInvariant => TracksCompositor
<1> SUFFICES ASSUME TrackingInvariant, events = <<>>, running, pc # "over",
                    excuses \cap {"slots", "full", "renamed"} = {}
             PROVE  Tracked
  BY DEF TracksCompositor, Tracked
<1>1. Sound
  BY DEF Sound
<1> QED BY <1>1, AgreementTracks DEF TrackingInvariant, Tracking, Types

\* When pagerd has handled every event, its table is the compositor's list and its current
\* workspace the active one (the listeners, nscde_pagerd.c), unless a workspace was too many
\* for the table, the current one was renamed, or an event went to another one's slot.
THEOREM TableTracksCompositor == Spec => []TracksCompositor
<1> QED BY InitTracks, StepTracks, TracksFollows, PTL DEF Spec

-----------------------------------------------------------------------------
(* What is published is the table's, and the daemon takes it in *)

\* A publication is due: the table has changed, or the program is about to publish it.
Due == dirty \/ pc \notin {"poll", "carry", "dispatch"}

Shows(f) == Range(f.names) = TableNames /\ f.current = current

Waiting(i) == streams[i].frames # <<>>

Quiet == \A i \in DOMAIN streams : ~Waiting(i)

InStep == ~Due /\ "crossed" \notin excuses

\* The newest frame is the last one of the last stream that has any.
LastShows ==
    \A i \in DOMAIN streams :
        Waiting(i) /\ (\A j \in DOMAIN streams : Waiting(j) => j <= i)
        => Shows(Last(streams[i].frames))

Excused == excuses \cap {"stopped", "publish"} # {}

\* A switch is on its way to the compositor.
Asked ==
    \/ \E c \in Clients : pending[c] \notin {"", current}
    \/ \E i \in DOMAIN fifo : fifo[i] \notin {"", current}
    \/ \E i \in DOMAIN lines : lines[i] \notin {"", current}
    \/ \E i \in DOMAIN requests : requests[i] # active

NamesKnown == TableNames \subseteq Range(daemon.workspaces) \/ Excused

Settles == Sound /\ "renamed" \notin excuses /\ ~Meets(events, Activations)

CurrentKnown == daemon.current = current \/ excuses \cap Settled # {} \/ Asked

Reaches ==
    /\ InStep => LastShows
    /\ InStep /\ Quiet => NamesKnown /\ (Settles => CurrentKnown)
    /\ ~Due /\ ~up => TableNames = {} \/ Excused

\* The current workspace is in the table when nothing about it is on its way.
LEMMA CurrentNamed ==
    ASSUME TrackingInvariant, Settles
    PROVE  /\ current \in TableNames
           /\ \A i \in 1..count : slots[i].handle = active => slots[i].name = current
<1>1. CurrentShown /\ InUse
  BY DEF TrackingInvariant, Tracking, Types, World, Settles, CurrentComes
<1>2. PICK k \in 1..count : /\ slots[k].handle = active /\ slots[k].name # ""
                            /\ "renamed" \notin excuses => current = slots[k].name
  BY <1>1 DEF CurrentShown
<1>3. current = slots[k].name
  BY <1>2 DEF Settles
<1>4. current \in TableNames
  BY <1>2, <1>3 DEF TableNames
<1>5. \A i \in 1..count : slots[i].handle = active => i = k
  BY <1>1, <1>2 DEF InUse
<1> QED BY <1>3, <1>4, <1>5

\* Steps after which nothing more is due, and the daemon and its streams have what they had.
LEMMA ReachesStays ==
    ASSUME Reaches,
           ~Due' => /\ ~Due /\ TableNames' = TableNames /\ UNCHANGED <<current, streams, up>>
                    /\ Range(daemon'.workspaces) = Range(daemon.workspaces)
                    /\ "crossed" \in excuses => "crossed" \in excuses'
                    /\ Excused => Excused'
                    /\ Settles' => Settles /\ (CurrentKnown => CurrentKnown')
    PROVE  Reaches'
<1> SUFFICES ASSUME ~Due' PROVE Reaches'
  BY DEF Reaches, InStep
<1>1. /\ ~Due /\ TableNames' = TableNames /\ UNCHANGED <<current, streams, up>>
      /\ Range(daemon'.workspaces) = Range(daemon.workspaces)
      /\ "crossed" \in excuses => "crossed" \in excuses'
      /\ Excused => Excused'
      /\ Settles' => Settles /\ (CurrentKnown => CurrentKnown')
  OBVIOUS
<1>2. InStep' => InStep
  BY <1>1 DEF InStep
<1>3. LastShows => LastShows'
  BY <1>1 DEF LastShows, Waiting, Shows
<1>4. Quiet' => Quiet
  BY <1>1 DEF Quiet, Waiting
<1>5. NamesKnown => NamesKnown'
  BY <1>1 DEF NamesKnown
<1> QED BY <1>1, <1>2, <1>3, <1>4, <1>5 DEF Reaches

\* Of these, those that leave the daemon and the switches on their way as they are.
LEMMA KnownStays ==
    ASSUME UNCHANGED <<daemon, current, active, pending, fifo, lines, requests>>,
           excuses \subseteq excuses'
    PROVE  /\ Excused => Excused'
           /\ "crossed" \in excuses => "crossed" \in excuses'
           /\ CurrentKnown => CurrentKnown'
<1>1. Asked => Asked'
  BY DEF Asked
<1> QED BY <1>1 DEF Excused, CurrentKnown

-----------------------------------------------------------------------------
\* A listener that changes the table leaves it to be published.
LEMMA ListenersReach ==
    ASSUME TrackingInvariant, Reaches, [Next]_syncVars, UNCHANGED <<compositorVars, pending>>,
           HandleWorkspace \/ HandleName \/ HandleState \/ HandleRemoved \/ Ends
    PROVE  Reaches'
<1>1. /\ UNCHANGED <<requests, fifo, lines, up, daemon, streams>> /\ active' = active
      /\ World /\ TableTypeOK /\ events \in Seq(Sent)
  BY ListenersStay DEF compositorVars, TrackingInvariant, Types, World
<1> SUFFICES ASSUME ~Due' PROVE Reaches'
  BY DEF Reaches, InStep
<1>2. ~dirty' /\ pc' \in {"poll", "carry", "dispatch"}
  BY DEF Due
<1>3. ASSUME NEW type, Take(type), pc' = Dispatching, ~dirty
      PROVE  ~Due
  <2>1. pc \in {"poll", "dispatch"}
    BY <1>2, <1>3 DEF Take, Dispatching
  <2> QED BY <1>3, <2>1 DEF Due
<1>4. ASSUME ~Due, TableNames' = TableNames, UNCHANGED current,
             excuses \subseteq excuses', "renamed" \in excuses => "renamed" \in excuses',
             Settles' => ~Meets(events, Activations)
      PROVE  Reaches'
  <2>1. /\ Excused => Excused'
        /\ "crossed" \in excuses => "crossed" \in excuses'
        /\ CurrentKnown => CurrentKnown'
    BY <1>1, <1>4, KnownStays
  <2>2. Settles' => Settles
    BY <1>4, SoundBefore DEF Settles
  <2> QED BY <1>1, <1>4, <2>1, <2>2, ReachesStays
<1>5. ASSUME NEW type, Take(type), Settles', Head(events) \notin Activations
      PROVE  ~Meets(events, Activations)
  <2>1. ~Meets(events', Activations) /\ events' = Tail(events) /\ events # <<>>
    BY <1>5 DEF Take, Settles, Meets, Activations
  <2>2. \A T : Meets(events, T) <=> Head(events) \in T \/ Meets(Tail(events), T)
    BY <1>1, <2>1, QueueTaken
  <2> QED BY <1>5, <2>1, <2>2
<1>6. CASE HandleWorkspace
  <2>1. /\ Take("workspace") /\ pc' = Dispatching /\ UNCHANGED <<dirty, current>>
        /\ AddWorkspace(Head(events).handle)
    BY <1>6 DEF HandleWorkspace
  <2>2. ~Due /\ Head(events) \notin Activations
    BY <1>2, <1>3, <2>1 DEF Take, Activations
  <2>3. excuses \subseteq excuses' /\ TableNames' = TableNames
    <3>1. CASE count = MaxSlots
      <4>1. excuses' = excuses \cup {"full"} /\ UNCHANGED <<slots, count>>
        BY <2>1, <3>1 DEF AddWorkspace
      <4> QED BY <4>1 DEF TableNames
    <3>2. CASE count # MaxSlots
      <4>1. PICK h \in Handles : AddWorkspace(h)
        <5>1. Head(events).handle \in Handles
          <6>1. "workspace" \notin {"done", "sync", "finished"}
            OBVIOUS
          <6> QED BY <1>1, <2>1, <6>1, TakeFacts
        <5> QED BY <2>1, <5>1
      <4>2. /\ count' = count + 1 /\ count + 1 \in 1..MaxSlots
            /\ \A i \in 1..count : slots'[i] = slots[i]
            /\ slots'[count + 1] = NewSlot(h) /\ UNCHANGED excuses
        BY <1>1, <3>2, <4>1, AddShape
      <4>3. NewSlot(h).name = ""
        BY DEF NewSlot
      <4>4. count \in Nat /\ \A i \in 1..count' : i \in 1..count \/ i = count + 1
        BY <1>1, <4>2 DEF TableTypeOK
      <4>5. \A i \in 1..count : i \in 1..count'
        BY <4>2, <4>4
      <4> QED BY <4>2, <4>3, <4>4, <4>5 DEF TableNames
    <3> QED BY <3>1, <3>2
  <2> QED BY <1>4, <1>5, <2>1, <2>2, <2>3
<1>7. CASE HandleName
  <2>1. /\ Take("name") /\ pc' = Dispatching /\ UNCHANGED <<count, current>>
        /\ UNCHANGED <<slots, dirty, excuses>> \/ dirty' = TRUE
    BY <1>7 DEF HandleName
  <2>2. UNCHANGED <<slots, dirty, excuses>>
    BY <1>2, <2>1
  <2>3. ~Due /\ Head(events) \notin Activations
    BY <1>2, <1>3, <2>1, <2>2 DEF Take, Activations
  <2>4. TableNames' = TableNames
    BY <2>1, <2>2 DEF TableNames
  <2> QED BY <1>4, <1>5, <2>1, <2>2, <2>3, <2>4
<1>8. CASE HandleState
  <2>1. PICK h : h = Head(events).handle
    OBVIOUS
  <2>2. PICK e : e = Head(events)
    OBVIOUS
  <2>3. Take("state") /\ pc' = Dispatching /\ UNCHANGED <<count, slotOf>>
    BY <1>8 DEF HandleState
  <2>4. slotOf[h] = 0 /\ UNCHANGED <<slots, current, dirty, excuses>>
    BY <1>2, <1>8, <2>1 DEF HandleState
  <2>5. /\ events # <<>> /\ events' = Tail(events) /\ h \in Handles /\ e \in Sent
        /\ e.handle = h /\ e.type = "state"
    <3>1. "state" \notin {"done", "sync", "finished"}
      OBVIOUS
    <3> QED BY <1>1, <2>1, <2>2, <2>3, <3>1, TakeFacts
  <2>6. ~Due
    BY <1>2, <1>3, <2>3, <2>4
  <2>7. TableNames' = TableNames
    BY <2>3, <2>4 DEF TableNames
  <2>8. ASSUME Settles' PROVE ~Meets(events, Activations)
    <3>1. /\ Agreement /\ CurrentComes
          /\ ~Meets(events', Activations)
      <4>1. Sound
        BY <2>8, SoundBefore DEF Settles
      <4>2. Agreement /\ CurrentComes
        BY <4>1 DEF TrackingInvariant, Tracking
      <4> QED BY <2>8, <4>2 DEF Settles, Activations, Meets
    <3>2. ~InTable(h)
      BY <1>1, <2>4 DEF InTable, World, InUse
    <3>3. ~Coming(h)
      <4>1. e \in About(h) /\ e \notin Of("workspace", h)
        BY <2>5 DEF Sent, About, Of
      <4> QED BY <1>1, <2>2, <2>5, <4>1, NotComing
    <3>4. e \notin About(active)
      <4>1. h \notin Existing
        BY <2>5, <3>1, <3>2, <3>3 DEF Agreement, Membership
      <4> QED BY <1>1, <2>5, <4>1 DEF About, World, DesktopOK
    <3>5. e \notin Activations
      <4>1. EndsIn(events, Activations, About(active))
        BY <3>1 DEF CurrentComes
      <4>2. \A T, G : EndsIn(events, T, G) => (e \in T \ G => Meets(Tail(events), T))
        BY <1>1, <2>2, <2>5, QueueTaken
      <4> QED BY <2>5, <3>1, <3>4, <4>1, <4>2
    <3> QED BY <1>5, <2>2, <2>3, <2>8, <3>5
  <2> QED BY <1>4, <2>4, <2>6, <2>7, <2>8
<1>9. CASE HandleRemoved
  <2>1. /\ Take("removed") /\ pc' = Dispatching /\ UNCHANGED <<current, excuses>>
        /\ UNCHANGED <<slots, count, dirty>> \/ dirty' = TRUE
    BY <1>9 DEF HandleRemoved, RemoveWorkspace
  <2>2. UNCHANGED <<slots, count, dirty>>
    BY <1>2, <2>1
  <2>3. ~Due /\ Head(events) \notin Activations
    BY <1>2, <1>3, <2>1, <2>2 DEF Take, Activations
  <2>4. TableNames' = TableNames
    BY <2>2 DEF TableNames
  <2> QED BY <1>4, <1>5, <2>1, <2>2, <2>3, <2>4
<1>10. CASE HandleDone
  <2>1. Take("done") /\ pc' = Dispatching /\ UNCHANGED <<slots, count, current, dirty, excuses>>
    BY <1>2, <1>10 DEF HandleDone, outsideVars, tableVars
  <2>2. ~Due /\ Head(events) \notin Activations
    BY <1>2, <1>3, <2>1 DEF Take, Activations
  <2>3. TableNames' = TableNames
    BY <2>1 DEF TableNames
  <2> QED BY <1>4, <1>5, <2>1, <2>2, <2>3
<1>11. CASE HandleSync
  BY <1>2, <1>11 DEF HandleSync
<1>12. CASE HandleFinished
  <2>1. /\ Take("finished") /\ pc' = Dispatching /\ ~running'
        /\ UNCHANGED <<slots, count, current, dirty, excuses>>
    BY <1>12 DEF HandleFinished, tableVars
  <2>2. ~Due /\ ~Settles'
    BY <1>2, <1>3, <2>1 DEF Settles, Sound
  <2>3. TableNames' = TableNames
    BY <2>1 DEF TableNames
  <2> QED BY <1>4, <2>1, <2>2, <2>3
<1> QED BY <1>6, <1>7, <1>8, <1>9, <1>10, <1>11, <1>12 DEF Ends

-----------------------------------------------------------------------------
\* Steps with a publication still to come.
LEMMA DueReaches == ASSUME Due' PROVE Reaches'
  BY DEF Reaches, InStep

\* Steps of the program alone.
LEMMA ProgramReaches ==
    ASSUME Reaches, UNCHANGED <<slots, count, current, streams, up, daemon, active, pending>>,
           UNCHANGED <<requests, fifo, lines>>, excuses \subseteq excuses',
           ~Due' => ~Due, Settles' => Settles
    PROVE  Reaches'
<1>1. TableNames' = TableNames
  BY DEF TableNames
<1>2. /\ Excused => Excused'
      /\ "crossed" \in excuses => "crossed" \in excuses'
      /\ CurrentKnown => CurrentKnown'
  BY KnownStays
<1> QED BY <1>1, <1>2, ReachesStays

\* The loop goes on with what it knows, or something is to be published.
LEMMA LoopReaches ==
    ASSUME Reaches, UNCHANGED <<active, pending>>,
           \/ EndDispatch \/ OpenFifo \/ OpenAtStartup \/ UpdateState \/ PublishWorkspaces
           \/ Killed \/ Signal \/ WaylandFails
    PROVE  Reaches'
<1>1. CASE EndDispatch
  <2>1. /\ UNCHANGED <<slots, count, current, streams, up, daemon, requests, fifo, lines>>
        /\ UNCHANGED <<events, running, dirty, excuses>> /\ pc = "dispatch"
        /\ pc' = "update" \/ pc' = "poll" \/ pc' = "over"
    BY <1>1 DEF EndDispatch, Loop, tableVars, linkVars
  <2>2. (~Due' => ~Due) /\ (Settles' => Settles)
    <3>1. ~Due' => ~Due
      BY <2>1 DEF Due
    <3>2. Settles' => Settles
      BY <2>1 DEF Settles, Sound, Meets, Activations
    <3> QED BY <3>1, <3>2
  <2> QED BY <2>1, <2>2, ProgramReaches
<1>2. CASE OpenFifo \/ OpenAtStartup \/ UpdateState \/ PublishWorkspaces \/ Killed \/ Signal
  <2>1. pc' \in {"open", "update", "workspaces", "pager", "over"}
    BY <1>2 DEF OpenFifo, OpenAtStartup, UpdateState, PublishWorkspaces, Killed, Signal
  <2> QED BY <2>1, DueReaches DEF Due
<1>3. CASE WaylandFails
  <2>1. CASE pc' = "over"
    BY <2>1, DueReaches DEF Due
  <2>2. CASE pc' # "over"
    <3>1. /\ UNCHANGED <<slots, count, current, streams, up, daemon, requests, fifo, lines>>
          /\ UNCHANGED <<pc, dirty, excuses>> /\ ~running'
      BY <1>3, <2>2 DEF WaylandFails, tableVars, linkVars
    <3> QED BY <3>1, ProgramReaches DEF Due, Settles, Sound
  <2> QED BY <2>1, <2>2
<1> QED BY <1>1, <1>2, <1>3

\* A line that is read whole is still a switch on its way.
LEMMA ReadReaches ==
    ASSUME TrackingInvariant, Reaches, ReadFifo, UNCHANGED <<active, pending>>
    PROVE  Reaches'
<1>1. /\ UNCHANGED <<slots, count, current, streams, up, daemon, requests>>
      /\ UNCHANGED <<events, running, dirty>> /\ pc = "poll" /\ pc' = "carry" /\ fifo # <<>>
  BY DEF ReadFifo, tableVars, linkVars
<1>2. lines = <<>> /\ fifo \in Seq(Strings) /\ LinesPerRead \in Nat \ {0}
  BY <1>1, PagerdAssumption DEF TrackingInvariant, Types, LoopTypes, QueueTypes
<1>3. PICK n : n = IF Len(fifo) < LinesPerRead THEN Len(fifo) ELSE LinesPerRead
  OBVIOUS
<1>4. n \in 1..Len(fifo)
  <2>1. Len(fifo) \in Nat \ {0}
    BY <1>1, <1>2
  <2> QED BY <1>2, <1>3, <2>1
<1>5. \/ /\ lines' = SubSeq(fifo, 1, n) /\ fifo' = SubSeq(fifo, n + 1, Len(fifo))
         /\ UNCHANGED excuses
      \/ excuses' = excuses \cup {"cut"}
  BY <1>3 DEF ReadFifo
<1>6. /\ excuses \subseteq excuses' /\ (~Due' => ~Due)
      /\ Settles' => Settles
  <2>1. excuses \subseteq excuses' /\ (~Due' => ~Due)
    BY <1>1, <1>5 DEF Due
  <2>2. Settles' => Settles
    BY <1>1, <2>1 DEF Settles, Sound, Meets, Activations
  <2> QED BY <2>1, <2>2
<1>7. CurrentKnown => CurrentKnown'
  <2>1. CASE excuses' = excuses \cup {"cut"}
    BY <2>1 DEF CurrentKnown, Settled
  <2>2. CASE lines' = SubSeq(fifo, 1, n) /\ fifo' = SubSeq(fifo, n + 1, Len(fifo)) /\ UNCHANGED excuses
    <3>1. ASSUME NEW i \in DOMAIN fifo, fifo[i] \notin {"", current} PROVE Asked'
      <4>1. i \in 1..Len(fifo) /\ Len(fifo) \in Nat
        <5>1. \A q \in Seq(Strings) : DOMAIN q = 1..Len(q) /\ Len(q) \in Nat
          BY SeqIsList
        <5> QED BY <1>2, <3>1, <5>1
      <4>2. CASE i <= n
        <5>1. i \in DOMAIN lines' /\ lines'[i] = fifo[i]
          BY <1>2, <1>4, <2>2, <4>1, <4>2
        <5> QED BY <1>1, <3>1, <5>1 DEF Asked
      <4>3. CASE i > n
        <5>1. i - n \in DOMAIN fifo' /\ fifo'[i - n] = fifo[i]
          <6> DEFINE q == SubSeq(fifo, n + 1, Len(fifo))
          <6>1. DOMAIN q = 1..Len(q) /\ Len(q) = Len(fifo) - n
            BY <1>2, <1>4, <4>1
          <6>2. \A k \in 1..(Len(fifo) - n) : q[k] = fifo[n + k]
            BY <1>2, <1>4, <4>1
          <6>3. i - n \in 1..(Len(fifo) - n) /\ n + (i - n) = i
            BY <1>4, <4>1, <4>3
          <6> QED BY <2>2, <6>1, <6>2, <6>3
        <5> QED BY <1>1, <3>1, <5>1 DEF Asked
      <4> QED BY <1>4, <4>1, <4>2, <4>3
    <3>2. Asked => Asked'
      <4>1. ~ \E i \in DOMAIN lines : TRUE
        BY <1>2
      <4> QED BY <1>1, <3>1, <4>1 DEF Asked
    <3> QED BY <1>1, <2>2, <3>2 DEF CurrentKnown
  <2> QED BY <1>5, <2>1, <2>2
<1>8. TableNames' = TableNames /\ (Excused => Excused')
  BY <1>1, <1>6 DEF TableNames, Excused
<1> QED BY <1>1, <1>6, <1>7, <1>8, ReachesStays

\* A line that names another workspace than the current one becomes a request.
LEMMA CarryReaches ==
    ASSUME TrackingInvariant, Reaches, CarryOut, UNCHANGED <<active, pending>>
    PROVE  Reaches'
<1>1. /\ UNCHANGED <<slots, count, current, streams, up, daemon, fifo>>
      /\ UNCHANGED <<events, running, dirty>> /\ pc = "carry" /\ pc' \in {"poll", "carry"}
      /\ lines' = Tail(lines)
  BY DEF CarryOut, tableVars, linkVars
<1>2. /\ lines # <<>> /\ lines \in Seq(Strings) /\ requests \in Seq(Handles) /\ TableTypeOK
  BY <1>1 DEF TrackingInvariant, Types, LoopTypes, QueueTypes, World
<1>3. PICK i : i = SlotNamed(Head(lines))
  OBVIOUS
<1>4. \/ Head(lines) = "" /\ UNCHANGED <<requests, excuses>>
      \/ i # 0 /\ requests' = Append(requests, slots[i].handle) /\ UNCHANGED excuses
      \/ excuses' = excuses \cup {"unknown"} /\ UNCHANGED requests
  BY <1>3 DEF CarryOut
<1>5. excuses \subseteq excuses' /\ (~Due' => ~Due)
  BY <1>1, <1>4 DEF Due
<1>6. Settles' => Settles
  BY <1>1, <1>5 DEF Settles, Sound, Meets, Activations
<1>7. ASSUME Settles, CurrentKnown PROVE CurrentKnown'
  <2>1. CASE excuses' = excuses \cup {"unknown"}
    BY <2>1 DEF CurrentKnown, Settled
  <2>2. CASE \/ Head(lines) = "" /\ UNCHANGED <<requests, excuses>>
             \/ i # 0 /\ requests' = Append(requests, slots[i].handle) /\ UNCHANGED excuses
    <3>1. ASSUME NEW k \in DOMAIN requests, requests[k] # active PROVE Asked'
      <4>1. k \in DOMAIN requests' /\ requests'[k] = requests[k]
        <5>1. \A h : LET q == Append(requests, h)
                     IN  k \in DOMAIN q /\ q[k] = requests[k]
          BY <1>2, <3>1
        <5> QED BY <2>2, <3>1, <5>1
      <4> QED BY <3>1, <4>1 DEF Asked
    <3>2. ASSUME NEW k \in DOMAIN lines, lines[k] \notin {"", current} PROVE Asked'
      <4>1. CASE k = 1
        <5>1. Head(lines) = lines[1]
          BY <1>2
        <5>2. i # 0 /\ requests' = Append(requests, slots[i].handle)
          BY <2>2, <3>2, <4>1, <5>1
        <5>3. i \in 1..count /\ slots[i].name # current
          <6>1. i \in 0..count /\ slots[i].name = Head(lines)
            BY <1>2, <1>3, <5>2, NamedSlot
          <6>2. count \in Nat
            BY <1>2 DEF TableTypeOK
          <6>3. i # 0 /\ Head(lines) # current
            BY <3>2, <4>1, <5>1, <5>2
          <6> QED BY <6>1, <6>2, <6>3
        <5>4. slots[i].handle # active
          BY <1>7, <5>3, CurrentNamed
        <5>5. \A h : LET q == Append(requests, h)
                     IN  Len(q) \in DOMAIN q /\ q[Len(q)] = h
          BY <1>2
        <5> QED BY <5>2, <5>4, <5>5 DEF Asked
      <4>2. CASE k # 1
        <5>1. k - 1 \in DOMAIN lines' /\ lines'[k - 1] = lines[k]
          <6>1. \A j \in DOMAIN lines :
                   j # 1 => j - 1 \in DOMAIN Tail(lines) /\ Tail(lines)[j - 1] = lines[j]
            BY <1>2, TailShape
          <6> QED BY <1>1, <4>2, <6>1
        <5> QED BY <1>1, <3>2, <5>1 DEF Asked
      <4> QED BY <4>1, <4>2
    <3>3. Asked => Asked'
      <4>1. UNCHANGED <<pending, fifo, current>>
        BY <1>1
      <4>2. ASSUME NEW c \in Clients, pending[c] \notin {"", current} PROVE Asked'
        BY <4>1, <4>2 DEF Asked
      <4>3. ASSUME NEW k \in DOMAIN fifo, fifo[k] \notin {"", current} PROVE Asked'
        BY <4>1, <4>3 DEF Asked
      <4>5. Asked => \/ \E c \in Clients : pending[c] \notin {"", current}
                     \/ \E k \in DOMAIN fifo : fifo[k] \notin {"", current}
                     \/ \E k \in DOMAIN lines : lines[k] \notin {"", current}
                     \/ \E k \in DOMAIN requests : requests[k] # active
        BY DEF Asked
      <4> QED BY <3>1, <3>2, <4>2, <4>3, <4>5
    <3>4. UNCHANGED <<daemon, current, excuses>>
      BY <1>1, <2>2
    <3> QED BY <1>7, <3>3, <3>4 DEF CurrentKnown
  <2> QED BY <1>4, <2>1, <2>2
<1>8. TableNames' = TableNames /\ (Excused => Excused')
  BY <1>1, <1>5 DEF TableNames, Excused
<1> QED BY <1>1, <1>5, <1>6, <1>7, <1>8, ReachesStays

-----------------------------------------------------------------------------
\* Without an activation on its way nobody has switched at the compositor.
LEMMA ChangeSettles ==
    ASSUME World, NEW r, Change(r), UNCHANGED <<running, pc>>, excuses \subseteq excuses', Settles'
    PROVE  Settles /\ active' = active
<1>1. events \in Seq(Sent) /\ r \in Seq(Sent) /\ events' = events \o r
  BY DEF World, Change
<1>2. \A T : Meets(events', T) <=> Meets(events, T) \/ Meets(r, T)
  BY <1>1, QueueGrown
<1>3. ~Meets(events', Activations)
  BY DEF Settles, Meets, Activations
<1>4. active' = active
  BY <1>2, <1>3, ActiveReported
<1> QED BY <1>2, <1>3, <1>4 DEF Settles, Sound

\* What changes at the compositor is nothing the daemon has to know yet.
LEMMA CompositorReaches ==
    ASSUME TrackingInvariant, Reaches, Compositor
    PROVE  Reaches'
<1>1. /\ CompositorChange
      /\ UNCHANGED <<requests, fifo, lines, pending, publisher, up, daemon, streams>>
  BY ChangesStay
<1>2. UNCHANGED <<slots, count, current, running, dirty, pc, excuses>>
  BY <1>1 DEF CompositorChange, tableVars
<1>3. World
  BY DEF TrackingInvariant, Types
<1>4. PICK r : Change(r)
  BY <1>3, CompositorChanges
<1>5. Settles' => Settles /\ active' = active
  BY <1>2, <1>3, <1>4, ChangeSettles
<1>6. ASSUME Settles' PROVE Settles /\ (CurrentKnown => CurrentKnown')
  <2>1. active' = active /\ Settles
    BY <1>5, <1>6
  <2> QED BY <1>1, <1>2, <2>1, KnownStays
<1>7. TableNames' = TableNames /\ (~Due' => ~Due)
  BY <1>2 DEF TableNames, Due
<1> QED BY <1>1, <1>2, <1>6, <1>7, ReachesStays DEF Excused

\* A request that asks for another workspace than the active one is carried out and reported.
LEMMA RequestReaches ==
    ASSUME TrackingInvariant, Reaches, CompositorActivates
    PROVE  Reaches'
<1>1. /\ UNCHANGED <<slots, count, current, running, dirty, pc, up, daemon, streams>>
      /\ UNCHANGED <<fifo, lines, pending>> /\ requests # <<>> /\ requests' = Tail(requests)
  BY DEF CompositorActivates, fifoVars, linkVars, tableVars
<1>2. World /\ requests \in Seq(Handles)
  BY DEF TrackingInvariant, Types, QueueTypes
<1>3. PICK h : h = Head(requests)
  OBVIOUS
<1>4. \/ /\ h \in Existing /\ active' = h /\ UNCHANGED excuses
         /\ events' = events \o (IF h = active THEN <<>> ELSE Activation(h) \o Done)
      \/ excuses' = excuses \cup {"unknown"} /\ UNCHANGED <<active, events>>
  BY <1>3 DEF CompositorActivates
<1>5. TableNames' = TableNames /\ (~Due' => ~Due) /\ excuses \subseteq excuses'
  BY <1>1, <1>4 DEF TableNames, Due
<1>6. Settles' => Settles /\ active' = active
  <2>1. CASE UNCHANGED <<events, compositorVars>>
    BY <1>1, <1>5, <2>1 DEF Settles, Sound, Meets, Activations, compositorVars
  <2>2. CASE \E r : Change(r)
    <3>1. PICK r : Change(r)
      BY <2>2
    <3> QED BY <1>1, <1>2, <1>5, <3>1, ChangeSettles
  <2> QED BY <1>2, <2>1, <2>2, RequestChanges
<1>7. ASSUME Settles', CurrentKnown PROVE CurrentKnown'
  <2>1. CASE excuses' = excuses \cup {"unknown"}
    BY <2>1 DEF CurrentKnown, Settled
  <2>2. CASE UNCHANGED excuses /\ active' = h
    <3>1. h = active /\ active' = active
      BY <1>6, <1>7, <2>2
    <3>2. ASSUME NEW k \in DOMAIN requests, requests[k] # active PROVE Asked'
      <4>1. k # 1
        BY <1>1, <1>2, <1>3, <3>1, <3>2
      <4>2. k - 1 \in DOMAIN requests' /\ requests'[k - 1] = requests[k]
        BY <1>1, <1>2, <3>2, <4>1, TailShape
      <4> QED BY <3>1, <3>2, <4>2 DEF Asked
    <3>3. Asked => Asked'
      <4>1. UNCHANGED <<pending, fifo, lines, current>>
        BY <1>1
      <4>2. ASSUME NEW c \in Clients, pending[c] \notin {"", current} PROVE Asked'
        BY <4>1, <4>2 DEF Asked
      <4>3. ASSUME NEW k \in DOMAIN fifo, fifo[k] \notin {"", current} PROVE Asked'
        BY <4>1, <4>3 DEF Asked
      <4>4. ASSUME NEW k \in DOMAIN lines, lines[k] \notin {"", current} PROVE Asked'
        BY <4>1, <4>4 DEF Asked
      <4>5. Asked => \/ \E c \in Clients : pending[c] \notin {"", current}
                     \/ \E k \in DOMAIN fifo : fifo[k] \notin {"", current}
                     \/ \E k \in DOMAIN lines : lines[k] \notin {"", current}
                     \/ \E k \in DOMAIN requests : requests[k] # active
        BY DEF Asked
      <4> QED BY <3>2, <4>2, <4>3, <4>4, <4>5
    <3>4. UNCHANGED <<daemon, current, excuses>>
      BY <1>1, <2>2
    <3> QED BY <1>7, <3>3, <3>4 DEF CurrentKnown
  <2> QED BY <1>4, <2>1, <2>2
<1> QED BY <1>1, <1>5, <1>6, <1>7, ReachesStays DEF Excused

\* A switch that is committed is on its way; so is one whose line is written.
LEMMA SwitchReaches ==
    ASSUME TrackingInvariant, Reaches, NEW c \in Clients, SwitchCommand(c) \/ SwitchEffect(c)
    PROVE  Reaches'
<1>1. /\ UNCHANGED <<slots, count, current, running, dirty, pc, up, streams, requests, lines>>
      /\ UNCHANGED <<events, active>>
  BY DEF SwitchCommand, SwitchEffect, fifoVars, linkVars, tableVars, compositorVars
<1>2. /\ pending \in [Clients -> Strings] /\ fifo \in Seq(Strings)
      /\ Range(daemon.workspaces) \subseteq Names
  <2>1. daemon.workspaces \in Seq(Names)
    BY DEF TrackingInvariant, Types, LinkTypes, DaemonTypes
  <2>2. Range(daemon.workspaces) \subseteq Names
    BY <2>1, SeqIsList DEF Range
  <2> QED BY <2>2 DEF TrackingInvariant, Types, QueueTypes
<1>3. TableNames' = TableNames /\ (~Due' => ~Due)
  BY <1>1 DEF TableNames, Due
<1>4. excuses \subseteq excuses'
  BY DEF SwitchCommand, SwitchEffect
<1>5. Settles' => Settles
  BY <1>1, <1>4 DEF Settles, Sound, Meets, Activations
<1>6. /\ Range(daemon'.workspaces) = Range(daemon.workspaces)
      /\ CurrentKnown => CurrentKnown'
  <2>1. CASE SwitchCommand(c)
    <3>1. PICK name \in Range(daemon.workspaces) :
             /\ daemon' = [daemon EXCEPT !.current = name]
             /\ pending[c] = "" /\ pending' = [pending EXCEPT ![c] = name]
      BY <2>1 DEF SwitchCommand
    <3>2. daemon'.current = name /\ daemon'.workspaces = daemon.workspaces
      BY <3>1 DEF TrackingInvariant, Types, LinkTypes, DaemonTypes
    <3>3. name # "" /\ pending'[c] = name
      BY <1>2, <3>1, PagerdAssumption
    <3>4. CASE name = current
      BY <1>1, <3>2, <3>4 DEF CurrentKnown
    <3>5. CASE name # current
      BY <1>1, <3>2, <3>3, <3>5 DEF CurrentKnown, Asked
    <3> QED BY <3>2, <3>4, <3>5
  <2>2. CASE SwitchEffect(c)
    <3>1. /\ UNCHANGED daemon /\ pending' = [pending EXCEPT ![c] = ""]
          /\ \/ fifo' = Append(fifo, pending[c]) /\ UNCHANGED excuses
             \/ excuses' = excuses \cup {"effect"}
      BY <2>2 DEF SwitchEffect, linkVars
    <3>2. CASE excuses' = excuses \cup {"effect"}
      BY <3>1, <3>2 DEF CurrentKnown, Settled
    <3>3. CASE fifo' = Append(fifo, pending[c]) /\ UNCHANGED excuses
      <4>1. /\ \A i \in DOMAIN fifo : i \in DOMAIN fifo' /\ fifo'[i] = fifo[i]
            /\ \E i \in DOMAIN fifo' : fifo'[i] = pending[c]
        <5>1. \A x : LET q == Append(fifo, x)
                     IN  /\ \A i \in DOMAIN fifo : i \in DOMAIN q /\ q[i] = fifo[i]
                         /\ Len(q) \in DOMAIN q /\ q[Len(q)] = x
          BY <1>2
        <5> QED BY <3>3, <5>1
      <4>2. \A d \in Clients : d # c => pending'[d] = pending[d]
        BY <1>2, <3>1
      <4>3. Asked => Asked'
        BY <1>1, <4>1, <4>2 DEF Asked
      <4> QED BY <1>1, <3>1, <3>3, <4>3 DEF CurrentKnown
    <3> QED BY <3>1, <3>2, <3>3
  <2> QED BY <2>1, <2>2
<1> QED BY <1>1, <1>3, <1>4, <1>5, <1>6, ReachesStays DEF Excused

-----------------------------------------------------------------------------
\* A daemon that ends leaves something to be published, or had nothing to know.
LEMMA StopReaches ==
    ASSUME TrackingInvariant, Reaches, DaemonStops
    PROVE  Reaches'
<1>1. /\ UNCHANGED <<slots, count, current, running, dirty, pc, events, daemon>>
      /\ excuses' = excuses \cup (IF count = 0 THEN {} ELSE {"stopped"})
  BY DEF DaemonStops, tableVars
<1>2. LinkTypes /\ count \in Nat
  BY DEF TrackingInvariant, Types, World, TableTypeOK
<1>3. \A i \in DOMAIN streams' : ~Waiting(i)'
  BY <1>2, StopsLinks DEF Waiting
<1>4. LastShows'
  BY <1>3 DEF LastShows
<1>5. CASE count # 0
  <2>1. "stopped" \in excuses'
    BY <1>1, <1>5
  <2>2. Excused' /\ CurrentKnown'
    BY <2>1 DEF Excused, CurrentKnown, Settled
  <2> QED BY <1>4, <2>2 DEF Reaches, NamesKnown
<1>6. CASE count = 0
  <2>1. TableNames' = {} /\ TableNames = {}
    BY <1>1, <1>6 DEF TableNames
  <2>2. ~Settles'
    <3>1. Settles' => Settles
      BY <1>1 DEF Settles, Sound, Meets, Activations
    <3> QED BY <2>1, <3>1, CurrentNamed
  <2> QED BY <1>4, <2>1, <2>2 DEF Reaches, NamesKnown
<1> QED BY <1>5, <1>6

\* One that starts finds that excused.
LEMMA StartReaches ==
    ASSUME TrackingInvariant, Reaches, DaemonStarts
    PROVE  Reaches'
<1>1. /\ UNCHANGED <<slots, count, current, running, dirty, pc, events, excuses, streams>>
      /\ ~up /\ up' = TRUE
  BY DEF DaemonStarts, tableVars
<1>2. \A i \in DOMAIN streams : ~Waiting(i)
  BY <1>1 DEF TrackingInvariant, Types, LinkTypes, Waiting
<1>3. LastShows'
  BY <1>1, <1>2 DEF LastShows, Waiting
<1>4. ~Due' => TableNames' = {} \/ Excused'
  BY <1>1 DEF Reaches, TableNames, Excused, Due
<1>5. CASE Excused'
  <2>1. CurrentKnown'
    BY <1>5 DEF Excused, CurrentKnown, Settled
  <2> QED BY <1>1, <1>3, <1>5, <2>1 DEF Reaches, NamesKnown
<1>6. CASE TableNames' = {}
  <2>1. TableNames = {}
    BY <1>1, <1>6 DEF TableNames
  <2>2. ~Settles'
    <3>1. Settles' => Settles
      BY <1>1 DEF Settles, Sound, Meets, Activations
    <3> QED BY <2>1, <3>1, CurrentNamed
  <2> QED BY <1>1, <1>3, <1>6, <2>2 DEF Reaches, NamesKnown
<1> QED BY <1>1, <1>3, <1>4, <1>5, <1>6 DEF Reaches, InStep

\* What shows the table leaves the daemon with all its names, and the current one.
LEMMA ShownKnown ==
    ASSUME TrackingInvariant, NEW p, NEW state, NEW frame, Absorbs(p, state, frame), Shows(frame)
    PROVE  /\ TableNames \subseteq Range(p.workspaces)
           /\ Settles => p.current = current
<1>1. TableNames \subseteq Range(p.workspaces)
  BY DEF Absorbs, Shows
<1>2. Settles => p.current = current
  BY CurrentNamed DEF Absorbs, Shows
<1> QED BY <1>1, <1>2

\* The daemon takes in the oldest frame of a stream.
LEMMA FrameReaches ==
    ASSUME TrackingInvariant, Reaches, HandleFrame
    PROVE  Reaches'
<1>1. UNCHANGED <<slots, count, current, running, dirty, pc, up, events>>
  BY DEF HandleFrame, tableVars
<1>2. PICK i, f : Absorbed(i, f)
  BY FrameCases
<1>3. /\ up /\ i \in DOMAIN streams /\ Waiting(i) /\ f = Head(streams[i].frames)
      /\ excuses' = IF \E j \in 1..(i - 1) : streams[j].frames # <<>>
                    THEN (excuses \ Settled) \cup {"crossed"} ELSE excuses \ Settled
  BY <1>2 DEF Absorbed, Waiting
<1>4. LinkTypes /\ streams \in Seq(StreamTypes) /\ i \in Nat
  BY <1>3 DEF TrackingInvariant, Types, LinkTypes
<1>5. /\ Absorbs(daemon', daemon, f) /\ DOMAIN streams' = DOMAIN streams
      /\ \A j \in DOMAIN streams :
            streams'[j].frames = IF j = i THEN Tail(streams[i].frames) ELSE streams[j].frames
  BY <1>2, <1>4, HandledShape
<1>6. streams[i].frames \in Seq(FrameTypes) /\ streams[i].frames # <<>>
  BY <1>3, <1>4, StreamFrames DEF Waiting
<1>7. TableNames' = TableNames /\ (Due' <=> Due)
  BY <1>1 DEF TableNames, Due
<1>8. SUFFICES ASSUME InStep'
               PROVE  LastShows' /\ (Quiet' => NamesKnown' /\ (Settles' => CurrentKnown'))
  BY <1>1, <1>3 DEF Reaches
<1>9. InStep /\ \A j \in DOMAIN streams : j < i => ~Waiting(j)
  <2>1. ~ \E j \in 1..(i - 1) : streams[j].frames # <<>>
    BY <1>3, <1>8 DEF InStep
  <2>2. "crossed" \notin excuses
    BY <1>3, <1>8, <2>1 DEF InStep, Settled
  <2>3. \A j \in DOMAIN streams : j < i => j \in 1..(i - 1)
    BY <1>4
  <2> QED BY <1>7, <1>8, <2>1, <2>2, <2>3 DEF InStep, Waiting
<1>10. LastShows
  BY <1>9 DEF Reaches
<1>11. ASSUME NEW k \in DOMAIN streams', Waiting(k)',
              \A j \in DOMAIN streams' : Waiting(j)' => j <= k
       PROVE  Shows(Last(streams[k].frames)) /\ Last(streams'[k].frames) = Last(streams[k].frames)
  <2>1. \A j \in DOMAIN streams : Waiting(j) => Waiting(j)' \/ j = i
    BY <1>5 DEF Waiting
  <2>2. Waiting(k)
    BY <1>3, <1>5, <1>11 DEF Waiting
  <2>3. k \in DOMAIN streams /\ k \in Nat /\ i <= k
    <3>1. k \in DOMAIN streams /\ k \in Nat
      BY <1>4, <1>5, <1>11
    <3>2. ~(k < i)
      BY <1>9, <2>2, <3>1
    <3> QED BY <1>4, <3>1, <3>2
  <2>4. \A j \in DOMAIN streams : Waiting(j) => j <= k
    BY <1>5, <1>11, <2>1, <2>3
  <2>5. Shows(Last(streams[k].frames))
    BY <1>10, <2>2, <2>3, <2>4 DEF LastShows
  <2>6. Last(streams'[k].frames) = Last(streams[k].frames)
    <3>1. CASE k # i
      BY <1>5, <2>3, <3>1
    <3>2. CASE k = i
      <4>1. streams'[k].frames = Tail(streams[i].frames) /\ Tail(streams[i].frames) # <<>>
        BY <1>5, <1>11, <2>3, <3>2 DEF Waiting
      <4>2. \A q \in Seq(FrameTypes) : q # <<>> /\ Tail(q) # <<>> => Last(Tail(q)) = Last(q)
        <5> SUFFICES ASSUME NEW q \in Seq(FrameTypes), q # <<>>, Tail(q) # <<>>
                     PROVE  Last(Tail(q)) = Last(q)
          OBVIOUS
        <5>1. /\ Tail(q) \in Seq(FrameTypes) /\ Len(Tail(q)) = Len(q) - 1 /\ Len(q) \in Nat
              /\ DOMAIN Tail(q) = 1..Len(Tail(q))
              /\ \A j \in DOMAIN Tail(q) : Tail(q)[j] = q[j + 1]
          BY TailShape
        <5>2. Len(Tail(q)) \in DOMAIN Tail(q)
          BY <5>1
        <5> QED BY <5>1, <5>2 DEF Last
      <4> QED BY <1>6, <3>2, <4>1, <4>2
    <3> QED BY <3>1, <3>2
  <2> QED BY <2>5, <2>6
<1>12. LastShows'
  BY <1>1, <1>7, <1>11 DEF LastShows, Shows
<1>13. ASSUME Quiet' PROVE Shows(f)
  <2>1. Tail(streams[i].frames) = <<>>
    BY <1>3, <1>5, <1>13 DEF Quiet, Waiting
  <2>2. \A j \in DOMAIN streams : Waiting(j) => j <= i
    <3>1. \A j \in DOMAIN streams : Waiting(j) => j = i
      BY <1>5, <1>13 DEF Quiet, Waiting
    <3> QED BY <1>4, <3>1
  <2>3. Shows(Last(streams[i].frames))
    BY <1>3, <1>10, <2>2 DEF LastShows
  <2>4. \A q \in Seq(FrameTypes) : q # <<>> /\ Tail(q) = <<>> => Last(q) = Head(q)
    <3> SUFFICES ASSUME NEW q \in Seq(FrameTypes), q # <<>>, Tail(q) = <<>>
                 PROVE  Last(q) = Head(q)
      OBVIOUS
    <3>1. Len(q) = 1 /\ Head(q) = q[1]
      <4>1. IsList(q) /\ Head(q) = q[1]
        BY SeqIsList, TailShape
      <4> QED BY <4>1, TailOfOne
    <3> QED BY <3>1 DEF Last
  <2> QED BY <1>3, <1>6, <2>1, <2>3, <2>4
<1>14. ASSUME Quiet' PROVE NamesKnown' /\ (Settles' => CurrentKnown')
  <2>1. /\ TableNames \subseteq Range(daemon'.workspaces)
        /\ Settles => daemon'.current = current
    BY <1>5, <1>13, <1>14, ShownKnown
  <2>2. Settles' => Settles
    <3>1. \A x \in {"full", "slots", "renamed"} : x \in excuses => x \in excuses'
      BY <1>3 DEF Settled
    <3> QED BY <1>1, <3>1 DEF Settles, Sound, Meets, Activations
  <2> QED BY <1>1, <1>7, <2>1, <2>2 DEF NamesKnown, CurrentKnown
<1> QED BY <1>12, <1>14

\* The table is published: on the last stream, by a command, or with an excuse.
LEMMA PublishReaches ==
    ASSUME TrackingInvariant, Reaches, PublishPager, UNCHANGED active
    PROVE  Reaches'
<1>1. /\ UNCHANGED <<slots, count, current, running, publisher, up, events>>
      /\ Publishes(Frame)
  BY TopicCases DEF PublishPager, PublishTopic, tableVars
<1>2. LinkTypes /\ TableTypeOK /\ DOMAIN streams = 1..publisher /\ publisher \in Nat
  BY DEF TrackingInvariant, Types, LinkTypes, World
<1>3. Frame \in [names: Seq(Names), current: Strings] /\ Shows(Frame)
  BY <1>2, FrameFacts DEF Shows
<1>4. TableNames' = TableNames
  BY <1>1 DEF TableNames
<1>5. CASE publisher # 0 /\ streams[publisher].live
  <2>1. PICK q : /\ q = Append(streams[publisher].frames, Frame)
                 /\ streams' = [streams EXCEPT ![publisher].frames = q]
    BY <1>1, <1>5 DEF Publishes
  <2>2. publisher \in DOMAIN streams /\ streams \in Seq(StreamTypes)
    BY <1>2, <1>5 DEF LinkTypes
  <2>3. q \in Seq(FrameTypes) /\ q # <<>> /\ Last(q) = Frame
    <3>1. \A frames \in Seq(FrameTypes) : \A x \in FrameTypes :
              LET s == Append(frames, x)
              IN  s \in Seq(FrameTypes) /\ s # <<>> /\ s[Len(s)] = x
      OBVIOUS
    <3>2. PICK f : f = Frame
      OBVIOUS
    <3>3. streams[publisher].frames \in Seq(FrameTypes) /\ f \in FrameTypes
      BY <1>3, <2>2, <3>2, StreamFrames DEF FrameTypes
    <3>4. q = Append(streams[publisher].frames, f)
      BY <2>1, <3>2
    <3>5. q \in Seq(FrameTypes) /\ q # <<>> /\ q[Len(q)] = f
      BY <3>1, <3>3, <3>4
    <3>6. Last(q) = f
      BY <3>5 DEF Last
    <3> QED BY <3>2, <3>5, <3>6
  <2>4. DOMAIN streams' = DOMAIN streams /\ streams'[publisher].frames = q
    <3>1. streams' = [streams EXCEPT ![publisher].frames = q] /\ q \in Seq(FrameTypes)
      BY <2>1, <2>3
    <3>2. /\ DOMAIN streams' = DOMAIN streams
          /\ \A j \in DOMAIN streams :
                streams'[j].frames = IF j = publisher THEN q ELSE streams[j].frames
      BY <2>2, <3>1, StreamShape
    <3> QED BY <2>2, <3>2
  <2>5. LastShows'
    <3> SUFFICES ASSUME NEW k \in DOMAIN streams',
                        \A j \in DOMAIN streams' : Waiting(j)' => j <= k
                 PROVE  Shows(Last(streams[k].frames))'
      BY DEF LastShows
    <3>1. Waiting(publisher)'
      BY <1>1, <2>3, <2>4 DEF Waiting
    <3>2. k = publisher
      <4>1. publisher <= k /\ k \in 1..publisher
        BY <1>1, <1>2, <2>2, <2>4, <3>1
      <4> QED BY <1>2, <4>1
    <3> QED BY <1>1, <1>3, <1>4, <2>3, <2>4, <3>2 DEF Shows
  <2>6. ~Quiet'
    BY <1>1, <2>2, <2>3, <2>4 DEF Quiet, Waiting
  <2>7. up'
    BY <1>1, <1>2, <1>5, <2>2 DEF LinkTypes
  <2> QED BY <2>5, <2>6, <2>7 DEF Reaches
<1>6. CASE publisher = 0 /\ up
  <2>1. /\ UNCHANGED streams /\ daemon' = Published(daemon, Frame)
        /\ excuses' = excuses \ Settled
    BY <1>1, <1>6 DEF Publishes
  <2>2. DOMAIN streams' = {}
    BY <1>2, <1>6, <2>1
  <2>3. Absorbs(daemon', daemon, Frame)
    <3>1. daemon \in DaemonTypes
      BY <1>2 DEF LinkTypes
    <3> QED BY <1>3, <2>1, <3>1, PublishedFacts
  <2>4. /\ TableNames \subseteq Range(daemon'.workspaces)
        /\ Settles => daemon'.current = current
    BY <1>3, <2>3, ShownKnown
  <2>5. Settles' => Settles
    <3>1. \A x \in {"full", "slots", "renamed"} : x \in excuses => x \in excuses'
      BY <2>1 DEF Settled
    <3>2. pc = "pager"
      BY DEF PublishPager
    <3> QED BY <1>1, <3>1, <3>2 DEF Settles, Sound, Meets, Activations
  <2>6. NamesKnown' /\ (Settles' => CurrentKnown')
    BY <1>1, <1>4, <2>4, <2>5 DEF NamesKnown, CurrentKnown
  <2> QED BY <1>1, <1>6, <2>2, <2>6 DEF Reaches, LastShows
<1>7. CASE ~(publisher # 0 /\ streams[publisher].live) /\ ~(publisher = 0 /\ up)
  <2>1. UNCHANGED streams /\ "publish" \in excuses'
    BY <1>1, <1>7 DEF Publishes
  <2>2. \A i \in DOMAIN streams : ~Waiting(i)
    BY <1>2, <1>7 DEF LinkTypes, Waiting
  <2>3. Excused' /\ CurrentKnown'
    BY <2>1 DEF Excused, CurrentKnown, Settled
  <2> QED BY <2>1, <2>2, <2>3 DEF Reaches, LastShows, Waiting, NamesKnown
<1> QED BY <1>5, <1>6, <1>7

-----------------------------------------------------------------------------
LEMMA StepReaches ==
    ASSUME TrackingInvariant, Reaches, [Next]_syncVars
    PROVE  Reaches'
<1>1. \/ /\ UNCHANGED <<compositorVars, pending>>
         /\ \/ HandleWorkspace \/ HandleName \/ HandleState \/ HandleRemoved
            \/ Ends \/ Loops \/ WaylandFails
      \/ Compositor \/ CompositorActivates \/ Elsewhere
  BY StepCases
<1>2. CASE /\ UNCHANGED <<compositorVars, pending>>
           /\ HandleWorkspace \/ HandleName \/ HandleState \/ HandleRemoved \/ Ends
  BY <1>2, ListenersReach
<1>3. CASE UNCHANGED <<compositorVars, pending>> /\ (Loops \/ WaylandFails)
  <2>1. UNCHANGED <<active, pending>>
    BY <1>3 DEF compositorVars
  <2>2. CASE ReadFifo
    BY <2>1, <2>2, ReadReaches
  <2>3. CASE CarryOut
    BY <2>1, <2>3, CarryReaches
  <2>4. CASE PublishPager
    BY <2>1, <2>4, PublishReaches
  <2>5. CASE \/ EndDispatch \/ OpenFifo \/ OpenAtStartup \/ UpdateState \/ PublishWorkspaces
             \/ Killed \/ Signal \/ WaylandFails
    BY <2>1, <2>5, LoopReaches
  <2> QED BY <1>3, <2>2, <2>3, <2>4, <2>5 DEF Loops
<1>4. CASE Elsewhere
  <2>1. CASE HandleFrame
    BY <2>1, FrameReaches
  <2>2. CASE \E c \in Clients : SwitchCommand(c) \/ SwitchEffect(c)
    BY <2>2, SwitchReaches
  <2>3. CASE DaemonStops
    BY <2>3, StopReaches
  <2>4. CASE DaemonStarts
    BY <2>4, StartReaches
  <2>5. CASE UNCHANGED syncVars
    <3>1. /\ UNCHANGED <<slots, count, current, streams, up, daemon, active, pending>>
          /\ UNCHANGED <<requests, fifo, lines, excuses, dirty, pc, running, events>>
      BY <2>5 DEF syncVars, vars, outsideVars, tableVars, fifoVars, linkVars, compositorVars
    <3> QED BY <3>1, ProgramReaches DEF Due, Settles, Sound, Meets, Activations
  <2> QED BY <1>4, <2>1, <2>2, <2>3, <2>4, <2>5 DEF Elsewhere, Daemon
<1> QED BY <1>1, <1>2, <1>3, <1>4, CompositorReaches, RequestReaches

LEMMA InitReaches == Init => Reaches
  BY DEF Init, PagerdInit, Reaches, InStep, Due

\* With nothing on its way the daemon has the compositor's current workspace.
LEMMA ReachesAgrees == TrackingInvariant /\ Reaches => AgreesAtRest
<1> SUFFICES ASSUME TrackingInvariant, Reaches, AtRest, excuses = {}
             PROVE  /\ daemon.current = nameOf[active]
                    /\ UsedNames \subseteq Range(daemon.workspaces)
  BY DEF AgreesAtRest
<1>1. /\ events = <<>> /\ pc = "poll" /\ lines = <<>> /\ running /\ ~dirty
      /\ World /\ LinkTypes
  BY DEF AtRest, TrackingInvariant, Types, LoopTypes
<1>2. Settles
  BY <1>1 DEF Settles, Sound, Meets
<1>3. Tracked
  BY <1>1, <1>2, AgreementTracks DEF Settles, TrackingInvariant, Tracking
<1>4. NamesKnown /\ CurrentKnown
  <2>1. InStep /\ Quiet
    BY <1>1 DEF InStep, Due, Quiet, Waiting, AtRest
  <2> QED BY <1>2, <2>1 DEF Reaches
<1>5. ~Asked
  <2>1. /\ requests = <<>> /\ fifo = <<>> /\ lines = <<>>
        /\ \A c \in Clients : pending[c] = ""
    BY <1>1 DEF AtRest
  <2>2. \A i : i \notin DOMAIN requests /\ i \notin DOMAIN fifo /\ i \notin DOMAIN lines
    BY <2>1, EmptyList
  <2> QED BY <2>1, <2>2 DEF Asked
<1>6. daemon.current = nameOf[active]
  BY <1>3, <1>4, <1>5 DEF CurrentKnown, Tracked
<1>7. UsedNames \subseteq Range(daemon.workspaces)
  <2> SUFFICES ASSUME NEW h \in Existing PROVE nameOf[h] \in TableNames
    BY <1>4 DEF UsedNames, NamesKnown, Excused
  <2>1. PICK i \in DOMAIN order : order[i] = h
    BY DEF Existing, Range
  <2>2. i \in 1..count /\ slots[i].name = nameOf[h]
    <3>1. DOMAIN order = 1..Len(order)
      <4>1. order \in Seq(Handles)
        BY <1>1 DEF World, DesktopOK
      <4> QED BY <4>1, SeqIsList
    <3>2. /\ count = Len(order)
          /\ \A j \in 1..count : slots[j] = [handle |-> order[j], name |-> nameOf[order[j]],
                                            active |-> order[j] = active]
      BY <1>3 DEF Tracked
    <3>3. i \in 1..count
      BY <2>1, <3>1, <3>2
    <3>4. slots[i].name = nameOf[order[i]]
      <4>1. \A handle, name, flag : [handle |-> handle, name |-> name, active |-> flag].name = name
        OBVIOUS
      <4>2. PICK flag : slots[i] = [handle |-> order[i], name |-> nameOf[order[i]], active |-> flag]
        BY <3>2, <3>3
      <4> QED BY <4>1, <4>2
    <3> QED BY <2>1, <3>3, <3>4
  <2>3. nameOf[h] # ""
    BY <1>1, ExistingNamed DEF World
  <2> QED BY <2>2, <2>3 DEF TableNames
<1> QED BY <1>6, <1>7

\* Once everything has arrived, the daemon's current workspace is the compositor's, whoever
\* switched and in whichever order the switches crossed, and the daemon knows every workspace
\* (doc/README.haskell-runtime-architecture.md:754-757), but for what excuses names.
THEOREM DaemonAgreesAtRest == Spec => []AgreesAtRest
<1>1. Init => TrackingInvariant /\ Reaches
  BY InitTracks, InitReaches
<1>2. TrackingInvariant /\ Reaches /\ [Next]_syncVars => (TrackingInvariant /\ Reaches)'
  BY StepTracks, StepReaches
<1>3. TrackingInvariant /\ Reaches => AgreesAtRest
  BY ReachesAgrees
<1> QED BY <1>1, <1>2, <1>3, PTL DEF Spec
=============================================================================
