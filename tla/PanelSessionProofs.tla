-------------------------- MODULE PanelSessionProofs --------------------------
(***************************************************************************)
(* The panel has one subpanel at most, and hit tests and triggers take the *)
(* subpanel for active that is seen: for any layout, subpanels, daemon's   *)
(* states, budgets and orders of events, unless an opening was nested in   *)
(* the roundtrip of another one or the compositor closed a subpanel.       *)
(*                                                                         *)
(* A subpanel is closed, being opened or open.  While it is being opened   *)
(* one roundtrip of open_subpanel is on the stack, and it will make the    *)
(* subpanel active whose surface was created before the roundtrip.         *)
(*                                                                         *)
(* A press that is not excused does what was drawn where it was made.      *)
(* The compositor queues a press behind the enter or motion that moved the *)
(* pointer there, so when the press is handled the focus is its surface    *)
(* and the pointer its point, unless the surface is gone: destroying one   *)
(* changes its own events only, and it never is the subpanel's again.      *)
(* While it lives the subpanel it shows stays the one it was made for, so  *)
(* what is hit is what was drawn.  Of the panel's layout a press asks only *)
(* for the number of workspaces, and one drawn for an older number is an   *)
(* excuse of its own.                                                      *)
(***************************************************************************)
EXTENDS PanelSession, ListFacts, FiniteSetTheorems

\* Without an excuse, the compositor closes the panel's surface only.
EventOk(e) ==
    /\ e = [type |-> e.type, of |-> e.of, at |-> e.at, button |-> e.button, meant |-> e.meant,
            names |-> e.names]
    /\ e.type = "closed" => e.of = PanelSurface

EventsOk == IsList(events) /\ \A e \in Range(events) : EventOk(e)

SubpanelShape ==
    /\ sp = [surface |-> sp.surface, open |-> sp.open, configured |-> sp.configured,
             sub |-> sp.sub, active |-> sp.active]
    /\ sp.open \in BOOLEAN

PopupShape ==
    /\ IsList(popups)
    /\ \A n \in DOMAIN popups : popups[n] = [state |-> popups[n].state, drawn |-> popups[n].drawn]

OnlyCurrent == \A n \in DOMAIN popups : popups[n].state # "gone" => n = sp.surface

IsClosed == stack = <<>> /\ ~sp.open /\ sp.surface = NoSurface

\* The current surface shows the subpanel it was made for, or nothing yet.
ShowsSub ==
    /\ sp.surface \in DOMAIN popups /\ sp.sub # 0
    /\ popups[sp.surface].drawn \in {0, sp.sub}

IsOpening ==
    /\ IsList(stack) /\ Len(stack) = 1
    /\ stack[1] = [sub |-> sp.sub, done |-> stack[1].done]
    /\ ~sp.open /\ ShowsSub

IsOpen == stack = <<>> /\ sp.open /\ sp.active = sp.sub /\ ShowsSub

SubpanelKnown ==
    /\ SubpanelShape /\ PopupShape /\ OnlyCurrent
    /\ IsClosed \/ IsOpening \/ IsOpen

\* The buffers whose release is owed can be counted.
OwedCounted == IsFiniteSet(owed) /\ callbacks \in Nat

SubpanelInvariant ==
    /\ OwedCounted
    /\ excuses = {} => EventsOk /\ SubpanelKnown

subpanelVars == <<sp, stack, popups>>

-----------------------------------------------------------------------------
\* At the start there are no surfaces and no events.
LEMMA InitKnown == Init => SubpanelInvariant
<1> SUFFICES ASSUME Init PROVE SubpanelInvariant
  OBVIOUS
<1>1. /\ events = <<>> /\ popups = <<>> /\ stack = <<>> /\ sp = NoSubpanel
      /\ owed = {} /\ callbacks = 0
  BY DEF Init, PaneldInit
<1>2. EventsOk /\ PopupShape /\ OnlyCurrent
  BY <1>1, EmptyList DEF EventsOk, PopupShape, OnlyCurrent
<1>3. SubpanelShape /\ IsClosed
  BY <1>1 DEF SubpanelShape, IsClosed, NoSubpanel
<1>4. OwedCounted
  BY <1>1, FS_EmptySet DEF OwedCounted
<1> QED BY <1>2, <1>3, <1>4 DEF SubpanelInvariant, SubpanelKnown

-----------------------------------------------------------------------------
(* Events and rendering *)

\* A step that leaves the subpanel alone.
LEMMA QuietKeeps ==
    ASSUME SubpanelInvariant, UNCHANGED popupVars, OwedCounted', EventsOk => EventsOk'
    PROVE  SubpanelInvariant'
<1>1. UNCHANGED <<sp, stack, popups, excuses>>
  BY DEF popupVars
<1>2. SubpanelKnown => SubpanelKnown'
  BY <1>1 DEF SubpanelKnown, SubpanelShape, PopupShape, OnlyCurrent, IsClosed, IsOpening, IsOpen,
              ShowsSub
<1> QED BY <1>1, <1>2 DEF SubpanelInvariant

\* What queues may do with their events.
LEMMA EventsTail == events # <<>> /\ events' = Tail(events) => (EventsOk => EventsOk')
<1> SUFFICES ASSUME events # <<>>, events' = Tail(events), EventsOk PROVE EventsOk'
  OBVIOUS
<1>1. IsList(events') /\ Range(events') \subseteq Range(events)
  BY TailList DEF EventsOk
<1> QED BY <1>1 DEF EventsOk, EventOk

LEMMA EventsAdded ==
    ASSUME NEW more, IsList(more), \A e \in Range(more) : EventOk(e), events' = events \o more
    PROVE  EventsOk => EventsOk'
<1> SUFFICES ASSUME EventsOk PROVE EventsOk'
  OBVIOUS
<1>1. IsList(events') /\ Range(events') \subseteq Range(events) \cup Range(more)
  BY ConcatList DEF EventsOk
<1> QED BY <1>1 DEF EventsOk, EventOk

LEMMA EventAppended ==
    ASSUME NEW e, EventOk(e), events' = Append(events, e)
    PROVE  EventsOk => EventsOk'
<1> SUFFICES ASSUME EventsOk PROVE EventsOk'
  OBVIOUS
<1>1. IsList(events') /\ Range(events') \subseteq Range(events) \cup {e}
  BY AppendList DEF EventsOk
<1> QED BY <1>1 DEF EventsOk, EventOk

\* An event as the compositor makes it, about another surface, and with a
\* place.
LEMMA EvOk == \A type, of : type # "closed" \/ of = PanelSurface => EventOk(Ev(type, of))
  BY DEF EventOk, Ev

LEMMA EvOfOk ==
    \A e, of : EventOk(e) /\ e.type # "closed" => EventOk([e EXCEPT !.of = of])
  BY DEF EventOk

LEMMA EvAtOk == \A e, p : EventOk(e) => EventOk([e EXCEPT !.at = p])
  BY DEF EventOk

\* Drawing counts what it commits.
LEMMA PaintKeeps ==
    ASSUME OwedCounted,
           (\E shown, pending : Paint(shown, pending)) \/ UNCHANGED <<owed, callbacks>>
    PROVE  OwedCounted'
<1>1. CASE UNCHANGED <<owed, callbacks>>
  BY <1>1 DEF OwedCounted
<1>2. CASE \E shown, pending : Paint(shown, pending)
  <2>1. \/ UNCHANGED <<owed, callbacks>>
        \/ \E b : owed' = owed \cup {b} /\ callbacks' = callbacks + 1
    BY <1>2 DEF Paint
  <2>2. \A b : IsFiniteSet(owed \cup {b})
    BY FS_AddElement DEF OwedCounted
  <2> QED BY <2>1, <2>2 DEF OwedCounted
<1> QED BY <1>1, <1>2

LEMMA ParseKeeps ==
    ASSUME OwedCounted, NEW topic, NEW state, Parse(topic, state)
    PROVE  OwedCounted'
<1>1. (\E shown, pending : Paint(shown, pending)) \/ UNCHANGED <<owed, callbacks>>
  BY DEF Parse, RequestRender, NotPainted, paintedVars
<1> QED BY <1>1, PaintKeeps

\* Rendering the subpanel draws the one that the surface was made for.
LEMMA RenderKeeps ==
    ASSUME PopupShape, sp.surface \in DOMAIN popups, RenderSubpanel
    PROVE  /\ PopupShape' /\ DOMAIN popups' = DOMAIN popups
           /\ \A n \in DOMAIN popups : popups'[n].state = popups[n].state
           /\ popups'[sp.surface].drawn \in {popups[sp.surface].drawn, sp.sub}
<1>1. CASE popups' = popups
  BY <1>1 DEF PopupShape
<1>2. CASE popups' = [popups EXCEPT ![sp.surface].drawn = sp.sub]
  <2>1. ASSUME NEW n \in DOMAIN popups
        PROVE  /\ popups'[n] = [state |-> popups'[n].state, drawn |-> popups'[n].drawn]
               /\ popups'[n].state = popups[n].state
               /\ n = sp.surface => popups'[n].drawn = sp.sub
    <3>1. popups[n] = [state |-> popups[n].state, drawn |-> popups[n].drawn]
      BY DEF PopupShape
    <3>2. \/ popups'[n] = popups[n] /\ n # sp.surface
          \/ popups'[n] = [popups[n] EXCEPT !.drawn = sp.sub]
      BY <1>2
    <3> QED BY <3>1, <3>2
  <2>2. DOMAIN popups' = DOMAIN popups /\ popups' = [n \in DOMAIN popups |-> popups'[n]]
    BY <1>2
  <2>3. IsList(popups')
    BY <2>2, ReplacedList DEF PopupShape
  <2> QED BY <2>1, <2>2, <2>3 DEF PopupShape
<1> QED BY <1>1, <1>2 DEF RenderSubpanel

-----------------------------------------------------------------------------
(* The panel's steps *)

\* Those that leave the subpanel alone.
LEMMA StillSteps ==
    ASSUME SubpanelInvariant,
           QueriesEnd \/ Subscribe \/ DrainEnds \/ HandleDisconnect \/ EndDispatch \/ Fails
               \/ HandleSignal \/ DaemonChanges \/ DaemonStops \/ DaemonStarts \/ UNCHANGED sessionVars
    PROVE  SubpanelInvariant'
<1>1. UNCHANGED <<popupVars, events, owed, callbacks>>
  <2>1. CASE QueriesEnd \/ Subscribe \/ DrainEnds \/ HandleDisconnect
    BY <2>1 DEF QueriesEnd, Subscribe, DrainEnds, HandleDisconnect, paintedVars
  <2>2. CASE EndDispatch \/ Fails \/ HandleSignal
    BY <2>2 DEF EndDispatch, Fails, HandleSignal, paintedVars
  <2>3. CASE DaemonChanges \/ DaemonStops \/ DaemonStarts
    BY <2>3 DEF DaemonChanges, DaemonStops, DaemonStarts, DaemonStep, paintedVars
  <2>4. CASE UNCHANGED sessionVars
    BY <2>4 DEF sessionVars, vars, paintedVars
  <2> QED BY <2>1, <2>2, <2>3, <2>4
<1>2. OwedCounted' /\ (EventsOk => EventsOk')
  BY <1>1 DEF SubpanelInvariant, OwedCounted, EventsOk, EventOk
<1> QED BY <1>1, <1>2, QuietKeeps

\* Those that take an event and leave the subpanel alone, and may draw.
LEMMA TakingSteps ==
    ASSUME SubpanelInvariant,
           HandleConfigure \/ HandleClosed \/ HandleFrameDone \/ HandleRelease \/ HandleScale
               \/ SkipEvent \/ HandlePointer
    PROVE  SubpanelInvariant'
<1>1. UNCHANGED popupVars /\ events # <<>> /\ events' = Tail(events)
  BY DEF HandleConfigure, HandleClosed, HandleFrameDone, HandleRelease, HandleScale, SkipEvent,
         HandlePointer, Take
<1>2. (\E shown, pending : Paint(shown, pending)) \/ UNCHANGED <<owed, callbacks>>
  BY DEF HandleConfigure, HandleClosed, HandleFrameDone, HandleRelease, HandleScale, SkipEvent,
         HandlePointer, NotPainted, paintedVars
<1>3. OwedCounted'
  BY <1>2, PaintKeeps DEF SubpanelInvariant
<1> QED BY <1>1, <1>3, EventsTail, QuietKeeps

\* The start, and the daemon's frames: a layout may be answered with a configure event.
LEMMA DrawingSteps ==
    ASSUME SubpanelInvariant, QueryTopic \/ HandleFrame \/ FirstRender \/ Connect
    PROVE  SubpanelInvariant'
<1>1. CASE QueryTopic \/ FirstRender
  <2>1. UNCHANGED <<popupVars, events>>
    BY <1>1 DEF QueryTopic, FirstRender
  <2>2. OwedCounted'
    <3>1. \/ \E topic, state : Parse(topic, state)
          \/ \E shown, pending : Paint(shown, pending)
          \/ UNCHANGED <<owed, callbacks>>
      BY <1>1 DEF QueryTopic, FirstRender, NotPainted, paintedVars
    <3> QED BY <3>1, ParseKeeps, PaintKeeps DEF SubpanelInvariant
  <2>3. EventsOk => EventsOk'
    BY <2>1 DEF EventsOk, EventOk
  <2> QED BY <2>1, <2>2, <2>3, QuietKeeps
<1>2. CASE HandleFrame
  <2>1. /\ UNCHANGED popupVars /\ \E topic, state : Parse(topic, state)
        /\ events' = events \/ events' = Append(events, Ev("configure", PanelSurface))
    BY <1>2 DEF HandleFrame
  <2>2. OwedCounted'
    BY <2>1, ParseKeeps DEF SubpanelInvariant
  <2>3. EventsOk => EventsOk'
    <3>1. CASE events' = events
      BY <3>1 DEF EventsOk, EventOk
    <3>2. CASE events' = Append(events, Ev("configure", PanelSurface))
      BY <3>2, EvOk, EventAppended
    <3> QED BY <2>1, <3>1, <3>2
  <2> QED BY <2>1, <2>2, <2>3, QuietKeeps
<1>3. CASE Connect
  <2>1. /\ UNCHANGED <<popupVars, owed, callbacks>>
        /\ events' = events \/ events' = <<Ev("configure", PanelSurface), Ev("sync", 0)>>
    BY <1>3 DEF Connect, paintedVars
  <2>2. EventsOk => EventsOk'
    <3>1. CASE events' = events
      BY <3>1 DEF EventsOk, EventOk
    <3>2. CASE events' = <<Ev("configure", PanelSurface), Ev("sync", 0)>>
      <4> DEFINE e == Ev("configure", PanelSurface)
                 f == Ev("sync", 0)
      <4>1. EventOk(e) /\ EventOk(f)
        BY EvOk
      <4> HIDE DEF e, f
      <4>2. IsList(<<e, f>>) /\ Range(<<e, f>>) = {e, f}
        BY PairList
      <4>3. events' = <<e, f>>
        BY <3>2 DEF e, f
      <4> QED BY <4>1, <4>2, <4>3 DEF EventsOk, EventOk
    <3> QED BY <2>1, <3>1, <3>2
  <2>3. OwedCounted'
    BY <2>1 DEF SubpanelInvariant, OwedCounted
  <2> QED BY <2>1, <2>2, <2>3, QuietKeeps
<1> QED BY <1>1, <1>2, <1>3

-----------------------------------------------------------------------------
(* The compositor's steps *)

\* A press, with the pointer's way to it.
LEMMA PressesKeep ==
    ASSUME SubpanelInvariant, NEW surface, NEW p, NEW meant, Presses(surface, p, meant)
    PROVE  SubpanelInvariant'
<1>1. /\ UNCHANGED <<popupVars, owed, callbacks>>
  BY DEF Presses, Compositor, popupVars
<1>2. PICK button \in Buttons, to \in {"motion", "enter"}, left \in {<<>>, <<Ev("leave", pointed)>>} :
         events' = events \o left \o
             <<[Ev(to, surface) EXCEPT !.at = p],
               [type |-> "press", of |-> surface, at |-> <<0, 0>>, button |-> button,
                meant |-> meant, names |-> screen.view.workspaces]>>
  BY DEF Presses
<1> DEFINE over == [Ev(to, surface) EXCEPT !.at = p]
           press == [type |-> "press", of |-> surface, at |-> <<0, 0>>, button |-> button,
                     meant |-> meant, names |-> screen.view.workspaces]
<1>3. EventOk(over)
  BY EvOk, EvAtOk
<1>4. EventOk(press)
  BY DEF EventOk
<1>5. IsList(left) /\ \A e \in Range(left) : EventOk(e)
  <2> DEFINE leave == Ev("leave", pointed)
  <2>1. EventOk(leave)
    BY EvOk
  <2>2. left \in {<<>>, <<leave>>}
    OBVIOUS
  <2> HIDE DEF leave
  <2> QED BY <2>1, <2>2, EmptyList, OneList
<1>6. events' = events \o left \o <<over, press>>
  BY <1>2
<1> HIDE DEF over, press
<1>7. IsList(<<over, press>>) /\ Range(<<over, press>>) = {over, press}
  BY PairList
<1>8. EventsOk => EventsOk'
  <2> SUFFICES ASSUME EventsOk PROVE EventsOk'
    OBVIOUS
  <2>1. IsList(events \o left) /\ Range(events \o left) \subseteq Range(events) \cup Range(left)
    BY <1>5, ConcatList DEF EventsOk
  <2>2. IsList(events') /\ Range(events') \subseteq Range(events \o left) \cup {over, press}
    <3> DEFINE base == events \o left
    <3>1. IsList(base) /\ events' = base \o <<over, press>>
      BY <1>6, <2>1
    <3> HIDE DEF base
    <3>2. IsList(events') /\ Range(events') = Range(base) \cup Range(<<over, press>>)
      BY <1>7, <3>1, ConcatList
    <3> QED BY <1>7, <3>2 DEF base
  <2> QED BY <1>3, <1>4, <1>5, <2>1, <2>2 DEF EventsOk, EventOk
<1>9. OwedCounted'
  BY <1>1 DEF SubpanelInvariant, OwedCounted
<1> QED BY <1>1, <1>8, <1>9, QuietKeeps

\* The releases and the frame callbacks that are owed.
LEMMA PresentsKeeps == SubpanelInvariant /\ Presents => SubpanelInvariant'
<1> SUFFICES ASSUME SubpanelInvariant, Presents PROVE SubpanelInvariant'
  OBVIOUS
<1>1. UNCHANGED popupVars /\ callbacks' = 0 /\ IsFiniteSet(owed) /\ callbacks \in Nat
  BY DEF Presents, Compositor, popupVars, SubpanelInvariant, OwedCounted
<1>2. PICK kept : /\ owed' = owed \cap kept
                  /\ events' = events
                         \o [i \in 1..Cardinality(owed \ kept) |->
                                Ev("release", SetToSeq(owed \ kept)[i])]
                         \o [i \in 1..callbacks |-> Ev("frame", PanelSurface)]
  BY DEF Presents
<1>3. IsFiniteSet(owed') /\ Cardinality(owed \ kept) \in Nat
  <2>1. owed \cap kept \subseteq owed /\ owed \ kept \subseteq owed
    OBVIOUS
  <2>2. IsFiniteSet(owed \cap kept) /\ IsFiniteSet(owed \ kept)
    BY <1>1, <2>1, FS_Subset
  <2> QED BY <1>2, <2>2, FS_CardinalityType
<1> DEFINE released == [i \in 1..Cardinality(owed \ kept) |->
                           Ev("release", SetToSeq(owed \ kept)[i])]
           shown == [i \in 1..callbacks |-> Ev("frame", PanelSurface)]
<1>4. IsList(released) /\ \A e \in Range(released) : EventOk(e)
  <2> DEFINE n == Cardinality(owed \ kept)
             Release(i) == Ev("release", SetToSeq(owed \ kept)[i])
  <2>1. \A i : EventOk(Release(i))
    BY EvOk
  <2>2. released = [i \in 1..n |-> Release(i)] /\ n \in Nat
    BY <1>3
  <2> HIDE DEF released, Release, n
  <2> QED BY <2>1, <2>2, MadeList
<1>5. IsList(shown) /\ \A e \in Range(shown) : EventOk(e)
  <2> DEFINE Frame(i) == Ev("frame", PanelSurface)
  <2>1. \A i : EventOk(Frame(i))
    BY EvOk
  <2>2. shown = [i \in 1..callbacks |-> Frame(i)]
    OBVIOUS
  <2> HIDE DEF shown, Frame
  <2> QED BY <1>1, <2>1, <2>2, MadeList
<1>6. events' = events \o released \o shown
  BY <1>2
<1> HIDE DEF released, shown
<1>7. EventsOk => EventsOk'
  <2> SUFFICES ASSUME EventsOk PROVE EventsOk'
    OBVIOUS
  <2>1. /\ IsList(events \o released)
        /\ Range(events \o released) \subseteq Range(events) \cup Range(released)
    BY <1>4, ConcatList DEF EventsOk
  <2>2. IsList(events') /\ Range(events') \subseteq Range(events \o released) \cup Range(shown)
    BY <1>5, <1>6, <2>1, ConcatList
  <2> QED BY <1>4, <1>5, <2>1, <2>2 DEF EventsOk, EventOk
<1>8. OwedCounted'
  BY <1>1, <1>3 DEF OwedCounted
<1> QED BY <1>1, <1>7, <1>8, QuietKeeps

\* One event about the panel's surface, or a subpanel that is closed: the excuse.
LEMMA CompositorKeeps ==
    ASSUME SubpanelInvariant, Rescales \/ Configures \/ ClosesPanel \/ ClosesSubpanel
    PROVE  SubpanelInvariant'
<1>1. CASE Rescales \/ Configures \/ ClosesPanel
  <2>1. /\ UNCHANGED <<popupVars, owed, callbacks>>
        /\ \E type, of : /\ type # "closed" \/ of = PanelSurface
                         /\ events' = Append(events, Ev(type, of))
    BY <1>1 DEF Rescales, Configures, ClosesPanel, Compositor, popupVars
  <2>2. EventsOk => EventsOk'
    BY <2>1, EvOk, EventAppended
  <2>3. OwedCounted'
    BY <2>1 DEF SubpanelInvariant, OwedCounted
  <2> QED BY <2>1, <2>2, <2>3, QuietKeeps
<1>2. CASE ClosesSubpanel
  <2>1. excuses' # {} /\ UNCHANGED <<owed, callbacks>>
    BY <1>2 DEF ClosesSubpanel
  <2> QED BY <2>1 DEF SubpanelInvariant, OwedCounted
<1> QED BY <1>1, <1>2

-----------------------------------------------------------------------------
(* The subpanel's steps *)

\* What destroying a surface leaves of the queue.
LEMMA WithoutOk ==
    ASSUME NEW n, NEW queue, IsList(queue), \A e \in Range(queue) : EventOk(e)
    PROVE  IsList(Without(n, queue)) /\ \A e \in Range(Without(n, queue)) : EventOk(e)
<1> DEFINE r == Without(n, queue)
<1>1. DOMAIN r = DOMAIN queue /\ r = [i \in DOMAIN queue |-> r[i]]
  BY DEF Without
<1>2. ASSUME NEW i \in DOMAIN queue PROVE EventOk(r[i])
  <2>1. EventOk(queue[i])
    BY DEF Range
  <2>2. EventOk(Ev("none", NoSurface))
    BY EvOk
  <2>3. EventOk(queue[i]) => EventOk([queue[i] EXCEPT !.of = NoSurface])
           \/ queue[i].type \notin {"enter", "leave"}
    BY EvOfOk
  <2>4. \/ r[i] = Ev("none", NoSurface)
        \/ queue[i].type \in {"enter", "leave"} /\ r[i] = [queue[i] EXCEPT !.of = NoSurface]
        \/ r[i] = queue[i]
    BY DEF Without
  <2> HIDE DEF r
  <2> QED BY <2>1, <2>2, <2>3, <2>4
<1> HIDE DEF r
<1>3. IsList(r)
  BY <1>1, ReplacedList
<1>4. \A e \in Range(r) : EventOk(e)
  BY <1>1, <1>2 DEF Range
<1> QED BY <1>3, <1>4 DEF r

\* Destroying the current surface leaves none.
LEMMA GoneKeeps ==
    ASSUME SubpanelKnown, sp.open
    PROVE  LET left == Gone(sp.surface)
           IN  /\ IsList(left) /\ Len(left) = Len(popups)
               /\ \A n \in DOMAIN left :
                     /\ left[n].state = "gone"
                     /\ left[n] = [state |-> left[n].state, drawn |-> left[n].drawn]
<1> DEFINE left == Gone(sp.surface)
           none == [state |-> "gone", drawn |-> 0]
<1>1. DOMAIN left = DOMAIN popups /\ left = [n \in DOMAIN popups |-> left[n]]
  BY DEF Gone
<1>2. ASSUME NEW n \in DOMAIN popups
      PROVE  /\ left[n].state = "gone"
             /\ left[n] = [state |-> left[n].state, drawn |-> left[n].drawn]
  <2>1. /\ popups[n].state # "gone" => n = sp.surface
        /\ popups[n] = [state |-> popups[n].state, drawn |-> popups[n].drawn]
    BY DEF SubpanelKnown, OnlyCurrent, PopupShape
  <2>2. left[n] = IF n = sp.surface THEN none ELSE popups[n]
    BY DEF Gone
  <2>3. none.state = "gone" /\ none = [state |-> none.state, drawn |-> none.drawn]
    OBVIOUS
  <2> HIDE DEF left, none
  <2> QED BY <2>1, <2>2, <2>3
<1> HIDE DEF left
<1>3. IsList(left) /\ Len(left) = Len(popups)
  BY <1>1, ReplacedList DEF SubpanelKnown, PopupShape
<1>4. \A n \in DOMAIN left :
        /\ left[n].state = "gone"
        /\ left[n] = [state |-> left[n].state, drawn |-> left[n].drawn]
  BY <1>1, <1>2
<1> QED BY <1>3, <1>4 DEF left

\* A queue in which every event may be.
QueueOk(queue) == IsList(queue) /\ \A e \in Range(queue) : EventOk(e)

\* After close_subpanel there is none.
LEMMA CloseKeeps ==
    ASSUME SubpanelKnown, sp.open, NEW queue, QueueOk(queue), CloseSubpanel(queue),
           UNCHANGED stack
    PROVE  EventsOk' /\ SubpanelKnown'
<1>1. sp' = NoSubpanel /\ popups' = Gone(sp.surface) /\ events' = Without(sp.surface, queue)
  BY DEF CloseSubpanel
<1>2. EventsOk'
  BY <1>1, WithoutOk DEF QueueOk, EventsOk, EventOk
<1>3. PopupShape' /\ OnlyCurrent'
  BY <1>1, GoneKeeps DEF PopupShape, OnlyCurrent
<1>4. SubpanelShape' /\ IsClosed'
  <2>1. stack = <<>>
    BY DEF SubpanelKnown, IsClosed, IsOpening, IsOpen
  <2> QED BY <1>1, <2>1 DEF SubpanelShape, IsClosed, NoSubpanel
<1> QED BY <1>2, <1>3, <1>4 DEF SubpanelKnown

\* open_subpanel begins with a closed subpanel, or closes the open one.
LEMMA OpenKeeps ==
    ASSUME SubpanelKnown, NEW s, s # 0, NEW queue, QueueOk(queue), OpenSubpanel(s, queue),
           excuses' = {}
    PROVE  EventsOk' /\ SubpanelKnown'
<1>1. CASE sp.open /\ sp.active = s
  <2>1. CloseSubpanel(queue) /\ UNCHANGED stack
    BY <1>1 DEF OpenSubpanel
  <2> QED BY <1>1, <2>1, CloseKeeps
<1>2. CASE ~(sp.open /\ sp.active = s)
  <2> DEFINE n == Len(popups) + 1
             before == IF sp.open THEN NoSubpanel ELSE sp
             left == IF sp.open THEN Gone(sp.surface) ELSE popups
             rest == IF sp.open THEN Without(sp.surface, queue) ELSE queue
             new == [state |-> "live", drawn |-> 0]
             opening == [sub |-> s, done |-> FALSE]
             more == <<Ev("configure", n), Ev("sync", Len(stack'))>>
  <2>1. /\ sp' = [before EXCEPT !.surface = n, !.sub = s]
        /\ popups' = Append(left, new) /\ stack' = Append(stack, opening)
        /\ events' = rest \o more
        /\ excuses' = IF stack = <<>> THEN excuses ELSE excuses \cup {"nested"}
    BY <1>2 DEF OpenSubpanel
  <2>2. stack = <<>> /\ (sp.open \/ IsClosed)
    <3>1. stack = <<>>
      BY <2>1
    <3>2. ~IsOpening
      BY <3>1 DEF IsOpening
    <3> QED BY <3>1, <3>2 DEF SubpanelKnown, IsOpen
  <2>3. /\ IsList(left) /\ Len(left) = Len(popups) /\ Len(popups) \in Nat
        /\ \A m \in DOMAIN left :
              /\ left[m].state = "gone"
              /\ left[m] = [state |-> left[m].state, drawn |-> left[m].drawn]
    <3>1. IsList(popups) /\ Len(popups) \in Nat
      BY ListShape DEF SubpanelKnown, PopupShape
    <3>2. CASE sp.open
      BY <3>1, <3>2, GoneKeeps
    <3>3. CASE ~sp.open
      <4>1. sp.surface = NoSurface
        BY <2>2, <3>3 DEF IsClosed
      <4>2. \A m \in DOMAIN popups : m # NoSurface
        BY <3>1, ListShape DEF NoSurface
      <4> QED BY <3>1, <3>3, <4>1, <4>2 DEF SubpanelKnown, OnlyCurrent, PopupShape
    <3> QED BY <3>2, <3>3
  <2>4. /\ IsList(popups') /\ DOMAIN popups' = 1..n /\ popups'[n] = new
        /\ \A m \in 1..Len(popups) : popups'[m] = left[m] /\ m \in DOMAIN left
    <3> HIDE DEF left, new
    <3> QED BY <2>1, <2>3, AppendShape
  <2>5. /\ IsList(stack') /\ Len(stack') = 1 /\ stack'[1] = opening
    <3> HIDE DEF opening
    <3>1. stack' = Append(<<>>, opening)
      BY <2>1, <2>2
    <3>2. stack' = <<opening>> /\ <<opening>>[1] = opening /\ Len(<<opening>>) = 1
      BY <3>1
    <3> QED BY <3>2, OneList
  <2>6. /\ sp' = [surface |-> n, open |-> FALSE, configured |-> before.configured, sub |-> s,
                  active |-> before.active]
    <3>1. before = [surface |-> before.surface, open |-> FALSE,
                    configured |-> before.configured, sub |-> before.sub,
                    active |-> before.active]
      <4>1. CASE sp.open
        BY <4>1 DEF NoSubpanel
      <4>2. CASE ~sp.open
        BY <4>2 DEF SubpanelKnown, SubpanelShape
      <4> QED BY <4>1, <4>2
    <3>2. sp' = [before EXCEPT !.surface = n, !.sub = s]
      BY <2>1
    <3> HIDE DEF before, n
    <3>3. DOMAIN before = {"surface", "open", "configured", "sub", "active"} /\ before.open = FALSE
      BY <3>1
    <3> QED BY <3>2, <3>3
  <2>7. SubpanelShape' /\ ShowsSub' /\ IsOpening'
    <3>1. /\ sp'.surface = n /\ sp'.open = FALSE /\ sp'.sub = s /\ n \in 1..n
      BY <2>3, <2>6
    <3>2. ShowsSub'
      BY <2>4, <3>1 DEF ShowsSub
    <3>3. IsOpening'
      BY <2>5, <3>1, <3>2 DEF IsOpening
    <3>4. SubpanelShape'
      BY <2>6 DEF SubpanelShape
    <3> QED BY <3>2, <3>3, <3>4
  <2>8. PopupShape' /\ OnlyCurrent'
    <3>1. \A m \in 1..n : m = n \/ m \in 1..Len(popups)
      BY <2>3
    <3>2. sp'.surface = n
      BY <2>6
    <3>3. new = [state |-> new.state, drawn |-> new.drawn]
      OBVIOUS
    <3> HIDE DEF n, left, new
    <3> QED BY <2>3, <2>4, <3>1, <3>2, <3>3 DEF PopupShape, OnlyCurrent
  <2>9. EventsOk'
    <3>1. IsList(rest) /\ \A e \in Range(rest) : EventOk(e)
      BY WithoutOk DEF QueueOk
    <3>2. IsList(more) /\ \A e \in Range(more) : EventOk(e)
      <4> DEFINE c == Ev("configure", n)
                 y == Ev("sync", Len(stack'))
      <4>1. EventOk(c) /\ EventOk(y) /\ more = <<c, y>>
        BY EvOk
      <4> HIDE DEF c, y, more
      <4> QED BY <4>1, PairList
    <3> HIDE DEF rest, more
    <3>3. IsList(rest \o more) /\ Range(rest \o more) \subseteq Range(rest) \cup Range(more)
      BY <3>1, <3>2, ConcatList
    <3> QED BY <2>1, <3>1, <3>2, <3>3 DEF EventsOk, EventOk
  <2> QED BY <2>7, <2>8, <2>9 DEF SubpanelKnown
<1> QED BY <1>1, <1>2

\* open_subpanel behind its roundtrip makes the subpanel active whose surface there is.
LEMMA SubpanelOpenedKeeps == SubpanelInvariant /\ SubpanelOpened => SubpanelInvariant'
<1> SUFFICES ASSUME SubpanelInvariant, SubpanelOpened PROVE SubpanelInvariant'
  OBVIOUS
<1>1. UNCHANGED <<excuses, events, owed, callbacks>>
  BY DEF SubpanelOpened, paintedVars
<1>2. OwedCounted' /\ (EventsOk => EventsOk')
  BY <1>1 DEF SubpanelInvariant, OwedCounted, EventsOk, EventOk
<1>3. ASSUME SubpanelKnown PROVE SubpanelKnown'
  <2>1. IsOpening
    BY <1>3 DEF SubpanelKnown, IsClosed, IsOpen, SubpanelOpened
  <2>2. Last(stack) = stack[1] /\ Front(stack) = <<>>
    BY <2>1 DEF IsOpening, IsList, Last, Front
  <2>3. sp.surface \in DOMAIN popups /\ sp.surface # NoSurface
    <3>1. DOMAIN popups = 1..Len(popups) /\ Len(popups) \in Nat
      BY <1>3, ListShape DEF SubpanelKnown, PopupShape
    <3> QED BY <2>1, <3>1 DEF IsOpening, ShowsSub, NoSurface
  <2>4. /\ stack' = <<>> /\ RenderSubpanel
        /\ sp' = [sp EXCEPT !.open = TRUE, !.configured = TRUE, !.active = Last(stack).sub]
    BY <2>2, <2>3 DEF SubpanelOpened
  <2>5. /\ sp' = [surface |-> sp.surface, open |-> TRUE, configured |-> TRUE, sub |-> sp.sub,
                  active |-> sp.sub]
    <3>1. Last(stack).sub = sp.sub
      BY <2>1, <2>2 DEF IsOpening
    <3>2. DOMAIN sp = {"surface", "open", "configured", "sub", "active"}
      BY <1>3 DEF SubpanelKnown, SubpanelShape
    <3> QED BY <2>4, <3>1, <3>2
  <2>6. /\ PopupShape' /\ DOMAIN popups' = DOMAIN popups
        /\ \A n \in DOMAIN popups : popups'[n].state = popups[n].state
        /\ popups'[sp.surface].drawn \in {popups[sp.surface].drawn, sp.sub}
    BY <1>3, <2>3, <2>4, RenderKeeps DEF SubpanelKnown
  <2>7. OnlyCurrent'
    BY <1>3, <2>5, <2>6 DEF SubpanelKnown, OnlyCurrent
  <2>8. ShowsSub' /\ IsOpen'
    <3>1. /\ sp'.surface = sp.surface /\ sp'.open /\ sp'.sub = sp.sub /\ sp'.active = sp.sub
      BY <2>5
    <3>2. ShowsSub'
      BY <2>1, <2>6, <3>1 DEF IsOpening, ShowsSub
    <3> QED BY <2>4, <3>1, <3>2 DEF IsOpen
  <2> QED BY <2>5, <2>6, <2>7, <2>8 DEF SubpanelKnown, SubpanelShape
<1> QED BY <1>1, <1>2, <1>3 DEF SubpanelInvariant

\* A configure event of a subpanel draws the one that is open.
LEMMA SubpanelConfigureKeeps ==
    SubpanelInvariant /\ HandleSubpanelConfigure => SubpanelInvariant'
<1> SUFFICES ASSUME SubpanelInvariant, HandleSubpanelConfigure PROVE SubpanelInvariant'
  OBVIOUS
<1>1. /\ UNCHANGED <<excuses, stack, owed, callbacks>>
      /\ events # <<>> /\ events' = Tail(events)
      /\ sp' = [sp EXCEPT !.configured = TRUE]
      /\ IF sp.open THEN RenderSubpanel ELSE popups' = popups
  BY DEF HandleSubpanelConfigure, Take, paintedVars
<1>2. OwedCounted' /\ (EventsOk => EventsOk')
  BY <1>1, EventsTail DEF SubpanelInvariant, OwedCounted
<1>3. ASSUME SubpanelKnown PROVE SubpanelKnown'
  <2>1. sp' = [surface |-> sp.surface, open |-> sp.open, configured |-> TRUE, sub |-> sp.sub,
               active |-> sp.active]
    BY <1>1, <1>3 DEF SubpanelKnown, SubpanelShape
  <2>2. CASE ~sp.open
    <3>1. popups' = popups
      BY <1>1, <2>2
    <3> QED BY <1>1, <1>3, <2>1, <3>1
            DEF SubpanelKnown, SubpanelShape, PopupShape, OnlyCurrent, IsClosed, IsOpening, IsOpen,
                ShowsSub
  <2>3. CASE sp.open
    <3>1. IsOpen
      BY <1>3, <2>3 DEF SubpanelKnown, IsClosed, IsOpening
    <3>2. /\ PopupShape' /\ DOMAIN popups' = DOMAIN popups
          /\ \A n \in DOMAIN popups : popups'[n].state = popups[n].state
          /\ popups'[sp.surface].drawn \in {popups[sp.surface].drawn, sp.sub}
      BY <1>1, <1>3, <2>3, <3>1, RenderKeeps DEF SubpanelKnown, IsOpen, ShowsSub
    <3>3. OnlyCurrent'
      BY <1>3, <2>1, <3>2 DEF SubpanelKnown, OnlyCurrent
    <3>4. IsOpen'
      BY <1>1, <2>1, <3>1, <3>2 DEF IsOpen, ShowsSub
    <3> QED BY <1>3, <2>1, <3>2, <3>3, <3>4 DEF SubpanelKnown, SubpanelShape
  <2> QED BY <2>2, <2>3
<1> QED BY <1>1, <1>2, <1>3 DEF SubpanelInvariant

\* The answer to a roundtrip marks it, and the compositor has closed no subpanel.
LEMMA AnswersKeep == SubpanelInvariant /\ (HandleSync \/ HandleSubpanelClosed) => SubpanelInvariant'
<1> SUFFICES ASSUME SubpanelInvariant, HandleSync \/ HandleSubpanelClosed
             PROVE  SubpanelInvariant'
  OBVIOUS
<1>1. /\ UNCHANGED <<popups, excuses, owed, callbacks>>
      /\ events # <<>> /\ events' = Tail(events)
  BY DEF HandleSync, HandleSubpanelClosed, Take, paintedVars
<1>2. OwedCounted' /\ (EventsOk => EventsOk')
  BY <1>1, EventsTail DEF SubpanelInvariant, OwedCounted
<1>3. CASE HandleSync
  <2>1. /\ UNCHANGED sp
        /\ stack' = stack \/ stack' = [stack EXCEPT ![Head(events).of].done = TRUE]
    BY <1>3 DEF HandleSync
  <2>2. ASSUME SubpanelKnown PROVE SubpanelKnown'
    <3>1. CASE stack' = stack
      BY <1>1, <2>1, <2>2, <3>1
         DEF SubpanelKnown, SubpanelShape, PopupShape, OnlyCurrent, IsClosed, IsOpening, IsOpen,
             ShowsSub
    <3>2. CASE stack' = [stack EXCEPT ![Head(events).of].done = TRUE]
      <4>1. DOMAIN stack' = DOMAIN stack /\ stack' = [i \in DOMAIN stack |-> stack'[i]]
        BY <3>2
      <4>2. stack = <<>> => stack' = <<>>
        BY <4>1
      <4>3. IsOpening => IsOpening'
        <5> SUFFICES ASSUME IsOpening PROVE IsOpening'
          OBVIOUS
        <5>1. IsList(stack') /\ Len(stack') = 1
          BY <4>1, ReplacedList DEF IsOpening
        <5>2. 1 \in DOMAIN stack
          BY ListShape DEF IsOpening
        <5>3. stack'[1] = stack[1] \/ stack'[1] = [stack[1] EXCEPT !.done = TRUE]
          BY <3>2, <5>2
        <5>4. stack'[1] = [sub |-> sp.sub, done |-> stack'[1].done]
          BY <5>3 DEF IsOpening
        <5> QED BY <1>1, <2>1, <5>1, <5>4 DEF IsOpening, ShowsSub
      <4> QED BY <1>1, <2>1, <2>2, <4>2, <4>3
              DEF SubpanelKnown, SubpanelShape, PopupShape, OnlyCurrent, IsClosed, IsOpen, ShowsSub
    <3> QED BY <2>1, <3>1, <3>2
  <2> QED BY <1>1, <1>2, <2>2 DEF SubpanelInvariant
<1>4. CASE HandleSubpanelClosed
  <2>1. Head(events).type = "closed" /\ Head(events).of # PanelSurface
    BY <1>4 DEF HandleSubpanelClosed, Take
  <2>2. ~EventsOk
    <3> SUFFICES ASSUME EventsOk PROVE FALSE
      OBVIOUS
    <3>1. EventOk(Head(events))
      BY <1>1, TailList DEF EventsOk
    <3> QED BY <2>1, <3>1 DEF EventOk
  <2> QED BY <1>1, <1>2, <2>2 DEF SubpanelInvariant
<1> QED BY <1>3, <1>4

\* A press opens, closes or leaves the subpanel.
LEMMA PressKeeps == SubpanelInvariant /\ HandlePress => SubpanelInvariant'
<1> SUFFICES ASSUME SubpanelInvariant, HandlePress PROVE SubpanelInvariant'
  OBVIOUS
<1> DEFINE queue == Tail(events)
<1>1. UNCHANGED <<owed, callbacks>> /\ events # <<>>
  BY DEF HandlePress, Take, paintedVars
<1>2. \/ \E s : s # 0 /\ OpenSubpanel(s, queue)
      \/ sp.open /\ CloseSubpanel(queue) /\ UNCHANGED <<stack, excuses>>
      \/ events' = queue /\ UNCHANGED <<sp, popups, stack, excuses>>
  <2>1. \A hit, button : hit.kind \in Triggers /\ Does(hit, button) => SubpanelOf(hit) # 0
    BY DEF Does, Triggers
  <2> QED BY <2>1 DEF HandlePress
<1> HIDE DEF queue
<1>3. OwedCounted'
  BY <1>1 DEF SubpanelInvariant, OwedCounted
<1>4. SUFFICES ASSUME excuses' = {} PROVE EventsOk' /\ SubpanelKnown'
  BY <1>3 DEF SubpanelInvariant
<1>5. excuses = {} /\ EventsOk /\ SubpanelKnown
  <2>1. excuses \subseteq excuses'
    BY <1>2 DEF OpenSubpanel
  <2> QED BY <1>4, <2>1 DEF SubpanelInvariant
<1>6. QueueOk(queue)
  BY <1>1, <1>5, TailList DEF QueueOk, EventsOk, queue
<1>7. CASE \E s : s # 0 /\ OpenSubpanel(s, queue)
  BY <1>4, <1>5, <1>6, <1>7, OpenKeeps
<1>8. CASE sp.open /\ CloseSubpanel(queue) /\ UNCHANGED <<stack, excuses>>
  BY <1>5, <1>6, <1>8, CloseKeeps
<1>9. CASE events' = queue /\ UNCHANGED <<sp, popups, stack, excuses>>
  <2>1. EventsOk'
    BY <1>6, <1>9 DEF QueueOk, EventsOk, EventOk
  <2>2. SubpanelKnown'
    BY <1>5, <1>9 DEF SubpanelKnown, SubpanelShape, PopupShape, OnlyCurrent, IsClosed, IsOpening,
                      IsOpen, ShowsSub
  <2> QED BY <2>1, <2>2
<1> QED BY <1>2, <1>7, <1>8, <1>9

-----------------------------------------------------------------------------
\* No step breaks the invariant.
LEMMA NextKnown == SubpanelInvariant /\ [Next]_sessionVars => SubpanelInvariant'
<1> SUFFICES ASSUME SubpanelInvariant, [Next]_sessionVars PROVE SubpanelInvariant'
  OBVIOUS
<1>1. CASE PaneldStep
  <2>1. Paneld
    BY <1>1 DEF PaneldStep
  <2> QED BY <2>1, StillSteps, TakingSteps, DrawingSteps, SubpanelOpenedKeeps,
             SubpanelConfigureKeeps, AnswersKeep, PressKeeps DEF Paneld
<1>2. CASE PaneldFault
  BY <1>2, StillSteps DEF PaneldFault, PaneldFaults
<1>3. CASE PressOnPanel \/ PressOnSubpanel
  BY <1>3, PressesKeep DEF PressOnPanel, PressOnSubpanel
<1>4. CASE Presents
  BY <1>4, PresentsKeeps
<1>5. CASE Rescales \/ Configures \/ ClosesPanel \/ ClosesSubpanel
  BY <1>5, CompositorKeeps
<1>6. CASE DaemonChanges \/ DaemonStops \/ DaemonStarts \/ UNCHANGED sessionVars
  BY <1>6, StillSteps
<1> QED BY <1>1, <1>2, <1>3, <1>4, <1>5, <1>6 DEF Next

\* OneSubpanel, for any layout, subpanels, states of the daemon and bounds: unless an
\* open_subpanel ran in the roundtrip of another one or the compositor closed a subpanel,
\* no surface but the current one is left over, and the open subpanel shows what the hit
\* tests and the trigger take for active.
THEOREM OneSubpanelAtATime == Spec => []OneSubpanel
<1>1. SubpanelInvariant => OneSubpanel
  BY DEF SubpanelInvariant, SubpanelKnown, OnlyCurrent, IsClosed, IsOpening, IsOpen, ShowsSub,
         OneSubpanel
<1> QED BY <1>1, InitKnown, NextKnown, PTL DEF Spec

-----------------------------------------------------------------------------
(* What a press means: the surfaces, the queue and what was drawn *)

\* The workspaces of the daemon's states.
Lists == {state.workspaces : state \in States}

Viewed(v) == v = [theme |-> v.theme, workspaces |-> v.workspaces, current |-> v.current]

KnownState(v) == Viewed(v) /\ v.workspaces \in Lists

KnownView(v) == v = NoView \/ KnownState(v)

\* What is known of the workspaces is the daemon's.
ViewsKnown ==
    /\ KnownView(view) /\ KnownView(screen.view) /\ KnownState(truth)
    /\ IsList(stream) /\ \A frame \in Range(stream) : KnownState(frame.state)

\* Before the display is connected nothing is seen.
NothingSeen ==
    pc \in {"query", "subscribe", "drain", "connect"} =>
        /\ screen.view = NoView /\ ~configured
        /\ pointed = NoSurface /\ popups = <<>>

Remaining == {n \in DOMAIN popups : popups[n].state # "gone"}

\* The subpanel's surface remains and shows the subpanel it was made for, or nothing yet.
SurfacesKnown ==
    /\ SubpanelShape /\ PopupShape
    /\ \A n \in DOMAIN popups : popups[n].drawn # 0 => n \in Remaining
    /\ sp.surface # NoSurface =>
           sp.surface \in Remaining /\ popups[sp.surface].drawn \in {0, sp.sub}
    /\ sp.open => sp.surface # NoSurface
    /\ sp.sub \in {0} \cup DOMAIN Entries

Crosses(e) == e.type \in {"enter", "leave"}

\* When the events of a queue before place k are handled, with the pointer on f at first,
\* it is on s.
PointerOn(q, f, s, k) ==
    \/ f = s /\ \A i \in 1..(k - 1) : ~Crosses(q[i])
    \/ \E j \in 1..(k - 1) : /\ q[j].type = "enter" /\ q[j].of = s
                             /\ \A i \in (j + 1)..(k - 1) : ~Crosses(q[i])

\* Then it is at p.
PointerAt(q, at, p, k) ==
    IF k = 1 THEN at = p ELSE q[k - 1].type \in {"enter", "motion"} /\ q[k - 1].at = p

\* What is meant on the panel is what was drawn for these names, and on the subpanel's
\* surface what the subpanel shows.
MeantOnPanel(e, p) ==
    /\ p \in PanelPoints /\ e.names \in Lists
    /\ e.meant = {Target(PanelSeen[Len(e.names)][p], [workspaces |-> e.names])}

MeantOnSubpanel(e, p, sub) == p \in SubpanelPoints /\ e.meant = DrawnOnSubpanel(sub, p)

Shaped(e) ==
    e = [type |-> e.type, of |-> e.of, at |-> e.at, button |-> e.button, meant |-> e.meant,
         names |-> e.names]

\* A press in a queue is about the panel's surface or one of the subpanels' there have been;
\* the pointer will be on that surface, if it remains, and where the press was meant.
PressAt(q, f, at, there, left, surf, sub, k) ==
    LET e == q[k]
    IN  /\ e.of \in {PanelSurface} \cup there
        /\ e.of \in {PanelSurface} \cup left => PointerOn(q, f, e.of, k)
        /\ \E p \in Points : /\ PointerAt(q, at, p, k)
                             /\ e.of = PanelSurface => MeantOnPanel(e, p)
                             /\ e.of = surf => MeantOnSubpanel(e, p, sub)

QueueIs(q, f, at, there, left, surf, sub, on) ==
    /\ IsList(q) /\ \A e \in Range(q) : Shaped(e)
    /\ on \in {NoSurface, PanelSurface} \cup left
    /\ on # NoSurface => PointerOn(q, f, on, Len(q) + 1)
    /\ \A k \in DOMAIN q : q[k].type = "press" => PressAt(q, f, at, there, left, surf, sub, k)

QueueKnown ==
    QueueIs(events, focus, pointer, DOMAIN popups, Remaining, sp.surface, sp.sub, pointed)

PressInvariant == ViewsKnown /\ NothingSeen /\ SurfacesKnown /\ QueueKnown /\ ActsOnShown

-----------------------------------------------------------------------------
(* The rows of a subpanel *)

\* parse_int_range keeps the metrics in their bounds.
LEMMA MetricsKnown ==
    /\ Contract.bevel_width \in 0..15 /\ Contract.subpanel_padding \in 0..63
    /\ Contract.subpanel_title_height \in 1..127 /\ Contract.subpanel_entry_height \in 1..127
<1>1. /\ Metric("bevel_width", Contract.bevel_width) \in 0..15
      /\ Metric("subpanel_padding", Contract.subpanel_padding) \in 0..63
      /\ Metric("subpanel_title_height", Contract.subpanel_title_height) \in 1..127
      /\ Metric("subpanel_entry_height", Contract.subpanel_entry_height) \in 1..127
  <2>1. /\ "bevel_width" \in MayBeZero /\ "subpanel_padding" \in MayBeZero
        /\ "subpanel_title_height" \notin MayBeZero /\ "subpanel_entry_height" \notin MayBeZero
    BY DEF MayBeZero
  <2>2. /\ AtMost.bevel_width = 15 /\ AtMost.subpanel_padding = 63
        /\ AtMost.subpanel_title_height = 127 /\ AtMost.subpanel_entry_height = 127
    BY DEF AtMost
  <2>3. /\ DefaultContract.bevel_width = 1 /\ DefaultContract.subpanel_padding = 4
        /\ DefaultContract.subpanel_title_height = 20
        /\ DefaultContract.subpanel_entry_height = 32
    BY DEF DefaultContract
  <2> QED BY <2>1, <2>2, <2>3 DEF Metric
<1>2. {"bevel_width", "subpanel_padding", "subpanel_title_height", "subpanel_entry_height"}
          \subseteq DOMAIN AtMost
  BY DEF AtMost
<1>3. \A name \in DOMAIN AtMost : Contract[name] = Metric(name, Contract[name])
  BY PanelLayoutAssumption
<1>4. /\ Contract.bevel_width = Metric("bevel_width", Contract.bevel_width)
      /\ Contract.subpanel_padding = Metric("subpanel_padding", Contract.subpanel_padding)
      /\ Contract.subpanel_title_height
            = Metric("subpanel_title_height", Contract.subpanel_title_height)
      /\ Contract.subpanel_entry_height
            = Metric("subpanel_entry_height", Contract.subpanel_entry_height)
  BY <1>2, <1>3
<1> QED BY <1>1, <1>4

\* The row of height h that a distance y lies in.
LEMMA RowsAt ==
    ASSUME NEW h \in Nat \ {0}, NEW y \in Nat, NEW r \in Nat \ {0}
    PROVE  (r - 1) * h <= y /\ y < (r - 1) * h + h <=> r = 1 + y \div h
<1> DEFINE d == y \div h
           m == y % h
<1>1. d \in Int /\ m \in Int /\ y = h * d + m /\ 0 <= m /\ m < h
  OBVIOUS
<1>2. d >= 0
  OBVIOUS
<1> HIDE DEF d, m
<1>3. r = 1 + d => (r - 1) * h <= y /\ y < (r - 1) * h + h
  <2> SUFFICES ASSUME r = 1 + d PROVE (r - 1) * h <= y /\ y < (r - 1) * h + h
    OBVIOUS
  <2>1. r - 1 = d
    BY <1>1
  <2>2. d * h = h * d
    BY <1>1
  <2> QED BY <1>1, <2>1, <2>2
<1>4. ASSUME (r - 1) * h <= y, y < (r - 1) * h + h, r < 1 + d
      PROVE FALSE
  <2> DEFINE k == d - (r - 1)
  <2>1. k \in Int /\ k >= 1 /\ d = (r - 1) + k
    BY <1>1, <1>4
  <2> HIDE DEF k
  <2>2. h * d = (r - 1) * h + h * k
    BY <2>1, <1>1
  <2>3. h * k >= h
    BY <2>1
  <2> QED BY <1>1, <1>4, <2>2, <2>3
<1>5. ASSUME (r - 1) * h <= y, y < (r - 1) * h + h, r > 1 + d
      PROVE FALSE
  <2> DEFINE k == (r - 1) - d
  <2>1. k \in Int /\ k >= 1 /\ r - 1 = d + k
    BY <1>1, <1>5
  <2> HIDE DEF k
  <2>2. (r - 1) * h = h * d + h * k
    BY <2>1, <1>1
  <2>3. h * k >= h
    BY <2>1
  <2> QED BY <1>1, <1>5, <2>2, <2>3
<1> QED BY <1>1, <1>3, <1>4, <1>5 DEF d

\* Between the sides, the row that the hit test finds is drawn a bevel's width below.
LEMMA RowsAnswerAsDrawn ==
    ASSUME NEW entries \in Nat, NEW p \in Nat \X Nat, SubpanelWidth \in Nat,
           Contract.bevel_width + Contract.subpanel_padding <= p[1],
           p[1] < SubpanelWidth - (Contract.bevel_width + Contract.subpanel_padding),
           HitTestSubpanel(entries, SubpanelWidth, p) # 0
    PROVE  DrawnInSubpanel(entries, SubpanelWidth, <<p[1], p[2] + Contract.bevel_width>>)
               = HitTestSubpanel(entries, SubpanelWidth, p)
<1> DEFINE bevel == Contract.bevel_width
           padding == Contract.subpanel_padding
           title == Contract.subpanel_title_height
           h == Contract.subpanel_entry_height
           y == p[2] - padding - title
           row == 1 + y \div h
           top == bevel + title + padding
           side == bevel + padding
           q == <<p[1], p[2] + bevel>>
           Row(i) == Rect(side, top + (i - 1) * h, SubpanelWidth - 2 * side, h)
<1>1. /\ bevel \in Nat /\ padding \in Nat /\ title \in Nat /\ h \in Nat \ {0}
  BY MetricsKnown
<1>2. y >= 0 /\ row <= entries /\ HitTestSubpanel(entries, SubpanelWidth, p) = row
  BY DEF HitTestSubpanel
<1>3. p[1] \in Nat /\ p[2] \in Nat /\ q[1] = p[1] /\ q[2] = p[2] + bevel
  OBVIOUS
<1>4. y \in Nat /\ side \in Nat /\ top \in Nat /\ q[2] = top + y
  BY <1>1, <1>2, <1>3
<1>5. side <= q[1] /\ q[1] < side + (SubpanelWidth - 2 * side)
  BY <1>1, <1>3
<1>6. row \in 1..entries
  <2>1. y \div h \in Int /\ y \div h >= 0
    BY <1>1, <1>4
  <2> QED BY <1>2, <2>1
<1>7. DrawnInSubpanel(entries, SubpanelWidth, q)
          = LET at == {i \in 1..entries : InRect(q, Row(i))} IN IF at = {} THEN 0 ELSE Min(at)
  BY DEF DrawnInSubpanel
<1> DEFINE at == {i \in 1..entries : InRect(q, Row(i))}
<1>8. ASSUME NEW i \in 1..entries PROVE InRect(q, Row(i)) <=> i = row
  <2>1. (i - 1) * h \in Int
    BY <1>1
  <2>2. /\ Row(i).x = side /\ Row(i).w = SubpanelWidth - 2 * side
        /\ Row(i).y = top + (i - 1) * h /\ Row(i).h = h
    BY DEF Rect
  <2> HIDE DEF Row, q, y, side, top, h
  <2>3. InRect(q, Row(i)) <=> (i - 1) * h <= y /\ y < (i - 1) * h + h
    BY <1>1, <1>3, <1>4, <1>5, <2>1, <2>2 DEF InRect
  <2>4. i \in Nat \ {0}
    BY <1>8
  <2>5. (i - 1) * h <= y /\ y < (i - 1) * h + h <=> i = 1 + y \div h
    <3> HIDE DEF row
    <3> QED BY <1>1, <1>4, <2>4, RowsAt, Zenon
  <2> QED BY <2>3, <2>5
<1>9. at = {row}
  BY <1>6, <1>8
<1>10. Min(at) = row
  BY <1>6, <1>9 DEF Min
<1> HIDE DEF at, Row, q, row
<1> QED BY <1>2, <1>7, <1>9, <1>10 DEF at, q

-----------------------------------------------------------------------------
(* The pointer in a queue *)

\* Only the enter and leave events before place k matter.
LEMMA PointerAlike ==
    ASSUME NEW q, NEW r, NEW f, NEW s, NEW k \in Nat, PointerOn(q, f, s, k),
           \A i \in 1..(k - 1) :
              /\ Crosses(r[i]) => Crosses(q[i])
              /\ q[i].type = "enter" /\ q[i].of = s => r[i].type = "enter" /\ r[i].of = s
    PROVE  PointerOn(r, f, s, k)
<1>1. CASE f = s /\ \A i \in 1..(k - 1) : ~Crosses(q[i])
  BY <1>1 DEF PointerOn
<1>2. CASE \E j \in 1..(k - 1) : /\ q[j].type = "enter" /\ q[j].of = s
                                 /\ \A i \in (j + 1)..(k - 1) : ~Crosses(q[i])
  <2>1. PICK j \in 1..(k - 1) : /\ q[j].type = "enter" /\ q[j].of = s
                                /\ \A i \in (j + 1)..(k - 1) : ~Crosses(q[i])
    BY <1>2
  <2>2. \A i \in (j + 1)..(k - 1) : i \in 1..(k - 1)
    OBVIOUS
  <2>3. r[j].type = "enter" /\ r[j].of = s
    BY <2>1
  <2>4. \A i \in (j + 1)..(k - 1) : ~Crosses(r[i])
    BY <2>1, <2>2
  <2> QED BY <2>3, <2>4 DEF PointerOn
<1> QED BY <1>1, <1>2 DEF PointerOn

\* The pointer stays where it is while events neither enter nor leave.
LEMMA PointerStays ==
    ASSUME NEW q, NEW f, NEW s, NEW k \in Nat, PointerOn(q, f, s, k), NEW m \in Nat, k <= m,
           \A i \in k..(m - 1) : ~Crosses(q[i])
    PROVE  PointerOn(q, f, s, m)
<1>1. CASE f = s /\ \A i \in 1..(k - 1) : ~Crosses(q[i])
  <2>1. \A i \in 1..(m - 1) : i \in 1..(k - 1) \/ i \in k..(m - 1)
    OBVIOUS
  <2> QED BY <1>1, <2>1 DEF PointerOn
<1>2. CASE \E j \in 1..(k - 1) : /\ q[j].type = "enter" /\ q[j].of = s
                                 /\ \A i \in (j + 1)..(k - 1) : ~Crosses(q[i])
  <2>1. PICK j \in 1..(k - 1) : /\ q[j].type = "enter" /\ q[j].of = s
                                /\ \A i \in (j + 1)..(k - 1) : ~Crosses(q[i])
    BY <1>2
  <2>2. \A i \in (j + 1)..(m - 1) : i \in (j + 1)..(k - 1) \/ i \in k..(m - 1)
    OBVIOUS
  <2>3. j \in 1..(m - 1)
    OBVIOUS
  <2> QED BY <2>1, <2>2, <2>3 DEF PointerOn
<1> QED BY <1>1, <1>2 DEF PointerOn

\* Handling the first event moves the pointer as the queue says.
LEMMA PointerTaken ==
    ASSUME NEW q, IsList(q), q # <<>>, NEW f, NEW g, NEW s, NEW k \in 1..Len(q),
           PointerOn(q, f, s, k + 1),
           q[1].type = "enter" => g = q[1].of,
           ~Crosses(q[1]) => g = f
    PROVE  PointerOn(Tail(q), g, s, k)
<1>1. /\ Len(q) \in Nat \ {0} /\ k \in Nat
      /\ \A j \in 2..k : j - 1 \in 1..(k - 1) /\ Tail(q)[j - 1] = q[j]
      /\ \A j \in 1..(k - 1) : j + 1 \in 2..k /\ Tail(q)[j] = q[j + 1]
  <2> DEFINE S == Range(q)
  <2>1. q \in Seq(S)
    BY DEF IsList
  <2> HIDE DEF S
  <2>2. /\ Len(q) \in Nat \ {0} /\ Len(Tail(q)) = Len(q) - 1
        /\ DOMAIN Tail(q) = 1..Len(Tail(q))
        /\ \A j \in DOMAIN Tail(q) : Tail(q)[j] = q[j + 1]
    BY <2>1, TailShape
  <2>3. \A j \in 1..(k - 1) : j \in DOMAIN Tail(q)
    BY <2>2
  <2>4. \A j \in 2..k : j - 1 \in 1..(k - 1) /\ (j - 1) + 1 = j
    BY <2>2
  <2> QED BY <2>2, <2>3, <2>4
<1>2. CASE f = s /\ \A i \in 1..k : ~Crosses(q[i])
  <2>1. g = s
    BY <1>1, <1>2
  <2>2. \A i \in 1..(k - 1) : ~Crosses(Tail(q)[i])
    BY <1>1, <1>2
  <2> QED BY <2>1, <2>2 DEF PointerOn
<1>3. ASSUME NEW j \in 1..k, q[j].type = "enter", q[j].of = s,
             \A i \in (j + 1)..k : ~Crosses(q[i])
      PROVE  PointerOn(Tail(q), g, s, k)
  <2>1. \A i \in j..(k - 1) : ~Crosses(Tail(q)[i])
    <3>1. \A i \in j..(k - 1) : i + 1 \in (j + 1)..k /\ i \in 1..(k - 1)
      BY <1>1
    <3> QED BY <1>1, <1>3, <3>1
  <2>2. CASE j = 1
    BY <1>3, <2>1, <2>2 DEF PointerOn
  <2>3. CASE j # 1
    <3>1. j - 1 \in 1..(k - 1) /\ Tail(q)[j - 1] = q[j] /\ (j - 1) + 1 = j
      BY <1>1, <2>3
    <3> QED BY <1>3, <2>1, <3>1 DEF PointerOn
  <2> QED BY <2>2, <2>3
<1>4. (k + 1) - 1 = k
  BY <1>1
<1> QED BY <1>2, <1>3, <1>4 DEF PointerOn

-----------------------------------------------------------------------------
(* What is done to the queue *)

\* r begins as q does.
Same(q, r, k) == \A i \in 1..k : r[i] = q[i]

\* A press is known by the events before it.
LEMMA PressSame ==
    ASSUME NEW q, NEW r, NEW f, NEW at, NEW there, NEW left, NEW surf, NEW sub, NEW k \in Nat \ {0},
           PressAt(q, f, at, there, left, surf, sub, k), Same(q, r, k)
    PROVE  PressAt(r, f, at, there, left, surf, sub, k)
<1>1. r[k] = q[k]
  BY DEF Same
<1>2. ASSUME NEW s, PointerOn(q, f, s, k) PROVE PointerOn(r, f, s, k)
  <2>1. \A i \in 1..(k - 1) : r[i] = q[i]
    BY DEF Same
  <2> QED BY <1>2, <2>1, PointerAlike
<1>3. ASSUME NEW p, PointerAt(q, at, p, k) PROVE PointerAt(r, at, p, k)
  <2>1. k = 1 \/ r[k - 1] = q[k - 1]
    BY DEF Same
  <2> QED BY <1>3, <2>1 DEF PointerAt
<1> QED BY <1>1, <1>2, <1>3 DEF PressAt

\* The first event is handled.
LEMMA QueueTakes ==
    ASSUME NEW q, q # <<>>, NEW f, NEW at, NEW there, NEW left, NEW surf, NEW sub, NEW on,
           QueueIs(q, f, at, there, left, surf, sub, on), NEW g, NEW to,
           Head(q).type = "enter" => g = Head(q).of,
           ~Crosses(Head(q)) => g = f,
           Head(q).type \in {"enter", "motion"} => to = Head(q).at
    PROVE  QueueIs(Tail(q), g, to, there, left, surf, sub, on)
<1> DEFINE S == Range(q)
<1>1. q \in Seq(S) /\ IsList(q)
  BY DEF QueueIs, IsList
<1>2. IsList(Tail(q)) /\ Range(Tail(q)) \subseteq Range(q)
  BY <1>1, TailList
<1> HIDE DEF S
<1>3. /\ Len(q) \in Nat \ {0} /\ Len(Tail(q)) = Len(q) - 1 /\ Head(q) = q[1]
      /\ DOMAIN q = 1..Len(q) /\ DOMAIN Tail(q) = 1..Len(Tail(q))
      /\ \A j \in DOMAIN Tail(q) : j + 1 \in DOMAIN q /\ Tail(q)[j] = q[j + 1]
  BY <1>1, TailShape
<1>4. ASSUME NEW s, NEW k \in 1..Len(q), PointerOn(q, f, s, k + 1)
      PROVE  PointerOn(Tail(q), g, s, k)
  <2>1. q[1].type = "enter" => g = q[1].of
    BY <1>3
  <2>2. ~Crosses(q[1]) => g = f
    BY <1>3
  <2> QED BY <1>1, <1>4, <2>1, <2>2, PointerTaken
<1>5. on # NoSurface => PointerOn(Tail(q), g, on, Len(Tail(q)) + 1)
  <2>1. Len(q) \in 1..Len(q) /\ Len(Tail(q)) + 1 = Len(q)
    BY <1>3
  <2> QED BY <1>4, <2>1 DEF QueueIs
<1>6. ASSUME NEW k \in DOMAIN Tail(q), Tail(q)[k].type = "press"
      PROVE  PressAt(Tail(q), g, to, there, left, surf, sub, k)
  <2>1. k + 1 \in DOMAIN q /\ Tail(q)[k] = q[k + 1] /\ k \in 1..Len(q) /\ k \in Nat
    BY <1>3
  <2>2. PressAt(q, f, at, there, left, surf, sub, k + 1)
    BY <1>6, <2>1 DEF QueueIs
  <2>3. ASSUME NEW p, PointerAt(q, at, p, k + 1) PROVE PointerAt(Tail(q), to, p, k)
    <3>1. k + 1 # 1 /\ (k + 1) - 1 = k
      BY <2>1
    <3>2. q[k].type \in {"enter", "motion"} /\ q[k].at = p
      BY <2>3, <3>1 DEF PointerAt
    <3>3. CASE k = 1
      BY <1>3, <3>2, <3>3 DEF PointerAt
    <3>4. CASE k # 1
      <4>1. k - 1 \in DOMAIN Tail(q) /\ (k - 1) + 1 = k
        BY <1>3, <2>1, <3>4
      <4> QED BY <1>3, <3>2, <3>4, <4>1 DEF PointerAt
    <3> QED BY <3>3, <3>4
  <2>4. ASSUME NEW s, PointerOn(q, f, s, k + 1) PROVE PointerOn(Tail(q), g, s, k)
    BY <1>4, <2>1, <2>4
  <2> QED BY <2>1, <2>2, <2>3, <2>4 DEF PressAt
<1> QED BY <1>2, <1>5, <1>6 DEF QueueIs

\* Events that neither cross nor press are added.
LEMMA QueueGrows ==
    ASSUME NEW q, NEW f, NEW at, NEW there, NEW left, NEW surf, NEW sub, NEW on,
           QueueIs(q, f, at, there, left, surf, sub, on), NEW more, IsList(more),
           \A e \in Range(more) : Shaped(e) /\ ~Crosses(e) /\ e.type # "press"
    PROVE  QueueIs(q \o more, f, at, there, left, surf, sub, on)
<1> DEFINE S == Range(q) \cup Range(more)
           r == q \o more
<1>1. q \in Seq(S) /\ more \in Seq(S) /\ IsList(q)
  BY DEF QueueIs, IsList
<1>2. IsList(r) /\ Range(r) = Range(q) \cup Range(more)
  BY <1>1, ConcatList
<1> HIDE DEF S
<1>3. /\ Len(q) \in Nat /\ Len(more) \in Nat /\ Len(r) = Len(q) + Len(more)
      /\ DOMAIN q = 1..Len(q) /\ DOMAIN more = 1..Len(more) /\ DOMAIN r = 1..Len(r)
      /\ \A j \in DOMAIN q : j \in DOMAIN r /\ r[j] = q[j]
      /\ \A c \in DOMAIN more : Len(q) + c \in DOMAIN r /\ r[Len(q) + c] = more[c]
      /\ \A j \in DOMAIN r : \/ j \in DOMAIN q
                             \/ \E c \in DOMAIN more : j = Len(q) + c
  BY <1>1, ConcatShape
<1> HIDE DEF r
<1>4. ASSUME NEW j \in DOMAIN r, j \notin DOMAIN q
      PROVE  Shaped(r[j]) /\ ~Crosses(r[j]) /\ r[j].type # "press"
  <2>1. PICK c \in DOMAIN more : j = Len(q) + c
    BY <1>3, <1>4
  <2>2. r[j] = more[c] /\ more[c] \in Range(more)
    BY <1>3, <2>1 DEF Range
  <2> QED BY <2>2
<1>5. on # NoSurface => PointerOn(r, f, on, Len(r) + 1)
  <2> SUFFICES ASSUME on # NoSurface PROVE PointerOn(r, f, on, Len(r) + 1)
    OBVIOUS
  <2>1. PointerOn(q, f, on, Len(q) + 1)
    BY DEF QueueIs
  <2>2. /\ Len(q) + 1 \in Nat /\ Len(r) + 1 \in Nat /\ Len(q) + 1 <= Len(r) + 1
        /\ (Len(q) + 1) - 1 = Len(q) /\ (Len(r) + 1) - 1 = Len(r)
    BY <1>3
  <2>3. PointerOn(r, f, on, Len(q) + 1)
    <3>1. \A i \in 1..((Len(q) + 1) - 1) : r[i] = q[i]
      BY <1>3, <2>2
    <3> QED BY <2>1, <2>2, <3>1, PointerAlike
  <2>4. \A i \in (Len(q) + 1)..((Len(r) + 1) - 1) : ~Crosses(r[i])
    <3>1. \A i \in (Len(q) + 1)..Len(r) : i \in DOMAIN r /\ i \notin DOMAIN q
      BY <1>3
    <3> QED BY <1>4, <2>2, <3>1
  <2> QED BY <2>2, <2>3, <2>4, PointerStays
<1>6. ASSUME NEW k \in DOMAIN r, r[k].type = "press"
      PROVE  PressAt(r, f, at, there, left, surf, sub, k)
  <2>1. k \in DOMAIN q /\ k \in Nat \ {0}
    BY <1>3, <1>4, <1>6
  <2>2. PressAt(q, f, at, there, left, surf, sub, k)
    BY <1>3, <1>6, <2>1 DEF QueueIs
  <2>3. Same(q, r, k)
    BY <1>3, <2>1 DEF Same
  <2> QED BY <2>1, <2>2, <2>3, PressSame
<1>7. \A e \in Range(r) : Shaped(e)
  BY <1>2 DEF QueueIs
<1> QED BY <1>2, <1>5, <1>6, <1>7 DEF QueueIs, r

\* One event is added, and the pointer is where it says.
LEMMA QueueAppends ==
    ASSUME NEW q, NEW f, NEW at, NEW there, NEW left, NEW surf, NEW sub, NEW on,
           QueueIs(q, f, at, there, left, surf, sub, on), NEW e, Shaped(e), NEW to,
           to \in {NoSurface, PanelSurface} \cup left,
           to # NoSurface => (e.type = "enter" /\ e.of = to) \/ (~Crosses(e) /\ on = to),
           e.type = "press" =>
               PressAt(Append(q, e), f, at, there, left, surf, sub, Len(q) + 1)
    PROVE  QueueIs(Append(q, e), f, at, there, left, surf, sub, to)
<1> DEFINE r == Append(q, e)
<1>1. IsList(q)
  BY DEF QueueIs
<1>2. IsList(r) /\ Range(r) \subseteq Range(q) \cup {e}
  BY <1>1, AppendList
<1>3. /\ DOMAIN r = 1..(Len(q) + 1) /\ Len(r) = Len(q) + 1
      /\ r[Len(q) + 1] = e
      /\ \A i \in 1..Len(q) : r[i] = q[i]
  BY <1>1, AppendShape
<1>4. Len(q) \in Nat /\ DOMAIN q = 1..Len(q)
  BY <1>1, ListShape
<1> DEFINE last1 == Len(q) + 1
           last2 == Len(r) + 1
<1>5. last1 \in Nat /\ last2 \in Nat /\ last1 <= last2 /\ last1 - 1 = Len(q) /\ last2 - 1 = last1
  BY <1>3, <1>4
<1> HIDE DEF r
<1>6. to # NoSurface => PointerOn(r, f, to, last2)
  <2> SUFFICES ASSUME to # NoSurface PROVE PointerOn(r, f, to, last2)
    OBVIOUS
  <2>1. CASE e.type = "enter" /\ e.of = to
    <3>1. last1 \in 1..(last2 - 1) /\ (last1 + 1)..(last2 - 1) = {}
      BY <1>5
    <3>2. r[last1].type = "enter" /\ r[last1].of = to
      BY <1>3, <2>1
    <3> QED BY <3>1, <3>2 DEF PointerOn
  <2>2. CASE ~Crosses(e) /\ on = to
    <3>1. PointerOn(q, f, to, last1)
      BY <2>2 DEF QueueIs
    <3>2. PointerOn(r, f, to, last1)
      <4>1. \A i \in 1..(last1 - 1) : r[i] = q[i]
        BY <1>3, <1>5
      <4> HIDE DEF last1
      <4> QED BY <1>5, <3>1, <4>1, PointerAlike
    <3>3. \A i \in last1..(last2 - 1) : ~Crosses(r[i])
      <4>1. \A i \in last1..(last2 - 1) : i = last1
        BY <1>5
      <4> QED BY <1>3, <2>2, <4>1
    <3> HIDE DEF last1, last2
    <3> QED BY <1>5, <3>2, <3>3, PointerStays
  <2> QED BY <2>1, <2>2
<1>7. ASSUME NEW k \in DOMAIN r, r[k].type = "press"
      PROVE  PressAt(r, f, at, there, left, surf, sub, k)
  <2>1. CASE k = Len(q) + 1
    BY <1>3, <1>7, <2>1 DEF r
  <2>2. CASE k # Len(q) + 1
    <3>1. k \in DOMAIN q /\ k \in Nat \ {0} /\ \A i \in 1..k : i \in 1..Len(q)
      BY <1>3, <1>4, <2>2
    <3>2. PressAt(q, f, at, there, left, surf, sub, k)
      BY <1>3, <1>4, <1>7, <3>1 DEF QueueIs
    <3>3. Same(q, r, k)
      BY <1>3, <3>1 DEF Same
    <3> QED BY <3>1, <3>2, <3>3, PressSame
  <2> QED BY <2>1, <2>2
<1>8. \A x \in Range(r) : Shaped(x)
  BY <1>2 DEF QueueIs
<1> QED BY <1>2, <1>6, <1>7, <1>8 DEF QueueIs, r

\* Surface n is destroyed: it is neither the pointer's nor the subpanel's any more.
LEMMA QueueForgets ==
    ASSUME NEW q, NEW f, NEW at, NEW there, there \subseteq Nat \ {0}, NEW left, NEW surf, NEW sub,
           NEW on, QueueIs(q, f, at, there, left, surf, sub, on), NEW n \in there
    PROVE  QueueIs(Without(n, q), f, at, there, left \ {n}, NoSurface, 0,
                   IF on = n THEN NoSurface ELSE on)
<1> DEFINE r == Without(n, q)
           over == IF on = n THEN NoSurface ELSE on
<1>1. DOMAIN r = DOMAIN q /\ r = [i \in DOMAIN q |-> r[i]] /\ IsList(q)
  BY DEF Without, QueueIs
<1>2. /\ IsList(r) /\ Len(r) = Len(q) /\ DOMAIN q = 1..Len(q) /\ Len(q) \in Nat
  <2> HIDE DEF r
  <2> QED BY <1>1, ReplacedList, ListShape
<1>3. n # NoSurface /\ n # PanelSurface /\ NoSurface \notin there
  BY DEF NoSurface, PanelSurface
<1>4. ASSUME NEW i \in DOMAIN q
      PROVE  /\ Shaped(r[i]) /\ (Crosses(r[i]) <=> Crosses(q[i]))
             /\ (r[i].type \in {"press", "enter", "motion"}
                   \/ q[i].type \in {"press", "enter", "motion"}) =>
                    r[i].type = q[i].type /\ r[i].at = q[i].at
             /\ r[i].type = "press" => r[i] = q[i]
             /\ q[i].of # n => r[i].of = q[i].of
  <2>1. Shaped(q[i])
    BY DEF QueueIs, Range
  <2>2. \/ q[i].of = n /\ q[i].type \in {"configure", "closed"} /\ r[i] = Ev("none", NoSurface)
        \/ q[i].of = n /\ q[i].type \in {"enter", "leave"} /\ r[i] = [q[i] EXCEPT !.of = NoSurface]
        \/ r[i] = q[i]
    BY DEF Without
  <2> HIDE DEF r
  <2>3. CASE q[i].of = n /\ q[i].type \in {"configure", "closed"} /\ r[i] = Ev("none", NoSurface)
    BY <2>3 DEF Ev, Shaped, Crosses
  <2>4. CASE /\ q[i].of = n /\ q[i].type \in {"enter", "leave"}
             /\ r[i] = [q[i] EXCEPT !.of = NoSurface]
    <3>1. r[i] = [type |-> q[i].type, of |-> NoSurface, at |-> q[i].at, button |-> q[i].button,
                  meant |-> q[i].meant, names |-> q[i].names]
      BY <2>1, <2>4 DEF Shaped
    <3> QED BY <2>4, <3>1 DEF Shaped, Crosses
  <2>5. CASE r[i] = q[i]
    BY <2>1, <2>5
  <2> QED BY <2>2, <2>3, <2>4, <2>5
<1> HIDE DEF r
<1>5. ASSUME NEW s, s # n, NEW k \in Nat, k <= Len(q) + 1, PointerOn(q, f, s, k)
      PROVE  PointerOn(r, f, s, k)
  <2>1. \A i \in 1..(k - 1) : i \in DOMAIN q
    BY <1>2, <1>5
  <2>2. \A i \in 1..(k - 1) :
           /\ Crosses(r[i]) => Crosses(q[i])
           /\ q[i].type = "enter" /\ q[i].of = s => r[i].type = "enter" /\ r[i].of = s
    BY <1>4, <1>5, <2>1
  <2> QED BY <1>5, <2>2, PointerAlike
<1>6. over # NoSurface => PointerOn(r, f, over, Len(r) + 1)
  BY <1>2, <1>5 DEF QueueIs
<1>7. ASSUME NEW k \in DOMAIN r, r[k].type = "press"
      PROVE  PressAt(r, f, at, there, left \ {n}, NoSurface, 0, k)
  <2>1. k \in DOMAIN q /\ r[k] = q[k] /\ k \in Nat \ {0} /\ k <= Len(q) + 1
    BY <1>1, <1>2, <1>4, <1>7
  <2>2. PressAt(q, f, at, there, left, surf, sub, k)
    BY <1>7, <2>1 DEF QueueIs
  <2>3. r[k].of \in {PanelSurface} \cup there /\ r[k].of # NoSurface
    BY <1>3, <2>1, <2>2 DEF PressAt, PanelSurface, NoSurface
  <2>4. ASSUME r[k].of \in {PanelSurface} \cup (left \ {n})
        PROVE  PointerOn(r, f, r[k].of, k)
    <3>1. PointerOn(q, f, r[k].of, k) /\ r[k].of # n
      BY <1>3, <2>1, <2>2, <2>4 DEF PressAt
    <3> QED BY <1>5, <2>1, <3>1
  <2>5. ASSUME NEW p, PointerAt(q, at, p, k) PROVE PointerAt(r, at, p, k)
    <3>1. k = 1 \/ k - 1 \in DOMAIN q
      BY <1>2, <2>1
    <3> QED BY <1>4, <2>5, <3>1 DEF PointerAt
  <2>6. PICK p \in Points : /\ PointerAt(q, at, p, k)
                            /\ r[k].of = PanelSurface => MeantOnPanel(r[k], p)
    BY <2>1, <2>2 DEF PressAt
  <2>7. PointerAt(r, at, p, k)
    BY <2>5, <2>6
  <2> QED BY <2>3, <2>4, <2>6, <2>7 DEF PressAt
<1>8. \A e \in Range(r) : Shaped(e)
  BY <1>1, <1>4 DEF Range
<1>9. over \in {NoSurface, PanelSurface} \cup (left \ {n})
  BY DEF QueueIs
<1> QED BY <1>2, <1>6, <1>7, <1>8, <1>9 DEF QueueIs, r

\* A new surface n is the subpanel's.
LEMMA QueueKnowsMore ==
    ASSUME NEW q, NEW f, NEW at, NEW there, NEW left, NEW surf, NEW sub, NEW on,
           QueueIs(q, f, at, there, left, surf, sub, on),
           NEW n \in Nat \ {0}, n \notin there, left \subseteq there, NEW s
    PROVE  QueueIs(q, f, at, there \cup {n}, left \cup {n}, n, s, on)
<1>1. ASSUME NEW k \in DOMAIN q, q[k].type = "press"
      PROVE  PressAt(q, f, at, there \cup {n}, left \cup {n}, n, s, k)
  <2>1. PressAt(q, f, at, there, left, surf, sub, k)
    BY <1>1 DEF QueueIs
  <2>2. q[k].of # n
    BY <2>1 DEF PressAt, PanelSurface
  <2> QED BY <2>1, <2>2 DEF PressAt
<1> QED BY <1>1 DEF QueueIs

-----------------------------------------------------------------------------
(* The steps: views *)

\* Before the display is connected.
AtStart == {"query", "subscribe", "drain", "connect"}

\* The daemon's states are, by assumption.
LEMMA StatesKnown == \A state \in States : KnownState(state)
  BY PanelSessionAssumption DEF KnownState, Viewed, Lists

\* So is no view at all a view.
LEMMA NoViewViewed == Viewed(NoView)
<1>1. \A a, b, c : Viewed([theme |-> a, workspaces |-> b, current |-> c])
  BY DEF Viewed
<1> QED BY <1>1, Zenon DEF NoView

\* Topics change what is known to what the daemon's state is.
LEMMA ParseKnows ==
    ASSUME KnownView(view), NEW topic, NEW state, KnownState(state), Parse(topic, state)
    PROVE  KnownView(view)' /\ screen'.view \in {screen.view, view'}
<1>1. view' \in {state, WorkspacesParsed(state), view}
  BY DEF Parse, PanelParsed
<1>2. KnownState(WorkspacesParsed(state))
  <2>1. Viewed(view)
    BY NoViewViewed DEF KnownView, KnownState
  <2>2. WorkspacesParsed(state)
            = [theme |-> view.theme, workspaces |-> state.workspaces, current |-> state.current]
    <3>1. view = [theme |-> view.theme, workspaces |-> view.workspaces, current |-> view.current]
      BY <2>1 DEF Viewed
    <3>2. DOMAIN view = {"theme", "workspaces", "current"}
      BY <3>1
    <3>3. PICK w : w = [view EXCEPT !.workspaces = state.workspaces, !.current = state.current]
      OBVIOUS
    <3>4. w = [theme |-> view.theme, workspaces |-> state.workspaces, current |-> state.current]
      BY <3>2, <3>3
    <3> QED BY <3>3, <3>4 DEF WorkspacesParsed
  <2> QED BY <2>2 DEF KnownState, Viewed
<1>3. KnownView(view')
  BY <1>1, <1>2 DEF KnownView
<1>4. screen'.view \in {screen.view, view'}
  <2>1. (\E shown \in {view'} : \E pending : Paint(shown, pending)) \/ screen' = screen
    BY DEF Parse, RequestRender, NotPainted, paintedVars
  <2>2. ASSUME NEW shown \in {view'}, NEW pending, Paint(shown, pending)
        PROVE  screen'.view \in {screen.view, view'}
    BY <2>2 DEF Paint
  <2> QED BY <2>1, <2>2
<1> QED BY <1>3, <1>4 DEF KnownView, KnownState, Viewed

\* What is painted is the view.
LEMMA PaintKnows ==
    ASSUME ViewsKnown, UNCHANGED <<view, truth, stream>>,
           (\E pending : Paint(view, pending)) \/ screen' = screen
    PROVE  ViewsKnown'
<1>1. screen'.view \in {screen.view, view}
  <2>1. ASSUME NEW pending, Paint(view, pending)
        PROVE  screen'.view \in {screen.view, view}
    BY <2>1 DEF Paint
  <2> QED BY <2>1
<1> QED BY <1>1 DEF ViewsKnown, KnownView, KnownState, Viewed

\* Nothing of what is known changes.
LEMMA ViewsStay ==
    ASSUME ViewsKnown, UNCHANGED <<view, screen, truth, stream>>
    PROVE  ViewsKnown'
  BY PaintKnows

\* The daemon sends what its state becomes.
LEMMA BecomesKnows ==
    ASSUME ViewsKnown, UNCHANGED <<view, screen>>, NEW state, KnownState(state), Becomes(state)
    PROVE  ViewsKnown'
<1>1. truth' = state /\ stream' \in {stream, stream \o Announced(state)}
  BY DEF Becomes
<1>2. IsList(Announced(state)) /\ \A frame \in Range(Announced(state)) : frame.state = state
  <2> DEFINE first == [topic |-> "panel", state |-> state]
             second == [topic |-> "workspaces", state |-> state]
             more == IF state.theme = truth.theme THEN <<second>> ELSE <<>>
  <2>1. first.state = state /\ second.state = state /\ Announced(state) = <<first>> \o more
    BY DEF Announced
  <2> HIDE DEF first, second
  <2>2. IsList(<<first>>) /\ Range(<<first>>) = {first}
    BY OneList
  <2>3. IsList(<<second>>) /\ Range(<<second>>) = {second} /\ IsList(<<>>) /\ Range(<<>>) = {}
    BY OneList, EmptyList
  <2>4. IsList(more) /\ Range(more) \subseteq {second}
    BY <2>3
  <2> DEFINE start == <<first>>
  <2> HIDE DEF more, start
  <2>5. IsList(start \o more) /\ Range(start \o more) = Range(start) \cup Range(more)
    BY <2>2, <2>4, ConcatList DEF start
  <2> QED BY <2>1, <2>2, <2>4, <2>5 DEF start
<1>3. ASSUME NEW more, IsList(more), \A frame \in Range(more) : frame.state = state,
             stream' = stream \o more
      PROVE  IsList(stream') /\ \A frame \in Range(stream') : KnownState(frame.state)
  <2>1. IsList(stream) /\ \A frame \in Range(stream) : KnownState(frame.state)
    BY DEF ViewsKnown
  <2>2. IsList(stream') /\ Range(stream') = Range(stream) \cup Range(more)
    BY <1>3, <2>1, ConcatList
  <2> QED BY <1>3, <2>1, <2>2
<1>4. IsList(stream') /\ \A frame \in Range(stream') : KnownState(frame.state)
  <2>1. CASE stream' = stream
    BY <2>1 DEF ViewsKnown
  <2>2. CASE stream' = stream \o Announced(state)
    BY <1>2, <1>3, <2>2
  <2> QED BY <1>1, <2>1, <2>2
<1> QED BY <1>1, <1>4 DEF ViewsKnown, KnownView, KnownState, Viewed

-----------------------------------------------------------------------------
(* The steps: the rest *)

\* A step that leaves the subpanel and the queue alone.
LEMMA CalmKeeps ==
    ASSUME PressInvariant, UNCHANGED <<sp, popups, events, focus, pointer, pointed, last>>,
           ViewsKnown', NothingSeen'
    PROVE  PressInvariant'
<1>1. SurfacesKnown'
  BY DEF PressInvariant, SurfacesKnown, SubpanelShape, PopupShape, Remaining
<1>2. UNCHANGED <<DOMAIN popups, Remaining>>
  BY DEF Remaining
<1>3. QueueKnown'
  BY <1>2 DEF PressInvariant, QueueKnown
<1> QED BY <1>1, <1>3 DEF PressInvariant, ActsOnShown

\* Those of the panel and of the daemon that change neither the subpanel nor the events.
LEMMA CalmSteps ==
    ASSUME PressInvariant, UNCHANGED pointed,
           QueriesEnd \/ Subscribe \/ DrainEnds \/ HandleDisconnect \/ EndDispatch \/ Fails
               \/ HandleSignal \/ DaemonChanges \/ DaemonStops \/ DaemonStarts
    PROVE  PressInvariant'
<1>1. /\ UNCHANGED <<view, screen, configured, sp, popups, events, focus, pointer, last>>
      /\ pc' \in AtStart => pc \in AtStart
      /\ \/ UNCHANGED <<truth, stream>>
         \/ /\ UNCHANGED truth
            /\ stream' = [i \in DOMAIN Topics |-> [topic |-> Topics[i], state |-> truth]]
         \/ \E state \in States : Becomes(state)
  <2>1. CASE QueriesEnd \/ DrainEnds \/ HandleDisconnect
    BY <2>1 DEF QueriesEnd, DrainEnds, HandleDisconnect, paintedVars, dataVars, daemonVars,
                popupVars, pointerVars, linkVars, AtStart
  <2>2. CASE Subscribe
    BY <2>2 DEF Subscribe, paintedVars, dataVars, daemonVars, popupVars, pointerVars, linkVars,
                AtStart
  <2>3. CASE EndDispatch \/ Fails \/ HandleSignal
    BY <2>3 DEF EndDispatch, Loop, Fails, HandleSignal, paintedVars, dataVars, daemonVars,
                popupVars, pointerVars, linkVars, AtStart
  <2>4. CASE DaemonChanges \/ DaemonStops \/ DaemonStarts
    BY <2>4 DEF DaemonChanges, DaemonStops, DaemonStarts, DaemonStep, paintedVars, dataVars,
                daemonVars, popupVars, pointerVars, linkVars
  <2> QED BY <2>1, <2>2, <2>3, <2>4
<1>2. NothingSeen'
  BY <1>1 DEF PressInvariant, NothingSeen, AtStart
<1>3. ViewsKnown'
  <2>1. CASE UNCHANGED <<truth, stream>>
    BY <1>1, <2>1, ViewsStay DEF PressInvariant
  <2>2. CASE /\ UNCHANGED truth
             /\ stream' = [i \in DOMAIN Topics |-> [topic |-> Topics[i], state |-> truth]]
    <3> DEFINE frame(i) == [topic |-> Topics[i], state |-> truth]
    <3>1. DOMAIN Topics = 1..4 /\ \A i : frame(i).state = truth
      BY DEF Topics
    <3>2. DOMAIN stream' = 1..4 /\ stream' = [i \in 1..4 |-> stream'[i]]
          /\ \A i \in 1..4 : stream'[i] = frame(i)
      BY <2>2, <3>1
    <3> HIDE DEF frame
    <3>3. IsList(stream') /\ Range(stream') = {stream'[i] : i \in 1..4}
      BY <3>2, MadeList
    <3>4. \A f \in Range(stream') : f.state = truth
      BY <3>1, <3>2, <3>3
    <3> QED BY <1>1, <2>2, <3>3, <3>4
            DEF PressInvariant, ViewsKnown, KnownView, KnownState, Viewed
  <2>3. CASE \E state \in States : Becomes(state)
    BY <1>1, <2>3, StatesKnown, BecomesKnows DEF PressInvariant
  <2> QED BY <1>1, <2>1, <2>2, <2>3
<1> QED BY <1>1, <1>2, <1>3, CalmKeeps

\* A step that takes an event, and leaves the subpanel alone.
LEMMA TakeKeeps ==
    ASSUME PressInvariant, UNCHANGED <<sp, popups, pointed>>,
           events # <<>>, events' = Tail(events),
           Head(events).type = "enter" => focus' = Head(events).of,
           ~Crosses(Head(events)) => focus' = focus,
           Head(events).type \in {"enter", "motion"} => pointer' = Head(events).at,
           UNCHANGED last, ViewsKnown', NothingSeen'
    PROVE  PressInvariant'
<1>1. SurfacesKnown'
  BY DEF PressInvariant, SurfacesKnown, SubpanelShape, PopupShape, Remaining
<1>2. UNCHANGED <<DOMAIN popups, Remaining>>
  BY DEF Remaining
<1>3. QueueIs(events', focus', pointer', DOMAIN popups, Remaining, sp.surface, sp.sub, pointed)
  BY QueueTakes DEF PressInvariant, QueueKnown
<1>4. QueueKnown'
  BY <1>2, <1>3 DEF QueueKnown
<1> QED BY <1>1, <1>4 DEF PressInvariant, ActsOnShown

\* Events that are not about the subpanel.
LEMMA TakingPress ==
    ASSUME PressInvariant, UNCHANGED pointed,
           HandleConfigure \/ HandleClosed \/ HandleFrameDone \/ HandleRelease \/ HandleScale
               \/ SkipEvent \/ HandlePointer
    PROVE  PressInvariant'
<1>1. /\ UNCHANGED <<sp, popups, last, view, truth, stream>>
      /\ events # <<>> /\ events' = Tail(events)
  BY DEF HandleConfigure, HandleClosed, HandleFrameDone, HandleRelease, HandleScale, SkipEvent,
         HandlePointer, Take, dataVars, daemonVars, popupVars, linkVars
<1>2. (\E pending : Paint(view, pending)) \/ screen' = screen
  BY DEF HandleConfigure, HandleClosed, HandleFrameDone, HandleRelease, HandleScale, SkipEvent,
         HandlePointer, NotPainted, paintedVars
<1>3. ViewsKnown'
  BY <1>1, <1>2, PaintKnows DEF PressInvariant
<1>4. \E type : Take(type)
  BY DEF HandleConfigure, HandleClosed, HandleFrameDone, HandleRelease, HandleScale, SkipEvent,
         HandlePointer
<1>5. NothingSeen'
  BY <1>4 DEF Take, NothingSeen
<1>6. /\ Head(events).type = "enter" => focus' = Head(events).of
      /\ ~Crosses(Head(events)) => focus' = focus
      /\ Head(events).type \in {"enter", "motion"} => pointer' = Head(events).at
  <2>1. CASE HandlePointer
    BY <2>1 DEF HandlePointer, Take, Crosses
  <2>2. CASE HandleConfigure \/ HandleClosed \/ HandleFrameDone \/ HandleRelease \/ HandleScale
                 \/ SkipEvent
    <3>1. /\ UNCHANGED <<focus, pointer>>
          /\ Head(events).type \in {"configure", "closed", "frame", "release", "scale", "none"}
      BY <2>2 DEF HandleConfigure, HandleClosed, HandleFrameDone, HandleRelease, HandleScale,
                  SkipEvent, Take, pointerVars
    <3> QED BY <3>1
  <2> QED BY <2>1, <2>2
<1> QED BY <1>1, <1>3, <1>5, <1>6, TakeKeeps

\* An event as the compositor makes it.
LEMMA EvShaped ==
    \A type, of : Shaped(Ev(type, of)) /\ Ev(type, of).type = type /\ Ev(type, of).of = of
  BY DEF Shaped, Ev

\* One more event for the panel.
LEMMA EventAdds ==
    ASSUME PressInvariant, UNCHANGED <<sp, popups, focus, pointer, pointed, last>>,
           NEW type, type \notin {"enter", "leave", "press"}, NEW of,
           events' = Append(events, Ev(type, of)), ViewsKnown', NothingSeen'
    PROVE  PressInvariant'
<1>1. SurfacesKnown'
  BY DEF PressInvariant, SurfacesKnown, SubpanelShape, PopupShape, Remaining
<1>2. UNCHANGED <<DOMAIN popups, Remaining>>
  BY DEF Remaining
<1> DEFINE e == Ev(type, of)
<1>3. Shaped(e) /\ ~Crosses(e) /\ e.type # "press"
  BY EvShaped DEF Crosses
<1>4. pointed \in {NoSurface, PanelSurface} \cup Remaining
  BY DEF PressInvariant, QueueKnown, QueueIs
<1>5. QueueIs(events', focus, pointer, DOMAIN popups, Remaining, sp.surface, sp.sub, pointed)
  <2> HIDE DEF e
  <2>1. events' = Append(events, e)
    BY DEF e
  <2> QED BY <1>3, <1>4, <2>1, QueueAppends DEF PressInvariant, QueueKnown
<1>6. QueueKnown'
  BY <1>2, <1>5 DEF QueueKnown
<1> QED BY <1>1, <1>6 DEF PressInvariant, ActsOnShown

\* The start, and the daemon's frames.
LEMMA DrawingPress ==
    ASSUME PressInvariant, UNCHANGED pointed, QueryTopic \/ HandleFrame \/ FirstRender \/ Connect
    PROVE  PressInvariant'
<1>1. UNCHANGED <<sp, popups, focus, pointer, last, configured>>
  BY DEF QueryTopic, HandleFrame, FirstRender, Connect, popupVars, pointerVars
<1>2. CASE QueryTopic
  <2>1. /\ pc = "query" /\ UNCHANGED <<pc, events, truth, stream>>
        /\ (\E topic : Parse(topic, truth)) \/ UNCHANGED <<view, screen>>
    BY <1>2 DEF QueryTopic, linkVars, daemonVars, dataVars, NotPainted, paintedVars
  <2>2. ViewsKnown'
    <3>1. CASE \E topic : Parse(topic, truth)
      <4>1. KnownView(view)' /\ screen'.view \in {screen.view, view'}
        BY <3>1, ParseKnows DEF PressInvariant, ViewsKnown
      <4> QED BY <2>1, <4>1 DEF PressInvariant, ViewsKnown, KnownView, KnownState, Viewed
    <3>2. CASE UNCHANGED <<view, screen>>
      BY <2>1, <3>2, ViewsStay DEF PressInvariant
    <3> QED BY <2>1, <3>1, <3>2
  <2>3. screen' = screen
    <3>1. ~configured
      BY <2>1 DEF PressInvariant, NothingSeen
    <3> QED BY <2>1, <3>1 DEF Parse, RequestRender, NotPainted, paintedVars
  <2>4. NothingSeen'
    BY <1>1, <2>1, <2>3 DEF PressInvariant, NothingSeen
  <2> QED BY <1>1, <2>1, <2>2, <2>4, CalmKeeps
<1>3. CASE HandleFrame
  <2>1. /\ pc \in {"drain", "poll"} /\ pc' = (IF pc = "poll" THEN "dispatch" ELSE pc)
        /\ stream # <<>> /\ stream' = Tail(stream) /\ UNCHANGED truth
        /\ Parse(Head(stream).topic, Head(stream).state)
        /\ events' = events \/ events' = Append(events, Ev("configure", PanelSurface))
    BY <1>3 DEF HandleFrame, daemonVars
  <2>2. IsList(stream') /\ Range(stream') \subseteq Range(stream) /\ Head(stream) \in Range(stream)
    BY <2>1, TailList DEF PressInvariant, ViewsKnown
  <2>3. ViewsKnown'
    <3>1. KnownView(view) /\ KnownState(Head(stream).state)
      BY <2>2 DEF PressInvariant, ViewsKnown
    <3>2. KnownView(view)' /\ screen'.view \in {screen.view, view'}
      BY <2>1, <3>1, ParseKnows
    <3> QED BY <2>1, <2>2, <3>2 DEF PressInvariant, ViewsKnown, KnownView, KnownState, Viewed
  <2>4. NothingSeen'
    <3>1. CASE pc = "poll"
      BY <2>1, <3>1 DEF NothingSeen
    <3>2. CASE pc = "drain"
      <4>1. ~configured
        BY <3>2 DEF PressInvariant, NothingSeen
      <4>2. screen' = screen
        BY <2>1, <4>1 DEF Parse, RequestRender, NotPainted, paintedVars
      <4> QED BY <1>1, <3>2, <4>2 DEF PressInvariant, NothingSeen
    <3> QED BY <2>1, <3>1, <3>2
  <2> QED BY <1>1, <2>1, <2>3, <2>4, CalmKeeps, EventAdds
<1>4. CASE FirstRender
  <2>1. /\ pc' \in {"poll", "over"} /\ UNCHANGED <<events, view, truth, stream>>
        /\ (\E pending : Paint(view, pending)) \/ screen' = screen
    BY <1>4 DEF FirstRender, Loop, linkVars, daemonVars, dataVars, NotPainted, paintedVars
  <2>2. ViewsKnown'
    BY <2>1, PaintKnows DEF PressInvariant
  <2>3. NothingSeen'
    BY <2>1 DEF NothingSeen
  <2> QED BY <1>1, <2>1, <2>2, <2>3, CalmKeeps
<1>5. CASE Connect
  <2>1. /\ pc = "connect" /\ pc' \in {"roundtrip", "over"} /\ UNCHANGED <<screen, view, truth, stream>>
        /\ events' = events \/ events' = <<Ev("configure", PanelSurface), Ev("sync", 0)>>
    BY <1>5 DEF Connect, linkVars, daemonVars, dataVars, paintedVars
  <2>2. ViewsKnown' /\ NothingSeen'
    BY <2>1, ViewsStay DEF PressInvariant, NothingSeen
  <2>3. CASE events' = events
    BY <1>1, <2>2, <2>3, CalmKeeps
  <2>4. CASE events' = <<Ev("configure", PanelSurface), Ev("sync", 0)>>
    <3>1. SurfacesKnown'
      BY <1>1 DEF PressInvariant, SurfacesKnown, SubpanelShape, PopupShape, Remaining
    <3>2. pointed' = NoSurface
      BY <2>1 DEF PressInvariant, NothingSeen
    <3> DEFINE e == Ev("configure", PanelSurface)
               g == Ev("sync", 0)
    <3>3. Shaped(e) /\ e.type # "press" /\ Shaped(g) /\ g.type # "press" /\ events' = <<e, g>>
      BY <2>4, EvShaped
    <3> HIDE DEF e, g
    <3>4. IsList(events') /\ Range(events') = {e, g}
      BY <3>3, PairList
    <3>5. \A k \in DOMAIN events' : events'[k] \in {e, g}
      BY <3>4 DEF Range
    <3>6. QueueKnown'
      BY <3>2, <3>3, <3>4, <3>5 DEF QueueKnown, QueueIs
    <3> QED BY <1>1, <2>2, <3>1, <3>6 DEF PressInvariant, ActsOnShown
  <2> QED BY <2>1, <2>3, <2>4
<1> QED BY <1>2, <1>3, <1>4, <1>5

-----------------------------------------------------------------------------
\* A step that keeps the surfaces, and may draw on the current one.
LEMMA SurfacesKeep ==
    ASSUME SurfacesKnown, SubpanelShape', sp'.surface = sp.surface, sp'.sub = sp.sub,
           sp'.open => sp.surface # NoSurface,
           popups' = popups \/ (RenderSubpanel /\ sp.surface # NoSurface)
    PROVE  SurfacesKnown' /\ DOMAIN popups' = DOMAIN popups /\ Remaining' = Remaining
<1>1. CASE popups' = popups
  BY <1>1 DEF SurfacesKnown, PopupShape, Remaining
<1>2. CASE RenderSubpanel /\ sp.surface # NoSurface
  <2>1. sp.surface \in DOMAIN popups /\ sp.surface \in Remaining /\ PopupShape
    BY <1>2 DEF SurfacesKnown, Remaining
  <2>2. /\ PopupShape' /\ DOMAIN popups' = DOMAIN popups
        /\ \A n \in DOMAIN popups : popups'[n].state = popups[n].state
        /\ popups'[sp.surface].drawn \in {popups[sp.surface].drawn, sp.sub}
    BY <1>2, <2>1, RenderKeeps
  <2>3. \A n \in DOMAIN popups : n # sp.surface => popups'[n] = popups[n]
    BY <1>2 DEF RenderSubpanel
  <2>4. Remaining' = Remaining
    BY <2>2 DEF Remaining
  <2>5. \A n \in DOMAIN popups' : popups'[n].drawn # 0 => n \in Remaining'
    BY <2>1, <2>2, <2>3, <2>4 DEF SurfacesKnown
  <2>6. sp'.surface \in Remaining' /\ popups'[sp'.surface].drawn \in {0, sp'.sub}
    BY <1>2, <2>1, <2>2, <2>4 DEF SurfacesKnown
  <2>7. sp'.sub \in {0} \cup DOMAIN Entries
    BY DEF SurfacesKnown
  <2>8. SurfacesKnown'
    BY <2>2, <2>5, <2>6, <2>7 DEF SurfacesKnown
  <2> QED BY <2>2, <2>4, <2>8
<1> QED BY <1>1, <1>2

\* open_subpanel behind its roundtrip, and the events of the subpanel and of the roundtrips.
LEMMA SubpanelPress ==
    ASSUME PressInvariant, UNCHANGED pointed,
           SubpanelOpened \/ HandleSubpanelConfigure \/ HandleSubpanelClosed \/ HandleSync
    PROVE  PressInvariant'
<1>1. UNCHANGED <<focus, pointer, last, view, screen, truth, stream>>
  BY DEF SubpanelOpened, HandleSubpanelConfigure, HandleSubpanelClosed, HandleSync, linkVars,
         daemonVars, dataVars, paintedVars, pointerVars
<1>2. ViewsKnown'
  BY <1>1, ViewsStay DEF PressInvariant
<1>3. /\ \/ sp' = sp
         \/ sp' = [sp EXCEPT !.open = TRUE, !.configured = TRUE, !.active = Last(stack).sub]
            /\ sp.surface # NoSurface
         \/ sp' = [sp EXCEPT !.configured = TRUE]
         \/ sp' = [sp EXCEPT !.open = FALSE, !.active = 0]
      /\ popups' = popups \/ (RenderSubpanel /\ sp.surface # NoSurface)
  BY DEF SubpanelOpened, HandleSubpanelConfigure, HandleSubpanelClosed, HandleSync, PressInvariant,
         SurfacesKnown
<1>4. /\ SubpanelShape' /\ sp'.surface = sp.surface /\ sp'.sub = sp.sub
      /\ sp'.open => sp.surface # NoSurface
  <2>1. sp = [surface |-> sp.surface, open |-> sp.open, configured |-> sp.configured,
              sub |-> sp.sub, active |-> sp.active] /\ sp.open \in BOOLEAN
    BY DEF PressInvariant, SurfacesKnown, SubpanelShape
  <2>2. DOMAIN sp = {"surface", "open", "configured", "sub", "active"}
    BY <2>1
  <2>3. sp.open => sp.surface # NoSurface
    BY DEF PressInvariant, SurfacesKnown
  <2>4. CASE sp' = sp
    BY <2>1, <2>3, <2>4 DEF SubpanelShape
  <2>5. CASE sp' = [sp EXCEPT !.open = TRUE, !.configured = TRUE, !.active = Last(stack).sub]
             /\ sp.surface # NoSurface
    <3>1. PICK active : active = Last(stack).sub
      OBVIOUS
    <3>2. sp' = [surface |-> sp.surface, open |-> TRUE, configured |-> TRUE, sub |-> sp.sub,
                 active |-> active]
      BY <2>2, <2>5, <3>1
    <3> QED BY <2>5, <3>2 DEF SubpanelShape
  <2>6. CASE sp' = [sp EXCEPT !.configured = TRUE]
    <3>1. sp' = [surface |-> sp.surface, open |-> sp.open, configured |-> TRUE, sub |-> sp.sub,
                 active |-> sp.active]
      BY <2>2, <2>6
    <3> QED BY <2>1, <2>3, <3>1 DEF SubpanelShape
  <2>7. CASE sp' = [sp EXCEPT !.open = FALSE, !.active = 0]
    <3>1. sp' = [surface |-> sp.surface, open |-> FALSE, configured |-> sp.configured,
                 sub |-> sp.sub, active |-> 0]
      BY <2>2, <2>7
    <3> QED BY <3>1 DEF SubpanelShape
  <2> QED BY <1>3, <2>4, <2>5, <2>6, <2>7
<1>5. SurfacesKnown' /\ DOMAIN popups' = DOMAIN popups /\ Remaining' = Remaining
  BY <1>3, <1>4, SurfacesKeep DEF PressInvariant
<1>6. NothingSeen'
  <2> SUFFICES ASSUME pc' \in AtStart
               PROVE  screen'.view = NoView /\ ~configured' /\ pointed' = NoSurface /\ popups' = <<>>
    BY DEF NothingSeen, AtStart
  <2>1. pc \in AtStart /\ UNCHANGED configured
    BY DEF SubpanelOpened, HandleSubpanelConfigure, HandleSubpanelClosed, HandleSync, Take, AtStart
  <2>2. screen.view = NoView /\ ~configured /\ pointed = NoSurface /\ popups = <<>>
    BY <2>1 DEF PressInvariant, NothingSeen, AtStart
  <2>3. sp.surface = NoSurface
    BY <2>2, EmptyList DEF PressInvariant, SurfacesKnown, Remaining
  <2> QED BY <1>1, <1>3, <2>1, <2>2, <2>3
<1>7. QueueKnown'
  <2>1. CASE events' = events
    BY <1>1, <1>4, <1>5, <2>1 DEF PressInvariant, QueueKnown
  <2>2. CASE events # <<>> /\ events' = Tail(events)
             /\ Head(events).type \in {"configure", "closed", "sync"}
    <3>1. /\ Head(events).type = "enter" => focus' = Head(events).of
          /\ ~Crosses(Head(events)) => focus' = focus
          /\ Head(events).type \in {"enter", "motion"} => pointer' = Head(events).at
      BY <1>1, <2>2
    <3>2. QueueIs(events', focus', pointer', DOMAIN popups, Remaining, sp.surface, sp.sub, pointed)
      BY <2>2, <3>1, QueueTakes DEF PressInvariant, QueueKnown
    <3> QED BY <1>4, <1>5, <3>2 DEF QueueKnown
  <2>3. \/ events' = events
        \/ /\ events # <<>> /\ events' = Tail(events)
           /\ Head(events).type \in {"configure", "closed", "sync"}
    BY DEF SubpanelOpened, HandleSubpanelConfigure, HandleSubpanelClosed, HandleSync, Take
  <2> QED BY <2>1, <2>2, <2>3
<1> QED BY <1>1, <1>2, <1>5, <1>6, <1>7 DEF PressInvariant, ActsOnShown

-----------------------------------------------------------------------------
(* The compositor's steps *)

\* Lists of up to two elements are added one by one.
LEMMA AppendsAre ==
    ASSUME NEW q, IsList(q), NEW x, NEW y
    PROVE  /\ q \o <<>> = q /\ q \o <<x>> = Append(q, x)
           /\ q \o <<x, y>> = Append(Append(q, x), y)
<1> DEFINE S == Range(q) \cup {x, y}
<1>1. q \in Seq(S) /\ x \in S /\ y \in S
  BY DEF IsList
<1> HIDE DEF S
<1>2. q \o <<>> = q
  BY <1>1
<1>3. q \o <<x>> = Append(q, x)
  BY <1>1
<1>4. q \o <<x, y>> = Append(Append(q, x), y)
  BY <1>1
<1> QED BY <1>2, <1>3, <1>4

\* What a target is depends on the workspaces' names only.
LEMMA TargetByNames == \A e, v : Target(e, v) = Target(e, [workspaces |-> v.workspaces])
<1>1. \A e, v, u : u.workspaces = v.workspaces => Target(e, v) = Target(e, u)
  BY Zenon DEF Target
<1>2. \A v : [workspaces |-> v.workspaces].workspaces = v.workspaces
  OBVIOUS
<1> QED BY <1>1, <1>2

\* A surface is numbered.
LEMMA SurfacesNumbered ==
    ASSUME SurfacesKnown
    PROVE  DOMAIN popups \subseteq Nat \ {0} /\ Remaining \subseteq DOMAIN popups
  BY ListShape DEF SurfacesKnown, PopupShape, Remaining

\* A press, behind the pointer's way to it.
LEMMA QueuePresses ==
    ASSUME NEW q, NEW f, NEW at, NEW there, there \subseteq Nat \ {0},
           NEW left, left \subseteq there,
           NEW surf, NEW sub, NEW on, QueueIs(q, f, at, there, left, surf, sub, on),
           NEW s \in {PanelSurface} \cup left, NEW to, to = (IF on = s THEN "motion" ELSE "enter"),
           NEW way, way = (IF on \in {s, NoSurface} THEN <<>> ELSE <<Ev("leave", on)>>),
           NEW over, Shaped(over), over.type = to, over.of = s, NEW p \in Points, over.at = p,
           NEW press, Shaped(press), press.type = "press", press.of = s,
           s = PanelSurface => MeantOnPanel(press, p), s = surf => MeantOnSubpanel(press, p, sub)
    PROVE  QueueIs(q \o way \o <<over, press>>, f, at, there, left, surf, sub, s)
<1> DEFINE q1 == q \o way
           on1 == IF on = s THEN s ELSE NoSurface
<1>1. s # NoSurface
  BY DEF PanelSurface, NoSurface
<1>2. QueueIs(q1, f, at, there, left, surf, sub, on1)
  <2>1. CASE way = <<>>
    <3>1. q1 = q
      BY <2>1, AppendsAre DEF QueueIs
    <3>2. on1 = on
      <4>1. \A x : <<x>> # <<>>
        OBVIOUS
      <4>2. on \in {s, NoSurface}
        BY <2>1, <4>1
      <4> QED BY <4>2
    <3> QED BY <3>1, <3>2
  <2>2. CASE way # <<>>
    <3> DEFINE leave == Ev("leave", on)
    <3>1. Shaped(leave) /\ leave.type = "leave"
      BY EvShaped
    <3>2. way = <<leave>> /\ on1 = NoSurface
      BY <2>2
    <3> HIDE DEF leave
    <3>3. q1 = Append(q, leave)
      BY <3>2, AppendsAre DEF QueueIs
    <3> HIDE DEF q1, on1
    <3> QED BY <3>1, <3>2, <3>3, QueueAppends
  <2> QED BY <2>1, <2>2
<1> HIDE DEF q1
<1> DEFINE q2 == Append(q1, over)
           q3 == Append(q2, press)
<1>3. QueueIs(q2, f, at, there, left, surf, sub, s)
  <2>1. over.type # "press" /\ ((over.type = "enter" /\ over.of = s) \/ (~Crosses(over) /\ on1 = s))
    BY DEF Crosses
  <2> HIDE DEF on1
  <2> QED BY <1>2, <2>1, QueueAppends
<1>4. /\ IsList(q1) /\ IsList(q2) /\ Len(q2) = Len(q1) + 1 /\ Len(q1) \in Nat
      /\ Len(q2) \in Nat \ {0} /\ q2[Len(q2)] = over
      /\ Len(q3) = Len(q2) + 1 /\ q3[Len(q2) + 1] = press
      /\ \A i \in 1..Len(q2) : q3[i] = q2[i]
  <2>1. IsList(q1)
    BY <1>2 DEF QueueIs
  <2>2. IsList(q2) /\ Len(q2) = Len(q1) + 1 /\ q2[Len(q1) + 1] = over /\ Len(q1) \in Nat
    BY <2>1, AppendShape, ListShape
  <2> HIDE DEF q2
  <2>3. /\ Len(q3) = Len(q2) + 1 /\ q3[Len(q2) + 1] = press
        /\ \A i \in 1..Len(q2) : q3[i] = q2[i]
    BY <2>2, AppendShape
  <2> QED BY <2>1, <2>2, <2>3
<1> HIDE DEF q2
<1>5. PressAt(q3, f, at, there, left, surf, sub, Len(q2) + 1)
  <2> DEFINE k == Len(q2) + 1
  <2>1. k \in Nat /\ k # 1 /\ k - 1 = Len(q2) /\ q3[k] = press
    BY <1>4
  <2>2. PointerOn(q3, f, s, k)
    <3>1. PointerOn(q2, f, s, k)
      BY <1>1, <1>3 DEF QueueIs
    <3>2. \A i \in 1..(k - 1) : q3[i] = q2[i]
      BY <1>4, <2>1
    <3> HIDE DEF k, q3
    <3> QED BY <2>1, <3>1, <3>2, PointerAlike
  <2>3. PointerAt(q3, at, p, k)
    <3>1. q3[k - 1] = over
      BY <1>4, <2>1
    <3> HIDE DEF k, q3
    <3> QED BY <2>1, <3>1 DEF PointerAt
  <2> HIDE DEF k, q3
  <2>4. press.of \in {PanelSurface} \cup there
    OBVIOUS
  <2>5. \E x \in Points : /\ PointerAt(q3, at, x, k)
                          /\ press.of = PanelSurface => MeantOnPanel(press, x)
                          /\ press.of = surf => MeantOnSubpanel(press, x, sub)
    BY <2>3
  <2>6. PressAt(q3, f, at, there, left, surf, sub, k)
    BY <2>1, <2>2, <2>4, <2>5 DEF PressAt
  <2> QED BY <2>6 DEF k
<1>6. QueueIs(q3, f, at, there, left, surf, sub, s)
  <2>1. ~Crosses(press)
    BY DEF Crosses
  <2> QED BY <1>3, <1>5, <2>1, QueueAppends
<1>7. q \o way \o <<over, press>> = q3
  <2>1. IsList(q1)
    BY <1>4
  <2>2. q1 \o <<over, press>> = q3
    BY <2>1, AppendsAre DEF q2
  <2> QED BY <2>2 DEF q1
<1> QED BY <1>6, <1>7

\* The user presses on what is seen.
LEMMA PressesPress == PressInvariant /\ (PressOnPanel \/ PressOnSubpanel) => PressInvariant'
<1> SUFFICES ASSUME PressInvariant, PressOnPanel \/ PressOnSubpanel PROVE PressInvariant'
  OBVIOUS
<1>1. (screen.view # NoView /\ screen.view.workspaces \in Lists) \/ PressOnSubpanel
  BY DEF PressOnPanel, PressInvariant, ViewsKnown, KnownView, KnownState
<1>2. DOMAIN popups \subseteq Nat \ {0} /\ Remaining \subseteq DOMAIN popups
  BY SurfacesNumbered DEF PressInvariant
<1> DEFINE names == screen.view.workspaces
<1>3. PICK s, p, meant :
         /\ s \in {PanelSurface} \cup Remaining /\ p \in Points /\ Presses(s, p, meant)
         /\ s = PanelSurface =>
               /\ p \in PanelPoints /\ names \in Lists
               /\ meant = {Target(PanelSeen[Len(names)][p], [workspaces |-> names])}
         /\ s = sp.surface => p \in SubpanelPoints /\ meant = DrawnOnSubpanel(sp.sub, p)
  <2>1. CASE PressOnPanel
    <3>1. PICK p \in PanelPoints : Presses(PanelSurface, p, DrawnOnPanel(p))
      BY <2>1 DEF PressOnPanel
    <3>2. names \in Lists
      BY <2>1 DEF PressOnPanel, PressInvariant, ViewsKnown, KnownView, KnownState
    <3>3. DrawnOnPanel(p) = {Target(PanelSeen[Len(names)][p], [workspaces |-> names])}
      BY TargetByNames DEF DrawnOnPanel
    <3>4. p \in Points
      BY DEF Points
    <3>5. PanelSurface # sp.surface
      BY <1>2 DEF PressInvariant, SurfacesKnown, PanelSurface, NoSurface
    <3> QED BY <3>1, <3>2, <3>3, <3>4, <3>5
  <2>2. CASE PressOnSubpanel
    <3>1. PICK n \in DOMAIN popups, p \in SubpanelPoints :
             popups[n].drawn # 0 /\ Presses(n, p, DrawnOnSubpanel(popups[n].drawn, p))
      BY <2>2 DEF PressOnSubpanel
    <3>2. n \in Remaining /\ n # PanelSurface /\ n # NoSurface
      BY <1>2, <3>1 DEF PressInvariant, SurfacesKnown, PanelSurface, NoSurface
    <3>3. n = sp.surface => popups[n].drawn = sp.sub
      BY <3>1, <3>2 DEF PressInvariant, SurfacesKnown
    <3>4. p \in Points
      BY DEF Points
    <3> QED BY <3>1, <3>2, <3>3, <3>4
  <2> QED BY <2>1, <2>2
<1>4. UNCHANGED <<pc, view, screen, truth, stream, configured, sp, popups, focus, pointer, last>>
      /\ pc # "over" /\ pointed' = s
  BY <1>3 DEF Presses, Compositor, daemonVars, linkVars, dataVars, pointerVars
<1>5. PICK button \in Buttons :
         LET to == IF pointed = s THEN "motion" ELSE "enter"
             left == IF pointed \in {s, NoSurface} THEN <<>> ELSE <<Ev("leave", pointed)>>
         IN  events' = events \o left \o
                 <<[Ev(to, s) EXCEPT !.at = p],
                   [type |-> "press", of |-> s, at |-> <<0, 0>>, button |-> button,
                    meant |-> meant, names |-> names]>>
  BY <1>3 DEF Presses
<1> DEFINE to == IF pointed = s THEN "motion" ELSE "enter"
           way == IF pointed \in {s, NoSurface} THEN <<>> ELSE <<Ev("leave", pointed)>>
           over == [Ev(to, s) EXCEPT !.at = p]
           press == [type |-> "press", of |-> s, at |-> <<0, 0>>, button |-> button,
                     meant |-> meant, names |-> names]
<1>6. Shaped(over) /\ over.type = to /\ over.of = s /\ over.at = p
  <2>1. PICK e : e = [Ev(to, s) EXCEPT !.at = p]
    OBVIOUS
  <2>2. e = [type |-> to, of |-> s, at |-> p, button |-> "none", meant |-> {}, names |-> <<>>]
    BY <2>1 DEF Ev
  <2>3. Shaped(e) /\ e.type = to /\ e.of = s /\ e.at = p
    BY <2>2 DEF Shaped
  <2> QED BY <2>1, <2>3
<1>7. /\ Shaped(press) /\ press.type = "press" /\ press.of = s
      /\ press.meant = meant /\ press.names = names
  BY DEF Shaped
<1>8. events' = events \o way \o <<over, press>>
  BY <1>5
<1> HIDE DEF over, press
<1>9. /\ s = PanelSurface => MeantOnPanel(press, p)
      /\ s = sp.surface => MeantOnSubpanel(press, p, sp.sub)
  BY <1>3, <1>7 DEF MeantOnPanel, MeantOnSubpanel
<1>10. QueueIs(events', focus, pointer, DOMAIN popups, Remaining, sp.surface, sp.sub, s)
  <2>1. QueueIs(events, focus, pointer, DOMAIN popups, Remaining, sp.surface, sp.sub, pointed)
    BY DEF PressInvariant, QueueKnown
  <2>2. PICK t, w : t = to /\ w = way
    OBVIOUS
  <2>3. t = IF pointed = s THEN "motion" ELSE "enter"
    BY <2>2
  <2>4. w = IF pointed \in {s, NoSurface} THEN <<>> ELSE <<Ev("leave", pointed)>>
    BY <2>2
  <2>5. over.type = t /\ events' = events \o w \o <<over, press>>
    BY <1>6, <1>8, <2>2
  <2> HIDE DEF to, way
  <2>6. s \in {PanelSurface} \cup Remaining /\ p \in Points
    BY <1>3
  <2> QED BY <1>2, <1>6, <1>7, <1>9, <2>1, <2>3, <2>4, <2>5, <2>6, QueuePresses
<1>11. SurfacesKnown' /\ DOMAIN popups' = DOMAIN popups /\ Remaining' = Remaining
  BY <1>4 DEF PressInvariant, SurfacesKnown, SubpanelShape, PopupShape, Remaining
<1>12. QueueKnown'
  BY <1>4, <1>10, <1>11 DEF QueueKnown
<1>13. ViewsKnown'
  BY <1>4, ViewsStay DEF PressInvariant
<1>14. NothingSeen'
  <2>1. pc \notin AtStart
    <3> SUFFICES ASSUME pc \in AtStart PROVE FALSE
      OBVIOUS
    <3>1. screen.view = NoView /\ popups = <<>>
      BY DEF PressInvariant, NothingSeen, AtStart
    <3>2. PressOnSubpanel
      BY <3>1 DEF PressOnPanel
    <3> QED BY <3>1, <3>2, EmptyList DEF PressOnSubpanel
  <2> QED BY <1>4, <2>1 DEF NothingSeen, AtStart
<1> QED BY <1>4, <1>11, <1>12, <1>13, <1>14 DEF PressInvariant, ActsOnShown

\* The compositor's other events.
LEMMA CompositorPress ==
    ASSUME PressInvariant, OwedCounted,
           Presents \/ Rescales \/ Configures \/ ClosesPanel \/ ClosesSubpanel
    PROVE  PressInvariant'
<1>1. /\ UNCHANGED <<pc, view, screen, truth, stream, configured, sp, focus, pointer, last>>
      /\ ClosesSubpanel \/ UNCHANGED <<popups, pointed>>
  BY DEF Presents, Rescales, Configures, ClosesPanel, ClosesSubpanel, Compositor, daemonVars,
         linkVars, dataVars, pointerVars
<1>2. ViewsKnown'
  BY <1>1, ViewsStay DEF PressInvariant
<1>3. CASE Rescales \/ Configures \/ ClosesPanel
  <2>1. UNCHANGED <<popups, pointed>>
    BY <1>3 DEF Rescales, Configures, ClosesPanel
  <2>2. NothingSeen'
    BY <1>1, <2>1 DEF PressInvariant, NothingSeen
  <2>3. \E type, of : /\ type \notin {"enter", "leave", "press"}
                      /\ events' = Append(events, Ev(type, of))
    BY <1>3 DEF Rescales, Configures, ClosesPanel
  <2> QED BY <1>1, <1>2, <2>1, <2>2, <2>3, EventAdds
<1>4. CASE Presents
  <2>1. UNCHANGED <<popups, pointed>> /\ IsFiniteSet(owed) /\ callbacks \in Nat
    BY <1>4 DEF Presents, OwedCounted
  <2>2. NothingSeen'
    BY <1>1, <2>1 DEF PressInvariant, NothingSeen
  <2>3. PICK kept : events' = events
                        \o [i \in 1..Cardinality(owed \ kept) |->
                               Ev("release", SetToSeq(owed \ kept)[i])]
                        \o [i \in 1..callbacks |-> Ev("frame", PanelSurface)]
    BY <1>4 DEF Presents
  <2>4. Cardinality(owed \ kept) \in Nat
    <3>1. owed \ kept \subseteq owed
      OBVIOUS
    <3> QED BY <2>1, <3>1, FS_Subset, FS_CardinalityType
  <2> DEFINE Quiet(e) == Shaped(e) /\ ~Crosses(e) /\ e.type # "press"
             released == [i \in 1..Cardinality(owed \ kept) |->
                             Ev("release", SetToSeq(owed \ kept)[i])]
             shown == [i \in 1..callbacks |-> Ev("frame", PanelSurface)]
  <2>5. \A of : Quiet(Ev("release", of)) /\ Quiet(Ev("frame", of))
    BY EvShaped DEF Crosses
  <2>6. IsList(released) /\ \A e \in Range(released) : Quiet(e)
    <3> DEFINE n == Cardinality(owed \ kept)
               Release(i) == Ev("release", SetToSeq(owed \ kept)[i])
    <3>1. \A i : Quiet(Release(i))
      BY <2>5
    <3>2. released = [i \in 1..n |-> Release(i)] /\ n \in Nat
      BY <2>4
    <3> HIDE DEF released, Release, n, Quiet
    <3> QED BY <3>1, <3>2, MadeList
  <2>7. IsList(shown) /\ \A e \in Range(shown) : Quiet(e)
    <3> DEFINE Frame(i) == Ev("frame", PanelSurface)
    <3>1. \A i : Quiet(Frame(i))
      BY <2>5
    <3>2. shown = [i \in 1..callbacks |-> Frame(i)]
      OBVIOUS
    <3> HIDE DEF shown, Frame, Quiet
    <3> QED BY <2>1, <3>1, <3>2, MadeList
  <2>8. events' = events \o released \o shown
    BY <2>3
  <2> HIDE DEF released, shown
  <2>9. QueueIs(events \o released, focus, pointer, DOMAIN popups, Remaining, sp.surface, sp.sub,
                pointed)
    BY <2>6, QueueGrows DEF PressInvariant, QueueKnown
  <2>10. QueueIs(events', focus, pointer, DOMAIN popups, Remaining, sp.surface, sp.sub, pointed)
    <3> DEFINE base == events \o released
    <3>1. events' = base \o shown
      BY <2>8
    <3>2. QueueIs(base, focus, pointer, DOMAIN popups, Remaining, sp.surface, sp.sub, pointed)
      BY <2>9
    <3> HIDE DEF base
    <3> QED BY <2>7, <3>1, <3>2, QueueGrows
  <2>11. SurfacesKnown' /\ DOMAIN popups' = DOMAIN popups /\ Remaining' = Remaining
    BY <1>1, <2>1 DEF PressInvariant, SurfacesKnown, SubpanelShape, PopupShape, Remaining
  <2>12. QueueKnown'
    BY <1>1, <2>1, <2>10, <2>11 DEF QueueKnown
  <2> QED BY <1>1, <1>2, <2>2, <2>11, <2>12 DEF PressInvariant, ActsOnShown
<1>5. CASE ClosesSubpanel
  <2>1. PICK n \in DOMAIN popups :
           /\ popups[n].state = "live"
           /\ popups' = [popups EXCEPT ![n] = [state |-> "closed", drawn |-> 0]]
           /\ events' = events \o (IF pointed = n THEN <<Ev("leave", n)>> ELSE <<>>)
                        \o <<Ev("closed", n)>>
           /\ pointed' = IF pointed = n THEN NoSurface ELSE pointed
    BY <1>5 DEF ClosesSubpanel
  <2>2. NothingSeen'
    <3>1. pc \notin AtStart
      BY <2>1, EmptyList DEF PressInvariant, NothingSeen, AtStart
    <3> QED BY <1>1, <3>1 DEF NothingSeen, AtStart
  <2>3. n # NoSurface /\ n # PanelSurface
    BY SurfacesNumbered DEF PressInvariant, PanelSurface, NoSurface
  <2>4. /\ SurfacesKnown' /\ DOMAIN popups' = DOMAIN popups /\ Remaining' = Remaining
    <3> DEFINE new == [state |-> "closed", drawn |-> 0]
    <3>1. /\ DOMAIN popups' = DOMAIN popups
          /\ popups' = [m \in DOMAIN popups |-> popups'[m]]
          /\ \A m \in DOMAIN popups : popups'[m] = IF m = n THEN new ELSE popups[m]
      BY <2>1
    <3>2. new.state = "closed" /\ new.drawn = 0 /\ new = [state |-> new.state, drawn |-> new.drawn]
      OBVIOUS
    <3> HIDE DEF new
    <3>3. PopupShape'
      <4>1. IsList(popups')
        BY <3>1, ReplacedList DEF PressInvariant, SurfacesKnown, PopupShape
      <4> QED BY <3>1, <3>2, <4>1 DEF PressInvariant, SurfacesKnown, PopupShape
    <3>4. Remaining' = Remaining
      BY <2>1, <3>1, <3>2 DEF Remaining
    <3>5. \A m \in DOMAIN popups' : popups'[m].drawn # 0 => m \in Remaining'
      BY <3>1, <3>2, <3>4 DEF PressInvariant, SurfacesKnown
    <3>6. sp.surface # NoSurface =>
              sp.surface \in Remaining' /\ popups'[sp.surface].drawn \in {0, sp.sub}
      <4>1. sp.surface # NoSurface => sp.surface \in DOMAIN popups
        BY DEF PressInvariant, SurfacesKnown, Remaining
      <4> QED BY <3>1, <3>2, <3>4, <4>1 DEF PressInvariant, SurfacesKnown
    <3> QED BY <1>1, <3>1, <3>3, <3>4, <3>5, <3>6
            DEF PressInvariant, SurfacesKnown, SubpanelShape
  <2> DEFINE closed == Ev("closed", n)
             leave == Ev("leave", n)
             on == IF pointed = n THEN NoSurface ELSE pointed
             way == IF pointed = n THEN <<leave>> ELSE <<>>
  <2>5. /\ Shaped(closed) /\ closed.type = "closed" /\ Shaped(leave) /\ leave.type = "leave"
        /\ events' = events \o way \o <<closed>>
    BY <2>1, EvShaped
  <2> HIDE DEF closed, leave
  <2>6. QueueIs(events \o way, focus, pointer, DOMAIN popups, Remaining, sp.surface, sp.sub, on)
    <3>1. QueueIs(events, focus, pointer, DOMAIN popups, Remaining, sp.surface, sp.sub, pointed)
      BY DEF PressInvariant, QueueKnown
    <3>2. IsList(events)
      BY <3>1 DEF QueueIs
    <3>3. CASE pointed = n
      <4>1. way = <<leave>> /\ on = NoSurface
        BY <3>3
      <4>2. events \o way = Append(events, leave)
        BY <3>2, <4>1, AppendsAre
      <4> HIDE DEF way, on
      <4> QED BY <2>5, <3>1, <4>1, <4>2, QueueAppends
    <3>4. CASE pointed # n
      <4>1. way = <<>> /\ on = pointed
        BY <3>4
      <4>2. events \o way = events
        BY <3>2, <4>1, AppendsAre
      <4> HIDE DEF way, on
      <4> QED BY <3>1, <4>1, <4>2
    <3> QED BY <3>3, <3>4
  <2>7. QueueIs(events', focus, pointer, DOMAIN popups, Remaining, sp.surface, sp.sub, on)
    <3> DEFINE base == events \o way
    <3>1. QueueIs(base, focus, pointer, DOMAIN popups, Remaining, sp.surface, sp.sub, on)
          /\ events' = base \o <<closed>>
      BY <2>5, <2>6
    <3> HIDE DEF base, on
    <3>2. IsList(base) /\ on \in {NoSurface, PanelSurface} \cup Remaining
      BY <3>1 DEF QueueIs
    <3>3. events' = Append(base, closed)
      BY <3>1, <3>2, AppendsAre
    <3>4. ~Crosses(closed) /\ closed.type # "press"
      BY <2>5 DEF Crosses
    <3> QED BY <2>5, <3>1, <3>2, <3>3, <3>4, QueueAppends
  <2>8. QueueKnown'
    BY <1>1, <2>1, <2>4, <2>7 DEF QueueKnown
  <2> QED BY <1>1, <1>2, <2>2, <2>4, <2>8 DEF PressInvariant, ActsOnShown
<1> QED BY <1>3, <1>4, <1>5

-----------------------------------------------------------------------------
(* What a press does *)

\* On a row, and a bevel's width above where it is drawn, the hit test finds the row.
LEMMA RowsAnswer ==
    ASSUME HitsAreSeen, NEW s \in DOMAIN Entries, NEW p \in SubpanelPoints
    PROVE  EntryTarget(s, HitTestSubpanel(Entries[s], SubpanelWidth, p))
               \in DrawnOnSubpanel(s, p) \cup {NoTarget}
<1> DEFINE row == HitTestSubpanel(Entries[s], SubpanelWidth, p)
           side == Contract.bevel_width + Contract.subpanel_padding
<1>1. CASE row = 0
  BY <1>1 DEF EntryTarget
<1>2. CASE row # 0
  <2>1. Entries[s] \in Nat /\ SubpanelWidth \in Nat /\ side \in Nat
    BY PaneldAssumption, MetricsKnown
  <2>2. p \in (side..(SubpanelWidth - side - 1)) \X Nat
    BY DEF HitsAreSeen
  <2>3. p \in Nat \X Nat /\ side <= p[1] /\ p[1] < SubpanelWidth - side
    BY <2>1, <2>2
  <2>4. DrawnInSubpanel(Entries[s], SubpanelWidth, <<p[1], p[2] + Contract.bevel_width>>) = row
    BY <1>2, <2>1, <2>3, RowsAnswerAsDrawn
  <2> HIDE DEF row
  <2> QED BY <2>4 DEF DrawnOnSubpanel, row
<1> QED BY <1>1, <1>2

\* What is found is what was drawn when the button went down, on a surface that is still the
\* panel's or the subpanel's, with the same names.
LEMMA HitMeant ==
    ASSUME PressInvariant, HitsAreSeen, events # <<>>, Head(events).type = "press",
           Head(events).of \in {PanelSurface, sp.surface},
           Head(events).of # PanelSurface => sp.sub = sp.active,
           Head(events).names = view.workspaces,
           NEW onSubpanel \in OnSubpanel, NEW hit,
           hit = (IF onSubpanel THEN SubpanelTarget
                  ELSE Target(PanelHit[Len(view.workspaces)][pointer], view))
    PROVE  hit \in Head(events).meant \cup {NoTarget}
<1> DEFINE e == Head(events)
           s == e.of
<1>1. PICK p \in Points :
         /\ e.of \in {PanelSurface} \cup DOMAIN popups
         /\ e.of \in {PanelSurface} \cup Remaining => focus = e.of
         /\ pointer = p
         /\ e.of = PanelSurface => MeantOnPanel(e, p)
         /\ e.of = sp.surface => MeantOnSubpanel(e, p, sp.sub)
  <2>1. IsList(events)
    BY DEF PressInvariant, QueueKnown, QueueIs
  <2>2. 1 \in DOMAIN events /\ e = events[1]
    <3> DEFINE S == Range(events)
    <3>1. events \in Seq(S)
      BY <2>1 DEF IsList
    <3> HIDE DEF S
    <3> QED BY <3>1, TailShape
  <2>3. PressAt(events, focus, pointer, DOMAIN popups, Remaining, sp.surface, sp.sub, 1)
    BY <2>2 DEF PressInvariant, QueueKnown, QueueIs
  <2>4. \A x : PointerOn(events, focus, x, 1) => focus = x
    <3>1. 1..(1 - 1) = {}
      OBVIOUS
    <3> QED BY <3>1 DEF PointerOn
  <2>5. \A x : PointerAt(events, pointer, x, 1) => pointer = x
    BY DEF PointerAt
  <2> HIDE DEF e
  <2> QED BY <2>2, <2>3, <2>4, <2>5 DEF PressAt
<1>2. /\ DOMAIN popups \subseteq Nat \ {0} /\ Remaining \subseteq DOMAIN popups
      /\ sp.surface = NoSurface \/ sp.surface \in Remaining
  BY SurfacesNumbered DEF PressInvariant, SurfacesKnown
<1> HIDE DEF e
<1>3. e.of \in {PanelSurface, sp.surface}
  BY DEF e
<1>4. CASE e.of = PanelSurface
  <2>1. focus = PanelSurface /\ pointer = p /\ MeantOnPanel(e, p)
    BY <1>1, <1>4
  <2>2. ~onSubpanel
    <3>1. ~(focus > 0) /\ focus # sp.surface
      BY <1>2, <2>1 DEF PanelSurface, NoSurface
    <3> QED BY <3>1 DEF OnSubpanel
  <2> DEFINE count == Len(view.workspaces)
  <2>3. count \in WorkspaceCounts /\ p \in PanelPoints /\ p \in Points
    <3>1. view.workspaces \in Lists
      BY <2>1 DEF MeantOnPanel, e
    <3> QED BY <2>1, <3>1, PanelSessionAssumption DEF Lists, MeantOnPanel, Points
  <2> HIDE DEF count
  <2>4. PanelHit[count][p] = PanelSeen[count][p]
    BY <2>3 DEF PanelHit, PanelSeen, HitsAreSeen
  <2>5. hit = Target(PanelSeen[count][p], view)
    BY <2>1, <2>2, <2>4 DEF count
  <2>6. e.meant = {Target(PanelSeen[count][p], [workspaces |-> view.workspaces])}
    BY <2>1 DEF MeantOnPanel, count, e
  <2>7. hit \in e.meant
    BY <2>5, <2>6, TargetByNames
  <2> QED BY <2>7 DEF e
<1>5. CASE e.of = sp.surface /\ e.of # PanelSurface
  <2>1. e.of \in Remaining /\ sp.surface \in Remaining
    BY <1>1, <1>2, <1>5 DEF NoSurface
  <2>2. focus = sp.surface /\ pointer = p /\ MeantOnSubpanel(e, p, sp.sub)
    BY <1>1, <1>5, <2>1
  <2>3. onSubpanel /\ hit = SubpanelTarget
    <3>1. popups[focus].state # "gone"
      BY <2>1, <2>2 DEF Remaining
    <3>2. OnSubpanel = {TRUE}
      BY <2>2, <3>1 DEF OnSubpanel
    <3> QED BY <3>2
  <2>4. sp.sub = sp.active
    BY <1>5 DEF e
  <2>5. CASE sp.open /\ sp.active # 0 /\ sp.configured
    <3>1. hit = EntryTarget(sp.sub, HitTestSubpanel(Entries[sp.sub], SubpanelWidth, p))
      BY <2>2, <2>3, <2>4, <2>5 DEF SubpanelTarget
    <3>2. sp.sub \in DOMAIN Entries
      BY <2>4, <2>5 DEF PressInvariant, SurfacesKnown
    <3>3. p \in SubpanelPoints /\ e.meant = DrawnOnSubpanel(sp.sub, p)
      BY <2>2 DEF MeantOnSubpanel
    <3>4. hit \in e.meant \cup {NoTarget}
      BY <3>1, <3>2, <3>3, RowsAnswer
    <3> QED BY <3>4 DEF e
  <2>6. CASE ~(sp.open /\ sp.active # 0 /\ sp.configured)
    BY <2>3, <2>6 DEF SubpanelTarget
  <2> QED BY <2>5, <2>6
<1> QED BY <1>3, <1>4, <1>5

-----------------------------------------------------------------------------
(* What a press leaves *)

\* A list of surfaces of which these remain.
SurfaceList(list, left) ==
    /\ IsList(list)
    /\ \A n \in DOMAIN list : list[n] = [state |-> list[n].state, drawn |-> list[n].drawn]
    /\ left = {n \in DOMAIN list : list[n].state # "gone"}
    /\ \A n \in DOMAIN list : list[n].drawn # 0 => n \in left

\* The surfaces are such a list.
LEMMA ListKnown == SurfacesKnown => SurfaceList(popups, Remaining)
  BY DEF SurfacesKnown, SurfaceList, PopupShape, Remaining

\* close_subpanel destroys the current one.
LEMMA ListWithout ==
    ASSUME NEW n, SurfaceList(popups, Remaining), NEW list, list = Gone(n)
    PROVE  SurfaceList(list, Remaining \ {n}) /\ DOMAIN list = DOMAIN popups
<1> DEFINE none == [state |-> "gone", drawn |-> 0]
<1>1. /\ DOMAIN list = DOMAIN popups
      /\ list = [m \in DOMAIN popups |-> list[m]]
      /\ \A m \in DOMAIN popups : list[m] = IF m = n THEN none ELSE popups[m]
  BY DEF Gone
<1>2. none.state = "gone" /\ none.drawn = 0 /\ none = [state |-> none.state, drawn |-> none.drawn]
  OBVIOUS
<1> HIDE DEF none
<1>3. IsList(list)
  BY <1>1, ReplacedList DEF SurfaceList
<1>4. Remaining \ {n} = {m \in DOMAIN list : list[m].state # "gone"}
  BY <1>1, <1>2 DEF Remaining
<1>5. \A m \in DOMAIN list : list[m] = [state |-> list[m].state, drawn |-> list[m].drawn]
  BY <1>1, <1>2 DEF SurfaceList
<1>6. \A m \in DOMAIN list : list[m].drawn # 0 => m \in Remaining \ {n}
  BY <1>1, <1>2 DEF SurfaceList
<1> QED BY <1>1, <1>3, <1>4, <1>5, <1>6 DEF SurfaceList

\* Surface n is added.
ListGrows(list, left, more, n) ==
    /\ SurfaceList(more, left \cup {n}) /\ DOMAIN more = DOMAIN list \cup {n}
    /\ n \in Nat \ {0} /\ n \notin DOMAIN list /\ left \subseteq DOMAIN list
    /\ more[n].drawn = 0

\* open_subpanel adds one.
LEMMA ListWith ==
    ASSUME NEW list, NEW left, SurfaceList(list, left), NEW more,
           more = Append(list, [state |-> "live", drawn |-> 0]), NEW n, n = Len(list) + 1
    PROVE  ListGrows(list, left, more, n)
<1> DEFINE new == [state |-> "live", drawn |-> 0]
<1>1. DOMAIN list = 1..Len(list) /\ Len(list) \in Nat
  BY ListShape DEF SurfaceList
<1>2. new.state # "gone" /\ new.drawn = 0 /\ new = [state |-> new.state, drawn |-> new.drawn]
  OBVIOUS
<1>3. more = Append(list, new)
  OBVIOUS
<1> HIDE DEF new
<1>4. /\ IsList(more) /\ DOMAIN more = 1..n /\ more[n] = new
      /\ \A i \in 1..Len(list) : more[i] = list[i]
  BY <1>3, AppendShape DEF SurfaceList
<1>5. /\ 1..n = (1..Len(list)) \cup {n} /\ n \in Nat \ {0} /\ n \notin 1..Len(list)
  BY <1>1
<1>6. DOMAIN more = DOMAIN list \cup {n} /\ n \notin DOMAIN list
      /\ \A i \in DOMAIN list : more[i] = list[i]
  BY <1>1, <1>4, <1>5
<1>7. left \subseteq DOMAIN list
  BY DEF SurfaceList
<1>8. left \cup {n} = {m \in DOMAIN more : more[m].state # "gone"}
  BY <1>2, <1>4, <1>6 DEF SurfaceList
<1>9. \A m \in DOMAIN more : more[m] = [state |-> more[m].state, drawn |-> more[m].drawn]
  BY <1>2, <1>4, <1>6 DEF SurfaceList
<1>10. \A m \in DOMAIN more : more[m].drawn # 0 => m \in left \cup {n}
  BY <1>2, <1>4, <1>6 DEF SurfaceList
<1>11. SurfaceList(more, left \cup {n})
  BY <1>4, <1>8, <1>9, <1>10 DEF SurfaceList
<1> QED BY <1>2, <1>4, <1>5, <1>6, <1>7, <1>11 DEF ListGrows

\* The queue and the surfaces when open_subpanel waits for its roundtrip.
LEMMA OpenPress ==
    ASSUME NEW list, NEW left, SurfaceList(list, left), NEW q, NEW surf, NEW sub, NEW on,
           QueueIs(q, focus, pointer, DOMAIN list, left, surf, sub, on),
           NEW s \in DOMAIN Entries, NEW y, sp'.surface = Len(list) + 1, sp'.sub = s, ~sp'.open,
           SubpanelShape', popups' = Append(list, [state |-> "live", drawn |-> 0]),
           events' = q \o <<Ev("configure", Len(list) + 1), Ev("sync", y)>>,
           UNCHANGED <<focus, pointer>>, pointed' = on
    PROVE  SurfacesKnown' /\ QueueKnown'
<1> DEFINE n == Len(list) + 1
           configure == Ev("configure", n)
           sync == Ev("sync", y)
           more == <<configure, sync>>
<1>1. /\ SurfaceList(popups', left \cup {n}) /\ DOMAIN popups' = DOMAIN list \cup {n}
      /\ n \in Nat \ {0} /\ n \notin DOMAIN list /\ left \subseteq DOMAIN list
      /\ popups'[n].drawn = 0
  <2>1. PICK grown, m : grown = popups' /\ m = n
    OBVIOUS
  <2>2. grown = Append(list, [state |-> "live", drawn |-> 0]) /\ m = Len(list) + 1
    BY <2>1
  <2>3. ListGrows(list, left, grown, m)
    BY <2>2, ListWith
  <2> HIDE DEF n
  <2> QED BY <2>1, <2>3 DEF ListGrows
<1>2. /\ Shaped(configure) /\ ~Crosses(configure) /\ configure.type # "press"
      /\ Shaped(sync) /\ ~Crosses(sync) /\ sync.type # "press"
      /\ sp'.surface = n /\ events' = q \o more
  BY EvShaped DEF Crosses
<1> HIDE DEF configure, sync, n
<1>3. IsList(more) /\ Range(more) = {configure, sync}
  BY PairList
<1>9. \A e \in Range(more) : Shaped(e) /\ ~Crosses(e) /\ e.type # "press"
  BY <1>2, <1>3
<1>4. QueueIs(q, focus, pointer, DOMAIN list \cup {n}, left \cup {n}, n, s, on)
  BY <1>1, QueueKnowsMore
<1> HIDE DEF more
<1>5. QueueIs(events', focus, pointer, DOMAIN list \cup {n}, left \cup {n}, n, s, on)
  <2>1. QueueIs(q \o more, focus, pointer, DOMAIN list \cup {n}, left \cup {n}, n, s, on)
    BY <1>3, <1>4, <1>9, QueueGrows
  <2> QED BY <1>2, <2>1
<1>6. Remaining' = left \cup {n}
  BY <1>1 DEF Remaining, SurfaceList
<1>7. QueueKnown'
  BY <1>1, <1>2, <1>5, <1>6 DEF QueueKnown
<1>8. SurfacesKnown'
  <2>1. PopupShape'
    BY <1>1 DEF SurfaceList, PopupShape
  <2>2. \A m \in DOMAIN popups' : popups'[m].drawn # 0 => m \in Remaining'
    BY <1>1, <1>6 DEF SurfaceList
  <2> QED BY <1>1, <1>2, <1>6, <2>1, <2>2 DEF SurfacesKnown
<1> QED BY <1>7, <1>8

\* Lists with the same places have the same length.
LEMMA SameLength ==
    ASSUME NEW m \in Nat, NEW n \in Nat, 1..m = 1..n
    PROVE  m = n
<1>1. CASE m < n
  <2>1. n \in 1..n /\ n \notin 1..m
    BY <1>1
  <2> QED BY <2>1
<1>2. CASE n < m
  <2>1. m \in 1..m /\ m \notin 1..n
    BY <1>2
  <2> QED BY <2>1
<1> QED BY <1>1, <1>2

\* A press that closes the subpanel, opens one, or does neither.
LEMMA PressPress ==
    ASSUME PressInvariant, HitsAreSeen, HandlePress,
           pointed' = (IF pointed > 0 /\ popups'[pointed].state = "gone" THEN NoSurface ELSE pointed)
    PROVE  PressInvariant'
<1> DEFINE queue == Tail(events)
<1>1. /\ UNCHANGED <<view, screen, configured, focus, pointer>>
      /\ events # <<>> /\ Head(events).type = "press" /\ pc' \notin AtStart
  BY DEF HandlePress, Take, dataVars, paintedVars, pointerVars, AtStart
<1> DEFINE does(hit) == Does(hit, Head(events).button)
           Handled(onSubpanel, hit) ==
             /\ hit = (IF onSubpanel THEN SubpanelTarget
                       ELSE Target(PanelHit[Len(view.workspaces)][pointer], view))
             /\ last' = [did |-> IF does(hit) THEN hit ELSE NoTarget,
                         meant |-> Head(events).meant,
                         excused |-> \/ Head(events).of \notin {PanelSurface, sp.surface}
                                     \/ Head(events).of # PanelSurface /\ sp.sub # sp.active
                                     \/ Head(events).names # view.workspaces]
             /\ \/ \E s \in DOMAIN Entries : OpenSubpanel(s, queue)
                \/ sp.open /\ CloseSubpanel(queue)
                \/ events' = queue /\ UNCHANGED <<sp, popups>>
             /\ SwitchTo(hit.name) \/ UNCHANGED <<truth, stream>>
<1>2. PICK onSubpanel \in OnSubpanel : \E hit : Handled(onSubpanel, hit)
  <2>1. \A hit, button :
           hit.kind \in Triggers /\ Does(hit, button) => SubpanelOf(hit) \in DOMAIN Entries
    BY DEF Does, Triggers, SubpanelOf
  <2> QED BY <2>1 DEF HandlePress
<1>3. PICK hit : Handled(onSubpanel, hit)
  BY <1>2
<1> HIDE DEF queue
<1>4. ActsOnShown'
  <2> DEFINE press == Head(events)
             excused == \/ press.of \notin {PanelSurface, sp.surface}
                        \/ press.of # PanelSurface /\ sp.sub # sp.active
                        \/ press.names # view.workspaces
  <2>1. last'.did \in {hit, NoTarget} /\ last'.meant = press.meant /\ last'.excused = excused
    BY <1>3
  <2>2. CASE excused
    BY <2>1, <2>2 DEF ActsOnShown
  <2>3. CASE ~excused
    <3>1. /\ press.of \in {PanelSurface, sp.surface}
          /\ press.of # PanelSurface => sp.sub = sp.active
          /\ press.names = view.workspaces
      BY <2>3
    <3>2. hit \in press.meant \cup {NoTarget}
      <4>1. hit = (IF onSubpanel THEN SubpanelTarget
                   ELSE Target(PanelHit[Len(view.workspaces)][pointer], view))
        BY <1>3
      <4>2. /\ Head(events).of \in {PanelSurface, sp.surface}
            /\ Head(events).of # PanelSurface => sp.sub = sp.active
            /\ Head(events).names = view.workspaces
        BY <3>1
      <4>3. events # <<>> /\ Head(events).type = "press"
        BY <1>1
      <4> HIDE DEF press
      <4>4. hit \in Head(events).meant \cup {NoTarget}
        BY <4>1, <4>2, <4>3, HitMeant
      <4> QED BY <4>4 DEF press
    <3> HIDE DEF press
    <3> QED BY <2>1, <3>2 DEF ActsOnShown
  <2> QED BY <2>2, <2>3
<1>5. ViewsKnown'
  <2>1. CASE UNCHANGED <<truth, stream>>
    BY <1>1, <2>1, ViewsStay DEF PressInvariant
  <2>2. CASE SwitchTo(hit.name)
    <3>1. PICK name : name = hit.name
      OBVIOUS
    <3>2. Becomes([truth EXCEPT !.current = name]) \/ UNCHANGED <<truth, stream>>
      BY <2>2, <3>1 DEF SwitchTo
    <3>3. PICK state : state = [truth EXCEPT !.current = name]
      OBVIOUS
    <3>4. KnownState(state)
      <4>1. truth = [theme |-> truth.theme, workspaces |-> truth.workspaces,
                     current |-> truth.current] /\ truth.workspaces \in Lists
        BY DEF PressInvariant, ViewsKnown, KnownState, Viewed
      <4>2. DOMAIN truth = {"theme", "workspaces", "current"}
        BY <4>1
      <4>3. state = [theme |-> truth.theme, workspaces |-> truth.workspaces, current |-> name]
        BY <3>3, <4>2
      <4> QED BY <4>1, <4>3 DEF KnownState, Viewed
    <3> QED BY <1>1, <2>1, <3>2, <3>3, <3>4, BecomesKnows DEF PressInvariant
  <2> QED BY <1>3, <2>1, <2>2
<1>6. NothingSeen'
  BY <1>1 DEF NothingSeen, AtStart
<1>7. QueueIs(queue, focus, pointer, DOMAIN popups, Remaining, sp.surface, sp.sub, pointed)
  <2>1. ~Crosses(Head(events)) /\ Head(events).type \notin {"enter", "motion"}
    BY <1>1 DEF Crosses
  <2> QED BY <1>1, <2>1, QueueTakes DEF PressInvariant, QueueKnown, queue
<1>8. /\ DOMAIN popups \subseteq Nat \ {0} /\ Remaining \subseteq DOMAIN popups
      /\ SurfaceList(popups, Remaining)
      /\ pointed \in {NoSurface, PanelSurface} \cup Remaining
  BY SurfacesNumbered, ListKnown DEF PressInvariant, QueueKnown, QueueIs
<1>9. pointed > 0 <=> pointed \in Remaining
  BY <1>8 DEF NoSurface, PanelSurface
<1> DEFINE n == sp.surface
           list == Gone(n)
           on == IF pointed = n THEN NoSurface ELSE pointed
<1>10. ASSUME sp.open
      PROVE  /\ SurfaceList(list, Remaining \ {n}) /\ DOMAIN list = DOMAIN popups
             /\ n \in Remaining
             /\ QueueIs(Without(n, queue), focus, pointer, DOMAIN popups, Remaining \ {n},
                        NoSurface, 0, on)
             /\ \A m \in Remaining : list[m].state = "gone" <=> m = n
  <2>1. n \in Remaining
    BY <1>10 DEF PressInvariant, SurfacesKnown
  <2>2. SurfaceList(list, Remaining \ {n}) /\ DOMAIN list = DOMAIN popups
    <3>1. PICK gone : gone = Gone(n)
      OBVIOUS
    <3>2. SurfaceList(gone, Remaining \ {n}) /\ DOMAIN gone = DOMAIN popups
      BY <1>8, <3>1, ListWithout
    <3> QED BY <3>1, <3>2
  <2>3. QueueIs(Without(n, queue), focus, pointer, DOMAIN popups, Remaining \ {n},
                NoSurface, 0, on)
    BY <1>7, <1>8, <2>1, QueueForgets
  <2> HIDE DEF list, n, on
  <2>4. \A m \in Remaining : list[m].state = "gone" <=> m = n
    BY <1>8, <2>2 DEF SurfaceList
  <2> QED BY <2>1, <2>2, <2>3, <2>4
<1>11. SubpanelShape /\ DOMAIN sp = {"surface", "open", "configured", "sub", "active"}
  BY DEF PressInvariant, SurfacesKnown, SubpanelShape
<1>12. ASSUME sp.open, CloseSubpanel(queue)
       PROVE  SurfacesKnown' /\ QueueKnown'
  <2>1. sp' = NoSubpanel /\ popups' = list /\ events' = Without(n, queue)
    BY <1>12 DEF CloseSubpanel
  <2>2. sp'.surface = NoSurface /\ sp'.sub = 0 /\ ~sp'.open /\ SubpanelShape'
    BY <2>1 DEF NoSubpanel, SubpanelShape
  <2> HIDE DEF list, n
  <2>3. SurfaceList(popups', Remaining \ {n}) /\ DOMAIN popups' = DOMAIN popups
    BY <1>10, <1>12, <2>1
  <2>4. Remaining' = Remaining \ {n}
    BY <2>3 DEF Remaining, SurfaceList
  <2>5. pointed' = on
    <3>1. \A m \in Remaining : popups'[m].state = "gone" <=> m = n
      BY <1>10, <1>12, <2>1
    <3>2. n \in Remaining
      BY <1>10, <1>12
    <3> QED BY <1>9, <3>1, <3>2
  <2>6. QueueKnown'
    <3> HIDE DEF on
    <3>1. QueueIs(events', focus, pointer, DOMAIN popups, Remaining \ {n}, NoSurface, 0, on)
      BY <1>10, <1>12, <2>1
    <3> QED BY <1>1, <2>2, <2>3, <2>4, <2>5, <3>1 DEF QueueKnown
  <2>7. SurfacesKnown'
    <3>1. PopupShape' /\ \A m \in DOMAIN popups' : popups'[m].drawn # 0 => m \in Remaining'
      BY <2>3, <2>4 DEF SurfaceList, PopupShape
    <3> QED BY <2>2, <3>1 DEF SurfacesKnown
  <2> QED BY <2>6, <2>7
<1>13. ASSUME NEW s \in DOMAIN Entries, OpenSubpanel(s, queue), ~(sp.open /\ sp.active = s)
       PROVE  SurfacesKnown' /\ QueueKnown'
  <2> DEFINE before == IF sp.open THEN NoSubpanel ELSE sp
  <2>1. PICK rest, old, left, surf, sub, at, y :
           /\ rest = (IF sp.open THEN Without(n, queue) ELSE queue)
           /\ old = (IF sp.open THEN list ELSE popups)
           /\ left = (IF sp.open THEN Remaining \ {n} ELSE Remaining)
           /\ surf = (IF sp.open THEN NoSurface ELSE n) /\ sub = (IF sp.open THEN 0 ELSE sp.sub)
           /\ at = (IF sp.open THEN on ELSE pointed) /\ y = Len(stack')
    OBVIOUS
  <2>2. PICK m : m = Len(popups) + 1
    OBVIOUS
  <2>3. /\ sp' = [before EXCEPT !.surface = m, !.sub = s]
        /\ popups' = Append(old, [state |-> "live", drawn |-> 0])
        /\ events' = rest \o <<Ev("configure", m), Ev("sync", y)>>
    BY <1>13, <2>1, <2>2 DEF OpenSubpanel
  <2>4. sp'.surface = m /\ sp'.sub = s /\ ~sp'.open /\ SubpanelShape'
    <3>1. PICK b : b = before
      OBVIOUS
    <3>2. b.open = FALSE /\ DOMAIN b = {"surface", "open", "configured", "sub", "active"}
      <4>1. CASE sp.open
        BY <3>1, <4>1 DEF NoSubpanel
      <4>2. CASE ~sp.open
        BY <1>11, <3>1, <4>2 DEF SubpanelShape
      <4> QED BY <4>1, <4>2
    <3>3. sp' = [b EXCEPT !.surface = m, !.sub = s]
      BY <2>3, <3>1
    <3>4. sp' = [surface |-> m, open |-> FALSE, configured |-> b.configured, sub |-> s,
                 active |-> b.active]
      BY <3>2, <3>3
    <3> QED BY <3>4 DEF SubpanelShape
  <2>5. /\ SurfaceList(old, left) /\ DOMAIN old = DOMAIN popups
        /\ QueueIs(rest, focus, pointer, DOMAIN old, left, surf, sub, at)
    <3>1. CASE sp.open
      <4> HIDE DEF n, list, on
      <4> QED BY <1>10, <2>1, <3>1
    <3>2. CASE ~sp.open
      BY <1>7, <1>8, <2>1, <3>2
    <3> QED BY <3>1, <3>2
  <2>6. Len(old) = Len(popups) /\ DOMAIN old = 1..Len(old) /\ Len(old) \in Nat
    <3>1. /\ DOMAIN old = 1..Len(old) /\ Len(old) \in Nat
          /\ DOMAIN popups = 1..Len(popups) /\ Len(popups) \in Nat
      BY <1>8, <2>5, ListShape DEF SurfaceList
    <3>2. 1..Len(old) = 1..Len(popups)
      BY <2>5, <3>1
    <3>5. Len(old) = Len(popups)
      BY <3>1, <3>2, SameLength, Zenon
    <3> QED BY <3>1, <3>5, Zenon
  <2>7. pointed' = at
    <3>1. \A k \in DOMAIN popups : popups'[k] = old[k]
      <4>1. IsList(old)
        BY <2>5 DEF SurfaceList
      <4>2. \A k \in 1..Len(old) : Append(old, [state |-> "live", drawn |-> 0])[k] = old[k]
        BY <4>1, AppendShape
      <4> QED BY <2>3, <2>5, <2>6, <4>2
    <3>2. CASE sp.open
      <4>1. n \in Remaining /\ \A k \in Remaining : popups'[k].state = "gone" <=> k = n
        <5> HIDE DEF n, list, on
        <5> QED BY <1>8, <1>10, <2>1, <3>1, <3>2
      <4> QED BY <1>9, <2>1, <3>2, <4>1
    <3>3. CASE ~sp.open
      <4>1. \A k \in Remaining : popups'[k].state # "gone"
        BY <1>8, <2>1, <3>1, <3>3 DEF Remaining
      <4> QED BY <1>9, <2>1, <3>3, <4>1
    <3> QED BY <3>2, <3>3
  <2>8. m = Len(old) + 1
    BY <2>2, <2>6
  <2> HIDE DEF before, n, list, on
  <2> QED BY <1>1, <2>3, <2>4, <2>5, <2>7, <2>8, OpenPress
<1>14. SurfacesKnown' /\ QueueKnown'
  <2>1. CASE \E s \in DOMAIN Entries : OpenSubpanel(s, queue)
    <3>1. PICK s \in DOMAIN Entries : OpenSubpanel(s, queue)
      BY <2>1
    <3>2. CASE sp.open /\ sp.active = s
      <4>1. CloseSubpanel(queue)
        BY <3>1, <3>2 DEF OpenSubpanel
      <4> QED BY <1>12, <3>2, <4>1
    <3>3. CASE ~(sp.open /\ sp.active = s)
      BY <1>13, <3>1, <3>3
    <3> QED BY <3>2, <3>3
  <2>2. CASE sp.open /\ CloseSubpanel(queue)
    BY <1>12, <2>2
  <2>3. CASE events' = queue /\ UNCHANGED <<sp, popups>>
    <3>1. SurfacesKnown' /\ DOMAIN popups' = DOMAIN popups /\ Remaining' = Remaining
      BY <2>3 DEF PressInvariant, SurfacesKnown, SubpanelShape, PopupShape, Remaining
    <3>2. pointed' = pointed
      BY <1>9, <2>3 DEF Remaining
    <3> QED BY <1>1, <1>7, <2>3, <3>1, <3>2 DEF QueueKnown
  <2> QED BY <1>3, <2>1, <2>2, <2>3
<1> QED BY <1>4, <1>5, <1>6, <1>14 DEF PressInvariant

-----------------------------------------------------------------------------
\* At the start nothing is seen, pressed or drawn.
LEMMA PressInitially == Init => PressInvariant
<1> SUFFICES ASSUME Init PROVE PressInvariant
  OBVIOUS
<1>1. /\ events = <<>> /\ popups = <<>> /\ sp = NoSubpanel /\ pointed = NoSurface
      /\ view = NoView /\ screen.view = NoView /\ stream = <<>> /\ configured = FALSE
      /\ truth = CHOOSE state \in States : TRUE
      /\ last = [did |-> NoTarget, meant |-> {NoTarget}, excused |-> FALSE]
  BY DEF Init, PaneldInit
<1>2. KnownState(truth)
  BY <1>1, StatesKnown, PanelSessionAssumption
<1>3. ViewsKnown
  BY <1>1, <1>2, EmptyList DEF ViewsKnown, KnownView
<1>4. NothingSeen
  BY <1>1 DEF NothingSeen
<1>5. SurfacesKnown
  BY <1>1, EmptyList DEF SurfacesKnown, SubpanelShape, PopupShape, NoSubpanel
<1>6. QueueKnown
  BY <1>1, EmptyList DEF QueueKnown, QueueIs
<1>7. ActsOnShown
  <2>1. last.did = NoTarget /\ last.meant = {NoTarget}
    BY <1>1
  <2> QED BY <2>1 DEF ActsOnShown
<1> QED BY <1>3, <1>4, <1>5, <1>6, <1>7 DEF PressInvariant

\* A step of the panel that destroys no surface leaves the pointer where it is.
LEMMA PointedStays ==
    ASSUME PressInvariant, DOMAIN popups' = DOMAIN popups,
           \A n \in DOMAIN popups : popups'[n].state = popups[n].state,
           pointed' = (IF pointed > 0 /\ popups'[pointed].state = "gone" THEN NoSurface ELSE pointed)
    PROVE  UNCHANGED pointed
<1>1. pointed \in {NoSurface, PanelSurface} \cup Remaining
  BY DEF PressInvariant, QueueKnown, QueueIs
<1>2. CASE pointed \in Remaining
  BY <1>2 DEF Remaining
<1>3. CASE pointed \in {NoSurface, PanelSurface}
  BY <1>3 DEF NoSurface, PanelSurface
<1> QED BY <1>1, <1>2, <1>3

\* No step breaks the invariant.
LEMMA PressNext ==
    ASSUME HitsAreSeen, PressInvariant, SubpanelInvariant, [Next]_sessionVars
    PROVE  PressInvariant'
<1>1. OwedCounted
  BY DEF SubpanelInvariant
<1>2. CASE PaneldStep
  <2>1. Paneld
        /\ pointed' = (IF pointed > 0 /\ popups'[pointed].state = "gone" THEN NoSurface ELSE pointed)
    BY <1>2 DEF PaneldStep
  <2>2. CASE HandlePress
    BY <2>1, <2>2, PressPress
  <2>3. CASE SubpanelOpened \/ HandleSubpanelConfigure \/ HandleSubpanelClosed \/ HandleSync
    <3>1. popups' = popups \/ (RenderSubpanel /\ sp.surface # NoSurface)
      BY <2>3 DEF SubpanelOpened, HandleSubpanelConfigure, HandleSubpanelClosed, HandleSync,
                  PressInvariant, SurfacesKnown
    <3>2. /\ DOMAIN popups' = DOMAIN popups
          /\ \A n \in DOMAIN popups : popups'[n].state = popups[n].state
      <4>1. sp.surface # NoSurface => sp.surface \in DOMAIN popups
        BY DEF PressInvariant, SurfacesKnown, Remaining
      <4>2. PopupShape
        BY DEF PressInvariant, SurfacesKnown
      <4> QED BY <3>1, <4>1, <4>2, RenderKeeps
    <3> QED BY <2>1, <2>3, <3>2, PointedStays, SubpanelPress
  <2>4. CASE QueryTopic \/ HandleFrame \/ FirstRender \/ Connect
    <3>1. popups' = popups
      BY <2>4 DEF QueryTopic, HandleFrame, FirstRender, Connect, popupVars
    <3> QED BY <2>1, <2>4, <3>1, PointedStays, DrawingPress
  <2>5. CASE HandleConfigure \/ HandleClosed \/ HandleFrameDone \/ HandleRelease \/ HandleScale
                 \/ SkipEvent \/ HandlePointer
    <3>1. popups' = popups
      BY <2>5 DEF HandleConfigure, HandleClosed, HandleFrameDone, HandleRelease, HandleScale,
                  SkipEvent, HandlePointer, popupVars
    <3> QED BY <2>1, <2>5, <3>1, PointedStays, TakingPress
  <2>6. CASE QueriesEnd \/ Subscribe \/ DrainEnds \/ HandleDisconnect \/ EndDispatch
    <3>1. popups' = popups
      BY <2>6 DEF QueriesEnd, Subscribe, DrainEnds, HandleDisconnect, EndDispatch, popupVars
    <3> QED BY <2>1, <2>6, <3>1, PointedStays, CalmSteps
  <2> QED BY <2>1, <2>2, <2>3, <2>4, <2>5, <2>6 DEF Paneld
<1>3. CASE PaneldFault
  BY <1>3, CalmSteps DEF PaneldFault, PaneldFaults
<1>4. CASE PressOnPanel \/ PressOnSubpanel
  BY <1>4, PressesPress
<1>5. CASE Presents \/ Rescales \/ Configures \/ ClosesPanel \/ ClosesSubpanel
  BY <1>1, <1>5, CompositorPress
<1>6. CASE DaemonChanges \/ DaemonStops \/ DaemonStarts
  <2>1. UNCHANGED pointed
    BY <1>6 DEF DaemonChanges, DaemonStops, DaemonStarts, DaemonStep
  <2> QED BY <1>6, <2>1, CalmSteps
<1>7. CASE UNCHANGED sessionVars
  <2>1. UNCHANGED <<sp, popups, events, focus, pointer, pointed, last, view, screen, truth, stream,
                    pc, configured>>
    BY <1>7 DEF sessionVars, vars, popupVars, pointerVars, dataVars, daemonVars, linkVars,
                paintedVars
  <2>2. ViewsKnown' /\ NothingSeen'
    BY <2>1, ViewsStay DEF PressInvariant, NothingSeen
  <2> QED BY <2>1, <2>2, CalmKeeps
<1> QED BY <1>2, <1>3, <1>4, <1>5, <1>6, <1>7 DEF Next

\* ActsOnShown, for any layout and any points at which the hit test finds what is seen, any
\* subpanels, states of the daemon, budgets and orders of events: what a press does is what
\* was drawn under the pointer when the button went down, or nothing, unless it is excused.
THEOREM PressesActOnShown ==
    ASSUME HitsAreSeen
    PROVE  Spec => []ActsOnShown
<1>1. PressInvariant => ActsOnShown
  BY DEF PressInvariant
<1>2. PressInvariant /\ SubpanelInvariant /\ [Next]_sessionVars => PressInvariant'
  BY PressNext
<1> QED BY <1>1, <1>2, InitKnown, NextKnown, PressInitially, PTL DEF Spec
=============================================================================
