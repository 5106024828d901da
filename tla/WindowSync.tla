----------------------------- MODULE WindowSync -----------------------------
(***************************************************************************)
(* The way of a window command: somebody reads the daemon's windows topic, *)
(* picks a window and sends its number; the daemon writes a line to the    *)
(* bridge's FIFO, the bridge asks the compositor, whose events come back   *)
(* through the bridge as the daemon's windows topic.  Windows come, go and *)
(* change meanwhile.                                                       *)
(*                                                                         *)
(* The compositor is labwc: what it sends follows wlr-foreign-toplevel.    *)
(***************************************************************************)
EXTENDS Toplevel

CONSTANTS InitialHandles, InitialTitle,  \* the compositor's windows at the start
          UsedVerbs,                     \* the commands of this instance
          FifoCapacity                   \* lines that fit into the pipe

ASSUME WindowSyncAssumption ==
    /\ "none" \notin Handles /\ InitialHandles \in Seq(Handles) /\ IsInjective(InitialHandles)
    /\ InitialTitle \in Titles /\ UsedVerbs \subseteq Verbs /\ FifoCapacity \in Nat

VARIABLES order, titleOf, active,  \* the compositor: windows, titles, the active one or "none"
          shown,                   \* the daemon's windows topic
          pending                  \* the command whose effect is running, or NoCommand

compositorVars == <<order, titleOf, active>>
syncVars == <<vars, compositorVars, shown, pending>>

NoCommand == [verb |-> "none", id |-> 0, meant |-> "none", epoch |-> 0]

NoWindows == [windows |-> <<>>, focused |-> 0, title |-> "", epoch |-> 0]

Ev(type, h) == [type |-> type, handle |-> h, title |-> "", activated |-> FALSE]
TitleEvent(h, title) == [Ev("title", h) EXCEPT !.title = title]
StateEvent(h, now) == [Ev("state", h) EXCEPT !.activated = (h = now)]
Done(h) == Ev("done", h)

Announcement(h, title, now) ==
    <<Ev("toplevel", h), TitleEvent(h, title), StateEvent(h, now), Done(h)>>

Init ==
    /\ ToplevelInit
    /\ order = InitialHandles
    /\ active = IF InitialHandles = <<>> THEN "none" ELSE Head(InitialHandles)
    /\ titleOf = [h \in Handles |-> IF h \in Range(InitialHandles) THEN InitialTitle ELSE ""]
    /\ events = FlattenSeq([i \in DOMAIN order |-> Announcement(order[i], InitialTitle, active)])
                \o <<Ev("sync", "none")>>
    /\ up = TRUE /\ shown = NoWindows /\ pending = NoCommand

-----------------------------------------------------------------------------
(* The compositor *)

Existing == Range(order)

\* h (or nothing) becomes the active window of those that are left.
Activates(h) ==
    /\ active' = h
    /\ events' = events
         \o (IF active \in Range(order') /\ active # h THEN <<StateEvent(active, h), Done(active)>> ELSE <<>>)
         \o (IF h # "none" /\ active # h THEN <<StateEvent(h, h), Done(h)>> ELSE <<>>)

\* What happens after the bridge's end is left out.
CompositorChange ==
    /\ Input /\ pc # "over"
    /\ UNCHANGED <<requestVars, fifoVars, linkVars, running, sigpipe, tableVars, dirty, pc, resume,
                   excuses, shown, pending>>

UserActivates ==
    /\ CompositorChange /\ UNCHANGED <<order, titleOf>>
    /\ \E h \in Existing \cup {"none"} : h # active /\ Activates(h)

Opens ==
    /\ CompositorChange /\ UNCHANGED active
    /\ \E h \in Handles, title \in Titles :
          /\ titleOf[h] = ""  \* not used before
          /\ order' = Append(order, h) /\ titleOf' = [titleOf EXCEPT ![h] = title]
          /\ events' = events \o Announcement(h, title, active)

Retitles ==
    /\ CompositorChange /\ UNCHANGED <<order, active>>
    /\ \E h \in Existing, title \in Titles :
          /\ title # titleOf[h] /\ titleOf' = [titleOf EXCEPT ![h] = title]
          /\ events' = events \o <<TitleEvent(h, title), Done(h)>>

\* The first of the others becomes active when the active window goes.
Close(h) ==
    /\ order' = RemoveFirst(order, h)
    /\ active' = IF active # h THEN active ELSE IF order' = <<>> THEN "none" ELSE Head(order')
    /\ events' = events \o <<Ev("closed", h)>>
         \o (IF active # h \/ order' = <<>> THEN <<>>
             ELSE <<StateEvent(active', active'), Done(active')>>)

UserCloses == CompositorChange /\ UNCHANGED titleOf /\ \E h \in Existing : Close(h)

Finishes ==
    /\ CompositorChange /\ pc = "poll"
    /\ events' = events \o <<Ev("finished", "none")>>
    /\ UNCHANGED compositorVars

\* A request of a window that is gone is ignored; one that changes nothing but what the
\* title stands for is reported as a state.
HandleRequest ==
    /\ requests # <<>> /\ requests' = Tail(requests)
    /\ LET request == Head(requests)
           h == request.handle
       IN  CASE h \notin Existing -> UNCHANGED <<order, active, events>>
             [] h \in Existing /\ request.verb = "activate" -> UNCHANGED order /\ Activates(h)
             [] h \in Existing /\ request.verb = "close" -> Close(h)
             [] OTHER -> /\ UNCHANGED <<order, active>>
                         /\ events' = events \o <<StateEvent(h, active), Done(h)>>
    /\ UNCHANGED <<lines, fifoVars, linkVars, running, sigpipe, inputs, tableVars, dirty, pc,
                   resume, excuses, titleOf, shown, pending>>

-----------------------------------------------------------------------------
(* The daemon *)

PublishWindows ==
    /\ up /\ frames # <<>>
    /\ shown' = Head(frames) /\ frames' = Tail(frames)
    /\ UNCHANGED <<events, requestVars, fifoVars, tableVars, dirty, publisher, live, up, running,
                   pc, resume, sigpipe, inputs, excuses, compositorVars, pending>>

\* A command about a window that the topic shows.
Command ==
    /\ Input /\ up /\ pc # "over" /\ pending = NoCommand
    /\ \E i \in DOMAIN shown.windows, verb \in UsedVerbs :
          pending' = [verb |-> verb, id |-> i - 1, meant |-> shown.windows[i].handle,
                      epoch |-> shown.epoch]
    /\ UNCHANGED <<events, requestVars, fifoVars, tableVars, dirty, linkVars, running, pc, resume,
                   sigpipe, excuses, compositorVars, shown>>

\* writeCompatCommand opens the FIFO (an error without a reader), writes the line (an
\* error when the reader has gone or the pipe is full) and closes the FIFO.
WriteCommand ==
    /\ pending # NoCommand
    /\ CASE writer = "none" /\ reading ->
              writer' = "open" /\ hup' = FALSE /\ UNCHANGED <<fifo, pending>>
         [] writer = "open" /\ reading /\ Len(fifo) < FifoCapacity ->
              writer' = "written" /\ fifo' = Append(fifo, pending) /\ UNCHANGED <<hup, pending>>
         [] OTHER -> writer' = "none" /\ hup' = reading /\ pending' = NoCommand /\ UNCHANGED fifo
    /\ UNCHANGED <<events, requestVars, reading, tableVars, dirty, linkVars, running, pc, resume,
                   sigpipe, inputs, excuses, compositorVars, shown>>

\* The daemon ends, its command with it; another one knows no windows.
DaemonStops ==
    /\ Input /\ up /\ up' = FALSE /\ live' = FALSE /\ frames' = <<>>
    /\ writer' = "none" /\ hup' = (hup \/ (writer # "none" /\ reading)) /\ pending' = NoCommand
    /\ UNCHANGED <<events, requestVars, fifo, reading, tableVars, dirty, publisher, running, pc,
                   resume, sigpipe, excuses, compositorVars, shown>>

DaemonStarts ==
    /\ ~up /\ up' = TRUE /\ shown' = NoWindows
    /\ UNCHANGED <<events, requestVars, fifoVars, tableVars, dirty, publisher, frames, live,
                   running, pc, resume, sigpipe, inputs, excuses, compositorVars, pending>>

ToplevelStep ==
    /\ Toplevel \/ ToplevelFaults
    /\ UNCHANGED <<compositorVars, shown, pending>>

Next == ToplevelStep \/ UserActivates \/ Opens \/ Retitles \/ UserCloses \/ Finishes
    \/ HandleRequest \/ PublishWindows \/ Command \/ WriteCommand \/ DaemonStops \/ DaemonStarts

Spec == Init /\ [][Next]_syncVars

\* The bridge's loop, the compositor and the daemon's threads are never starved.
FairSpec ==
    /\ Spec /\ WF_syncVars(Toplevel /\ UNCHANGED <<compositorVars, shown, pending>>)
    /\ WF_syncVars(HandleRequest) /\ WF_syncVars(PublishWindows) /\ WF_syncVars(WriteCommand)

-----------------------------------------------------------------------------
(* Properties *)

Strings == Titles \cup {""}
EventTypes == [type: {"toplevel", "title", "state", "done", "closed", "sync", "finished"},
               handle: Handles \cup {"none"}, title: Strings, activated: BOOLEAN]
RequestTypes == [verb: Verbs, handle: Handles, meant: Handles, stale: BOOLEAN]
WindowTypes == [handle: Handles, title: Strings, activated: BOOLEAN]
SlotTypes == [handle: Handles \cup {"none"}, title: Strings, activated: BOOLEAN]
StateFrames == [windows: UNION {[1..n -> WindowTypes] : n \in 0..MaxSlots},
                focused: 0..(MaxSlots - 1), title: Strings, epoch: Nat]
Lines == [verb: Verbs, id: 0..(MaxSlots - 1), meant: Handles, epoch: Nat \cup {-1}]

InterfaceTypeOK ==
    /\ events \in Seq(EventTypes) /\ requests \in Seq(RequestTypes)
    /\ fifo \in Seq(Lines) /\ lines \in Seq(Lines) /\ pending \in Lines \cup {NoCommand}
    /\ frames \in Seq(StateFrames) /\ shown \in StateFrames

TableTypeOK ==
    /\ slots \in [1..MaxSlots -> SlotTypes] /\ count \in 0..MaxSlots
    /\ slotOf \in [Handles -> 0..MaxSlots] /\ epoch \in Nat
    /\ focused \in 0..(MaxSlots - 1) /\ focusedTitle \in Strings

ControlTypeOK ==
    /\ {dirty, running, reading, hup, publisher, live, up, sigpipe} \subseteq BOOLEAN
    /\ pc \in {"roundtrip", "synced", "open", "update", "poll", "carry", "dispatch", "over"}
    /\ resume \in {"none", "loop", "roundtrip", "synced", "dispatch"}
    /\ writer \in {"none", "open", "written"}

\* Everything keeps its type, no window is twice in the table, only an open stream is
\* read, and a hangup is reported of a FIFO without writers only.
TypeOK ==
    /\ InterfaceTypeOK /\ TableTypeOK /\ ControlTypeOK
    /\ \A i, j \in 1..count : slots[i].handle = slots[j].handle => i = j
    /\ live => publisher /\ up
    /\ pc = "carry" <=> lines # <<>>
    /\ hup => writer = "none"

\* A number names a place in a list that moves on: what the bridge asks of the compositor
\* is about the window that was meant, unless a window has left the bridge's table since
\* the list that was picked from, or the line was cut.
ActsOnMeant == \A i \in DOMAIN requests : ~requests[i].stale => requests[i].handle = requests[i].meant

AtRest ==
    events = <<>> /\ requests = <<>> /\ frames = <<>> /\ pc = "poll" /\ ~dirty

\* doc/README.haskell-runtime-architecture.md:758-760, the bridge "reports normalized window
\* events to the daemon": while the stream lives the topic shows, once everything has
\* arrived, the compositor's windows and the active one as the focused.  Excepted: a
\* window too many ("full"), an event handled in another window's slot ("slots"), and a
\* focus that a removal or a new title has overtaken ("focus").
ShownAtRest ==
    (AtRest /\ live /\ excuses \cap {"full", "slots"} = {})
    => /\ shown.windows = [i \in DOMAIN order |->
                              [handle |-> order[i], title |-> titleOf[order[i]],
                               activated |-> order[i] = active]]
       /\ (active # "none" /\ "focus" \notin excuses) =>
              /\ order[shown.focused + 1] = active
              /\ shown.title = titleOf[active]

\* The bridge does not outlive the first writer of its FIFO.  (pagerd keeps a writer open
\* itself for this reason: src/nscde_pagerd/nscde_pagerd.c:641-645.)
EndsAfterWriter == hup ~> (pc = "over" \/ writer # "none")
=============================================================================
