------------------------------ MODULE Toplevel ------------------------------
(***************************************************************************)
(* nscde_toplevel, the window bridge: one thread that keeps a table of the *)
(* compositor's windows from foreign-toplevel events, publishes it as the  *)
(* daemon's windows topic, and carries out window commands, which name a   *)
(* window by its place in the table.  It is built like nscde_pagerd, with  *)
(* differences that matter: the stream is opened once and for all, and the *)
(* command FIFO is opened for reading only.                                *)
(*                                                                         *)
(* Of a window's data the title stands for all that a state frame shows    *)
(* beside its activation (app id, minimized, maximized, fullscreen).       *)
(***************************************************************************)
EXTENDS Integers, Sequences, SequencesExt

CONSTANTS Handles,      \* window objects, each announced at most once
          Titles,       \* window titles, "" excluded
          MaxSlots,     \* MAX_TOPLEVELS
          HasSeat,      \* the registry announced a wl_seat
          LinesPerRead, \* whole lines that fit into one read of the FIFO
          MaxInputs     \* bound on inputs: commands, the compositor's changes, faults

ASSUME ToplevelAssumption ==
    /\ "" \notin Titles /\ MaxSlots \in Nat \ {0} /\ HasSeat \in BOOLEAN
    /\ LinesPerRead \in Nat \ {0} /\ MaxInputs \in Nat

Verbs == {"activate", "close", "minimize", "restore", "maximize"}

VARIABLES
    events,     \* from the compositor, oldest first
    requests,   \* on their way to the compositor
    lines,      \* of the last read of the FIFO, not carried out yet
    fifo,       \* lines in topleveld.fifo
    writer,     \* the writer of the FIFO: "none", "open" or "written"
    reading,    \* the bridge has the FIFO open
    hup,        \* a writer has come and gone since then: what poll calls POLLHUP
    slots, count, slotOf,   \* the table, and the slot a window's listener points to
    focused, focusedTitle,  \* focused_id, focused_title
    dirty,
    publisher,  \* publisher.fd is open
    frames,     \* published and not yet handled by the daemon
    live, up,   \* the daemon reads the stream; it accepts connections
    running, pc, resume,
    sigpipe,    \* SIGPIPE is known to be ignored: a write that met it has returned
    inputs,
    epoch,      \* history: how many windows have left the table
    excuses     \* history: what leaves the table and the compositor apart

fifoVars == <<fifo, writer, reading, hup>>
tableVars == <<slots, count, slotOf, focused, focusedTitle, epoch>>
linkVars == <<publisher, frames, live, up>>
requestVars == <<requests, lines>>
outsideVars == <<requestVars, fifoVars, linkVars, running, sigpipe, inputs>>  \* not the listeners'
vars == <<events, outsideVars, tableVars, dirty, pc, resume, excuses>>

Input == inputs < MaxInputs /\ inputs' = inputs + 1

Slot(h) == [handle |-> h, title |-> "", activated |-> FALSE]

EmptySlot == Slot("none")

\* main up to the second roundtrip.
ToplevelInit ==
    /\ requests = <<>> /\ lines = <<>> /\ fifo = <<>> /\ writer = "none" /\ reading = FALSE /\ hup = FALSE
    /\ slots = [i \in 1..MaxSlots |-> EmptySlot] /\ count = 0
    /\ slotOf = [h \in Handles |-> 0] /\ focused = 0 /\ focusedTitle = "" /\ epoch = 0
    /\ dirty = TRUE /\ publisher = FALSE /\ frames = <<>> /\ live = FALSE
    /\ running = TRUE /\ pc = "roundtrip" /\ resume = "none"
    /\ sigpipe = FALSE /\ inputs = 0 /\ excuses = {}

-----------------------------------------------------------------------------
(* The table *)

\* Variant: ids are taken to count from 1.
SlotOfIdFromOne(id) == IF id \in 1..count THEN id ELSE 0

\* find_toplevel_by_id: ids count from 0; 0 when there is no such slot.
SlotOfId(id) == IF id < count THEN id + 1 ELSE 0

\* Variant: the table takes one window more than it has room for.
AddToplevelUnchecked(h) ==
    /\ slots' = [slots EXCEPT ![count + 1] = Slot(h)]
    /\ count' = count + 1 /\ slotOf' = [slotOf EXCEPT ![h] = count + 1]
    /\ UNCHANGED excuses

AddToplevel(h) ==
    IF count = MaxSlots
    THEN excuses' = excuses \cup {"full"} /\ UNCHANGED <<slots, count, slotOf>>
    ELSE /\ slots' = [slots EXCEPT ![count + 1] = Slot(h)]
         /\ count' = count + 1 /\ slotOf' = [slotOf EXCEPT ![h] = count + 1]
         /\ UNCHANGED excuses

\* Variant: the removal does not ask for a publication.
RemoveToplevelSilently(h) ==
    LET of == {i \in 1..count : slots[i].handle = h}
        gone == CHOOSE i \in of : \A j \in of : i <= j
    IN  IF of = {} THEN UNCHANGED <<slots, count, dirty, epoch, excuses>>
        ELSE /\ slots' = [i \in 1..MaxSlots |->
                             IF i \in gone..(count - 1) THEN slots[i + 1] ELSE slots[i]]
             /\ count' = count - 1 /\ epoch' = epoch + 1 /\ UNCHANGED dirty
             /\ excuses' = IF gone - 1 <= focused THEN excuses \cup {"focus"} ELSE excuses

\* The windows behind the removed one get other ids; focused_id and the listeners keep
\* the ones they had.
RemoveToplevel(h) ==
    LET of == {i \in 1..count : slots[i].handle = h}
        gone == CHOOSE i \in of : \A j \in of : i <= j
    IN  IF of = {} THEN UNCHANGED <<slots, count, dirty, epoch, excuses>>
        ELSE /\ slots' = [i \in 1..MaxSlots |->
                             IF i \in gone..(count - 1) THEN slots[i + 1] ELSE slots[i]]
             /\ count' = count - 1 /\ dirty' = TRUE /\ epoch' = epoch + 1
             /\ excuses' = IF gone - 1 <= focused THEN excuses \cup {"focus"} ELSE excuses

-----------------------------------------------------------------------------
(* Events: the listeners *)

\* In a roundtrip, or when poll has reported the connection; read_events may have taken
\* in a part only of what there is.
Take(type) ==
    /\ pc \in {"roundtrip", "synced", "poll", "dispatch"}
    /\ events # <<>> /\ Head(events).type = type /\ events' = Tail(events)

Dispatching == IF pc = "poll" THEN "dispatch" ELSE pc

\* An event of h is handled in a slot that is not h's, or not in use any more.
Strays(h) == slotOf[h] > count \/ slots[slotOf[h]].handle # h

HandleToplevel ==
    /\ pc' = Dispatching /\ Take("toplevel") /\ AddToplevel(Head(events).handle)
    /\ UNCHANGED <<outsideVars, focused, focusedTitle, epoch, dirty, resume>>

\* Title and app id.  The focused title is the one the window was focused with.
HandleTitle ==
    /\ pc' = Dispatching /\ Take("title")
    /\ LET h == Head(events).handle
           i == slotOf[h]
       IN  IF i = 0 THEN UNCHANGED <<slots, dirty, excuses>>
           ELSE /\ slots' = [slots EXCEPT ![i].title = Head(events).title]
                /\ dirty' = TRUE
                /\ excuses' = excuses \cup (IF Strays(h) THEN {"slots"} ELSE {})
                                      \cup (IF slots[i].activated THEN {"focus"} ELSE {})
    /\ UNCHANGED <<outsideVars, count, slotOf, focused, focusedTitle, epoch, resume>>

\* The focused id is looked for among the slots in use: a listener that points behind
\* them leaves it as it is.
HandleState ==
    /\ pc' = Dispatching /\ Take("state")
    /\ LET h == Head(events).handle
           i == slotOf[h]
           activated == Head(events).activated
       IN  IF i = 0 THEN UNCHANGED <<slots, focused, focusedTitle, dirty, excuses>>
           ELSE /\ slots' = [slots EXCEPT ![i].activated = activated]
                /\ focused' = IF activated /\ i <= count THEN i - 1 ELSE focused
                /\ focusedTitle' = IF activated THEN slots[i].title ELSE focusedTitle
                /\ dirty' = TRUE
                /\ excuses' = (excuses \ (IF activated THEN {"focus"} ELSE {}))
                                 \cup (IF Strays(h) THEN {"slots"} ELSE {})
    /\ UNCHANGED <<outsideVars, count, slotOf, epoch, resume>>

HandleDone ==
    /\ Take("done")
    /\ IF slotOf[Head(events).handle] # 0 /\ dirty
       THEN pc' = "update" /\ resume' = Dispatching
       ELSE pc' = Dispatching /\ UNCHANGED resume
    /\ UNCHANGED <<outsideVars, tableVars, dirty, excuses>>

\* No "done" follows: the end of the dispatch publishes.
HandleClosed ==
    /\ pc' = Dispatching /\ Take("closed")
    /\ LET h == Head(events).handle
       IN  IF slotOf[h] = 0 THEN UNCHANGED <<slots, count, dirty, epoch, excuses>>
           ELSE RemoveToplevel(h)
    /\ UNCHANGED <<outsideVars, slotOf, focused, focusedTitle, resume>>

HandleSync ==
    /\ Take("sync") /\ pc' = "synced"
    /\ UNCHANGED <<outsideVars, tableVars, dirty, resume, excuses>>

\* manager_handle_finished: the loop ends when control is back in it.
HandleFinished ==
    /\ pc' = Dispatching /\ Take("finished") /\ running' = FALSE
    /\ UNCHANGED <<requestVars, fifoVars, linkVars, sigpipe, inputs, tableVars, dirty, resume,
                   excuses>>

-----------------------------------------------------------------------------
(* The loop *)

Loop ==
    IF running THEN pc' = "poll" /\ UNCHANGED reading
    ELSE pc' = "over" /\ reading' = FALSE

EndDispatch ==
    /\ pc = "dispatch"
    /\ IF dirty THEN pc' = "update" /\ resume' = "loop" /\ UNCHANGED reading
       ELSE Loop /\ UNCHANGED resume
    /\ UNCHANGED <<events, requestVars, fifo, writer, hup, tableVars, dirty, linkVars, running,
                   sigpipe, inputs, excuses>>

\* A request for a line is stale when a window has left the table since its list was shown.
Request(verb, handle, line) ==
    [verb |-> verb, handle |-> handle, meant |-> line.meant, stale |-> line.epoch # epoch]

\* Restoring a window also activates it, and activation takes a seat.
Asked(verb, handle, line) ==
    (IF verb = "activate" THEN <<>> ELSE <<Request(verb, handle, line)>>)
    \o (IF verb \in {"activate", "restore"} /\ HasSeat THEN <<Request("activate", handle, line)>>
        ELSE <<>>)

\* A line that is cut behind its verb names window 0 (atoi of nothing).
Cut(line) == [verb |-> line.verb, id |-> 0, meant |-> line.meant, epoch |-> -1]

\* process_fifo_commands: one read of at most 511 bytes.  The rest of a line that is cut is
\* no command.
ReadFifo ==
    /\ pc = "poll" /\ pc' = "carry" /\ reading /\ ~hup /\ fifo # <<>>
    /\ LET n == IF Len(fifo) < LinesPerRead THEN Len(fifo) ELSE LinesPerRead
           whole == SubSeq(fifo, 1, n)
           rest == SubSeq(fifo, n + 1, Len(fifo))
       IN  \/ lines' = whole /\ fifo' = rest
           \/ /\ rest # <<>> /\ fifo' = Tail(rest)
              /\ lines' = Append(whole, Cut(Head(rest)))
    /\ UNCHANGED <<events, requests, writer, reading, hup, tableVars, dirty, linkVars, running,
                   resume, sigpipe, inputs, excuses>>

\* The lines one after another; one that names no window does nothing.
CarryOut ==
    /\ pc = "carry" /\ lines' = Tail(lines)
    /\ pc' = IF lines' = <<>> THEN "poll" ELSE "carry"
    /\ LET line == Head(lines)
           i == SlotOfId(line.id)
       IN  requests' = IF i = 0 THEN requests
                       ELSE requests \o Asked(line.verb, slots[i].handle, line)
    /\ UNCHANGED <<events, fifoVars, tableVars, dirty, linkVars, running, resume, sigpipe, inputs,
                   excuses>>

\* Variant: a FIFO without a writer is waited on.
FifoHangupIgnored ==
    /\ pc = "poll" /\ reading /\ hup
    /\ pc' = "dispatch"
    /\ UNCHANGED <<events, requestVars, fifoVars, tableVars, dirty, linkVars, running, resume,
                   sigpipe, inputs, excuses>>

\* handle_fifo_error: with POLLHUP poll reports an error, and what is still to be read
\* stays unread.
FifoHangup ==
    /\ pc = "poll" /\ reading /\ hup
    /\ running' = FALSE /\ pc' = "dispatch"
    /\ UNCHANGED <<events, requestVars, fifoVars, tableVars, dirty, linkVars, resume, sigpipe,
                   inputs, excuses>>

-----------------------------------------------------------------------------
(* Publication *)

Frame == [windows |-> SubSeq(slots, 1, count), focused |-> focused, title |-> focusedTitle,
          epoch |-> epoch]

\* main, after the second roundtrip: the FIFO, which may fail, ...
OpenFifo ==
    /\ pc = "synced" /\ pc' = "open"
    /\ \/ reading' = TRUE /\ UNCHANGED inputs
       \/ reading' = FALSE /\ Input
    /\ UNCHANGED <<events, requestVars, fifo, writer, hup, tableVars, dirty, linkVars, running,
                   resume, sigpipe, excuses>>

\* ... and the publisher, without which the program ends.
OpenPublisher ==
    /\ pc = "open"
    /\ IF up THEN /\ publisher' = TRUE /\ live' = TRUE /\ pc' = "update" /\ resume' = "loop"
                  /\ UNCHANGED reading
       ELSE pc' = "over" /\ reading' = FALSE /\ UNCHANGED <<publisher, live, resume>>
    /\ UNCHANGED <<events, requestVars, fifo, writer, hup, tableVars, dirty, frames, up, running,
                   sigpipe, inputs, excuses>>

\* update_state: sent on the stream or not at all, and not tried again.  In the roundtrip
\* there is no stream yet.
UpdateState ==
    /\ pc = "update" /\ resume' = "none" /\ dirty' = FALSE
    /\ IF resume = "loop" THEN Loop ELSE pc' = resume /\ UNCHANGED reading
    /\ frames' = IF live THEN Append(frames, Frame) ELSE frames
    /\ sigpipe' = (sigpipe \/ (publisher /\ ~live))
    /\ UNCHANGED <<events, requestVars, fifo, writer, hup, tableVars, publisher, live, up,
                   running, inputs, excuses>>

-----------------------------------------------------------------------------
(* Ends *)

\* SIGPIPE, unless an ignored disposition was inherited.
Killed ==
    /\ pc = "update" /\ publisher /\ ~live /\ ~sigpipe
    /\ pc' = "over" /\ reading' = FALSE
    /\ UNCHANGED <<events, requestVars, fifo, writer, hup, tableVars, dirty, linkVars, running,
                   resume, sigpipe, inputs, excuses>>

\* A signal that interrupts poll; anywhere else it changes nothing.
Signal ==
    /\ Input /\ pc = "poll" /\ pc' = "over" /\ reading' = FALSE
    /\ UNCHANGED <<events, requestVars, fifo, writer, hup, tableVars, dirty, linkVars, running,
                   resume, sigpipe, excuses>>

\* The connection to the compositor fails: in handle_wayland_ready, or in a roundtrip,
\* in prepare_wayland_wait or in poll.
WaylandFails ==
    /\ Input /\ events' = <<>>
    /\ \/ pc = "dispatch" /\ running' = FALSE /\ UNCHANGED <<pc, reading>>
       \/ /\ pc \in {"roundtrip", "synced", "poll"}
          /\ pc' = "over" /\ reading' = FALSE /\ UNCHANGED running
    /\ UNCHANGED <<requestVars, fifo, writer, hup, tableVars, dirty, linkVars, resume, sigpipe,
                   excuses>>

Toplevel == HandleToplevel \/ HandleTitle \/ HandleState \/ HandleDone \/ HandleClosed
    \/ HandleSync \/ HandleFinished \/ EndDispatch \/ ReadFifo \/ CarryOut \/ FifoHangup \/ OpenFifo
    \/ OpenPublisher \/ UpdateState

ToplevelFaults == Killed \/ Signal \/ WaylandFails
=============================================================================
