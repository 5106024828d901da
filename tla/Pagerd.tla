------------------------------- MODULE Pagerd -------------------------------
(***************************************************************************)
(* nscde_pagerd, the workspace bridge: one thread that keeps a table of    *)
(* the compositor's workspaces from ext-workspace events, publishes it to  *)
(* the runtime daemon on a producer stream, and turns the switch lines of  *)
(* its command FIFO into activation requests.  The queues of events, of    *)
(* requests, of lines and of frames are its interfaces; WorkspaceSync adds *)
(* the compositor and the daemon.                                          *)
(*                                                                         *)
(* Names are whole (shorter than MAX_NAME_LEN) and without line feeds.     *)
(***************************************************************************)
EXTENDS Integers, Sequences, SequencesExt, Lists

CONSTANTS Handles,      \* workspace objects, each announced at most once
          Names,        \* workspace names, "" excluded
          MaxSlots,     \* MAX_WORKSPACES
          Cuts,         \* [Names -> SUBSET Names]: what a cut line's name may still spell
          LinesPerRead, \* whole lines that fit into one read of the FIFO
          MaxInputs     \* bound on inputs: commands, the compositor's changes, faults

ASSUME PagerdAssumption ==
    /\ "" \notin Names /\ MaxSlots \in Nat \ {0}
    /\ Cuts \in [Names -> SUBSET Names]
    /\ LinesPerRead \in Nat \ {0} /\ MaxInputs \in Nat

Runtime == INSTANCE RuntimeState
    WITH Palettes <- {}, Installed <- {}, FallbackPalette <- "", Images <- {},
         MaxDesk <- 1, WindowFrames <- {}

VARIABLES
    events,     \* from the compositor, oldest first
    requests,   \* activations on their way to the compositor
    fifo,       \* lines in pagerd.fifo: the names to switch to; "" for the rest of one
    lines,      \* of the last read of the FIFO, not carried out yet
    reading,    \* the FIFO has a reader
    slots, count,  \* the table: workspaces[] and workspace_count
    slotOf,     \* the slot a workspace's listener points to; 0 without a listener
    current,    \* current_workspace
    dirty,
    publisher,  \* the stream publisher.fd stands for; 0 is -1
    streams,    \* producer streams: frames written, and whether the daemon still reads
    up, daemon, \* the daemon: accepts connections; its workspaces and current one
    running,
    pc, resume, \* where the program is, and where update_state returns to
    sigpipe,    \* SIGPIPE is known to be ignored: a write that met it has returned
    inputs,
    excuses     \* history: what happened that leaves the two sides apart

tableVars == <<slots, count, slotOf, current>>
fifoVars == <<fifo, lines, reading>>
linkVars == <<publisher, up, daemon, streams>>
outsideVars == <<requests, fifoVars, linkVars, running, sigpipe, inputs>>  \* not the listeners'
vars == <<events, outsideVars, tableVars, dirty, pc, resume, excuses>>

Input == inputs < MaxInputs /\ inputs' = inputs + 1

EmptySlot == [handle |-> "none", name |-> "", active |-> FALSE]

\* main up to the second roundtrip, in which the compositor announces itself.
PagerdInit ==
    /\ requests = <<>> /\ fifo = <<>> /\ lines = <<>> /\ reading = FALSE
    /\ slots = [i \in 1..MaxSlots |-> EmptySlot] /\ count = 0
    /\ slotOf = [h \in Handles |-> 0] /\ current = ""
    /\ dirty = TRUE /\ publisher = 0 /\ streams = <<>>
    /\ pc = "roundtrip" /\ resume = "none" /\ running = TRUE
    /\ sigpipe = FALSE
    /\ inputs = 0 /\ excuses = {}

-----------------------------------------------------------------------------
(* The table *)

\* find_workspace_by_name: the first slot of that name, 0 when there is none.
SlotNamed(name) ==
    SelectInSeq(SubSeq(slots, 1, count), LAMBDA slot : slot.name = name)

\* Variant: the table takes one workspace more than it has room for.
AddWorkspaceUnchecked(h) ==
    /\ slots' = [slots EXCEPT ![count + 1] = [EmptySlot EXCEPT !.handle = h]]
    /\ count' = count + 1
    /\ slotOf' = [slotOf EXCEPT ![h] = count + 1]
    /\ UNCHANGED excuses

\* A workspace that finds no slot gets no listener: its events go nowhere.
AddWorkspace(h) ==
    IF count = MaxSlots
    THEN excuses' = excuses \cup {"full"} /\ UNCHANGED <<slots, count, slotOf>>
    ELSE /\ slots' = [slots EXCEPT ![count + 1] = [EmptySlot EXCEPT !.handle = h]]
         /\ count' = count + 1
         /\ slotOf' = [slotOf EXCEPT ![h] = count + 1]
         /\ UNCHANGED excuses

\* Variant: the slots behind the removed one stay where they are.
RemoveWorkspaceUnshifted(h) ==
    LET of == {i \in 1..count : slots[i].handle = h}
    IN  IF of = {} THEN UNCHANGED <<slots, count, dirty>>
        ELSE slots' = slots /\ count' = count - 1 /\ dirty' = TRUE

\* The slots behind the removed one move up; the listeners of their workspaces still
\* point to where they were.
RemoveWorkspace(h) ==
    LET of == {i \in 1..count : slots[i].handle = h}
        gone == CHOOSE i \in of : \A j \in of : i <= j
    IN  IF of = {} THEN UNCHANGED <<slots, count, dirty>>
        ELSE /\ slots' = [i \in 1..MaxSlots |->
                             IF i \in gone..(count - 1) THEN slots[i + 1] ELSE slots[i]]
             /\ count' = count - 1 /\ dirty' = TRUE

-----------------------------------------------------------------------------
(* Events: the listeners.  wl_display_dispatch calls them one after another. *)

\* In a roundtrip, or when poll has reported the connection; read_events may have taken
\* in part of a batch only.
Take(type) ==
    /\ pc \in {"roundtrip", "synced", "poll", "dispatch"}
    /\ events # <<>> /\ Head(events).type = type /\ events' = Tail(events)

Dispatching == IF pc = "poll" THEN "dispatch" ELSE pc

\* An event of h is handled in a slot that is not h's, or not in use any more.
Strays(h) == slotOf[h] > count \/ slots[slotOf[h]].handle # h

HandleWorkspace ==
    /\ pc' = Dispatching /\ Take("workspace") /\ AddWorkspace(Head(events).handle)
    /\ UNCHANGED <<outsideVars, current, dirty, resume>>

\* The current workspace keeps the name it had when it became active.
HandleName ==
    /\ pc' = Dispatching /\ Take("name")
    /\ LET h == Head(events).handle
           i == slotOf[h]
       IN  IF i = 0 THEN UNCHANGED <<slots, dirty, excuses>>
           ELSE /\ slots' = [slots EXCEPT ![i].name = Head(events).name]
                /\ dirty' = TRUE
                /\ excuses' = excuses \cup (IF Strays(h) THEN {"slots"} ELSE {})
                                      \cup (IF slots[i].active THEN {"renamed"} ELSE {})
    /\ UNCHANGED <<outsideVars, count, slotOf, current, resume>>

HandleState ==
    /\ pc' = Dispatching /\ Take("state")
    /\ LET h == Head(events).handle
           i == slotOf[h]
           active == Head(events).active
       IN  IF i = 0 THEN UNCHANGED <<slots, current, dirty, excuses>>
           ELSE /\ slots' = [slots EXCEPT ![i].active = active]
                /\ current' = IF active /\ slots[i].name # "" THEN slots[i].name ELSE current
                /\ dirty' = TRUE
                /\ excuses' = (excuses \ (IF active THEN {"renamed"} ELSE {}))
                                 \cup (IF Strays(h) THEN {"slots"} ELSE {})
    /\ UNCHANGED <<outsideVars, count, slotOf, resume>>

HandleRemoved ==
    /\ pc' = Dispatching /\ Take("removed")
    /\ LET h == Head(events).handle
       IN  IF slotOf[h] = 0 THEN UNCHANGED <<slots, count, dirty>> ELSE RemoveWorkspace(h)
    /\ UNCHANGED <<outsideVars, slotOf, current, resume, excuses>>

HandleDone ==
    /\ Take("done")
    /\ IF dirty THEN pc' = "update" /\ resume' = Dispatching
       ELSE pc' = Dispatching /\ UNCHANGED resume
    /\ UNCHANGED <<outsideVars, tableVars, dirty, excuses>>

\* The callback of the second roundtrip; what came in one piece with it follows.
HandleSync ==
    /\ Take("sync") /\ pc' = "synced"
    /\ UNCHANGED <<outsideVars, tableVars, dirty, resume, excuses>>

\* manager_handle_finished: the loop ends when control is back in it.
HandleFinished ==
    /\ pc' = Dispatching /\ Take("finished") /\ running' = FALSE
    /\ UNCHANGED <<requests, fifoVars, tableVars, dirty, linkVars, resume, sigpipe, inputs, excuses>>

-----------------------------------------------------------------------------
(* The loop: one watcher for the compositor, one for the FIFO *)

\* The head of the loop; on the way out main closes the FIFO and the publisher.
Loop ==
    IF running THEN pc' = "poll" /\ UNCHANGED reading
    ELSE pc' = "over" /\ reading' = FALSE

\* The end of handle_wayland_ready and of the iteration.
EndDispatch ==
    /\ pc = "dispatch"
    /\ IF dirty THEN pc' = "update" /\ resume' = "loop" /\ UNCHANGED reading
       ELSE Loop /\ UNCHANGED resume
    /\ UNCHANGED <<events, requests, fifo, lines, tableVars, dirty, linkVars, running, sigpipe, inputs, excuses>>

\* process_fifo_commands: one read of at most 511 bytes.  When more is there, the last
\* line may be cut: its head is taken for a command, its rest is no command.
ReadFifo ==
    /\ pc = "poll" /\ pc' = "carry" /\ reading /\ fifo # <<>>
    /\ LET n == IF Len(fifo) < LinesPerRead THEN Len(fifo) ELSE LinesPerRead
           whole == SubSeq(fifo, 1, n)
           rest == SubSeq(fifo, n + 1, Len(fifo))
       IN  \/ lines' = whole /\ fifo' = rest /\ UNCHANGED excuses
           \/ /\ rest # <<>> /\ Head(rest) # ""
              /\ \E piece \in Cuts[Head(rest)] \cup {""} : lines' = Append(whole, piece)
              /\ fifo' = <<"">> \o Tail(rest) /\ excuses' = excuses \cup {"cut"}
    /\ UNCHANGED <<events, requests, reading, tableVars, dirty, linkVars, running, resume,
                   sigpipe, inputs>>

\* handle_switch_workspace, for the lines one after another: an activation and a commit
\* for a name the table knows.  "" is no command, or one that is cut before its name.
CarryOut ==
    /\ pc = "carry" /\ lines' = Tail(lines)
    /\ pc' = IF lines' = <<>> THEN "poll" ELSE "carry"
    /\ LET name == Head(lines)
           i == SlotNamed(name)
       IN  \/ name = "" /\ UNCHANGED <<requests, excuses>>
           \/ i # 0 /\ requests' = Append(requests, slots[i].handle) /\ UNCHANGED excuses
           \/ /\ i = 0 /\ name # "" /\ excuses' = excuses \cup {"unknown"}
              /\ UNCHANGED requests
    /\ UNCHANGED <<events, fifo, reading, tableVars, dirty, linkVars, running, resume, sigpipe,
                   inputs>>

-----------------------------------------------------------------------------
(* Publication *)

\* write_workspaces_state and write_pager_state, as the daemon reads them: it drops
\* the names that are still empty.
Frame ==
    [names |-> Outside({""}, [i \in 1..count |-> slots[i].name]), current |-> current]

\* Variant: the daemon's own current workspace wins while it exists.
PublishedNamesOnly(state, frame) ==
    LET names == Runtime!CanonicalNames(state.workspaces, frame.names)
    IN  [workspaces |-> names,
         current |-> Runtime!ResolveCurrent(state.current, names, frame.current)]

\* The daemon's handler of such a frame, whatever connection it came on.
Published(state, frame) ==
    LET names == Runtime!CanonicalNames(state.workspaces, frame.names)
    IN  [workspaces |-> names,
         current |-> Runtime!ResolveCurrent(frame.current, names, state.current)]

\* What is over when the daemon has taken in a frame.
Settled == {"publish", "stopped", "effect", "unknown", "cut"}

\* nscde_runtime_publisher_open waits for the daemon's ACK; it replaces the stream.
OpenPublisher ==
    IF up THEN /\ streams' = Append(streams, [frames |-> <<>>, live |-> TRUE])
               /\ publisher' = Len(streams')
    ELSE UNCHANGED <<streams, publisher>>

\* main, after the second roundtrip: the command FIFO, which may fail, ...
OpenFifo ==
    /\ pc = "synced" /\ pc' = "open"
    /\ \/ reading' = TRUE /\ UNCHANGED inputs
       \/ reading' = FALSE /\ Input
    /\ UNCHANGED <<events, requests, fifo, lines, tableVars, dirty, linkVars, running, resume, sigpipe, excuses>>

\* ... a publisher, whether or not the roundtrip has opened one, and the initial state.
OpenAtStartup ==
    /\ pc = "open" /\ OpenPublisher /\ pc' = "update" /\ resume' = "loop"
    /\ UNCHANGED <<events, requests, fifoVars, tableVars, dirty, up, daemon, running, sigpipe, inputs, excuses>>

\* update_state: a publisher unless there is one, then the two topics.
UpdateState ==
    /\ pc = "update" /\ pc' = "workspaces"
    /\ IF publisher = 0 THEN OpenPublisher ELSE UNCHANGED <<streams, publisher>>
    /\ UNCHANGED <<events, requests, fifoVars, tableVars, dirty, up, daemon, running, resume, sigpipe, inputs, excuses>>

\* publish_runtime_topic: on the stream; without one by a command of its own, which the
\* daemon executes before it answers.  The descriptor of a stream without a reader stays.
PublishTopic ==
    /\ CASE publisher # 0 /\ streams[publisher].live ->
              /\ streams' = [streams EXCEPT ![publisher].frames = Append(@, Frame)]
              /\ UNCHANGED <<daemon, excuses>>
         [] publisher = 0 /\ up ->
              daemon' = Published(daemon, Frame) /\ excuses' = excuses \ Settled /\ UNCHANGED streams
         [] OTHER -> excuses' = excuses \cup {"publish"} /\ UNCHANGED <<streams, daemon>>
    /\ UNCHANGED <<events, requests, fifo, lines, tableVars, publisher, up, running, inputs>>

\* The stream is written to and has no reader.
Broken == publisher # 0 /\ ~streams[publisher].live

PublishWorkspaces ==
    /\ pc = "workspaces" /\ PublishTopic
    /\ pc' = "pager" /\ sigpipe' = (sigpipe \/ Broken)
    /\ UNCHANGED <<dirty, reading, resume>>

\* Variant: a state that was published stays marked as new.
PublishPagerStaysDirty ==
    /\ pc = "pager" /\ PublishTopic
    /\ IF resume = "loop" THEN Loop ELSE pc' = resume /\ UNCHANGED reading
    /\ resume' = "none" /\ sigpipe' = (sigpipe \/ Broken)
    /\ UNCHANGED dirty

\* The end of update_state: what failed is not tried again.
PublishPager ==
    /\ pc = "pager" /\ PublishTopic
    /\ IF resume = "loop" THEN Loop ELSE pc' = resume /\ UNCHANGED reading
    /\ resume' = "none" /\ dirty' = FALSE /\ sigpipe' = (sigpipe \/ Broken)

\* Nobody sets a disposition for SIGPIPE: unless an ignored one was inherited, a write
\* to a broken stream is the end of the program.
Killed ==
    /\ pc \in {"workspaces", "pager"} /\ Broken /\ ~sigpipe
    /\ pc' = "over" /\ reading' = FALSE
    /\ UNCHANGED <<events, requests, fifo, lines, tableVars, dirty, linkVars, running, resume,
                   sigpipe, inputs, excuses>>

-----------------------------------------------------------------------------
(* Ends *)

\* A signal that interrupts poll ends the program.  Anywhere else its handler takes a
\* note nobody looks at before another one interrupts poll: it changes nothing here.
Signal ==
    /\ Input
    /\ pc = "poll" /\ pc' = "over" /\ reading' = FALSE
    /\ UNCHANGED <<events, requests, fifo, lines, tableVars, dirty, linkVars, running, resume, sigpipe, excuses>>

\* The connection to the compositor fails: in handle_wayland_ready, or in a roundtrip,
\* in prepare_wayland_wait or in poll.
WaylandFails ==
    /\ Input
    /\ \/ pc = "dispatch" /\ running' = FALSE /\ UNCHANGED <<pc, reading>>
       \/ /\ pc \in {"roundtrip", "synced", "poll"}
          /\ pc' = "over" /\ reading' = FALSE /\ UNCHANGED running
    /\ events' = <<>>
    /\ UNCHANGED <<requests, fifo, lines, tableVars, dirty, linkVars, resume, sigpipe, excuses>>

Listeners == HandleWorkspace \/ HandleName \/ HandleState \/ HandleRemoved \/ HandleDone
    \/ HandleSync \/ HandleFinished

Pagerd == Listeners \/ EndDispatch \/ ReadFifo \/ CarryOut \/ OpenFifo \/ OpenAtStartup
    \/ UpdateState \/ PublishWorkspaces \/ PublishPager

PagerdFaults == Killed \/ Signal \/ WaylandFails
=============================================================================
