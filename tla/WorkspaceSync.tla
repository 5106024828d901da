--------------------------- MODULE WorkspaceSync ---------------------------
(***************************************************************************)
(* The way of a workspace switch: a command makes the daemon's current     *)
(* workspace and then writes a line to pagerd's FIFO, pagerd asks the      *)
(* compositor, whose events come back through pagerd as the daemon's       *)
(* current workspace.  The user may switch at the compositor, which also   *)
(* creates, renames and removes workspaces.                                *)
(*                                                                         *)
(* The compositor is labwc: what it sends follows ext-workspace-v1.        *)
(***************************************************************************)
EXTENDS Pagerd

CONSTANTS Clients,        \* threads of the daemon that execute switches
          InitialHandles, \* the compositor's workspaces at the start, in order
          InitialName,    \* the name of each
          InitialNames,   \* the daemon's workspaces at its start
          FifoCapacity    \* lines that fit into the pipe

ASSUME WorkspaceSyncAssumption ==
    /\ "none" \notin Handles /\ FifoCapacity \in Nat
    /\ InitialHandles \in Seq(Handles) \ {<<>>} /\ IsInjective(InitialHandles)
    /\ InitialName \in [Range(InitialHandles) -> Names] /\ IsInjective(InitialName)
    /\ InitialNames \in Seq(Names) \ {<<>>}

VARIABLES order, nameOf, active,  \* the compositor's workspaces
          pending                 \* per client: the line its effect has to write

compositorVars == <<order, nameOf, active>>
syncVars == <<vars, compositorVars, pending>>

Ev(type, h) == [type |-> type, handle |-> h, name |-> "", active |-> FALSE]
NameEvent(h, name) == [Ev("name", h) EXCEPT !.name = name]
StateEvent(h, isActive) == [Ev("state", h) EXCEPT !.active = isActive]
Done == <<Ev("done", "none")>>

Announcement(h, name, isActive) ==
    <<Ev("workspace", h), NameEvent(h, name), StateEvent(h, isActive)>>

Init ==
    /\ PagerdInit
    /\ order = InitialHandles /\ active = Head(InitialHandles)
    /\ nameOf = [h \in Handles |-> IF h \in DOMAIN InitialName THEN InitialName[h] ELSE ""]
    /\ events = FlattenSeq([i \in DOMAIN order |->
                    Announcement(order[i], nameOf[order[i]], order[i] = active)])
                \o Done \o <<Ev("sync", "none")>>
    /\ up = TRUE /\ daemon = [workspaces |-> InitialNames, current |-> Head(InitialNames)]
    /\ pending = [c \in Clients |-> ""]

-----------------------------------------------------------------------------
(* The compositor *)

Existing == Range(order)
UsedNames == {nameOf[h] : h \in Existing}

\* What it sends when h becomes the active workspace.
Activation(h) ==
    IF h = active THEN <<>> ELSE <<StateEvent(active, FALSE), StateEvent(h, TRUE)>>

\* What happens after pagerd's end is left out.
CompositorChange ==
    /\ pc # "over" /\ Input
    /\ UNCHANGED <<requests, fifoVars, linkVars, running, sigpipe, tableVars, dirty, pc, resume,
                   excuses, pending>>

UserSwitches ==
    /\ CompositorChange
    /\ \E h \in Existing \ {active} :
          /\ active' = h /\ events' = events \o Activation(h) \o Done
    /\ UNCHANGED <<order, nameOf>>

Creates ==
    /\ CompositorChange
    /\ \E h \in Handles \ Existing, name \in Names \ UsedNames :
          /\ nameOf[h] = ""  \* not used before
          /\ order' = Append(order, h) /\ nameOf' = [nameOf EXCEPT ![h] = name]
          /\ events' = events \o Announcement(h, name, FALSE) \o Done
    /\ UNCHANGED active

Renames ==
    /\ CompositorChange
    /\ \E h \in Existing, name \in Names \ UsedNames :
          /\ nameOf' = [nameOf EXCEPT ![h] = name]
          /\ events' = events \o <<NameEvent(h, name)>> \o Done
    /\ UNCHANGED <<order, active>>

\* The active workspace hands over to the first of the others.
Removes ==
    /\ CompositorChange /\ Len(order) > 1
    /\ \E h \in Existing :
          /\ order' = RemoveFirst(order, h)
          /\ active' = IF h = active THEN Head(order') ELSE active
          /\ events' = events \o (IF h = active THEN Activation(Head(order')) ELSE <<>>)
                              \o <<Ev("removed", h)>> \o Done
    /\ UNCHANGED nameOf

Finishes ==
    /\ CompositorChange /\ pc = "poll"
    /\ events' = events \o <<Ev("finished", "none")>>
    /\ UNCHANGED compositorVars

\* A request of a workspace that is gone is ignored.
CompositorActivates ==
    /\ requests # <<>>
    /\ requests' = Tail(requests)
    /\ LET h == Head(requests)
       IN  IF h \in Existing
           THEN /\ active' = h
                /\ events' = events \o (IF h = active THEN <<>> ELSE Activation(h) \o Done)
                /\ UNCHANGED excuses
           ELSE excuses' = excuses \cup {"unknown"} /\ UNCHANGED <<active, events>>
    /\ UNCHANGED <<fifoVars, tableVars, dirty, linkVars, running, pc, resume, sigpipe, inputs,
                   order, nameOf, pending>>

-----------------------------------------------------------------------------
(* The daemon *)

\* A producer's thread handles the next frame of its stream.
HandleFrame ==
    /\ up
    /\ \E i \in DOMAIN streams :
          /\ streams[i].live /\ streams[i].frames # <<>>
          /\ daemon' = Published(daemon, Head(streams[i].frames))
          /\ streams' = [streams EXCEPT ![i].frames = Tail(@)]
          \* an earlier stream is behind a later one
          /\ excuses' = IF \E j \in 1..(i - 1) : streams[j].frames # <<>>
                        THEN (excuses \ Settled) \cup {"crossed"} ELSE excuses \ Settled
    /\ UNCHANGED <<events, requests, fifoVars, tableVars, dirty, publisher, up, running, pc, resume,
                   sigpipe, inputs, compositorVars, pending>>

\* A workspace-switch command: its commit, under the MVar ...
SwitchCommand(c) ==
    /\ pc # "over" /\ up /\ pending[c] = "" /\ Input
    /\ \E name \in Range(daemon.workspaces) :
          /\ daemon' = [daemon EXCEPT !.current = name]
          /\ pending' = [pending EXCEPT ![c] = name]
    /\ UNCHANGED <<events, requests, fifoVars, tableVars, dirty, publisher, up, streams, running,
                   pc, resume, sigpipe, excuses, compositorVars>>

\* ... and its effect, outside it.  The line is not written without a reader, or when
\* the pipe is full; its client is told.
SwitchEffect(c) ==
    /\ up /\ pending[c] # "" /\ pending' = [pending EXCEPT ![c] = ""]
    /\ IF reading /\ Len(fifo) < FifoCapacity
       THEN fifo' = Append(fifo, pending[c]) /\ UNCHANGED excuses
       ELSE excuses' = excuses \cup {"effect"} /\ UNCHANGED fifo
    /\ UNCHANGED <<events, requests, lines, reading, tableVars, dirty, linkVars, running, pc, resume,
                   sigpipe, inputs, compositorVars>>

\* The daemon ends with its streams and commands; one that starts knows its own names.
DaemonStops ==
    /\ up /\ up' = FALSE /\ Input
    /\ streams' = [i \in DOMAIN streams |-> [frames |-> <<>>, live |-> FALSE]]
    /\ pending' = [c \in Clients |-> ""]
    /\ excuses' = excuses \cup (IF count = 0 THEN {} ELSE {"stopped"})
    /\ UNCHANGED <<events, requests, fifoVars, tableVars, dirty, publisher, daemon, running,
                   pc, resume, sigpipe, compositorVars>>

DaemonStarts ==
    /\ ~up /\ up' = TRUE
    /\ daemon' = [workspaces |-> InitialNames, current |-> Head(InitialNames)]
    /\ UNCHANGED <<events, requests, fifoVars, tableVars, dirty, publisher, streams, running,
                   pc, resume, sigpipe, inputs, excuses, compositorVars, pending>>

Compositor == UserSwitches \/ Creates \/ Renames \/ Removes \/ Finishes
Daemon == HandleFrame \/ \E c \in Clients : SwitchEffect(c)

PagerdStep ==
    /\ Pagerd \/ PagerdFaults
    /\ UNCHANGED <<compositorVars, pending>>

Next == PagerdStep \/ Compositor \/ CompositorActivates \/ Daemon \/ DaemonStops
    \/ DaemonStarts \/ \E c \in Clients : SwitchCommand(c)

Spec == Init /\ [][Next]_syncVars

\* pagerd's loop, the compositor and the daemon's threads are never starved.
FairSpec ==
    /\ Spec /\ WF_syncVars(Pagerd /\ UNCHANGED <<compositorVars, pending>>)
    /\ WF_syncVars(CompositorActivates) /\ WF_syncVars(Daemon)

-----------------------------------------------------------------------------
(* Properties *)

Strings == Names \cup {""}
EventTypes == [type: {"workspace", "name", "state", "removed", "done", "sync", "finished"},
               handle: Handles \cup {"none"}, name: Strings, active: BOOLEAN]
SlotTypes == [handle: Handles \cup {"none"}, name: Strings, active: BOOLEAN]
StreamTypes == [frames: Seq([names: Seq(Names), current: Strings]), live: BOOLEAN]

InterfaceTypeOK ==
    /\ events \in Seq(EventTypes) /\ requests \in Seq(Handles)
    /\ fifo \in Seq(Strings) /\ Len(fifo) <= FifoCapacity /\ lines \in Seq(Strings)
    /\ pending \in [Clients -> Strings]
    /\ streams \in Seq(StreamTypes) /\ publisher \in 0..Len(streams) /\ up \in BOOLEAN
    /\ daemon \in [workspaces: Seq(Names), current: Names]

TableTypeOK ==
    /\ slots \in [1..MaxSlots -> SlotTypes] /\ count \in 0..MaxSlots
    /\ slotOf \in [Handles -> 0..MaxSlots] /\ current \in Strings

ControlTypeOK ==
    /\ {dirty, running, reading} \subseteq BOOLEAN
    /\ pc \in {"roundtrip", "synced", "open", "update", "workspaces", "pager", "poll",
               "carry", "dispatch", "over"}
    /\ resume \in {"none", "roundtrip", "synced", "dispatch", "loop"}

\* Everything keeps its type, and no workspace is twice in the table.
TypeOK ==
    /\ InterfaceTypeOK /\ TableTypeOK /\ ControlTypeOK
    /\ order \in Seq(Handles) /\ nameOf \in [Handles -> Strings] /\ active \in Range(order)
    /\ \A i, j \in 1..count : slots[i].handle = slots[j].handle => i = j

\* When pagerd has handled every event its table is the compositor's list, and its
\* current workspace the active one.  Excepted: a workspace too many for the table
\* ("full"), a rename of the current workspace, after which the old name stays
\* ("renamed"), and an event that came for a workspace behind a removed one: it was
\* handled in another workspace's slot ("slots").
TracksCompositor ==
    (events = <<>> /\ running /\ pc # "over" /\ excuses \cap {"slots", "full", "renamed"} = {})
    => /\ count = Len(order)
       /\ \A i \in 1..count : slots[i] = [handle |-> order[i], name |-> nameOf[order[i]],
                                         active |-> order[i] = active]
       /\ current = nameOf[active]

AtRest ==
    /\ events = <<>> /\ requests = <<>> /\ fifo = <<>> /\ \A c \in Clients : pending[c] = ""
    /\ \A i \in DOMAIN streams : streams[i].frames = <<>>
    /\ pc = "poll" /\ ~dirty

\* doc/README.haskell-runtime-architecture.md:754-757, pagerd "reports workspace events to
\* the daemon": once everything has arrived, the daemon's current workspace is the
\* compositor's, whoever switched and in whichever order the two ways crossed, and the
\* daemon knows every workspace.  Excepted is what excuses names: besides the table's
\* three a frame of the first stream behind one of the second ("crossed"), and, until the
\* next frame arrives, a publication that failed, a daemon that ended, an effect that
\* failed, a line that was cut or named what pagerd does not know.
AgreesAtRest ==
    (AtRest /\ excuses = {}) => /\ daemon.current = nameOf[active]
                               /\ UsedNames \subseteq Range(daemon.workspaces)

\* The way round is no loop: what comes back from the compositor asks it for nothing, and
\* when nobody switches any more everything comes to rest and is published.
Quiesces == <>[](AtRest \/ pc = "over")
=============================================================================
