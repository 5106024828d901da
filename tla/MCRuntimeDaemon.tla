--------------------------- MODULE MCRuntimeDaemon ---------------------------
(* Small instances of RuntimeDaemon.  Every instance has one palette, one image
   and one configurable desk; they differ in threads and commands. *)
EXTENDS RuntimeDaemon

MCNames == {"One", "Two", "Web"}
MCPalettes == {"Broica"}
MCImages == {"Rose"}
MCWindowFrames == {"w1", "w2"}
MCInitialNames == <<"One", "Two">>

MCInitialStyles == {EmptyStyleFile}

\* One workspace bridge that reports the other workspace or a new one.
MCProducerRequests ==
    [p \in Producers |->
        [op: {"publish-workspaces"},
         frame: {[names |-> <<"One", "Two">>, current |-> "Two"],
                 [names |-> <<"Web">>, current |-> "Web"]}]]

\* What anyone may ask of the daemon.
AllRequests == ClientRequests \cup CompatLines \cup UNION {ProducerRequests[p] : p \in Producers}

NoProducerRequests == [p \in Producers |-> {}]

Switches == [op: {"workspace-switch"}, name: {"Two"}]
SwitchBack == [op: {"workspace-switch"}, name: {"One", "Two"}]
StyleCommands == [op: {"style-set"}, updates: [fp: {"5"}], apply: {TRUE}]
Renames == [op: {"workspace-rename"}, old: {"One"}, new: {"Web"}]
Closes == [op: {"window"}, verb: {"close"}, id: {0}]
Reloads == [op: {"reload"}]

\* Commands of which one writes the daemon's own FIFO, and lines others write there.
MCFifoRequests == Renames \cup StyleCommands
MCCompatLines == Reloads \cup Switches

MCSubRequests ==
    {[mode |-> "events", bootstrap |-> TRUE, topics |-> <<"workspaces", "session">>],
     [mode |-> "snapshots", bootstrap |-> FALSE, topics |-> <<"workspaces">>]}

\* Two topics that one switch changes.
TwoTopicSubRequests ==
    {[mode |-> "events", bootstrap |-> TRUE, topics |-> <<"workspaces", "backdrops">>],
     [mode |-> "snapshots", bootstrap |-> FALSE, topics |-> <<"workspaces", "style">>]}

SwitchAndStyle == SwitchBack \cup StyleCommands

SwitchStyleAndBackdrop ==
    SwitchAndStyle \cup [op: {"backdrop-select"}, desk: {1}, mode: {"tiled"}, image: {"Rose"}]

WindowFramesOnly == [p \in Producers |-> [op: {"publish-windows"}, frame: {"w1"}]]

EventSubRequests ==
    {[mode |-> "events", bootstrap |-> TRUE, topics |-> <<"workspaces", "style">>]}

StyleSubRequests ==
    {[mode |-> "events", bootstrap |-> boot, topics |-> <<"session", "style">>]
        : boot \in BOOLEAN}

LiveSubRequests ==
    {[mode |-> "events", bootstrap |-> FALSE, topics |-> <<"windows", "style">>]}

NoRequests == {}
==============================================================================
