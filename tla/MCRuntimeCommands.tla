------------------------- MODULE MCRuntimeCommands -------------------------
(* Two names that can be renamed into each other, a third one only a bridge
   knows, two palettes of which one is missing, two configurable desks. *)
EXTENDS RuntimeCommands

CONSTANT MaxNames   \* bound: publications after renames add names for ever

BoundedNext == SerialNext /\ Len(runtimeState'.workspaces) <= MaxNames

BoundedSpec == SerialInit /\ [][BoundedNext]_stateVars

MCNames == {"One", "Two", "Web"}
MCPalettes == {"Broica", "Gone"}
MCInstalled == {"Broica"}
MCImages == {"Rose"}
MCWindowFrames == {"w1"}
MCInitialNames == <<"One", "Two">>

\* No style.env, and one of an earlier session with a palette that is gone.
MCInitialStyles ==
    {EmptyStyleFile,
     [EmptyStyleFile EXCEPT !.palette = "Gone", !.fp = "5", !.desk[2] = "Rose"]}

MCRequests ==
    [op: {"workspace-switch"}, name: {"One", "Web"}]
    \cup [op: {"workspace-rename"}, old: {"One", "Web"}, new: {"Two", "Web", ""}]
    \cup [op: {"window"}, verb: {"close"}, id: {0}]
    \cup [op: {"publish-windows"}, frame: {"w1"}]
    \cup [op: {"publish-workspaces"}, frame: [names: {<<>>, <<"Web", "One">>}, current: {"", "Web"}]]
    \cup [op: {"publish-unsupported"}]
    \cup [op: {"color-select"}, palette: {"Broica", "Gone"}, colors: {8}]
    \cup [op: {"backdrop-select"}, desk: {0, 1, 2}, mode: BackdropModes, image: {"Rose"}]
    \cup [op: {"style-set"}, apply: {TRUE},
          updates: [palette: {"", "Broica", "Gone"}] \cup [fp: {"5", "other"}]]
    \cup [op: {"style-apply", "reload", "logout", "failsafe", "power"}]
    \cup [op: {"refresh"}, target: {"rc", "theme"}]

=============================================================================
