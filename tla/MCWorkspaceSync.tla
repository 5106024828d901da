-------------------------- MODULE MCWorkspaceSync --------------------------
(* Two workspaces, a third that may come, and a table with room for two; the second
   workspace's name, cut, may spell the third's. *)
EXTENDS WorkspaceSync

MCHandles == {"w1", "w2", "w3"}
MCNames == {"One", "Two", "Tw"}
MCCuts == [name \in MCNames |-> IF name = "Two" THEN {"Tw"} ELSE {}]
MCInitialHandles == <<"w1", "w2">>
MCInitialName == [h \in {"w1", "w2"} |-> IF h = "w1" THEN "One" ELSE "Two"]
MCInitialNames == <<"One", "Two">>
=============================================================================
