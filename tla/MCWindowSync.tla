---------------------------- MODULE MCWindowSync ----------------------------
(* Two windows, a third that may come, and a table with room for two. *)
EXTENDS WindowSync

MCHandles == {"w1", "w2", "w3"}
MCTitles == {"a", "b"}
MCInitialHandles == <<"w1", "w2">>
MCUsedVerbs == {"close", "restore"}
=============================================================================
