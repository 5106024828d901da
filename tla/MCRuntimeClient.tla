-------------------------- MODULE MCRuntimeClient --------------------------
(* A small instance of RuntimeClient: a topic whose events carry all of it and
   one whose events are overlays, both of two keys. *)
EXTENDS RuntimeClient

MCTopicList == <<"panel", "session">>
MCOverlayTopics == {"session"}
MCKeys == {"a", "b"}
MCValues == {"v"}
MCInitialStores == {[panel |-> [k \in MCKeys |-> "v"], session |-> [k \in {"a"} |-> "v"]]}
=============================================================================
