------------------------------ MODULE EventBus ------------------------------
(***************************************************************************)
(* What the daemon's event stream promises a subscription, and all it      *)
(* promises: an event on a topic it asked for reaches it at most once, and *)
(* only while it is a member.  No order is promised: RuntimeDaemon has     *)
(* none between the events of different threads.                           *)
(***************************************************************************)
EXTENDS Integers, Sequences

CONSTANTS Subs,     \* subscriptions
          Topics    \* topics an event can be about

VARIABLES log,      \* topics of the events issued, by sequence number
          member,   \* the subscriptions the bus serves
          wants,    \* topics of each subscription
          since,    \* first sequence number owed to it
          got       \* events that reached it: sequence number and place in its stream

busVars == <<log, member, wants, since, got>>

Init ==
    /\ log = <<>>
    /\ member = {}
    /\ wants = [s \in Subs |-> {}]
    /\ since = [s \in Subs |-> 0]
    /\ got = [s \in Subs |-> {}]

Issue ==
    /\ log' \in Seq(Topics)
    /\ Len(log') > Len(log)
    /\ \A q \in DOMAIN log : log'[q] = log[q]
    /\ UNCHANGED <<member, wants, since, got>>

Join(s) ==
    /\ since[s] = 0
    /\ since' = [since EXCEPT ![s] = Len(log) + 1]
    /\ member' = member \cup {s}
    /\ \E topics \in SUBSET Topics : wants' = [wants EXCEPT ![s] = topics]
    /\ UNCHANGED <<log, got>>

Leave(s) ==
    /\ s \in member
    /\ member' = member \ {s}
    /\ UNCHANGED <<log, wants, since, got>>

Receive(s) ==
    /\ s \in member
    /\ \E arrival \in got'[s] \ got[s] :
          /\ arrival.seq \in DOMAIN log
          /\ log[arrival.seq] \in wants[s]
          /\ \A earlier \in got[s] : earlier.seq # arrival.seq
          /\ got' = [got EXCEPT ![s] = @ \cup {arrival}]
    /\ UNCHANGED <<log, member, wants, since>>

Next ==
    \/ Issue
    \/ \E s \in Subs : Join(s) \/ Leave(s) \/ Receive(s)

Spec == Init /\ [][Next]_busVars
=============================================================================
