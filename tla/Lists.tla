------------------------------- MODULE Lists -------------------------------
(***************************************************************************)
(* A list operation of the code that several modules use, as a function by *)
(* recursion on the places of the list.                                    *)
(***************************************************************************)
EXTENDS Integers, Sequences, Functions

\* The elements of q that are not in S, in their order.
Outside(S, q) ==
    LET upTo[i \in 0..Len(q)] ==
            IF i = 0 THEN <<>>
            ELSE IF q[i] \in S THEN upTo[i - 1]
            ELSE Append(upTo[i - 1], q[i])
    IN  upTo[Len(q)]
=============================================================================
