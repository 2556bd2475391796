----------------------------- MODULE MCUdpJoin ------------------------------
(***************************************************************************)
(* Small systems for the model checker: who has which slabs.               *)
(***************************************************************************)
EXTENDS UdpJoin

\* "A" creates the system, and its slab has the first id there is.
NetOfSlab == [s \in Slab |-> CASE s \in {"a", "a2"} -> "A"
                               [] s \in {"b", "b2"} -> "B"
                               [] s \in {"c", "c2"} -> "C"]
IdOfSlab == [s \in Slab |-> CASE s = "a" -> 0 [] s = "a2" -> 1
                              [] s = "b" -> 200 [] s = "b2" -> 201
                              [] s = "c" -> 300
                              [] s = "c2" -> 301]

\* "B" is told of "A", and "C" of "B".
Chain == {<<"B", "A">>, <<"C", "B">>}
Direct == {<<"B", "A">>}
=============================================================================
