----------------------------- MODULE MCRootSeed -----------------------------
(***************************************************************************)
(* Small networks for the model checker: slabs that each have a thread of  *)
(* their own, slabs of which two share one, and slabs that are all created *)
(* and dropped by one thread.  Transports are alike, and so are the roots  *)
(* of other systems.                                                       *)
(***************************************************************************)
EXTENDS RootSeed, TLC

EachItsOwn == [s \in Slab |-> s]
TwoThreads == [s \in Slab |-> IF s = "C" THEN "A" ELSE s]
OneThread == [s \in Slab |-> "main"]

Alike == Permutations(Transport) \cup Permutations(ForeignRoot)
=============================================================================
