--------------------------- MODULE MCEntityIndex ----------------------------
(***************************************************************************)
(* Small systems for the model checker: who uses which context.            *)
(***************************************************************************)
EXTENDS EntityIndex

SlotValue == 0 .. 1

\* Two keys that share their branch, in a tree of two tiers.
OneKey == {<<0, 0>>}
TwoKeys == {<<0, 0>>, <<0, 1>>}

\* The one key of a tree of one tier.
LeafKey == {<<0>>}

\* A client that writes in context "A"; what it does reaches "B", where another
\* client reads and compacts.
WriterAndObserver ==
  [t \in Task |-> IF t \in {"b", "applier b"} THEN "B" ELSE "A"]
=============================================================================
