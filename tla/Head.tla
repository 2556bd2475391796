-------------------------------- MODULE Head --------------------------------
(***************************************************************************)
(* Heads and the memo graph they point into (head/mod.rs, slab/memo).      *)
(*                                                                         *)
(* A memo is immutable: it names its parents (a head) and carries a body.  *)
(* A head is a vector of memorefs, "like a git HEAD": the youngest known   *)
(* memos of one entity.  Head::Null is the empty sequence.  The functions  *)
(* below are the ones every other component builds on: applying a memo to  *)
(* a head, comparing two heads, streaming the causal history of a head and *)
(* projecting values and edges out of that stream.                         *)
(*                                                                         *)
(* Memos are assumed resident here: a remote memo delays these functions,  *)
(* it does not change what they compute, except for the order of the       *)
(* causal stream: Streams has all the orders there are.                    *)
(***************************************************************************)
EXTENDS Naturals, Sequences, FiniteSets, SequencesExt

CONSTANTS
  Memos,   \* the memos that exist: memo id -> [parents, full, values, edges]
  Slot     \* the edge slots of an entity

(***************************************************************************)
(* Memos[m].parents is a head; .full says that the body is                 *)
(* FullyMaterialized; .values is the set of keys the body assigns; .edges  *)
(* maps the slots the body sets to heads (empty for a body without edges). *)
(***************************************************************************)
NullHead == << >>

Parents(m) == ToSet(Memos[m].parents)

\* Strict ancestry: what Memo::descends decides by walking the parents.
Ancestors[m \in DOMAIN Memos] ==
  Parents(m) \cup UNION {Ancestors[p] : p \in Parents(m)}

Descends(m, other) == other \in Ancestors[m]

\* Everything a head accounts for.
History(head) ==
  ToSet(head) \cup UNION {Ancestors[m] : m \in ToSet(head)}

-----------------------------------------------------------------------------
(***************************************************************************)
(* Applying memos to a head.                                               *)
(***************************************************************************)

\* Why the loop of mut_apply_memoref is left at a memo, if it is.
HaltAt(new, existing, scan) ==
  IF scan.halt # "no" THEN scan.halt
  ELSE IF existing = new THEN "present"
  ELSE IF Descends(existing, new) THEN "descended" ELSE "no"

\* Faulty: a second memo that the newcomer descends from is not removed.
VisitExistingOnce(new, existing, scan) ==
  LET halt     == HaltAt(new, existing, scan)
      replaced == halt = "no" /\ Descends(new, existing) /\ ~scan.replaced
  IN  [head     |-> <<IF replaced THEN new ELSE existing>> \o scan.head,
       replaced |-> scan.replaced \/ replaced,
       halt     |-> halt]

(***************************************************************************)
(* One turn of the loop of mut_apply_memoref.  scan.head is the part       *)
(* already visited; scan.halt is why the loop was left early, if it was:   *)
(* the memos before are kept.  Of those the newcomer descends from, one is *)
(* replaced and the others are removed.                                    *)
(***************************************************************************)
VisitExisting(new, existing, scan) ==
  LET halt  == HaltAt(new, existing, scan)
      older == halt = "no" /\ Descends(new, existing)
  IN  [head     |-> IF ~older THEN <<existing>> \o scan.head
                    ELSE IF scan.replaced THEN scan.head    \* head.remove(i)
                    ELSE <<new>> \o scan.head,
       replaced |-> scan.replaced \/ older,
       halt     |-> halt]

\* Head::mut_apply_memoref: the new head, and whether the memo was "applied".
\* The loop visits the head from its last memo to its first.
MutApplyMemoref(head, new) ==
  LET scan[i \in 0 .. Len(head)] ==
        IF i = 0 THEN [head |-> << >>, replaced |-> FALSE, halt |-> "no"]
        ELSE VisitExisting(new, head[Len(head) + 1 - i], scan[i - 1])
      end == scan[Len(head)]
      concurrent == ~end.replaced /\ end.halt = "no"
  IN  [head    |-> IF concurrent THEN Append(head, new) ELSE end.head,
       applied |-> \/ concurrent
                   \/ end.replaced /\ end.halt # "present"]

\* Faulty: only what became of the last memo is reported.
ApplyNextOnly(acc, new) == MutApplyMemoref(acc.head, new)

ApplyNext(acc, new) ==
  LET r == MutApplyMemoref(acc.head, new)
  IN  [head |-> r.head, applied |-> acc.applied \/ r.applied]

\* Head::mut_apply: every memo of other in turn; applied if any of them was.
MutApply(head, other) ==
  LET merged[i \in 0 .. Len(other)] ==
        IF i = 0 THEN [head |-> head, applied |-> FALSE]
        ELSE ApplyNext(merged[i - 1], other[i])
  IN  merged[Len(other)]

\* Faulty: one memo that descends or is equal is taken for all.
DescendsOrContainsAny(head, other) ==
  \E m \in ToSet(head), o \in ToSet(other) : m = o \/ Descends(m, o)

\* Head::descends_or_contains: every memo against every memo of the other.
DescendsOrContains(head, other) ==
  /\ head # NullHead
  /\ other # NullHead
  /\ \A m \in ToSet(head), o \in ToSet(other) : m = o \/ Descends(m, o)

-----------------------------------------------------------------------------
(***************************************************************************)
(* The causal stream and the projections made from it.                     *)
(***************************************************************************)

(***************************************************************************)
(* CausalMemoStream: polling loads every queued memo that is not loaded    *)
(* yet and appends its parents to the queue, then pops the front.  With    *)
(* all memos resident the stream is the head, then all the parents of the  *)
(* head's memos, then all of theirs, repetitions included.                 *)
(***************************************************************************)
CausalMemoStream[generation \in Seq(DOMAIN Memos)] ==
  IF generation = << >>
  THEN << >>
  ELSE generation \o
       CausalMemoStream[FlattenSeq([i \in DOMAIN generation |->
                                      Memos[generation[i]].parents])]

(***************************************************************************)
(* The same when memos have to be fetched, which poll_next finds done in   *)
(* any order: the parents of each are appended when it is, and the front   *)
(* is yielded once it is.  Those that one turn finds done together come in *)
(* the order of the queue, as if one by one.  loaded is the places of the  *)
(* queue that are done, and i the next.                                    *)
(***************************************************************************)
\* Faulty: whatever is loaded while the front is not has no parents.
PollFront(queue, i) == queue \o (IF i = 1 THEN Memos[queue[i]].parents ELSE << >>)

Poll(queue, i) == queue \o Memos[queue[i]].parents

Streams[at \in Seq(DOMAIN Memos) \X SUBSET (Nat \ {0})] ==
  LET queue  == at[1]
      loaded == at[2]
  IN  IF queue = << >> THEN {<< >>}
      ELSE IF 1 \in loaded
      THEN {<<queue[1]>> \o stream :
              stream \in Streams[<<Tail(queue), {i - 1 : i \in loaded \ {1}}>>]}
      ELSE UNION {Streams[<<Poll(queue, i), loaded \cup {i}>>] :
                    i \in DOMAIN queue \ loaded}

\* Faulty: the oldest memo answers.
GetValueOldest(head, key) ==
  LET stream == CausalMemoStream[head]
      hit    == SelectLastInSeq(stream, LAMBDA m : key \in Memos[m].values)
  IN  IF hit # 0 THEN stream[hit] ELSE 0

(***************************************************************************)
(* Head::get_value: the first memo of the stream that assigns the key      *)
(* answers; a FullyMaterialized memo that does not assign it ends the      *)
(* search with None (0 here), and so does running out of memos, which the  *)
(* code reports as MemoLineageError.                                       *)
(***************************************************************************)
GetValue(head, key) ==
  LET stream == CausalMemoStream[head]
      hit    == SelectInSeq(stream, LAMBDA m : key \in Memos[m].values
                                            \/ Memos[m].full)
  IN  IF hit # 0 /\ key \in Memos[stream[hit]].values
      THEN stream[hit] ELSE 0

(***************************************************************************)
(* Head::get_edge: the edge of the first memo of the stream that sets the  *)
(* slot; NullHead (None) when none does before the stream ends at a        *)
(* FullyMaterialized memo.                                                 *)
(***************************************************************************)
GetEdge(head, slot) ==
  LET stream == CausalMemoStream[head]
      hit    == SelectInSeq(stream, LAMBDA m : slot \in DOMAIN Memos[m].edges
                                            \/ Memos[m].full)
  IN  IF hit # 0 /\ slot \in DOMAIN Memos[stream[hit]].edges
      THEN Memos[stream[hit]].edges[slot] ELSE NullHead

(***************************************************************************)
(* Head::project_all_edge_links_including_empties, and without the empty   *)
(* ones project_occupied_edges: the same choice for every slot.            *)
(***************************************************************************)
ProjectAllEdgeLinks(head) == [s \in Slot |-> GetEdge(head, s)]
=============================================================================
