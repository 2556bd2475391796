--------------------------- MODULE WebEntryProofs ----------------------------
(***************************************************************************)
(* Proofs about the browser binding (module WebEntry), for any number of   *)
(* pages and of builds.                                                    *)
(***************************************************************************)
EXTENDS WebEntry, SequenceTheorems, TLAPS

\* A page shows what has happened to it so far, and nothing else.
Shown(p) ==
  /\ phase[p] \in {"closed", "importing", "rejected"} => console[p] = << >>
  /\ phase[p] = "fulfilled" => logger[p] /\ console[p] = <<"loaded">>
  /\ phase[p] = "greeted" => console[p] = <<"loaded", "hello">>
  /\ phase[p] = "reported" => console[p] = <<"error">>

ConsoleTells == \A p \in Page : Shown(p)

Line == {"loaded", "hello", "error"}

Phase == {"closed", "importing", "fulfilled", "rejected", "greeted", "reported"}

\* The part of TypeOK that functions need to be updated.
Typed ==
  /\ bundle = [p \in Page |-> bundle[p]]
  /\ phase \in [Page -> Phase]
  /\ logger \in [Page -> BOOLEAN]
  /\ console \in [Page -> Seq(Line)]

Inv == Typed /\ ConsoleTells

LEMMA InitInv == Init => Inv
BY DEF Init, Inv, Typed, Phase, Line, ConsoleTells, Shown

\* Lines are added at the end.
LEMMA Lines ==
  /\ Append(<< >>, "loaded") = <<"loaded">>
  /\ Append(<< >>, "error") = <<"error">>
  /\ Append(<<"loaded">>, "hello") = <<"loaded", "hello">>
  /\ << >> \in Seq(Line)
  /\ \A s \in Seq(Line), l \in Line : Append(s, l) \in Seq(Line)
<1>1. ASSUME NEW l PROVE Append(<< >>, l) = <<l>>
  OBVIOUS
<1>2. ASSUME NEW k, NEW l PROVE Append(<<k>>, l) = <<k, l>>
  <2>1. <<k>> \in Seq({k, l}) /\ <<k, l>> \in Seq({k, l})
    OBVIOUS
  <2>2. Append(<<k>>, l) \in Seq({k, l}) /\ Len(Append(<<k>>, l)) = 2
    BY <2>1, AppendProperties
  <2>3. \A i \in 1 .. 2 : Append(<<k>>, l)[i] = <<k, l>>[i]
    BY <2>1, AppendProperties
  <2> QED  BY <2>1, <2>2, <2>3, SeqEqual
<1>3. ASSUME NEW s \in Seq(Line), NEW l \in Line PROVE Append(s, l) \in Seq(Line)
  OBVIOUS
<1> QED  BY <1>1, <1>2, <1>3, EmptySeq

LEMMA NextInv == Inv /\ [Next]_vars => Inv'
<1> SUFFICES ASSUME Inv, [Next]_vars PROVE Inv'  OBVIOUS
<1> USE DEF Inv, Typed, Phase, Line, ConsoleTells, Shown
<1>1. CASE Build
  BY <1>1 DEF Build
<1>2. ASSUME NEW p \in Page, Open(p) PROVE Inv'
  BY <1>2 DEF Open
<1>3. ASSUME NEW p \in Page, Start(p) PROVE Inv'
  BY <1>3, Lines DEF Start, Log
<1>4. ASSUME NEW p \in Page, Reject(p) PROVE Inv'
  BY <1>4 DEF Reject
<1>5. ASSUME NEW p \in Page, Then(p) PROVE Inv'
  BY <1>5, Lines DEF Then, Log
<1>6. ASSUME NEW p \in Page, Catch(p) PROVE Inv'
  BY <1>6, Lines DEF Catch
<1>7. ASSUME NEW p \in Page, Cut(p) PROVE Inv'
  BY <1>7 DEF Cut
<1>8. ASSUME NEW p \in Page, Close(p) PROVE Inv'
  <2>1. Typed'
    BY <1>8, Lines DEF Close
  <2>2. ConsoleTells'
    BY <1>8 DEF Close
  <2> QED  BY <2>1, <2>2
<1>9. CASE UNCHANGED vars
  BY <1>9 DEF vars
<1> QED
  BY <1>1, <1>2, <1>3, <1>4, <1>5, <1>6, <1>7, <1>8, <1>9 DEF Next, Proceed

LEMMA SpecInv == Spec => []Inv
<1> QED  BY InitInv, NextInv, PTL DEF Spec

(***************************************************************************)
(* The safety half of PageSettles: a page that has greeted shows that the  *)
(* crate was loaded and then the greeting, one that has reported shows the *)
(* error, and no page shows anything else (index.js, src/lib.rs).          *)
(***************************************************************************)
THEOREM WebConsoleTells == Spec => []ConsoleTells
<1>1. Inv => ConsoleTells  BY DEF Inv
<1> QED  BY <1>1, SpecInv, PTL
=============================================================================
