--------------------------- MODULE SequenceFilter ---------------------------
(***************************************************************************)
(* What a filter leaves of a list.  SelectSeq takes its test as an         *)
(* operator, of which nothing can be proved; here it is a set.             *)
(***************************************************************************)
EXTENDS Integers, Sequences, FiniteSets

(* The places of s whose elements are in T, and the rank of one of them.   *)
Places(s, T) == {i \in DOMAIN s : s[i] \in T}

Rank(I, i) == Cardinality({h \in I : h <= i})

(* The elements of s that are in T, in their order. *)
Filtered(s, T) ==
    LET I == Places(s, T)
    IN  [k \in 1 .. Cardinality(I) |-> s[CHOOSE i \in I : Rank(I, i) = k]]
=============================================================================
