---------------------------- MODULE Subsequences ----------------------------
(***************************************************************************)
(* Sequences, and the part of one whose elements pass a test.              *)
(***************************************************************************)
EXTENDS Naturals, Sequences, SequencesExt

IsSequence(s) == s \in Seq(ToSet(s))

\* SelectSeq, written with an operator that proofs can expand.
Select(s, Test(_)) == FlattenSeq([k \in DOMAIN s |-> IF Test(s[k]) THEN <<s[k]>> ELSE <<>>])
=============================================================================
