---------------------------- MODULE MCSparseBlocks ----------------------------
(***************************************************************************)
(* Instance of SparseBlocks for TLC: every graph over an entry block and   *)
(* three more blocks with at most two successors each, with and without a  *)
(* switch in b1, and every way to distribute the kinds of blocks.          *)
(***************************************************************************)
EXTENDS SparseBlocks, FiniteSets, TLC

CONSTANTS e, b1, b2, b3

MCBlock == {e, b1, b2, b3}

MCShapes ==
  {s \in [succ : [MCBlock -> {t \in SUBSET {b1, b2, b3} : Cardinality(t) <= 2}],
          switch : {{}, {b1}}, kind : [MCBlock -> Kinds], entry : {e}] :
     /\ \A b \in s.switch : s.succ[b] # {}
     /\ s.kind[b3] = "code"}

=============================================================================
