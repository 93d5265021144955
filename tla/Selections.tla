----------------------------- MODULE Selections -----------------------------
(***************************************************************************)
(* Sequences of which a part is taken: what retain and filter make of a    *)
(* Vec.                                                                    *)
(***************************************************************************)
EXTENDS Integers, Sequences, SequencesExt, FiniteSets

If(cond, seq) == IF cond THEN seq ELSE << >>

(* The elements of seq that are in S.                                      *)
Only(seq, S) == FlattenSeq([i \in DOMAIN seq |-> If(seq[i] \in S, <<seq[i]>>)])
=============================================================================
