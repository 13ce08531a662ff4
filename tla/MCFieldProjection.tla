------------------------- MODULE MCFieldProjection -------------------------
(***************************************************************************)
(* A small instance of FieldProjection for TLC: t1 has two fields, t2      *)
(* none, t3 cannot be extracted; t1 and t3 are of one stream.              *)
(***************************************************************************)
EXTENDS FieldProjection, TLC

CONSTANTS t1, t2, t3, w1, w2, s1, s2

MCStreamOf(t) == IF t = t2 THEN s2 ELSE s1

MCFieldsOf(t) ==
    CASE t = t1 -> {"x", "y"}
      [] t = t2 -> {}
      [] OTHER -> NoFields

WorkerSymmetry == Permutations(Workers)
=============================================================================
