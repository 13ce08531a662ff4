-------------------------- MODULE MCOutboxDelivery --------------------------
(***************************************************************************)
(* Small instances of OutboxDelivery for TLC.                              *)
(***************************************************************************)
EXTENDS OutboxDelivery, TLC

CONSTANTS r1, r2, w1, w2

\* Both rows at one point, with the same type: the second overwrites the first.
MCPointOf(r) == "p"
MCSameType(r) == "float"

NoStop == \A w \in Workers : ~stopping[w]

WorkerSymmetry == Permutations(Workers)
RowWorkerSymmetry == Permutations(Workers) \cup Permutations(Rows)
=============================================================================
