------------------------ MODULE MCSchemaObservation ------------------------
(***************************************************************************)
(* Small instances of SchemaObservation for TLC: all tasks are of one      *)
(* stream, whose payloads have the structures a, b or none.                *)
(***************************************************************************)
EXTENDS SchemaObservation, TLC

CONSTANTS t1, t2, t3, t4, w1, w2, s1

MCOneStream(t) == s1

\* All have structure a but t2.
MCMostlySame(t) == IF t = t2 THEN "b" ELSE "a"

\* The payload of t3 has no structure.
MCMalformed(t) == IF t = t3 THEN NoFingerprint ELSE "a"

WorkerSymmetry == Permutations(Workers)
TaskWorkerSymmetry == Permutations(Workers) \cup Permutations(Tasks \ {t2})
=============================================================================
