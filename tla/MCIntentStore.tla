--------------------------- MODULE MCIntentStore ---------------------------
(* IntentStore with short arrays, so that trimming happens.                *)
EXTENDS IntentStore, TLC

Kept == [k \in Kinds |-> IF k = "snapshots" THEN 1 ELSE 2]
Symmetry == Permutations(Threads)
============================================================================
