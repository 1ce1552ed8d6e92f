--------------------------- MODULE MCDataPipeline ---------------------------
(* Finite instances of DataPipeline for TLC.                               *)
EXTENDS DataPipeline

(* An empty list, a short one, the threshold, and lengths on both sides   *)
(* of split % 32 = 1 (122 -> 97 = 3 * 32 + 1).                            *)
MCRecordCounts == {0, 1, 99, 100, 121, 122, 123, 161}
=============================================================================
