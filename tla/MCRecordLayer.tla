--------------------------- MODULE MCRecordLayer ---------------------------
(* Two payloads tell reordering and repetition apart; four units in transit *)
(* are two records.                                                         *)
EXTENDS RecordLayer

MCData == {"a", "b"}
=============================================================================
