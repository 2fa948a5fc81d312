--------------------------- MODULE SecureChannel ---------------------------
(***************************************************************************)
(* What a record layer promises once protection is on: the records that    *)
(* the receiver accepts are those the sender completed, in order, each     *)
(* once; some of them may never arrive.                                    *)
(***************************************************************************)
EXTENDS Naturals, Sequences

CONSTANT Records
VARIABLES sent, delivered

Init == sent = <<>> /\ delivered = <<>>

Send == \E r \in Records : sent' = Append(sent, r) /\ UNCHANGED delivered

Deliver ==
  /\ Len(delivered) < Len(sent)
  /\ delivered' = Append(delivered, sent[Len(delivered) + 1])
  /\ UNCHANGED sent

Next == Send \/ Deliver

Spec == Init /\ [][Next]_<<sent, delivered>>
=============================================================================
