------------------------------ MODULE MCDialer ------------------------------
(* Instances of Dialer for TLC. *)
EXTENDS Dialer, TLC

CONSTANTS d1, u1

\* The dialing goroutine, and one that uses what it returned.
OpsDial == (d1 :> {"Handshake"}) @@ (u1 :> {"Read", "Write", "Close"})
=============================================================================
