------------------------------- MODULE MCConn -------------------------------
(* Instances of Conn for TLC. *)
EXTENDS Conn, TLC

CONSTANTS t1, t2, t3

\* Two goroutines that write, two that close, one of them also handshaking.
OpsWrite == (t1 :> {"Write"}) @@ (t2 :> {"Write", "Close"}) @@ (t3 :> {"Close", "Handshake"})
\* Two Readers, one of which also moves deadlines and closes.
OpsRead == (t1 :> {"Read"}) @@ (t2 :> {"Read", "SetDeadline", "Close"})
\* One goroutine that reads, one that writes or reads, one that closes.
OpsLive == (t1 :> {"Read"}) @@ (t2 :> {"Write", "Read"}) @@ (t3 :> {"Close"})
\* A goroutine that sets or clears a deadline while another closes.
OpsDeadline == (t1 :> {"Write"}) @@ (t2 :> {"SetDeadline"}) @@ (t3 :> {"Close"})
=============================================================================
