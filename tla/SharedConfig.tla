---------------------------- MODULE SharedConfig ----------------------------
(***************************************************************************)
(* Handshakes of several connections that use one Config, in the part      *)
(* where they share memory: parseAndVerifyChain (cert_gost.go) appends     *)
(* what the server sent to Config.GOSTIntermediates and verifies with the  *)
(* result.  A slice with spare capacity is appended to in place, so the    *)
(* elements go to the array all the handshakes have.  One step writes or   *)
(* reads one element.                                                      *)
(***************************************************************************)
EXTENDS Naturals, Sequences

CONSTANTS
  Handshakes,
  Configured,  \* number of GOSTIntermediates
  Capacity,    \* of the array they are in, at least as many
  WireLens     \* how many intermediates a server may send

VARIABLES
  array,   \* behind Config.GOSTIntermediates
  wire,    \* wireInter: what the server of each handshake sent
  inter,   \* intermediates: is it in array, else the elements; and the length
  done,    \* elements written by append, or read by Verify
  seen,    \* what Verify read
  pc

vars == <<array, wire, inter, done, seen, pc>>

Preconfigured == [i \in 1 .. Configured |-> <<"config", i>>]
Sent(h, n) == [i \in 1 .. n |-> <<h, i>>]

Init ==
  /\ array = [i \in 1 .. Capacity |-> IF i <= Configured THEN <<"config", i>> ELSE <<"none", 0>>]
  /\ wire = [h \in Handshakes |-> <<>>]
  /\ inter = [h \in Handshakes |-> [shared |-> TRUE, own |-> <<>>, len |-> Configured]]
  /\ done = [h \in Handshakes |-> 0] /\ seen = [h \in Handshakes |-> <<>>]
  /\ pc = [h \in Handshakes |-> "parse"]

\* extractGOSTIntermediates and parseGOSTIntermediates
Parse(h) ==
  /\ pc[h] = "parse"
  /\ \E n \in WireLens : wire' = [wire EXCEPT ![h] = Sent(h, n)]
  /\ pc' = [pc EXCEPT ![h] = "append"]
  /\ UNCHANGED <<array, inter, done, seen>>

\* append(intermediates, wireInter...): a new array if the old one is full.
Grow(h) ==
  LET len == Configured + Len(wire[h]) IN
  /\ pc[h] = "append"
  /\ inter' = [inter EXCEPT ![h] =
       IF len <= Capacity THEN [@ EXCEPT !.len = len]
       ELSE [shared |-> FALSE, own |-> SubSeq(array, 1, Configured) \o wire[h], len |-> len]]
  /\ pc' = [pc EXCEPT ![h] = IF len <= Capacity THEN "copy" ELSE "verify"]
  /\ UNCHANGED <<array, wire, done, seen>>

CopyElement(h) ==
  /\ pc[h] = "copy"
  /\ IF done[h] < Len(wire[h])
       THEN /\ array' = [array EXCEPT ![Configured + done[h] + 1] = wire[h][done[h] + 1]]
            /\ done' = [done EXCEPT ![h] = @ + 1] /\ UNCHANGED pc
       ELSE /\ done' = [done EXCEPT ![h] = 0] /\ pc' = [pc EXCEPT ![h] = "verify"]
            /\ UNCHANGED array
  /\ UNCHANGED <<wire, inter, seen>>

\* gc.Verify goes through GOSTIntermediates.
VerifyReads(h) ==
  /\ pc[h] = "verify"
  /\ IF done[h] < inter[h].len
       THEN /\ seen' = [seen EXCEPT ![h] = Append(@,
                 IF inter[h].shared THEN array[done[h] + 1] ELSE inter[h].own[done[h] + 1])]
            /\ done' = [done EXCEPT ![h] = @ + 1] /\ UNCHANGED pc
       ELSE pc' = [pc EXCEPT ![h] = "verified"] /\ UNCHANGED <<done, seen>>
  /\ UNCHANGED <<array, wire, inter>>

Next == \E h \in Handshakes : Parse(h) \/ Grow(h) \/ CopyElement(h) \/ VerifyReads(h)

Spec == Init /\ [][Next]_vars

\* What parseAndVerifyChain says it verifies with: "any intermediates the
\* server sent on the wire, not just the preconfigured ones".
BridgesOwn ==
  \A h \in Handshakes : pc[h] = "verified" => seen[h] = Preconfigured \o wire[h]
=============================================================================
