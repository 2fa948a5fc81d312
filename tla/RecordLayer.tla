---------------------------- MODULE RecordLayer ----------------------------
(***************************************************************************)
(* One direction of internal/record/record.go: the sending half of one     *)
(* Layer (WriteRecord, ChangeCipherSpec) and the receiving half of another *)
(* (ReadRecord, ChangeCipherSpec), joined by a byte stream whose writes    *)
(* may fail half way and which may damage what it carries.                 *)
(*                                                                         *)
(* Protection is abstract: a fragment remembers what it was sealed with,   *)
(* and Open succeeds iff the receiver expects exactly that.  A stateful    *)
(* protector (GOST 28147-89, protection_gost.go) also depends on how many  *)
(* fragments it has processed before.  All payloads have one length, so    *)
(* that a lost or repeated header or fragment does not shift the frames    *)
(* after it, which is the hardest case for the receiver's checks.          *)
(***************************************************************************)
EXTENDS Naturals, Sequences

CONSTANTS
  Data,        \* payloads
  MaxSeq,      \* math.MaxUint64, the sequence number that is never used
  MaxWire,     \* bound: units in transit
  MaxErrors,   \* bound: failing writes
  MaxFaults    \* bound: damages of the stream

ASSUME RecordAssumption ==
  MaxSeq \in Nat /\ MaxWire \in Nat /\ MaxErrors \in Nat /\ MaxFaults \in Nat

Epochs == {0, 1}          \* before and after ChangeCipherSpec
Types == {"ccs", "other"}
Records == [ct : Types, data : Data]
Junk == [ct |-> "other", data |-> "junk"]

\* A unit of the stream: a header, a fragment, or bytes that are neither.
Unit(kind, ep, seq, pos, r) == [kind |-> kind, ep |-> ep, seq |-> seq, pos |-> pos, rec |-> r]
Torn == Unit("torn", 0, 0, 0, Junk)

VARIABLES
  stateful,                     \* the protector of epoch 1 is stateful
  sendEp, sendSeq, sendPos,     \* sendProt, sendSeq, fragments it has sealed
  wpc, out,                     \* WriteRecord: where it is, the sealed fragment
  wire,                         \* units sent and not yet received
  recvEp, recvSeq, recvPos,     \* recvProt, recvSeq, fragments it has opened
  rpc, hdr,                     \* ReadRecord: where it is, the header read
  errors, faults,               \* history: failed writes, damages
  sent, delivered               \* history: records per epoch

sendVars == <<sendEp, sendSeq, sendPos, wpc, out>>
recvVars == <<recvEp, recvSeq, recvPos, rpc, hdr>>
vars == <<stateful, sendVars, wire, recvVars, errors, faults, sent, delivered>>

Units == [kind : {"header", "fragment", "torn"}, ep : Epochs, seq : Nat, pos : Nat,
          rec : Records \cup {Junk}]

TypeOK ==
  /\ stateful \in BOOLEAN
  /\ sendEp \in Epochs /\ sendSeq \in 0 .. MaxSeq /\ sendPos \in Nat
  /\ wpc \in {"idle", "header", "fragment", "switch"} /\ out \in Units
  /\ wire \in Seq(Units)
  /\ recvEp \in Epochs /\ recvSeq \in 0 .. MaxSeq /\ recvPos \in Nat
  /\ rpc \in {"header", "fragment", "switch", "failed"} /\ hdr \in Units
  /\ errors \in 0 .. MaxErrors /\ faults \in 0 .. MaxFaults
  /\ sent \in [Epochs -> Seq(Records)]
  /\ delivered \in [Epochs -> Seq(Records \cup {Junk})]

\* NewLayer at both ends.
Init ==
  /\ stateful \in BOOLEAN
  /\ sendEp = 0 /\ sendSeq = 0 /\ sendPos = 0 /\ wpc = "idle" /\ out = Torn
  /\ wire = <<>>
  /\ recvEp = 0 /\ recvSeq = 0 /\ recvPos = 0 /\ rpc = "header" /\ hdr = Torn
  /\ errors = 0 /\ faults = 0
  /\ sent = [e \in Epochs |-> <<>>] /\ delivered = [e \in Epochs |-> <<>>]

-----------------------------------------------------------------------------
(* The sender *)

\* Mutant: the sequence number may reach its last value and wrap.
SealWrapping(r) ==
  /\ wpc = "idle"
  /\ r.ct = "ccs" => sendEp = 0
  /\ out' = Unit("fragment", sendEp, sendSeq, sendPos, r)
  /\ sendPos' = sendPos + 1
  /\ wpc' = "header"
  /\ UNCHANGED <<stateful, sendEp, sendSeq, wire, recvVars, errors, faults, sent, delivered>>

\* WriteRecord up to Seal: the sequence number is refused before it overflows.
Seal(r) ==
  /\ wpc = "idle"
  /\ sendSeq # MaxSeq
  /\ r.ct = "ccs" => sendEp = 0
  /\ out' = Unit("fragment", sendEp, sendSeq, sendPos, r)
  /\ sendPos' = sendPos + 1
  /\ wpc' = "header"
  /\ UNCHANGED <<stateful, sendEp, sendSeq, wire, recvVars, errors, faults, sent, delivered>>

\* l.rw.Write(hdr)
WriteHeader ==
  /\ wpc = "header" /\ Len(wire) < MaxWire
  /\ wire' = Append(wire, [out EXCEPT !.kind = "header"])
  /\ wpc' = "fragment"
  /\ UNCHANGED <<stateful, sendEp, sendSeq, sendPos, out, recvVars, errors, faults, sent, delivered>>

\* l.rw.Write(fragment), l.sendSeq++ and WriteRecord returns nil.
WriteFragment ==
  /\ wpc = "fragment" /\ Len(wire) < MaxWire
  /\ wire' = Append(wire, out)
  /\ sendSeq' = (sendSeq + 1) % (MaxSeq + 1)
  /\ wpc' = IF out.rec.ct = "ccs" THEN "switch" ELSE "idle"
  /\ sent' = [sent EXCEPT ![sendEp] = Append(@, out.rec)]
  /\ UNCHANGED <<stateful, sendEp, sendPos, out, recvVars, errors, faults, delivered>>

\* Either write fails, some of its bytes possibly sent.  WriteRecord returns;
\* sendSeq stays, the layer remembers nothing of the failure, and its caller
\* may write again.
WriteError ==
  /\ wpc \in {"header", "fragment"} /\ errors < MaxErrors /\ Len(wire) < MaxWire
  /\ wire' \in {wire, Append(wire, Torn)}
  /\ wpc' = "idle" /\ errors' = errors + 1
  /\ UNCHANGED <<stateful, sendEp, sendSeq, sendPos, out, recvVars, faults, sent, delivered>>

\* ChangeCipherSpec(send, nil), after the CCS record.
SwitchSend ==
  /\ wpc = "switch"
  /\ sendEp' = 1 /\ sendSeq' = 0 /\ sendPos' = 0
  /\ wpc' = "idle"
  /\ UNCHANGED <<stateful, out, wire, recvVars, errors, faults, sent, delivered>>

-----------------------------------------------------------------------------
(* The receiver *)

ReadVars == <<stateful, sendVars, errors, faults, sent>>

\* Mutant: the fragment's sequence number is not authenticated.
OpensAnySeq(u) ==
  u.kind = "fragment" /\ u.ep = 1 /\ u.rec.ct = hdr.rec.ct

\* Protector.Open in epoch 1.
Opens(u) ==
  /\ u.kind = "fragment" /\ u.ep = 1
  /\ u.seq = recvSeq /\ u.rec.ct = hdr.rec.ct
  /\ stateful => u.pos = recvPos

\* ReadRecord returns r: recvSeq++; a CCS makes the handshake switch.
Deliver(r) ==
  /\ delivered' = [delivered EXCEPT ![recvEp] = Append(@, r)]
  /\ recvSeq' = (recvSeq + 1) % (MaxSeq + 1)
  /\ rpc' = IF r.ct = "ccs" THEN "switch" ELSE "header"

\* Every error is final: Conn and ClientState read no more.
Fail == rpc' = "failed" /\ UNCHANGED <<recvSeq, delivered>>

\* The sequence number is refused before it overflows.  Five bytes are read as
\* the header.  Bytes that are not a header may pass for one; what follows is
\* then not its fragment.
ReadHeader ==
  /\ rpc = "header"
  /\ \/ /\ recvSeq = MaxSeq /\ rpc' = "failed"
        /\ UNCHANGED <<wire, hdr>>
     \/ /\ recvSeq # MaxSeq /\ wire # <<>>
        /\ wire' = Tail(wire) /\ hdr' = Head(wire)
        /\ \/ rpc' = "fragment"
           \/ Head(wire).kind # "header" /\ rpc' = "failed"
  /\ UNCHANGED <<ReadVars, recvEp, recvSeq, recvPos, delivered>>

\* The fragment is read and opened.  Without protection everything opens.
ReadFragment ==
  /\ rpc = "fragment" /\ wire # <<>>
  /\ wire' = Tail(wire) /\ recvPos' = recvPos + 1
  /\ LET u == Head(wire)
         intact == hdr.kind = "header" /\ u.kind = "fragment" /\ u.ep = 0 /\ u.rec.ct = hdr.rec.ct
     IN \/ recvEp = 0 /\ Deliver(IF intact THEN u.rec ELSE Junk)
        \/ recvEp = 1 /\ Opens(u) /\ Deliver(u.rec)
        \/ recvEp = 1 /\ ~Opens(u) /\ Fail
  /\ UNCHANGED <<ReadVars, recvEp, hdr>>

\* Mutant: the receive sequence number is not reset.
SwitchRecvOnly ==
  /\ rpc = "switch" /\ recvEp = 0
  /\ recvEp' = 1 /\ recvPos' = 0
  /\ rpc' = "header"
  /\ UNCHANGED <<ReadVars, recvSeq, wire, hdr, delivered>>

\* ChangeCipherSpec(nil, recv), on the peer's CCS; there is only one.
SwitchRecv ==
  /\ rpc = "switch" /\ recvEp = 0
  /\ recvEp' = 1 /\ recvSeq' = 0 /\ recvPos' = 0
  /\ rpc' = "header"
  /\ UNCHANGED <<ReadVars, wire, hdr, delivered>>

-----------------------------------------------------------------------------
(* The stream loses, repeats or alters some of its units *)

\* Jumping ahead from unit i to unit j loses what is between them, jumping
\* back repeats it.
Damage ==
  /\ faults < MaxFaults
  /\ \/ \E i \in 0 .. Len(wire), j \in 1 .. Len(wire) + 1 :
          j # i + 1 /\ wire' = SubSeq(wire, 1, i) \o SubSeq(wire, j, Len(wire))
     \/ \E i \in 1 .. Len(wire) : wire' = [wire EXCEPT ![i] = Torn]
  /\ Len(wire') <= MaxWire
  /\ faults' = faults + 1
  /\ UNCHANGED <<stateful, sendVars, recvVars, errors, sent, delivered>>

Next ==
  \/ \E r \in Records : Seal(r)
  \/ WriteHeader \/ WriteFragment \/ WriteError \/ SwitchSend
  \/ ReadHeader \/ ReadFragment \/ SwitchRecv \/ Damage

Spec == Init /\ [][Next]_vars

-----------------------------------------------------------------------------
(* Properties *)

Channel == INSTANCE SecureChannel WITH sent <- sent[1], delivered <- delivered[1]

\* With protection on, the records accepted are a prefix of the records whose
\* WriteRecord returned nil, whatever the stream did to them, whichever writes
\* failed half way and were followed by others.
ImplementsChannel == Channel!Spec

\* No sequence number of an epoch is used for two records: the number of
\* records completed, and accepted, under a key is its sequence number, which
\* stops short of wrapping.
SeqCounts ==
  /\ sendSeq = Len(sent[sendEp])
  /\ recvSeq = Len(delivered[recvEp])

\* A stream that is faithful and whose writes succeed carries every record:
\* the two ends never disagree about the sequence number, the epoch or the
\* state of the protector, before or after ChangeCipherSpec, and what is
\* delivered is what was sent, also without protection.
NoSpuriousFailure ==
  faults = 0 /\ errors = 0 =>
    /\ rpc = "failed" => recvSeq = MaxSeq
    /\ \A e \in Epochs : /\ Len(delivered[e]) <= Len(sent[e])
                         /\ \A i \in 1 .. Len(delivered[e]) : delivered[e][i] = sent[e][i]

-----------------------------------------------------------------------------
(* The inductive invariant behind the theorems of RecordLayerProofs *)

\* What the sender is writing is the next record of its epoch.
Writing ==
  /\ wpc \in {"header", "fragment"} =>
       /\ out.kind = "fragment" /\ out.ep = sendEp /\ out.seq = sendSeq
       /\ out.rec \in Records /\ sendSeq # MaxSeq
       /\ out.rec.ct = "ccs" => sendEp = 0
  /\ wpc = "switch" => sendEp = 0
  /\ sendEp = 0 => sent[1] = <<>>

\* What the receiver is reading has a place in its epoch.
Receiving ==
  /\ rpc = "fragment" => recvSeq # MaxSeq
  /\ recvEp = 0 => delivered[1] = <<>>

\* A protected fragment in transit is the completed record of its number.
Genuine(u) ==
  u.kind = "fragment" /\ u.ep = 1 =>
    u.seq + 1 \in 1 .. Len(sent[1]) /\ sent[1][u.seq + 1] = u.rec

Transit == \A i \in 1 .. Len(wire) : Genuine(wire[i])

\* The counters of both ends, the record being written, the one being read and
\* every unit on the way agree with what was sent and accepted: inductive, and
\* strong enough for ImplementsChannel.
IInv == TypeOK /\ SeqCounts /\ Writing /\ Receiving /\ Transit

-----------------------------------------------------------------------------
(* What a faithful stream adds to it *)

\* Where a unit belongs, and where the record after it does.
Place(u) == <<u.ep, u.seq, u.pos>>
After(u) == IF u.rec.ct = "ccs" THEN <<1, 0, 0>> ELSE <<u.ep, u.seq + 1, u.pos + 1>>

\* The place of the record the sender writes next, or is writing.
SendPlace ==
  CASE wpc = "switch" -> <<1, 0, 0>>
    [] wpc = "idle"   -> <<sendEp, sendSeq, sendPos>>
    [] OTHER          -> Place(out)

\* The place of the record the receiver expects, or is reading.
RecvPlace == IF rpc = "switch" THEN <<1, 0, 0>> ELSE <<recvEp, recvSeq, recvPos>>

\* The header h and the fragment u of one record.
Pair(h, u) == h.kind = "header" /\ u.kind = "fragment" /\ Place(u) = Place(h) /\ u.rec = h.rec

\* u comes right before v in a faithful stream.
Precedes(u, v) ==
  IF u.kind = "header" THEN Pair(u, v) ELSE v.kind = "header" /\ Place(v) = After(u)

\* A unit of a faithful stream: a record of its epoch, among those sent if it
\* is complete.
Sound(u, s) ==
  /\ u.kind \in {"header", "fragment"} /\ u.rec \in Records /\ (u.rec.ct = "ccs" => u.ep = 0)
  /\ u.kind = "fragment" => u.seq + 1 \in 1 .. Len(s[u.ep]) /\ s[u.ep][u.seq + 1] = u.rec

\* The units w in transit are records, each a header and its fragment ...
Chain(w, s) ==
  /\ \A i \in 1 .. Len(w) : Sound(w[i], s)
  /\ \A i \in 1 .. Len(w) - 1 : Precedes(w[i], w[i + 1])

\* ... from the one the receiver expects, or is reading, ...
AtReceiver ==
  IF rpc = "fragment"
    THEN /\ hdr.kind = "header" /\ Place(hdr) = RecvPlace /\ hdr.rec \in Records
         /\ IF wire = <<>> THEN wpc = "fragment" /\ Pair(hdr, out) ELSE Pair(hdr, wire[1])
    ELSE IF wire = <<>> THEN wpc # "fragment" /\ SendPlace = RecvPlace
                        ELSE wire[1].kind = "header" /\ Place(wire[1]) = RecvPlace

\* ... to the one the sender is writing, or wrote last.
AtSender ==
  /\ wpc \in {"header", "fragment"} => sendPos = out.pos + 1
  /\ wire # <<>> =>
       LET last == wire[Len(wire)]
       IN IF wpc = "fragment" THEN Pair(last, out)
                              ELSE last.kind = "fragment" /\ SendPlace = After(last)

InOrder == Chain(wire, sent) /\ AtReceiver /\ AtSender

\* Inductive together with IInv.
Faithful ==
  faults = 0 /\ errors = 0 => NoSpuriousFailure /\ (rpc # "failed" => InOrder)
=============================================================================
