------------------------- MODULE RecordLayerProofs -------------------------
(***************************************************************************)
(* The record layer implements SecureChannel, for every set of payloads,   *)
(* every bound and any number of failed writes and damaged units.          *)
(***************************************************************************)
EXTENDS RecordLayer, SequenceTheorems, TLAPS

\* The bytes that are no unit have the type of a unit.
LEMMA TornType == Torn \in Units /\ Genuine(Torn)
BY DEF Torn, Units, Unit, Epochs, Records, Genuine

\* A number below the modulus is its own remainder.
LEMMA SmallMod ==
  ASSUME NEW a \in Nat, NEW b \in Nat, a < b
  PROVE  a % b = a
OBVIOUS

\* Appending a genuine unit, or removing the first, keeps all genuine.
LEMMA AppendTransit ==
  ASSUME TypeOK, Transit, NEW u \in Units, Genuine(u)
  PROVE  \A i \in 1 .. Len(Append(wire, u)) : Genuine(Append(wire, u)[i])
<1>1. wire \in Seq(Units)
  BY DEF TypeOK
<1>2. Len(Append(wire, u)) = Len(wire) + 1
  BY <1>1
<1> TAKE i \in 1 .. Len(Append(wire, u))
<1>3. CASE i = Len(wire) + 1
  <2>1. Append(wire, u)[i] = u
    BY <1>1, <1>3
  <2> QED BY <2>1
<1>4. CASE i # Len(wire) + 1
  <2>1. i \in 1 .. Len(wire) /\ Append(wire, u)[i] = wire[i]
    BY <1>1, <1>2, <1>4
  <2> QED BY <2>1 DEF Transit
<1> QED BY <1>3, <1>4

\* Taking the first unit off the wire.
LEMMA TailTransit ==
  ASSUME TypeOK, Transit, wire # <<>>
  PROVE  /\ Head(wire) \in Units /\ Genuine(Head(wire)) /\ Tail(wire) \in Seq(Units)
         /\ \A i \in 1 .. Len(Tail(wire)) : Genuine(Tail(wire)[i])
<1>1. wire \in Seq(Units)
  BY DEF TypeOK
<1>2. Head(wire) = wire[1] /\ 1 \in 1 .. Len(wire) /\ Tail(wire) \in Seq(Units)
  BY <1>1
<1>3. Head(wire) \in Units /\ Genuine(Head(wire))
  BY <1>1, <1>2 DEF Transit
<1>4. ASSUME NEW i \in 1 .. Len(Tail(wire)) PROVE Genuine(Tail(wire)[i])
  <2>1. Tail(wire)[i] = wire[i + 1] /\ i + 1 \in 1 .. Len(wire)
    BY <1>1
  <2> QED BY <2>1 DEF Transit
<1> QED BY <1>2, <1>3, <1>4

\* Genuine depends on sent[1] only, and completing records does not undo it.
LEMMA GenuineStays ==
  ASSUME TypeOK, NEW u \in Units, Genuine(u),
         \/ sent'[1] = sent[1]
         \/ \E r \in Records : sent'[1] = Append(sent[1], r)
  PROVE  Genuine(u)'
<1>1. sent[1] \in Seq(Records)
  BY DEF TypeOK, Epochs
<1>2. CASE sent'[1] = sent[1]
  BY <1>2 DEF Genuine
<1>3. ASSUME NEW r \in Records, sent'[1] = Append(sent[1], r) PROVE Genuine(u)'
  <2> SUFFICES ASSUME u.kind = "fragment", u.ep = 1
               PROVE  u.seq + 1 \in 1 .. Len(sent'[1]) /\ sent'[1][u.seq + 1] = u.rec
    BY DEF Genuine
  <2>1. u.seq + 1 \in 1 .. Len(sent[1]) /\ sent[1][u.seq + 1] = u.rec
    BY DEF Genuine
  <2>2. Len(sent'[1]) = Len(sent[1]) + 1 /\ Len(sent[1]) \in Nat
    BY <1>1, <1>3
  <2>3. sent'[1][u.seq + 1] = sent[1][u.seq + 1]
    BY <1>1, <1>3, <2>1
  <2> QED BY <2>1, <2>2, <2>3
<1> QED BY <1>2, <1>3

\* What the stream makes of its units are units it had, or torn ones.
LEMMA DamageTransit ==
  ASSUME TypeOK, Transit, Damage
  PROVE  wire' \in Seq(Units) /\ \A i \in 1 .. Len(wire') : Genuine(wire'[i])
<1>1. wire \in Seq(Units) /\ Len(wire) \in Nat
  BY DEF TypeOK
<1>2. SUFFICES /\ wire' \in Seq(Units)
               /\ \A i \in 1 .. Len(wire') :
                    wire'[i] = Torn \/ \E j \in 1 .. Len(wire) : wire'[i] = wire[j]
  BY TornType DEF Transit
<1>3. ASSUME NEW m \in 0 .. Len(wire), NEW k \in 1 .. Len(wire) + 1,
             wire' = SubSeq(wire, 1, m) \o SubSeq(wire, k, Len(wire))
      PROVE  /\ wire' \in Seq(Units)
             /\ \A i \in 1 .. Len(wire') : \E j \in 1 .. Len(wire) : wire'[i] = wire[j]
  <2> DEFINE a == SubSeq(wire, 1, m)
             b == SubSeq(wire, k, Len(wire))
             l == Len(wire) + 1 - k
  <2>1. /\ a \in Seq(Units) /\ Len(a) = m /\ \A i \in 1 .. m : a[i] = wire[i]
    BY <1>1
  <2>2. l \in Nat /\ \A n \in 1 .. l : k + n - 1 \in 1 .. Len(wire)
    BY <1>1
  <2>3. /\ b \in Seq(Units) /\ Len(b) = l
        /\ \A n \in 1 .. l : b[n] = wire[k + n - 1]
    BY <1>1
  <2>4. wire' = a \o b
    BY <1>3
  <2> HIDE DEF a, b, l
  <2>5. wire' \in Seq(Units) /\ Len(wire') = Len(a) + Len(b)
    BY <2>1, <2>3, <2>4, ConcatProperties, Zenon
  <2>6. \A i \in 1 .. Len(a) + Len(b) : wire'[i] = IF i <= Len(a) THEN a[i] ELSE b[i - Len(a)]
    BY <2>1, <2>3, <2>4, ConcatProperties, Zenon
  <2>7. ASSUME NEW i \in 1 .. Len(wire') PROVE \E j \in 1 .. Len(wire) : wire'[i] = wire[j]
    <3>1. CASE i <= m
      BY <1>1, <2>1, <2>5, <2>6, <3>1
    <3>2. CASE ~(i <= m)
      <4> DEFINE n == i - m
      <4>1. n \in 1 .. l /\ wire'[i] = b[n]
        <5>1. i \in 1 .. m + l /\ m \in Nat /\ l \in Nat
          BY <1>1, <2>1, <2>2, <2>3, <2>5
        <5>2. wire'[i] = b[i - m]
          BY <2>1, <2>3, <2>5, <2>6, <3>2
        <5> QED BY <3>2, <5>1, <5>2
      <4> HIDE DEF n
      <4> QED BY <2>2, <2>3, <4>1
    <3> QED BY <3>1, <3>2
  <2> QED BY <2>5, <2>7
<1>4. ASSUME NEW k \in 1 .. Len(wire), wire' = [wire EXCEPT ![k] = Torn]
      PROVE  /\ wire' \in Seq(Units)
             /\ \A i \in 1 .. Len(wire') :
                  wire'[i] = Torn \/ \E j \in 1 .. Len(wire) : wire'[i] = wire[j]
  <2>1. wire' \in Seq(Units) /\ Len(wire') = Len(wire)
    BY <1>1, <1>4, TornType
  <2>2. \A i \in 1 .. Len(wire) : wire'[i] = IF i = k THEN Torn ELSE wire[i]
    BY <1>1, <1>4
  <2> QED BY <2>1, <2>2
<1> QED BY <1>3, <1>4 DEF Damage

-----------------------------------------------------------------------------
(* One lemma for each action *)

\* A fresh layer.
LEMMA InitIInv == Init => IInv
<1> SUFFICES ASSUME Init PROVE IInv
  OBVIOUS
<1>1. TypeOK
  BY TornType, RecordAssumption DEF Init, TypeOK, Epochs
<1>2. SeqCounts /\ Writing /\ Receiving /\ Transit
  BY DEF Init, SeqCounts, Writing, Receiving, Transit, Epochs
<1> QED BY <1>1, <1>2 DEF IInv

\* Seal.
LEMMA SealIInv ==
  ASSUME IInv, NEW r \in Records, Seal(r)
  PROVE  IInv'
<1> USE DEF IInv
<1>1. out' \in Units
  BY DEF Seal, TypeOK, Unit, Units
<1>2. TypeOK'
  BY <1>1 DEF Seal, TypeOK, recvVars
<1>3. SeqCounts' /\ Receiving'
  BY DEF Seal, SeqCounts, Receiving, recvVars
<1>4. Writing'
  BY DEF Seal, Writing, Unit
<1>5. Transit'
  BY DEF Seal, Transit, Genuine
<1> QED BY <1>2, <1>3, <1>4, <1>5

\* The header goes out.
LEMMA WriteHeaderIInv ==
  ASSUME IInv, WriteHeader
  PROVE  IInv'
<1> USE DEF IInv
<1> DEFINE h == [out EXCEPT !.kind = "header"]
<1>1. h \in Units /\ Genuine(h)
  BY DEF TypeOK, Units, Genuine
<1> HIDE DEF h
<1>2. wire' = Append(wire, h)
  BY DEF WriteHeader, h
<1>3. TypeOK'
  BY <1>1, <1>2 DEF WriteHeader, TypeOK, recvVars
<1>4. SeqCounts' /\ Receiving' /\ Writing'
  BY DEF WriteHeader, SeqCounts, Receiving, Writing, recvVars
<1>5. Transit'
  <2>1. \A i \in 1 .. Len(wire') : Genuine(wire'[i])
    BY <1>1, <1>2, AppendTransit
  <2>2. sent' = sent
    BY DEF WriteHeader
  <2> QED BY <2>1, <2>2 DEF Transit, Genuine
<1> QED BY <1>3, <1>4, <1>5

\* The fragment goes out.
LEMMA WriteFragmentIInv ==
  ASSUME IInv, WriteFragment
  PROVE  IInv'
<1> USE DEF IInv
<1>1. /\ out \in Units /\ out.kind = "fragment" /\ out.ep = sendEp /\ out.seq = sendSeq
      /\ out.rec \in Records /\ sendSeq \in Nat /\ sendSeq < MaxSeq
      /\ sent \in [Epochs -> Seq(Records)] /\ sendEp \in Epochs
      /\ sendSeq = Len(sent[sendEp])
  BY RecordAssumption DEF WriteFragment, Writing, TypeOK, SeqCounts
<1>2. sendSeq' = sendSeq + 1
  <2>1. sendSeq' = (sendSeq + 1) % (MaxSeq + 1)
    BY DEF WriteFragment
  <2>2. sendSeq + 1 \in Nat /\ MaxSeq + 1 \in Nat /\ sendSeq + 1 < MaxSeq + 1
    BY <1>1, RecordAssumption
  <2> QED BY <2>1, <2>2, SmallMod
<1>3. /\ sent'[sendEp] = Append(sent[sendEp], out.rec)
      /\ sent' \in [Epochs -> Seq(Records)]
      /\ \A e \in Epochs \ {sendEp} : sent'[e] = sent[e]
  BY <1>1 DEF WriteFragment
<1>4. TypeOK'
  BY <1>1, <1>2, <1>3, RecordAssumption DEF WriteFragment, TypeOK, recvVars
<1>5. SeqCounts'
  BY <1>1, <1>2, <1>3 DEF WriteFragment, SeqCounts, recvVars
<1>6. Writing' /\ Receiving'
  BY <1>1, <1>3 DEF WriteFragment, Writing, Receiving, recvVars, Epochs
<1>7. Transit'
  <2>1. sent'[1] = sent[1] \/ \E r \in Records : sent'[1] = Append(sent[1], r)
    BY <1>1, <1>3 DEF Epochs
  <2>2. \A i \in 1 .. Len(wire) : wire[i] \in Units /\ Genuine(wire[i])
    BY DEF TypeOK, Transit
  <2>3. \A i \in 1 .. Len(wire) : Genuine(wire[i])'
    <3> TAKE i \in 1 .. Len(wire)
    <3> DEFINE u == wire[i]
    <3>1. u \in Units /\ Genuine(u)
      BY <2>2
    <3>2. u.kind = "fragment" /\ u.ep = 1 =>
            u.seq + 1 \in 1 .. Len(sent'[1]) /\ sent'[1][u.seq + 1] = u.rec
      BY <3>1, <2>1, GenuineStays DEF Genuine
    <3>3. wire'[i] = u
      BY DEF WriteFragment, TypeOK
    <3> QED BY <3>2, <3>3 DEF Genuine
  <2>4. out.ep = 1 => out.seq + 1 \in 1 .. Len(sent'[1]) /\ sent'[1][out.seq + 1] = out.rec
    BY <1>1, <1>3
  <2>5. \A i \in 1 .. Len(wire') :
          wire'[i] = out \/ (i \in 1 .. Len(wire) /\ wire'[i] = wire[i])
    BY <1>1 DEF WriteFragment, TypeOK
  <2> QED BY <2>3, <2>4, <2>5 DEF Transit, Genuine
<1> QED BY <1>4, <1>5, <1>6, <1>7

\* A write fails.
LEMMA WriteErrorIInv ==
  ASSUME IInv, WriteError
  PROVE  IInv'
<1> USE DEF IInv
<1>1. wire' \in Seq(Units) /\ \A i \in 1 .. Len(wire') : Genuine(wire'[i])
  <2>1. CASE wire' = wire
    BY <2>1 DEF TypeOK, Transit
  <2>2. CASE wire' = Append(wire, Torn)
    BY <2>2, TornType, AppendTransit DEF TypeOK
  <2> QED BY <2>1, <2>2 DEF WriteError
<1>2. TypeOK'
  BY <1>1, RecordAssumption DEF WriteError, TypeOK, recvVars
<1>3. SeqCounts' /\ Writing' /\ Receiving'
  BY DEF WriteError, SeqCounts, Writing, Receiving, recvVars
<1>4. Transit'
  BY <1>1 DEF WriteError, Transit, Genuine
<1> QED BY <1>2, <1>3, <1>4

\* ChangeCipherSpec of the sender.
LEMMA SwitchSendIInv ==
  ASSUME IInv, SwitchSend
  PROVE  IInv'
<1> USE DEF IInv
<1>1. TypeOK'
  BY RecordAssumption DEF SwitchSend, TypeOK, recvVars, Epochs
<1>2. SeqCounts' /\ Writing' /\ Receiving'
  BY DEF SwitchSend, SeqCounts, Writing, Receiving, recvVars
<1>3. Transit'
  BY DEF SwitchSend, Transit, Genuine
<1> QED BY <1>1, <1>2, <1>3

\* A header is read.
LEMMA ReadHeaderIInv ==
  ASSUME IInv, ReadHeader
  PROVE  IInv'
<1> USE DEF IInv
<1>1. CASE UNCHANGED <<wire, hdr>>
  <2>1. TypeOK'
    BY <1>1 DEF ReadHeader, ReadVars, sendVars, TypeOK
  <2>2. Transit'
    BY <1>1 DEF ReadHeader, ReadVars, Transit, Genuine
  <2> QED BY <2>1, <2>2 DEF ReadHeader, ReadVars, sendVars, SeqCounts, Writing, Receiving
<1>2. CASE recvSeq # MaxSeq /\ wire # <<>> /\ wire' = Tail(wire) /\ hdr' = Head(wire)
  <2>1. /\ Head(wire) \in Units /\ Tail(wire) \in Seq(Units)
        /\ \A i \in 1 .. Len(wire') : Genuine(wire'[i])
    BY <1>2, TailTransit
  <2>2. TypeOK'
    BY <1>2, <2>1 DEF ReadHeader, ReadVars, sendVars, TypeOK
  <2>3. SeqCounts' /\ Writing' /\ Receiving'
    BY <1>2 DEF ReadHeader, ReadVars, sendVars, SeqCounts, Writing, Receiving
  <2>4. Transit'
    BY <1>2, <2>1 DEF ReadHeader, ReadVars, Transit, Genuine
  <2> QED BY <2>2, <2>3, <2>4
<1> QED BY <1>1, <1>2 DEF ReadHeader

\* What ReadFragment does: it fails, or the record it returns is, with
\* protection on, the next one that was sent.
LEMMA ReadFragmentStep ==
  ASSUME IInv, ReadFragment
  PROVE  \/ Fail
         \/ \E r \in Records \cup {Junk} :
              /\ Deliver(r)
              /\ recvEp = 1 => recvSeq < Len(sent[1]) /\ r = sent[1][recvSeq + 1]
<1> USE DEF IInv
<1> DEFINE u == Head(wire)
<1>1. u \in Units /\ Genuine(u) /\ recvEp \in Epochs /\ recvSeq \in Nat
  BY TailTransit DEF ReadFragment, TypeOK
<1>2. Junk \in Records \cup {Junk} /\ u.rec \in Records \cup {Junk}
  BY <1>1 DEF Units
<1>3. CASE recvEp = 0
  <2>1. Deliver(u.rec) \/ Deliver(Junk)
    BY <1>3 DEF ReadFragment
  <2>2. recvEp # 1
    BY <1>3
  <2> QED BY <1>2, <2>1, <2>2
<1>4. CASE recvEp = 1 /\ Opens(u)
  <2>1. Deliver(u.rec)
    BY <1>4 DEF ReadFragment
  <2>2. recvSeq + 1 \in 1 .. Len(sent[1]) /\ sent[1][recvSeq + 1] = u.rec
    BY <1>1, <1>4 DEF Opens, Genuine
  <2>3. recvSeq < Len(sent[1])
    BY <1>1, <2>2
  <2> QED BY <1>2, <2>1, <2>2, <2>3
<1>5. CASE recvEp = 1 /\ ~Opens(u)
  BY <1>5 DEF ReadFragment
<1> QED BY <1>1, <1>3, <1>4, <1>5 DEF Epochs

\* A fragment is read.
LEMMA ReadFragmentIInv ==
  ASSUME IInv, ReadFragment
  PROVE  IInv'
<1> USE DEF IInv
<1>1. /\ wire' = Tail(wire) /\ Tail(wire) \in Seq(Units)
      /\ \A i \in 1 .. Len(wire') : Genuine(wire'[i])
  BY TailTransit DEF ReadFragment
<1>2. /\ UNCHANGED <<stateful, sendEp, sendSeq, sendPos, wpc, out, errors, faults, sent>>
      /\ UNCHANGED <<recvEp, hdr>> /\ recvPos' = recvPos + 1 /\ rpc = "fragment"
  BY DEF ReadFragment, ReadVars, sendVars
<1>3. CASE Fail
  <2>1. TypeOK'
    BY <1>1, <1>2, <1>3 DEF Fail, TypeOK
  <2> QED BY <1>1, <1>2, <1>3, <2>1
          DEF Fail, SeqCounts, Writing, Receiving, Transit, Genuine
<1>4. ASSUME NEW r \in Records \cup {Junk}, Deliver(r) PROVE IInv'
  <2>1. recvSeq \in Nat /\ recvSeq < MaxSeq /\ recvEp \in Epochs
    BY <1>2, RecordAssumption DEF TypeOK, Receiving
  <2>2. recvSeq' = recvSeq + 1
    <3>1. recvSeq' = (recvSeq + 1) % (MaxSeq + 1)
      BY <1>4 DEF Deliver
    <3>2. recvSeq + 1 \in Nat /\ MaxSeq + 1 \in Nat /\ recvSeq + 1 < MaxSeq + 1
      BY <2>1, RecordAssumption
    <3> QED BY <3>1, <3>2, SmallMod
  <2>3. /\ delivered' \in [Epochs -> Seq(Records \cup {Junk})]
        /\ delivered'[recvEp] = Append(delivered[recvEp], r)
        /\ recvEp = 0 => delivered'[1] = delivered[1]
        /\ delivered[recvEp] \in Seq(Records \cup {Junk})
    <3>1. /\ delivered \in [Epochs -> Seq(Records \cup {Junk})]
          /\ delivered' = [delivered EXCEPT ![recvEp] = Append(@, r)]
      BY <1>4 DEF Deliver, TypeOK
    <3>2. /\ delivered[recvEp] \in Seq(Records \cup {Junk})
          /\ Append(delivered[recvEp], r) \in Seq(Records \cup {Junk})
      BY <2>1, <3>1
    <3> QED BY <2>1, <3>1, <3>2 DEF Epochs
  <2>4. TypeOK'
    BY <1>1, <1>2, <1>4, <2>1, <2>2, <2>3, RecordAssumption DEF Deliver, TypeOK
  <2>5. SeqCounts'
    BY <1>2, <2>2, <2>3 DEF SeqCounts
  <2> QED BY <1>1, <1>2, <1>4, <2>3, <2>4, <2>5
          DEF Deliver, Writing, Receiving, Transit, Genuine
<1> QED BY <1>3, <1>4, ReadFragmentStep

\* ChangeCipherSpec of the receiver.
LEMMA SwitchRecvIInv ==
  ASSUME IInv, SwitchRecv
  PROVE  IInv'
<1> USE DEF IInv
<1>1. TypeOK'
  BY RecordAssumption DEF SwitchRecv, ReadVars, sendVars, TypeOK, Epochs
<1>2. SeqCounts' /\ Writing' /\ Receiving'
  BY DEF SwitchRecv, ReadVars, sendVars, SeqCounts, Writing, Receiving
<1>3. Transit'
  BY DEF SwitchRecv, ReadVars, Transit, Genuine
<1> QED BY <1>1, <1>2, <1>3

\* The network damages what it carries.
LEMMA DamageIInv ==
  ASSUME IInv, Damage
  PROVE  IInv'
<1> USE DEF IInv
<1>1. wire' \in Seq(Units) /\ \A i \in 1 .. Len(wire') : Genuine(wire'[i])
  BY DamageTransit
<1>2. TypeOK'
  BY <1>1, RecordAssumption DEF Damage, TypeOK, sendVars, recvVars
<1>3. SeqCounts' /\ Writing' /\ Receiving'
  BY DEF Damage, SeqCounts, Writing, Receiving, sendVars, recvVars
<1>4. Transit'
  BY <1>1 DEF Damage, Transit, Genuine
<1> QED BY <1>2, <1>3, <1>4

\* Every step keeps the invariant.
LEMMA NextIInv == IInv /\ [Next]_vars => IInv'
<1> SUFFICES ASSUME IInv, [Next]_vars PROVE IInv'
  OBVIOUS
<1>1. CASE UNCHANGED vars
  BY <1>1 DEF vars, sendVars, recvVars, IInv, TypeOK, SeqCounts, Writing, Receiving, Transit, Genuine
<1>2. CASE Next
  BY <1>2, SealIInv, WriteHeaderIInv, WriteFragmentIInv, WriteErrorIInv, SwitchSendIInv,
     ReadHeaderIInv, ReadFragmentIInv, SwitchRecvIInv, DamageIInv DEF Next
<1> QED BY <1>1, <1>2

-----------------------------------------------------------------------------
(* The theorems *)

\* The inductive invariant of the record layer (record.go, WriteRecord,
\* ReadRecord and ChangeCipherSpec) holds in every reachable state.
THEOREM Invariance == Spec => []IInv
BY InitIInv, NextIInv, PTL DEF Spec

\* The sequence numbers of WriteRecord and ReadRecord count the records of
\* their epoch, for every MaxSeq: none is ever used twice under a key.
THEOREM SeqCountsHolds == Spec => []SeqCounts
<1>1. IInv => SeqCounts
  BY DEF IInv
<1> QED BY <1>1, Invariance, PTL

\* The record layer implements the channel: with protection on, ReadRecord
\* returns the records that WriteRecord completed, in order and each once.
THEOREM Refinement == Spec => ImplementsChannel
<1> USE DEF IInv
<1>1. Init => Channel!Init
  BY DEF Init, Channel!Init, Epochs
<1>2. IInv /\ [Next]_vars => [Channel!Next]_<<sent[1], delivered[1]>>
  <2> SUFFICES ASSUME IInv, [Next]_vars
               PROVE  Channel!Next \/ (sent[1]' = sent[1] /\ delivered[1]' = delivered[1])
    OBVIOUS
  <2>1. CASE WriteFragment
    <3>1. delivered' = delivered /\ out.rec \in Records /\ sendEp \in Epochs
      BY <2>1 DEF WriteFragment, Writing, TypeOK
    <3>2. CASE sendEp = 1
      <4>1. sent'[1] = Append(sent[1], out.rec)
        BY <2>1, <3>2 DEF WriteFragment, TypeOK, Epochs
      <4> QED BY <3>1, <4>1 DEF Channel!Next, Channel!Send
    <3>3. CASE sendEp = 0
      BY <2>1, <3>1, <3>3 DEF WriteFragment, TypeOK
    <3> QED BY <3>1, <3>2, <3>3 DEF Epochs
  <2>2. CASE ReadFragment
    <3>1. sent' = sent /\ recvEp \in Epochs
      BY <2>2 DEF ReadFragment, ReadVars, TypeOK
    <3>2. CASE Fail
      BY <3>1, <3>2 DEF Fail
    <3>3. ASSUME NEW r \in Records \cup {Junk}, Deliver(r),
                 recvEp = 1 => recvSeq < Len(sent[1]) /\ r = sent[1][recvSeq + 1]
          PROVE  Channel!Next \/ (sent[1]' = sent[1] /\ delivered[1]' = delivered[1])
      <4>1. CASE recvEp = 0
        BY <3>1, <3>3, <4>1 DEF Deliver, TypeOK
      <4>2. CASE recvEp = 1
        <5>1. delivered'[1] = Append(delivered[1], r) /\ recvSeq = Len(delivered[1])
          BY <3>3, <4>2 DEF Deliver, TypeOK, SeqCounts, Epochs
        <5> QED BY <3>1, <3>3, <4>2, <5>1 DEF Channel!Next, Channel!Deliver
      <4> QED BY <3>1, <4>1, <4>2 DEF Epochs
    <3> QED BY <2>2, <3>2, <3>3, ReadFragmentStep
  <2>3. CASE UNCHANGED <<sent, delivered>>
    BY <2>3
  <2> QED BY <2>1, <2>2, <2>3
          DEF Next, vars, Seal, WriteHeader, WriteError, SwitchSend, ReadHeader, SwitchRecv, Damage, ReadVars
<1> QED BY <1>1, <1>2, Invariance, PTL DEF Spec, ImplementsChannel, Channel!Spec

-----------------------------------------------------------------------------
(* What a faithful stream carries *)

\* A faithful stream, all in one.
Clean == IInv /\ faults = 0 /\ errors = 0 /\ rpc # "failed" /\ NoSpuriousFailure /\ InOrder

\* What it comes to in a next state.
Cleaner == NoSpuriousFailure' /\ (rpc' # "failed" => InOrder')

\* What was sent before, s, is still where it was in t.
Extends(s, t) ==
  \A e \in Epochs : /\ Len(s[e]) \in Nat /\ Len(t[e]) \in Nat /\ Len(s[e]) <= Len(t[e])
                    /\ \A i \in 1 .. Len(s[e]) : t[e][i] = s[e][i]

\* Completing a record leaves the earlier ones where they are.
LEMMA SentStays ==
  ASSUME NEW s \in [Epochs -> Seq(Records)], NEW t,
         t = s \/ \E e \in Epochs, r \in Records : t = [s EXCEPT ![e] = Append(@, r)]
  PROVE  Extends(s, t)
<1>1. \A e \in Epochs : s[e] \in Seq(Records)
  OBVIOUS
<1>2. CASE t = s
  BY <1>1, <1>2 DEF Extends
<1>3. ASSUME NEW f \in Epochs, NEW r \in Records, t = [s EXCEPT ![f] = Append(@, r)],
             NEW e \in Epochs
      PROVE  /\ Len(s[e]) \in Nat /\ Len(t[e]) \in Nat /\ Len(s[e]) <= Len(t[e])
             /\ \A i \in 1 .. Len(s[e]) : t[e][i] = s[e][i]
  <2>1. CASE e = f
    <3>1. t[e] = Append(s[e], r)
      BY <1>3, <2>1
    <3> QED BY <1>1, <3>1
  <2>2. CASE e # f
    <3>1. t[e] = s[e]
      BY <1>3, <2>2
    <3> QED BY <1>1, <3>1
  <2> QED BY <2>1, <2>2
<1> QED BY <1>2, <1>3 DEF Extends

\* So a sound unit stays sound.
LEMMA SoundStays ==
  ASSUME NEW u \in Units, NEW s, NEW t, Sound(u, s), Extends(s, t)
  PROVE  Sound(u, t)
<1>1. u.ep \in Epochs /\ u.seq \in Nat
  BY DEF Units
<1> QED BY <1>1 DEF Sound, Extends

\* And what was delivered stays a prefix of what was sent.
LEMMA PrefixStays ==
  ASSUME delivered \in [Epochs -> Seq(Records \cup {Junk})], NoSpuriousFailure,
         faults = 0, errors = 0, UNCHANGED <<recvSeq, delivered>>, Extends(sent, sent'),
         rpc' = "failed" => rpc = "failed" \/ recvSeq = MaxSeq
  PROVE  NoSpuriousFailure'
<1>1. rpc' = "failed" => recvSeq' = MaxSeq
  BY DEF NoSpuriousFailure
<1>2. ASSUME NEW e \in Epochs
      PROVE  /\ Len(delivered'[e]) <= Len(sent'[e])
             /\ \A i \in 1 .. Len(delivered'[e]) : delivered'[e][i] = sent'[e][i]
  <2>1. delivered' = delivered /\ Len(delivered[e]) \in Nat
    OBVIOUS
  <2>2. /\ Len(delivered[e]) <= Len(sent[e])
        /\ \A i \in 1 .. Len(delivered[e]) : delivered[e][i] = sent[e][i]
    BY DEF NoSpuriousFailure
  <2>3. /\ Len(sent[e]) \in Nat /\ Len(sent'[e]) \in Nat /\ Len(sent[e]) <= Len(sent'[e])
        /\ \A i \in 1 .. Len(sent[e]) : sent'[e][i] = sent[e][i]
    BY DEF Extends
  <2>4. \A i \in 1 .. Len(delivered[e]) : i \in 1 .. Len(sent[e])
    BY <2>1, <2>2, <2>3
  <2>5. \A i \in 1 .. Len(delivered[e]) : delivered[e][i] = sent'[e][i]
    BY <2>2, <2>3, <2>4
  <2>6. Len(delivered[e]) <= Len(sent'[e])
    BY <2>1, <2>2, <2>3
  <2> QED BY <2>1, <2>5, <2>6
<1> QED BY <1>1, <1>2 DEF NoSpuriousFailure

\* A unit at the end of the chain.
LEMMA ChainAppend ==
  ASSUME NEW w \in Seq(Units), NEW s, NEW t, Chain(w, s), Extends(s, t),
         NEW u \in Units, Sound(u, t), w # <<>> => Precedes(w[Len(w)], u)
  PROVE  /\ Chain(Append(w, u), t)
         /\ Append(w, u) # <<>> /\ Append(w, u)[Len(Append(w, u))] = u
         /\ Append(w, u)[1] = IF w = <<>> THEN u ELSE w[1]
<1> DEFINE n == Len(w)
           x == Append(w, u)
<1>1. n \in Nat /\ (w # <<>> <=> n > 0)
  OBVIOUS
<1>2. Len(x) = n + 1 /\ x[n + 1] = u /\ x # <<>>
  <2>1. x \in Seq(Units) /\ Len(x) = n + 1 /\ x[n + 1] = u
    OBVIOUS
  <2>2. x # <<>> <=> Len(x) # 0
    BY <2>1, EmptySeq, Zenon
  <2> QED BY <1>1, <2>1, <2>2
<1>3. \A i \in 1 .. n : x[i] = w[i] /\ w[i] \in Units
  OBVIOUS
<1> HIDE DEF n, x
<1>4. ASSUME NEW i \in 1 .. n + 1 PROVE Sound(x[i], t)
  <2>1. CASE i = n + 1
    BY <1>2, <2>1
  <2>2. CASE i # n + 1
    <3>1. i \in 1 .. n
      BY <1>1, <2>2
    <3>2. Sound(w[i], s)
      BY <3>1 DEF Chain, n
    <3> QED BY <1>3, <3>1, <3>2, SoundStays
  <2> QED BY <2>1, <2>2
<1>5. ASSUME NEW i \in 1 .. n PROVE Precedes(x[i], x[i + 1])
  <2>1. CASE i = n
    <3>1. x[i] = w[n] /\ x[i + 1] = u /\ w # <<>>
      BY <1>1, <1>2, <1>3, <2>1
    <3> QED BY <3>1 DEF n
  <2>2. CASE i # n
    <3>1. i \in 1 .. n - 1 /\ i + 1 \in 1 .. n
      BY <1>1, <2>2
    <3>2. x[i] = w[i] /\ x[i + 1] = w[i + 1]
      BY <1>3, <3>1
    <3> QED BY <3>1, <3>2 DEF Chain, n
  <2> QED BY <2>1, <2>2
<1>6. Chain(x, t)
  <2>1. Len(x) - 1 = n
    BY <1>1, <1>2
  <2> QED BY <1>2, <1>4, <1>5, <2>1 DEF Chain
<1>7. x[1] = IF w = <<>> THEN u ELSE w[1]
  <2>1. CASE w = <<>>
    BY <1>1, <1>2, <2>1
  <2>2. CASE w # <<>>
    BY <1>1, <1>3, <2>2
  <2> QED BY <2>1, <2>2
<1> QED BY <1>2, <1>6, <1>7 DEF x

\* The first unit of the chain is read.
LEMMA ChainTail ==
  ASSUME NEW w \in Seq(Units), NEW s, Chain(w, s), w # <<>>
  PROVE  /\ Chain(Tail(w), s) /\ Head(w) = w[1] /\ w[1] \in Units /\ Sound(w[1], s)
         /\ Tail(w) # <<>> => /\ Precedes(w[1], Tail(w)[1])
                              /\ Tail(w)[Len(Tail(w))] = w[Len(w)]
         /\ Tail(w) = <<>> => w[Len(w)] = w[1]
<1> DEFINE n == Len(w)
           x == Tail(w)
<1>1. n \in Nat /\ n > 0 /\ Head(w) = w[1] /\ w[1] \in Units
  OBVIOUS
<1>2. Len(x) = n - 1 /\ \A i \in 1 .. n - 1 : x[i] = w[i + 1]
  OBVIOUS
<1>3. x # <<>> <=> n > 1
  <2>1. x \in Seq(Units)
    OBVIOUS
  <2>2. x # <<>> <=> Len(x) # 0
    BY <2>1, EmptySeq, Zenon
  <2> QED BY <1>1, <1>2, <2>2
<1> HIDE DEF n, x
<1>5. Sound(w[1], s)
  BY <1>1 DEF Chain, n
<1>6. ASSUME NEW i \in 1 .. n - 1 PROVE Sound(x[i], s)
  <2>1. i + 1 \in 1 .. n /\ x[i] = w[i + 1]
    BY <1>1, <1>2
  <2> QED BY <2>1 DEF Chain, n
<1>7. ASSUME NEW i \in 1 .. (n - 1) - 1 PROVE Precedes(x[i], x[i + 1])
  <2>1. i + 1 \in 1 .. n - 1 /\ x[i] = w[i + 1] /\ x[i + 1] = w[(i + 1) + 1]
    BY <1>1, <1>2
  <2> QED BY <2>1 DEF Chain, n
<1>8. Chain(x, s)
  BY <1>2, <1>6, <1>7 DEF Chain
<1>9. ASSUME x # <<>>
      PROVE  Precedes(w[1], x[1]) /\ x[Len(x)] = w[Len(w)]
  <2>1. 1 \in 1 .. n - 1 /\ n - 1 \in 1 .. n - 1 /\ (n - 1) + 1 = n
    BY <1>1, <1>3, <1>9
  <2>2. x[1] = w[1 + 1] /\ x[n - 1] = w[n]
    BY <1>2, <2>1
  <2>3. Precedes(w[1], w[1 + 1])
    BY <2>1 DEF Chain, n
  <2> QED BY <1>2, <2>2, <2>3 DEF n
<1>10. x = <<>> => n = 1
  BY <1>1, <1>3
<1> QED BY <1>1, <1>5, <1>8, <1>9, <1>10 DEF n, x

-----------------------------------------------------------------------------
(* Each action keeps a faithful stream in order *)

\* Sealing makes the record of the sender's place.
LEMMA SealOrder ==
  ASSUME Clean, NEW r \in Records, Seal(r)
  PROVE  InOrder'
<1>1. /\ wpc = "idle" /\ wpc' = "header" /\ sendPos' = sendPos + 1
      /\ out' = Unit("fragment", sendEp, sendSeq, sendPos, r)
      /\ UNCHANGED <<wire, recvVars, sent>>
  BY DEF Seal
<1>2. Place(out') = <<sendEp, sendSeq, sendPos>> /\ out'.pos = sendPos
  BY <1>1 DEF Place, Unit
<1>3. SendPlace' = SendPlace
  BY <1>1, <1>2 DEF SendPlace, Place
<1>4. RecvPlace' = RecvPlace
  BY <1>1 DEF RecvPlace, recvVars
<1>5. Chain(wire, sent) /\ AtReceiver /\ AtSender
  BY DEF Clean, InOrder
<1>6. Chain(wire, sent)'
  BY <1>1, <1>5
<1>7. AtReceiver'
  BY <1>1, <1>3, <1>4, <1>5 DEF AtReceiver, recvVars, Pair, Place
<1>8. AtSender'
  BY <1>1, <1>2, <1>3, <1>5 DEF AtSender, After
<1> QED BY <1>6, <1>7, <1>8 DEF InOrder

\* So does the sender's ChangeCipherSpec.
LEMMA SwitchSendOrder ==
  ASSUME Clean, SwitchSend
  PROVE  InOrder'
<1>1. /\ wpc = "switch" /\ wpc' = "idle" /\ sendEp' = 1 /\ sendSeq' = 0 /\ sendPos' = 0
      /\ UNCHANGED <<out, wire, recvVars, sent>>
  BY DEF SwitchSend
<1>3. SendPlace' = SendPlace
  BY <1>1 DEF SendPlace
<1>4. RecvPlace' = RecvPlace
  BY <1>1 DEF RecvPlace, recvVars
<1>5. Chain(wire, sent) /\ AtReceiver /\ AtSender
  BY DEF Clean, InOrder
<1>6. Chain(wire, sent)'
  BY <1>1, <1>5
<1>7. AtReceiver'
  BY <1>1, <1>3, <1>4, <1>5 DEF AtReceiver, recvVars, Pair, Place
<1>8. AtSender'
  BY <1>1, <1>3, <1>5 DEF AtSender, After
<1> QED BY <1>6, <1>7, <1>8 DEF InOrder

\* And the receiver's.
LEMMA SwitchRecvOrder ==
  ASSUME Clean, SwitchRecv
  PROVE  InOrder'
<1>1. /\ rpc = "switch" /\ rpc' = "header" /\ recvEp' = 1 /\ recvSeq' = 0 /\ recvPos' = 0
      /\ UNCHANGED <<sendVars, wire, hdr, sent>>
  BY DEF SwitchRecv, ReadVars
<1>3. SendPlace' = SendPlace
  BY <1>1 DEF SendPlace, sendVars, Place
<1>4. RecvPlace' = RecvPlace
  BY <1>1 DEF RecvPlace
<1>5. Chain(wire, sent) /\ AtReceiver /\ AtSender
  BY DEF Clean, InOrder
<1>6. Chain(wire, sent)'
  BY <1>1, <1>5
<1>7. AtReceiver'
  BY <1>1, <1>3, <1>4, <1>5 DEF AtReceiver, sendVars, Pair, Place
<1>8. AtSender'
  BY <1>1, <1>3, <1>5 DEF AtSender, sendVars, After, Pair, Place
<1> QED BY <1>6, <1>7, <1>8 DEF InOrder

\* The header goes to the end of the chain.
LEMMA WriteHeaderOrder ==
  ASSUME Clean, WriteHeader
  PROVE  InOrder'
<1> DEFINE h == [out EXCEPT !.kind = "header"]
<1>0. TypeOK /\ Writing /\ Chain(wire, sent) /\ AtReceiver /\ AtSender
  BY DEF Clean, IInv, InOrder
<1>1. /\ wpc = "header" /\ wpc' = "fragment" /\ wire' = Append(wire, h)
      /\ UNCHANGED <<sendEp, sendSeq, sendPos, out, recvVars, sent>>
  BY DEF WriteHeader
<1>2. /\ wire \in Seq(Units) /\ out \in Units /\ sent \in [Epochs -> Seq(Records)]
      /\ out.kind = "fragment" /\ out.rec \in Records /\ (out.rec.ct = "ccs" => out.ep = 0)
  BY <1>0, <1>1 DEF TypeOK, Writing
<1>3. h \in Units /\ h.kind = "header" /\ Place(h) = Place(out) /\ h.rec = out.rec /\ h.ep = out.ep
  BY <1>2 DEF Units, Place
<1> HIDE DEF h
<1>4. Sound(h, sent) /\ Pair(h, out)
  BY <1>2, <1>3 DEF Sound, Pair
<1>5. SendPlace = Place(out) /\ SendPlace' = Place(out) /\ RecvPlace' = RecvPlace
  BY <1>1 DEF SendPlace, RecvPlace, recvVars, Place
<1>6. wire # <<>> => Precedes(wire[Len(wire)], h)
  BY <1>0, <1>1, <1>3, <1>5 DEF AtSender, Precedes
<1>7. Extends(sent, sent)
  BY <1>2, SentStays
<1>8. /\ Chain(wire', sent) /\ wire' # <<>> /\ wire'[Len(wire')] = h
      /\ wire'[1] = IF wire = <<>> THEN h ELSE wire[1]
  <2>1. Chain(wire, sent) /\ wire' = Append(wire, h) /\ wire \in Seq(Units) /\ h \in Units
    BY <1>0, <1>1, <1>2, <1>3
  <2> QED BY ONLY <2>1, <1>4, <1>6, <1>7, ChainAppend
<1>9. AtSender'
  <2>1. sendPos' = out'.pos + 1
    BY <1>0, <1>1 DEF AtSender
  <2>2. Pair(h, out')
    BY <1>1, <1>4
  <2> QED BY <1>1, <1>8, <2>1, <2>2 DEF AtSender, Pair, Place
<1>10. AtReceiver'
  <2>1. rpc' = rpc /\ hdr' = hdr
    BY <1>1 DEF recvVars
  <2>2. CASE wire = <<>>
    <3>1. rpc # "fragment" /\ Place(h) = RecvPlace'
      BY <1>0, <1>1, <1>3, <1>5, <2>2 DEF AtReceiver
    <3> QED BY <1>3, <1>8, <2>1, <2>2, <3>1 DEF AtReceiver, Place
  <2>3. CASE wire # <<>>
    <3>1. wire'[1] = wire[1]
      BY <1>8, <2>3
    <3> QED BY <1>0, <1>5, <1>8, <2>1, <2>3, <3>1 DEF AtReceiver, Pair, Place
  <2> QED BY <2>2, <2>3
<1> QED BY <1>1, <1>8, <1>9, <1>10 DEF InOrder

\* The fragment completes its record.
LEMMA WriteFragmentOrder ==
  ASSUME Clean, WriteFragment
  PROVE  Cleaner
<1>0. TypeOK /\ SeqCounts /\ Writing /\ Chain(wire, sent) /\ AtReceiver /\ AtSender
  BY DEF Clean, IInv, InOrder
<1>1. /\ wpc = "fragment" /\ wire' = Append(wire, out)
      /\ sendSeq' = (sendSeq + 1) % (MaxSeq + 1)
      /\ wpc' = IF out.rec.ct = "ccs" THEN "switch" ELSE "idle"
      /\ sent' = [sent EXCEPT ![sendEp] = Append(@, out.rec)]
      /\ UNCHANGED <<sendEp, sendPos, out, recvVars, delivered>>
  BY DEF WriteFragment
<1>2. /\ wire \in Seq(Units) /\ out \in Units /\ sent \in [Epochs -> Seq(Records)]
      /\ sendEp \in Epochs /\ sendSeq \in 0 .. MaxSeq /\ sendSeq # MaxSeq
      /\ delivered \in [Epochs -> Seq(Records \cup {Junk})]
      /\ out.kind = "fragment" /\ out.ep = sendEp /\ out.seq = sendSeq
      /\ out.rec \in Records /\ (out.rec.ct = "ccs" => out.ep = 0)
      /\ sendSeq = Len(sent[sendEp])
  BY <1>0, <1>1 DEF TypeOK, Writing, SeqCounts
<1>3. sendSeq' = sendSeq + 1 /\ sendPos = out.pos + 1
  <2>1. sendSeq + 1 \in Nat /\ MaxSeq + 1 \in Nat /\ sendSeq + 1 < MaxSeq + 1
    BY <1>2, RecordAssumption
  <2> QED BY <1>0, <1>1, <2>1, SmallMod DEF AtSender
<1>4. Extends(sent, sent')
  <2>1. \E e \in Epochs, r \in Records : sent' = [sent EXCEPT ![e] = Append(@, r)]
    BY <1>1, <1>2
  <2>2. /\ sent \in [Epochs -> Seq(Records)]
        /\ sent' = sent \/ \E e \in Epochs, r \in Records : sent' = [sent EXCEPT ![e] = Append(@, r)]
    BY <1>2, <2>1
  <2> QED BY ONLY <2>2, SentStays, Zenon
<1>5. Sound(out, sent')
  <2>1. sent'[sendEp] = Append(sent[sendEp], out.rec) /\ sent[sendEp] \in Seq(Records)
    BY <1>1, <1>2
  <2>2. sendSeq + 1 \in 1 .. Len(sent'[sendEp]) /\ sent'[sendEp][sendSeq + 1] = out.rec
    BY <1>2, <2>1
  <2> QED BY <1>2, <2>2 DEF Sound
<1>6. wire # <<>> => Precedes(wire[Len(wire)], out)
  BY <1>0, <1>1 DEF AtSender, Precedes, Pair
<1>7. /\ Chain(wire', sent') /\ wire' # <<>> /\ wire'[Len(wire')] = out
      /\ wire'[1] = IF wire = <<>> THEN out ELSE wire[1]
  <2>1. Chain(wire, sent) /\ wire' = Append(wire, out) /\ wire \in Seq(Units) /\ out \in Units
    BY <1>0, <1>1, <1>2
  <2> QED BY ONLY <2>1, <1>4, <1>5, <1>6, ChainAppend
<1>8. SendPlace' = After(out)
  BY <1>1, <1>2, <1>3 DEF SendPlace, After
<1>9. AtSender'
  BY <1>1, <1>2, <1>7, <1>8 DEF AtSender, After
<1>10. AtReceiver'
  <2>1. rpc' = rpc /\ hdr' = hdr /\ RecvPlace' = RecvPlace
    BY <1>1 DEF recvVars, RecvPlace
  <2>2. CASE wire = <<>>
    <3>1. rpc = "fragment" /\ Pair(hdr, out)
      BY <1>0, <1>1, <2>2 DEF AtReceiver
    <3>2. wire'[1] = out
      BY <1>7, <2>2
    <3> QED BY <1>0, <1>7, <2>1, <3>1, <3>2 DEF AtReceiver, Pair, Place
  <2>3. CASE wire # <<>>
    <3>1. wire'[1] = wire[1]
      BY <1>7, <2>3
    <3> QED BY <1>0, <1>7, <2>1, <2>3, <3>1 DEF AtReceiver, Pair, Place
  <2> QED BY <2>2, <2>3
<1>11. NoSpuriousFailure'
  <2>1. UNCHANGED <<recvSeq, delivered, rpc>>
    BY <1>1 DEF recvVars
  <2> QED BY <1>2, <1>4, <2>1, PrefixStays DEF Clean
<1> QED BY <1>7, <1>9, <1>10, <1>11 DEF Cleaner, InOrder

\* The header read is the one the receiver expects.
LEMMA ReadHeaderOrder ==
  ASSUME Clean, ReadHeader
  PROVE  Cleaner
<1>0. TypeOK /\ Chain(wire, sent) /\ AtReceiver /\ AtSender
  BY DEF Clean, IInv, InOrder
<1>1. rpc = "header" /\ UNCHANGED <<sendVars, sent, recvEp, recvSeq, recvPos, delivered>>
  BY DEF ReadHeader, ReadVars
<1>2. /\ wire \in Seq(Units) /\ sent \in [Epochs -> Seq(Records)]
      /\ delivered \in [Epochs -> Seq(Records \cup {Junk})]
  BY <1>0 DEF TypeOK
<1>3. Extends(sent, sent')
  BY <1>1, <1>2, SentStays
<1>4. CASE recvSeq = MaxSeq /\ rpc' = "failed"
  BY <1>1, <1>2, <1>3, <1>4, PrefixStays DEF Clean, Cleaner
<1>5. CASE /\ recvSeq # MaxSeq /\ wire # <<>>
           /\ wire' = Tail(wire) /\ hdr' = Head(wire)
           /\ rpc' = "fragment" \/ Head(wire).kind # "header"
  <2>1. /\ Chain(wire', sent) /\ Head(wire) = wire[1] /\ Sound(wire[1], sent)
        /\ wire' # <<>> => Precedes(wire[1], wire'[1]) /\ wire'[Len(wire')] = wire[Len(wire)]
        /\ wire' = <<>> => wire[Len(wire)] = wire[1]
    BY ONLY <1>0, <1>2, <1>5, ChainTail
  <2>2. wire[1].kind = "header" /\ Place(wire[1]) = RecvPlace /\ wire[1].rec \in Records
    BY <1>0, <1>1, <1>5, <2>1 DEF AtReceiver, Sound
  <2>3. rpc' = "fragment" /\ hdr' = wire[1]
    BY <1>5, <2>1, <2>2
  <2>4. RecvPlace' = RecvPlace /\ SendPlace' = SendPlace
    BY <1>1, <2>3 DEF RecvPlace, SendPlace, sendVars, Place
  <2>5. CASE wire' = <<>>
    <3>1. wpc = "fragment" /\ Pair(wire[1], out)
      BY <1>0, <1>5, <2>1, <2>2, <2>5 DEF AtSender
    <3>2. AtReceiver'
      BY <1>1, <2>2, <2>3, <2>4, <2>5, <3>1 DEF AtReceiver, sendVars, Pair, Place
    <3>3. AtSender'
      BY <1>0, <1>1, <2>5 DEF AtSender, sendVars
    <3> QED BY <3>2, <3>3, <1>1, <1>2, <1>3, <2>1, <2>3, PrefixStays DEF Clean, Cleaner, InOrder
  <2>6. CASE wire' # <<>>
    <3>1. Pair(wire[1], wire'[1])
      BY <2>1, <2>2, <2>6 DEF Precedes
    <3>2. AtReceiver'
      BY <2>2, <2>3, <2>4, <2>6, <3>1 DEF AtReceiver, Pair, Place
    <3>3. AtSender'
      BY <1>0, <1>1, <1>5, <2>1, <2>4, <2>6 DEF AtSender, sendVars, Pair, Place, After
    <3> QED BY <3>2, <3>3, <1>1, <1>2, <1>3, <2>1, <2>3, PrefixStays DEF Clean, Cleaner, InOrder
  <2> QED BY <2>5, <2>6
<1> QED BY <1>4, <1>5 DEF ReadHeader

\* The fragment read opens, and is the record sent in its place.
LEMMA ReadFragmentOrder ==
  ASSUME Clean, ReadFragment
  PROVE  Cleaner
<1> DEFINE u == wire[1]
<1>0. TypeOK /\ SeqCounts /\ Receiving /\ Chain(wire, sent) /\ AtReceiver /\ AtSender
  BY DEF Clean, IInv, InOrder
<1>1. rpc = "fragment" /\ wire # <<>> /\ wire' = Tail(wire) /\ recvPos' = recvPos + 1
      /\ UNCHANGED <<sendVars, sent, recvEp, hdr>>
  BY DEF ReadFragment, ReadVars
<1>2. /\ wire \in Seq(Units) /\ sent \in [Epochs -> Seq(Records)]
      /\ delivered \in [Epochs -> Seq(Records \cup {Junk})]
      /\ recvEp \in Epochs /\ recvSeq \in 0 .. MaxSeq /\ recvSeq # MaxSeq /\ recvPos \in Nat
      /\ recvSeq = Len(delivered[recvEp])
  BY <1>0, <1>1 DEF TypeOK, SeqCounts, Receiving
<1>3. /\ Chain(wire', sent) /\ Head(wire) = u /\ Sound(u, sent)
      /\ wire' # <<>> => Precedes(u, wire'[1]) /\ wire'[Len(wire')] = wire[Len(wire)]
      /\ wire' = <<>> => wire[Len(wire)] = u
  BY ONLY <1>0, <1>1, <1>2, ChainTail
<1> HIDE DEF u
<1>4. /\ hdr.kind = "header" /\ u.kind = "fragment" /\ u.rec = hdr.rec /\ u.rec \in Records
      /\ u.ep = recvEp /\ u.seq = recvSeq /\ u.pos = recvPos
  BY <1>0, <1>1, <1>3 DEF AtReceiver, Pair, Place, RecvPlace, Sound, u
<1>5. Deliver(u.rec)
  <2>1. recvEp = 1 => Opens(u)
    BY <1>4 DEF Opens
  <2> QED BY <1>2, <1>3, <1>4, <2>1 DEF ReadFragment, Epochs
<1>6. /\ delivered' = [delivered EXCEPT ![recvEp] = Append(@, u.rec)]
      /\ recvSeq' = recvSeq + 1 /\ rpc' = IF u.rec.ct = "ccs" THEN "switch" ELSE "header"
  <2>1. recvSeq + 1 \in Nat /\ MaxSeq + 1 \in Nat /\ recvSeq + 1 < MaxSeq + 1
    BY <1>2, RecordAssumption
  <2> QED BY <1>5, <2>1, SmallMod DEF Deliver
<1>7. RecvPlace' = After(u)
  BY <1>1, <1>4, <1>6 DEF RecvPlace, After
<1>8. SendPlace' = SendPlace
  BY <1>1 DEF SendPlace, sendVars, Place
<1>9. AtSender'
  BY <1>0, <1>1, <1>3, <1>8 DEF AtSender, sendVars, Pair, Place, After
<1>10. AtReceiver'
  <2>1. CASE wire' = <<>>
    <3>1. wpc # "fragment" /\ SendPlace = After(u)
      BY <1>0, <1>1, <1>3, <1>4, <2>1 DEF AtSender, Pair
    <3> QED BY <1>1, <1>6, <1>7, <1>8, <2>1, <3>1 DEF AtReceiver, sendVars
  <2>2. CASE wire' # <<>>
    <3>1. wire'[1].kind = "header" /\ Place(wire'[1]) = After(u)
      BY <1>3, <1>4, <2>2 DEF Precedes
    <3> QED BY <1>6, <1>7, <2>2, <3>1 DEF AtReceiver, Place
  <2> QED BY <2>1, <2>2
<1>11. NoSpuriousFailure'
  <2>1. rpc' # "failed"
    BY <1>6
  <2>2. /\ recvSeq + 1 \in 1 .. Len(sent[recvEp]) /\ sent[recvEp][recvSeq + 1] = u.rec
    BY <1>3, <1>4 DEF Sound
  <2>3. ASSUME NEW e \in Epochs
        PROVE  /\ Len(delivered'[e]) <= Len(sent[e])
               /\ \A i \in 1 .. Len(delivered'[e]) : delivered'[e][i] = sent[e][i]
    <3>1. /\ Len(delivered[e]) <= Len(sent[e])
          /\ \A i \in 1 .. Len(delivered[e]) : delivered[e][i] = sent[e][i]
      BY DEF Clean, NoSpuriousFailure
    <3>2. CASE e = recvEp
      <4>1. delivered'[e] = Append(delivered[e], u.rec) /\ delivered[e] \in Seq(Records \cup {Junk})
        BY <1>2, <1>6, <3>2
      <4>2. /\ Len(delivered'[e]) = recvSeq + 1 /\ delivered'[e][recvSeq + 1] = u.rec
            /\ \A i \in 1 .. recvSeq : delivered'[e][i] = delivered[e][i]
        BY <1>2, <1>4, <3>2, <4>1
      <4>3. Len(sent[e]) \in Nat
        BY <1>2
      <4> QED BY <1>2, <2>2, <3>1, <3>2, <4>2, <4>3
    <3>3. CASE e # recvEp
      <4>1. delivered'[e] = delivered[e]
        BY <1>2, <1>6, <3>3
      <4> QED BY <3>1, <4>1
    <3> QED BY <3>2, <3>3
  <2> QED BY <1>1, <2>1, <2>3 DEF NoSpuriousFailure
<1> QED BY <1>1, <1>3, <1>9, <1>10, <1>11 DEF Cleaner, InOrder

-----------------------------------------------------------------------------
(* A faithful stream *)

\* A failed receiver stays failed, whatever is sent.
LEMMA FailedStep ==
  ASSUME IInv, NoSpuriousFailure, faults = 0, errors = 0, rpc = "failed", Next
  PROVE  Cleaner
<1>1. TypeOK /\ Writing
  BY DEF IInv
<1>2. rpc' = "failed" /\ UNCHANGED <<recvSeq, delivered>>
  BY DEF Next, Seal, WriteHeader, WriteFragment, WriteError, SwitchSend, ReadHeader, ReadFragment,
         SwitchRecv, Damage, recvVars
<1>3. sent \in [Epochs -> Seq(Records)] /\ delivered \in [Epochs -> Seq(Records \cup {Junk})]
  BY <1>1 DEF TypeOK
<1>4. sent' = sent \/ WriteFragment
  BY DEF Next, Seal, WriteHeader, WriteError, SwitchSend, ReadHeader, ReadFragment, SwitchRecv,
         Damage, ReadVars
<1>5. sent' = sent \/ \E e \in Epochs, r \in Records : sent' = [sent EXCEPT ![e] = Append(@, r)]
  BY <1>1, <1>4 DEF WriteFragment, Writing, TypeOK
<1>6. Extends(sent, sent')
  BY ONLY <1>3, <1>5, SentStays, Zenon
<1> QED BY <1>2, <1>3, <1>6, PrefixStays DEF Cleaner

\* The steps that neither complete a record nor read.
LEMMA OtherStep ==
  ASSUME Clean, InOrder', UNCHANGED <<recvSeq, delivered, sent>>, rpc' # "failed"
  PROVE  Cleaner
BY DEF Clean, Cleaner, NoSpuriousFailure

\* Every step of a faithful stream leaves it faithful.
LEMMA NextFaithful == IInv /\ Faithful /\ [Next]_vars => Faithful'
<1> SUFFICES ASSUME IInv, Faithful, [Next]_vars, faults' = 0, errors' = 0
             PROVE  Cleaner
  BY DEF Faithful, Cleaner
<1>1. TypeOK /\ faults \in Nat /\ errors \in Nat
  BY RecordAssumption DEF IInv, TypeOK
<1>2. CASE UNCHANGED vars
  <2>1. faults = 0 /\ errors = 0 /\ UNCHANGED <<sendVars, recvVars, wire, sent, delivered>>
    BY <1>2 DEF vars
  <2>2. NoSpuriousFailure'
    <3>1. NoSpuriousFailure /\ UNCHANGED <<rpc, recvSeq, sent, delivered>>
      BY <2>1 DEF Faithful, recvVars
    <3> QED BY <2>1, <3>1 DEF NoSpuriousFailure
  <2>3. ASSUME rpc' # "failed" PROVE InOrder'
    <3>1. Chain(wire, sent) /\ AtReceiver /\ AtSender
      BY <2>1, <2>3 DEF Faithful, recvVars, InOrder
    <3>2. RecvPlace' = RecvPlace /\ SendPlace' = SendPlace
      BY <2>1 DEF RecvPlace, SendPlace, recvVars, sendVars, Place
    <3>3. AtReceiver'
      BY <2>1, <3>1, <3>2 DEF AtReceiver, recvVars, sendVars, Pair, Place
    <3>4. AtSender'
      BY <2>1, <3>1, <3>2 DEF AtSender, sendVars, Pair, Place, After
    <3> QED BY <2>1, <3>1, <3>3, <3>4 DEF InOrder
  <2> QED BY <2>2, <2>3 DEF Cleaner
<1>3. CASE Next
  <2>1. ~WriteError /\ ~Damage
    <3>1. WriteError => errors' = errors + 1
      BY DEF WriteError
    <3>2. Damage => faults' = faults + 1
      BY DEF Damage
    <3>3. faults + 1 # 0 /\ errors + 1 # 0
      BY <1>1
    <3> QED BY <3>1, <3>2, <3>3
  <2>2. faults = 0 /\ errors = 0
    BY <1>3, <2>1 DEF Next, Seal, WriteHeader, WriteFragment, SwitchSend, ReadHeader, ReadFragment,
                      SwitchRecv, ReadVars
  <2>3. CASE rpc = "failed"
    BY <1>3, <2>2, <2>3, FailedStep DEF Faithful
  <2>4. CASE rpc # "failed"
    <3>1. Clean
      BY <2>2, <2>4 DEF Clean, Faithful
    <3>2. ASSUME NEW r \in Records, Seal(r) PROVE Cleaner
      <4>1. UNCHANGED <<recvSeq, delivered, sent, rpc>>
        BY <3>2 DEF Seal, recvVars
      <4> QED BY <2>4, <3>1, <3>2, <4>1, SealOrder, OtherStep
    <3>3. CASE WriteHeader
      <4>1. UNCHANGED <<recvSeq, delivered, sent, rpc>>
        BY <3>3 DEF WriteHeader, recvVars
      <4> QED BY <2>4, <3>1, <3>3, <4>1, WriteHeaderOrder, OtherStep
    <3>4. CASE SwitchSend
      <4>1. UNCHANGED <<recvSeq, delivered, sent, rpc>>
        BY <3>4 DEF SwitchSend, recvVars
      <4> QED BY <2>4, <3>1, <3>4, <4>1, SwitchSendOrder, OtherStep
    <3>5. CASE SwitchRecv
      <4>1. UNCHANGED <<delivered, sent>> /\ rpc' # "failed"
        BY <3>5 DEF SwitchRecv, ReadVars
      <4>2. NoSpuriousFailure'
        BY <3>1, <4>1 DEF Clean, NoSpuriousFailure
      <4> QED BY <3>1, <3>5, <4>2, SwitchRecvOrder DEF Cleaner
    <3> QED BY <1>3, <2>1, <3>1, <3>2, <3>3, <3>4, <3>5, WriteFragmentOrder, ReadHeaderOrder,
               ReadFragmentOrder DEF Next
  <2> QED BY <2>3, <2>4
<1> QED BY <1>2, <1>3

\* A stream that loses, repeats and alters nothing, whose writes succeed, is
\* received as it was sent, before and after ChangeCipherSpec, for every
\* MaxSeq and every length of the stream: ReadRecord of record.go fails only
\* on an exhausted sequence number.
THEOREM NoSpuriousFailureHolds == Spec => []NoSpuriousFailure
<1>1. Init => Faithful
  <2> SUFFICES ASSUME Init PROVE NoSpuriousFailure /\ InOrder
    BY DEF Faithful
  <2>1. wire = <<>> /\ Len(wire) = 0 /\ wpc = "idle" /\ rpc = "header"
    BY DEF Init
  <2>2. NoSpuriousFailure
    BY DEF Init, NoSpuriousFailure, Epochs
  <2>3. Chain(wire, sent)
    BY <2>1 DEF Chain
  <2>4. SendPlace = RecvPlace
    BY DEF Init, SendPlace, RecvPlace
  <2> QED BY <2>1, <2>2, <2>3, <2>4 DEF InOrder, AtReceiver, AtSender
<1>2. Faithful => NoSpuriousFailure
  BY DEF Faithful, NoSpuriousFailure
<1> QED BY <1>1, <1>2, NextFaithful, Invariance, PTL DEF Spec
=============================================================================
