----------------------------- MODULE ConnProofs -----------------------------
(***************************************************************************)
(* Safety of Conn for any set of goroutines, any calls and any bounds.     *)
(***************************************************************************)
EXTENDS Conn, TLAPS

(* Every step keeps the variables in their types *)

\* The type invariant by groups of variables, so that a step has to deal only
\* with the groups it changes.
ConnTypes ==
  /\ closed \in BOOLEAN /\ handshakeOK \in BOOLEAN /\ onceDone \in BOOLEAN
  /\ onceMu \in Threads \cup {NoThread}
  /\ inMu \in Threads \cup {NoThread}
  /\ outMu \in Threads \cup {NoThread}
  /\ hsErr \in {"nil", "closed", "failed"}
StreamTypes ==
  /\ readBuf \in Seq(Nat)
  /\ readErr \in {"nil", "io", "flood", "eof", "alert", "unexpected"}
  /\ inbox \in Seq(Records)
  /\ sent \in Nat
  /\ delivered \in Seq(Nat)
IOTypes ==
  /\ deadline \in [Dir -> {"none", "armed", "expired"}]
  /\ transport \in {"open", "closed", "gone"}
  /\ wire \in Seq(Written)
CallTypes ==
  /\ op \in [Threads -> OpNames]
  /\ left \in [Threads -> Nat]
  /\ late \in [Threads -> BOOLEAN]
PcType == pc \in [Threads -> Labels]
CountType == count \in [Threads -> Nat]

\* The groups make up the type invariant.
LEMMA TypeGroups ==
  /\ TypeOK <=> ConnTypes /\ StreamTypes /\ IOTypes /\ CallTypes /\ PcType /\ CountType
  /\ TypeOK' <=> ConnTypes' /\ StreamTypes' /\ IOTypes' /\ CallTypes' /\ PcType' /\ CountType'
  BY Zenon DEF TypeOK, ConnTypes, StreamTypes, IOTypes, CallTypes, PcType, CountType

\* Variables left alone keep their types.
LEMMA Frame ==
  ASSUME TypeOK
  PROVE  /\ UNCHANGED connVars => ConnTypes'
         /\ UNCHANGED readVars => StreamTypes'
         /\ UNCHANGED ioVars => IOTypes'
         /\ UNCHANGED callVars => CallTypes'
         /\ UNCHANGED pc => PcType'
         /\ UNCHANGED count => CountType'
<1>1. ConnTypes /\ StreamTypes /\ IOTypes /\ CallTypes /\ PcType /\ CountType
  BY TypeGroups
<1>2. UNCHANGED connVars => ConnTypes'
  BY <1>1 DEF connVars, ConnTypes
<1>3. UNCHANGED readVars => StreamTypes'
  BY <1>1 DEF readVars, StreamTypes
<1>4. UNCHANGED ioVars => IOTypes'
  BY <1>1 DEF ioVars, IOTypes
<1>5. UNCHANGED callVars => CallTypes'
  BY <1>1 DEF callVars, CallTypes
<1>6. (UNCHANGED pc => PcType') /\ (UNCHANGED count => CountType')
  BY <1>1 DEF PcType, CountType
<1> QED BY <1>2, <1>3, <1>4, <1>5, <1>6

\* copy splits a byte sequence into byte sequences.
LEMMA CopyType ==
  ASSUME NEW s \in Seq(Nat), NEW n \in Nat
  PROVE  Copied(s, n) \in Seq(Nat) /\ Uncopied(s, n) \in Seq(Nat)
  BY DEF Copied, Uncopied

\* Writing a record extends the history of the wire.
LEMMA WireType ==
  ASSUME TypeOK, NEW r \in Written, wire' = Append(wire, r), UNCHANGED <<deadline, transport>>
  PROVE  IOTypes'
<1>1. IOTypes
  BY TypeGroups
<1>2. wire' \in Seq(Written)
  BY <1>1 DEF IOTypes
<1> QED BY <1>1, <1>2 DEF IOTypes

\* A goroutine that moves to a label stays among the labels.
LEMMA GotoType ==
  ASSUME TypeOK, NEW t \in Threads, NEW l \in Labels, Goto(t, l)
  PROVE  PcType'
<1>1. pc \in [Threads -> Labels]
  BY DEF TypeOK
<1> QED BY <1>1 DEF Goto, PcType

\* The labels the actions name are labels.
LEMMA LabelNames ==
  /\ {"idle", "once", "ret", "rdLock", "wrLock", "clCAS", "setDl"} \subseteq Labels
  /\ {"hsStart", "hsHello", "hsServerFlight", "hsClientFlight"} \subseteq Labels
  /\ {"hsServerFinished", "hsAlert", "hsStore", "hsExit"} \subseteq Labels
  /\ {"rdClosed", "rdRecord", "wrClosed", "wrRecord"} \subseteq Labels
  /\ {"clOK", "clTry", "clDeadline", "clAlert", "clUnlock", "clConn"} \subseteq Labels
  BY DEF Labels, HsPc, HsIO, HsSend, HsRecv, RdPc, WrPc, ClPc, ClMuPc

\* Calling, the Once and the handshake keep every variable in its type.
LEMMA HandshakeTypes ==
  ASSUME TypeOK, NEW t \in Threads,
         \/ OnceSkip(t) \/ OnceEnter(t) \/ HsStart(t) \/ HsProgress(t)
         \/ HsIOError(t) \/ HsReject(t) \/ HsAlert(t) \/ HsAlertError(t)
         \/ HsStore(t) \/ HsExit(t) \/ HandshakeReturn(t)
         \/ \E o \in OpNames : Call(t, o)
  PROVE  TypeOK'
<1>0. ConnTypes /\ CallTypes
  BY TypeGroups
<1>1. ASSUME NEW o \in OpNames, Call(t, o) PROVE TypeOK'
  <2>1. Entry(o) \in Labels
    BY LabelNames DEF Entry, OpNames
  <2>2. PcType'
    BY <1>1, <2>1, GotoType DEF Call
  <2>3. late' \in [Threads -> BOOLEAN]
    BY <1>0, <1>1 DEF Call, CallTypes, ConnTypes
  <2>4. left' \in [Threads -> Nat] /\ op' \in [Threads -> OpNames]
    BY <1>0, <1>1 DEF Call, CallTypes
  <2>5. UNCHANGED connVars /\ UNCHANGED readVars /\ UNCHANGED ioVars /\ UNCHANGED count
    BY <1>1 DEF Call
  <2> QED BY <2>2, <2>3, <2>4, <2>5, Frame, TypeGroups DEF CallTypes
<1>2. CASE OnceSkip(t) \/ OnceEnter(t) \/ HsStart(t) \/ HsStore(t) \/ HsExit(t)
  <2>1. PcType'
    BY <1>2, LabelNames, GotoType DEF OnceSkip, OnceEnter, HsStart, HsStore, HsExit
  <2>2. UNCHANGED readVars /\ UNCHANGED ioVars /\ UNCHANGED callVars /\ UNCHANGED count
    BY <1>2 DEF OnceSkip, OnceEnter, HsStart, HsStore, HsExit
  <2>3. ConnTypes'
    BY <1>0, <1>2 DEF OnceSkip, OnceEnter, HsStart, HsStore, HsExit, ConnTypes, connVars
  <2> QED BY <2>1, <2>2, <2>3, Frame, TypeGroups
<1>3. CASE HsProgress(t)
  <2>1. HsNext(pc[t]) \in Labels
    BY <1>3, LabelNames DEF HsProgress, HsNext, HsIO, HsSend, HsRecv
  <2>2. PcType'
    BY <1>3, <2>1, GotoType DEF HsProgress
  <2>3. UNCHANGED connVars /\ UNCHANGED readVars /\ UNCHANGED callVars /\ UNCHANGED count
    BY <1>3 DEF HsProgress
  <2>4. IOTypes'
    <3>1. UNCHANGED <<deadline, transport>> /\ (wire' = Append(wire, "hs") \/ wire' = wire)
      BY <1>3 DEF HsProgress
    <3>2. "hs" \in Written
      BY DEF Written
    <3> QED BY <3>1, <3>2, WireType, Frame DEF ioVars
  <2> QED BY <2>2, <2>3, <2>4, Frame, TypeGroups
<1>4. CASE HsIOError(t) \/ HsReject(t)
  <2>1. HsError(t)
    BY <1>4 DEF HsIOError, HsReject
  <2>2. PcType'
    BY <2>1, LabelNames, GotoType DEF HsError
  <2>3. UNCHANGED readVars /\ UNCHANGED ioVars /\ UNCHANGED callVars /\ UNCHANGED count
    BY <2>1 DEF HsError
  <2>4. ConnTypes'
    BY <1>0, <2>1 DEF HsError, ConnTypes
  <2> QED BY <2>2, <2>3, <2>4, Frame, TypeGroups
<1>5. CASE HsAlert(t)
  <2>1. PcType'
    BY <1>5, LabelNames, GotoType DEF HsAlert
  <2>2. IOTypes'
    BY <1>5, WireType DEF HsAlert, Written
  <2>3. UNCHANGED connVars /\ UNCHANGED readVars /\ UNCHANGED callVars /\ UNCHANGED count
    BY <1>5 DEF HsAlert
  <2> QED BY <2>1, <2>2, <2>3, Frame, TypeGroups
<1>6. CASE HsAlertError(t) \/ HandshakeReturn(t)
  <2>1. PcType'
    BY <1>6, LabelNames, GotoType DEF HsAlertError, HandshakeReturn
  <2>2. /\ UNCHANGED connVars /\ UNCHANGED readVars /\ UNCHANGED ioVars
        /\ UNCHANGED callVars /\ UNCHANGED count
    BY <1>6 DEF HsAlertError, HandshakeReturn
  <2> QED BY <2>1, <2>2, Frame, TypeGroups
<1>7. QED
  BY <1>1, <1>2, <1>3, <1>4, <1>5, <1>6
\* What a record does to the count of empty records.
LEMMA ReadCount ==
  ASSUME NEW t, NEW n, ReadRecord(t, n)
  PROVE  UNCHANGED count \/ count' = [count EXCEPT ![t] = @ + 1]
  BY DEF ReadRecord, ReadEmpty

\* Read keeps every variable in its type.
LEMMA ReadTypes ==
  ASSUME TypeOK, NEW t \in Threads,
         \/ ReadLock(t) \/ ReadIOError(t)
         \/ \E n \in BufLens : ReadBuffered(t, n) \/ ReadRecord(t, n)
  PROVE  TypeOK'
<1>0. BufLens \subseteq Nat /\ ConnTypes /\ StreamTypes /\ count \in [Threads -> Nat]
  BY ConnAssumption, TypeGroups DEF ConnAssumption, CountType
<1>r. ASSUME ReadReturn(t) PROVE PcType' /\ ConnTypes'
  BY <1>r, <1>0, LabelNames, GotoType DEF ReadReturn, ConnTypes
<1>1. CASE ReadLock(t)
  <2>1. PcType' /\ ConnTypes'
    BY <1>0, <1>1, LabelNames, GotoType DEF ReadLock, ConnTypes
  <2>2. UNCHANGED readVars /\ UNCHANGED ioVars /\ UNCHANGED callVars /\ UNCHANGED count
    BY <1>1 DEF ReadLock
  <2> QED BY <2>1, <2>2, Frame, TypeGroups
<1>2. CASE ReadIOError(t)
  <2>1. PcType' /\ ConnTypes'
    BY <1>2, <1>r DEF ReadIOError
  <2>2. inbox' \in Seq(Records)
    <3>1. CASE inbox' = inbox
      BY <1>0, <3>1 DEF StreamTypes
    <3>2. CASE inbox # <<>> /\ inbox' = [inbox EXCEPT ![1].kind = "torn"]
      <4> DEFINE r == [inbox[1] EXCEPT !.kind = "torn"]
      <4>0. inbox \in Seq(Records)
        BY <1>0 DEF StreamTypes
      <4>1. inbox[1] \in Records /\ 1 \in 1 .. Len(inbox)
        BY <3>2, <4>0
      <4>2. r \in Records
        BY <4>1 DEF Records
      <4>3. inbox' = [inbox EXCEPT ![1] = r]
        BY <3>2
      <4> HIDE DEF r
      <4> QED BY <4>0, <4>1, <4>2, <4>3
    <3> QED BY <1>2, <3>1, <3>2 DEF ReadIOError
  <2>3. StreamTypes'
    BY <1>0, <1>2, <2>2 DEF ReadIOError, StreamTypes
  <2>4. UNCHANGED ioVars /\ UNCHANGED callVars /\ UNCHANGED count
    BY <1>2 DEF ReadIOError
  <2> QED BY <2>1, <2>3, <2>4, Frame, TypeGroups
<1>3. ASSUME NEW n \in BufLens, ReadBuffered(t, n) PROVE TypeOK'
  <2>1. PcType' /\ ConnTypes'
    BY <1>3, <1>r, LabelNames, GotoType, Frame DEF ReadBuffered
  <2>2. StreamTypes'
    <3>1. delivered \in Seq(Nat) /\ readBuf \in Seq(Nat) /\ n \in Nat
      BY <1>0 DEF StreamTypes
    <3>2. Copied(readBuf, n) \in Seq(Nat) /\ Uncopied(readBuf, n) \in Seq(Nat)
      BY <3>1, CopyType
    <3>3. delivered \o Copied(readBuf, n) \in Seq(Nat)
      BY <3>1, <3>2
    <3>4. /\ delivered' \in {delivered, delivered \o Copied(readBuf, n)}
          /\ readBuf' \in {readBuf, Uncopied(readBuf, n)}
          /\ UNCHANGED <<readErr, inbox, sent>>
      BY <1>3 DEF ReadBuffered, readVars
    <3> QED BY <1>0, <3>1, <3>2, <3>3, <3>4 DEF StreamTypes
  <2>3. CountType'
    BY <1>0, <1>3 DEF ReadBuffered, CountType
  <2>4. UNCHANGED ioVars /\ UNCHANGED callVars
    BY <1>3 DEF ReadBuffered
  <2> QED BY <2>1, <2>2, <2>3, <2>4, Frame, TypeGroups
<1>4. ASSUME NEW n \in BufLens, ReadRecord(t, n) PROVE TypeOK'
  <2>1. PcType' /\ ConnTypes'
    BY <1>4, <1>r, Frame DEF ReadRecord, ReadEmpty
  <2>2. Head(inbox) \in Records /\ inbox' \in Seq(Records)
    <3>1. inbox \in Seq(Records) /\ inbox # <<>> /\ inbox' = Tail(inbox)
      BY <1>0, <1>4 DEF ReadRecord, StreamTypes
    <3> QED BY <3>1
  <2>3. Head(inbox).data \in Seq(Nat)
    BY <2>2 DEF Records
  <2>4. delivered' \in Seq(Nat) /\ readBuf' \in Seq(Nat)
    <3> DEFINE d == Head(inbox).data
    <3>1. delivered \in Seq(Nat) /\ readBuf \in Seq(Nat) /\ n \in Nat
      BY <1>0 DEF StreamTypes
    <3>2. Copied(d, n) \in Seq(Nat) /\ Uncopied(d, n) \in Seq(Nat)
      BY <2>3, <3>1, CopyType
    <3>3. delivered \o Copied(d, n) \in Seq(Nat) /\ readBuf \o Uncopied(d, n) \in Seq(Nat)
      BY <3>1, <3>2
    <3>4. /\ delivered' \in {delivered, delivered \o Copied(d, n)}
          /\ readBuf' \in {readBuf, readBuf \o Uncopied(d, n)}
      BY <1>4 DEF ReadRecord
    <3> QED BY <3>1, <3>3, <3>4
  <2>5. CountType'
    BY <1>0, <1>4, ReadCount DEF CountType
  <2>6. readErr' \in {"nil", "io", "flood", "eof", "alert", "unexpected"}
    BY <1>0, <1>4 DEF ReadRecord, ReadEmpty, ErrorOf, StreamTypes
  <2>7. StreamTypes'
    <3>1. UNCHANGED sent
      BY <1>4 DEF ReadRecord
    <3> QED BY <1>0, <2>2, <2>4, <2>6, <3>1 DEF StreamTypes
  <2>8. UNCHANGED ioVars /\ UNCHANGED callVars
    BY <1>4 DEF ReadRecord
  <2> QED BY <2>1, <2>5, <2>7, <2>8, Frame, TypeGroups
<1>5. QED
  BY <1>1, <1>2, <1>3, <1>4

\* Write keeps every variable in its type.
LEMMA WriteTypes ==
  ASSUME TypeOK, NEW t \in Threads,
         WriteLock(t) \/ WriteClosed(t) \/ WriteRecord(t) \/ WriteError(t),
         pc[t] = "wrRecord" => count[t] > 0
  PROVE  TypeOK'
<1>0. ConnTypes /\ count \in [Threads -> Nat] /\ Chunks \in Nat
  BY ConnAssumption, TypeGroups DEF ConnAssumption, CountType
<1>r. ASSUME WriteReturn(t) PROVE PcType' /\ ConnTypes'
  BY <1>r, <1>0, LabelNames, GotoType DEF WriteReturn, ConnTypes
<1>1. CASE WriteLock(t)
  <2>1. PcType' /\ ConnTypes'
    BY <1>0, <1>1, LabelNames, GotoType DEF WriteLock, ConnTypes
  <2>2. UNCHANGED readVars /\ UNCHANGED ioVars /\ UNCHANGED callVars /\ UNCHANGED count
    BY <1>1 DEF WriteLock
  <2> QED BY <2>1, <2>2, Frame, TypeGroups
<1>2. CASE WriteClosed(t)
  <2>1. PcType' /\ ConnTypes'
    BY <1>2, <1>r, LabelNames, GotoType, Frame DEF WriteClosed
  <2>2. count' = count \/ \E k \in 1 .. Chunks : count' = [count EXCEPT ![t] = k]
    BY <1>2 DEF WriteClosed
  <2>3. CountType'
    BY <1>0, <2>2 DEF CountType
  <2>4. UNCHANGED readVars /\ UNCHANGED ioVars /\ UNCHANGED callVars
    BY <1>2 DEF WriteClosed
  <2> QED BY <2>1, <2>3, <2>4, Frame, TypeGroups
<1>3. CASE WriteRecord(t)
  <2>1. PcType' /\ ConnTypes'
    BY <1>3, <1>r, Frame DEF WriteRecord
  <2>2. count[t] > 0 /\ count' = [count EXCEPT ![t] = @ - 1]
    BY <1>3 DEF WriteRecord
  <2>3. CountType'
    BY <1>0, <2>2 DEF CountType
  <2>4. IOTypes'
    BY <1>3, WireType DEF WriteRecord, Written
  <2>5. UNCHANGED readVars /\ UNCHANGED callVars
    BY <1>3 DEF WriteRecord
  <2> QED BY <2>1, <2>3, <2>4, <2>5, Frame, TypeGroups
<1>4. CASE WriteError(t)
  <2>1. PcType' /\ ConnTypes'
    BY <1>4, <1>r DEF WriteError
  <2>2. UNCHANGED readVars /\ UNCHANGED ioVars /\ UNCHANGED callVars /\ UNCHANGED count
    BY <1>4 DEF WriteError
  <2> QED BY <2>1, <2>2, Frame, TypeGroups
<1> QED BY <1>1, <1>2, <1>3, <1>4

\* Close and SetDeadline keep every variable in its type.
LEMMA CloseTypes ==
  ASSUME TypeOK, NEW t \in Threads,
         \/ CloseCAS(t) \/ CloseHandshakeOK(t) \/ CloseTryLock(t)
         \/ CloseSetDeadline(t) \/ CloseNotify(t) \/ CloseNotifyError(t)
         \/ CloseUnlock(t) \/ CloseConn(t)
         \/ \E ds \in SUBSET Dir, v \in {"none", "armed"} : SetDeadline(t, ds, v)
  PROVE  TypeOK'
<1>0. ConnTypes /\ IOTypes
  BY TypeGroups
<1>1. CASE \/ CloseCAS(t) \/ CloseHandshakeOK(t) \/ CloseTryLock(t)
           \/ CloseNotifyError(t) \/ CloseUnlock(t)
  <2>1. PcType'
    BY <1>1, LabelNames, GotoType
       DEF CloseCAS, CloseHandshakeOK, CloseTryLock, CloseNotifyError, CloseUnlock
  <2>2. UNCHANGED readVars /\ UNCHANGED ioVars /\ UNCHANGED callVars /\ UNCHANGED count
    BY <1>1 DEF CloseCAS, CloseHandshakeOK, CloseTryLock, CloseNotifyError, CloseUnlock
  <2>3. ConnTypes'
    BY <1>0, <1>1 DEF CloseCAS, CloseHandshakeOK, CloseTryLock, CloseNotifyError,
                      CloseUnlock, ConnTypes, connVars
  <2> QED BY <2>1, <2>2, <2>3, Frame, TypeGroups
<1>2. CASE CloseSetDeadline(t) \/ CloseNotify(t) \/ CloseConn(t)
  <2>1. PcType'
    BY <1>2, LabelNames, GotoType DEF CloseSetDeadline, CloseNotify, CloseConn
  <2>2. UNCHANGED connVars /\ UNCHANGED readVars /\ UNCHANGED callVars /\ UNCHANGED count
    BY <1>2 DEF CloseSetDeadline, CloseNotify, CloseConn
  <2>3. CASE CloseSetDeadline(t) \/ CloseConn(t)
    <3>1. IOTypes'
      BY <1>0, <2>3 DEF CloseSetDeadline, CloseConn, IOTypes
    <3> QED BY <2>1, <2>2, <3>1, Frame, TypeGroups
  <2>4. CASE CloseNotify(t)
    <3>1. IOTypes'
      BY <2>4, WireType DEF CloseNotify, Written
    <3> QED BY <2>1, <2>2, <3>1, Frame, TypeGroups
  <2> QED BY <1>2, <2>3, <2>4
<1>3. ASSUME NEW ds \in SUBSET Dir, NEW v \in {"none", "armed"}, SetDeadline(t, ds, v)
      PROVE TypeOK'
  <2>1. PcType'
    BY <1>3, LabelNames, GotoType DEF SetDeadline
  <2>2. IOTypes'
    BY <1>0, <1>3 DEF SetDeadline, IOTypes
  <2>3. UNCHANGED connVars /\ UNCHANGED readVars /\ UNCHANGED callVars /\ UNCHANGED count
    BY <1>3 DEF SetDeadline
  <2> QED BY <2>1, <2>2, <2>3, Frame, TypeGroups
<1>4. QED
  BY <1>1, <1>2, <1>3

\* Time and the peer keep every variable in its type.
LEMMA EnvTypes ==
  ASSUME TypeOK,
         \/ \E d \in Dir : Expire(d)
         \/ \E k \in RecordKinds : PeerSend(k)
         \/ PeerReset
  PROVE  TypeOK'
<1>0. IOTypes /\ StreamTypes
  BY TypeGroups
<1>1. CASE PeerReset \/ \E d \in Dir : Expire(d)
  <2>1. IOTypes'
    BY <1>0, <1>1 DEF Expire, PeerReset, IOTypes
  <2>2. /\ UNCHANGED connVars /\ UNCHANGED readVars
        /\ UNCHANGED callVars /\ UNCHANGED pc /\ UNCHANGED count
    BY <1>1 DEF Expire, PeerReset
  <2> QED BY <2>1, <2>2, Frame, TypeGroups
<1>2. ASSUME NEW k \in RecordKinds, PeerSend(k) PROVE TypeOK'
  <2> DEFINE n == IF k = "app" THEN 2 ELSE 0
             r == [kind |-> k, data |-> [i \in 1 .. n |-> sent + i]]
  <2>0. sent \in Nat /\ inbox \in Seq(Records)
    BY <1>0 DEF StreamTypes
  <2>1. r.data \in Seq(Nat)
    BY <2>0
  <2>2. r \in Records
    BY <2>1, ConnAssumption DEF Records, ConnAssumption
  <2>3. inbox' \in Seq(Records) /\ sent' \in Nat
    BY <1>2, <2>0, <2>2 DEF PeerSend
  <2>4. StreamTypes'
    BY <1>0, <1>2, <2>3 DEF PeerSend, StreamTypes
  <2>5. /\ UNCHANGED connVars /\ UNCHANGED ioVars
        /\ UNCHANGED callVars /\ UNCHANGED pc /\ UNCHANGED count
    BY <1>2 DEF PeerSend
  <2> QED BY <2>4, <2>5, Frame, TypeGroups
<1>3. QED
  BY <1>1, <1>2

\* Every step keeps every variable in its type.
LEMMA TypeStep ==
  ASSUME TypeOK, Phases, [Next]_vars
  PROVE  TypeOK'
<1>1. CASE UNCHANGED vars
  BY <1>1, Frame, TypeGroups DEF vars
<1>2. \A t \in Threads : pc[t] = "wrRecord" => count[t] > 0
  BY DEF Phases
<1>3. QED
  BY <1>1, <1>2, HandshakeTypes, ReadTypes, WriteTypes, CloseTypes, EnvTypes
     DEF Next, Run, WaitPeer

-----------------------------------------------------------------------------
(* The inductive invariant *)

\* NoThread is not a goroutine.
LEMMA NoThreadFact == NoThread \notin Threads
  BY ConnAssumption DEF ConnAssumption

\* What Read does under inMu, as far as the other calls can see: it goes on
\* to the records, only if closed is not set, or stays there, or returns.
ReadControl(t) ==
  /\ \/ /\ pc[t] = "rdClosed" /\ ~closed
        /\ inMu' = inMu /\ pc' = [pc EXCEPT ![t] = "rdRecord"]
     \/ pc[t] \in RdPc /\ inMu' = NoThread /\ pc' = [pc EXCEPT ![t] = "idle"]
     \/ pc[t] \in RdPc /\ inMu' = inMu /\ pc' = pc
  /\ UNCHANGED <<closed, handshakeOK, onceDone, onceMu, hsErr, outMu, wire, late>>
  /\ \A u \in Threads : u # t => count'[u] = count[u]

\* The steps of Read under inMu are such steps.
LEMMA ReadIsControl ==
  ASSUME TypeOK, NEW t \in Threads,
         \/ ReadIOError(t)
         \/ \E n \in BufLens : ReadBuffered(t, n) \/ ReadRecord(t, n)
  PROVE  ReadControl(t)
<1> USE DEF connVars, ioVars, callVars, Goto, RdPc
<1>1. ASSUME ReadIOError(t) PROVE ReadControl(t)
  BY <1>1 DEF ReadIOError, ReadReturn, ReadControl
<1>2. ASSUME NEW n \in BufLens, ReadBuffered(t, n) PROVE ReadControl(t)
  <2>1. count \in [Threads -> Nat]
    BY DEF TypeOK
  <2> QED BY <1>2, <2>1 DEF ReadBuffered, ReadReturn, ReadControl
<1>3. ASSUME NEW n \in BufLens, ReadRecord(t, n) PROVE ReadControl(t)
  <2>1. count \in [Threads -> Nat]
    BY DEF TypeOK
  <2>2. \A u \in Threads : u # t => count'[u] = count[u]
    BY <1>3, <2>1, ReadCount
  <2>3. \/ inMu' = inMu /\ pc' = pc /\ UNCHANGED connVars
        \/ ReadReturn(t)
    BY <1>3 DEF ReadRecord, ReadEmpty, connVars
  <2> QED BY <1>3, <2>2, <2>3 DEF ReadRecord, ReadEmpty, ReadReturn, ReadControl
<1>4. QED
  BY <1>1, <1>2, <1>3

\* A record stays on the wire, and only the one written joins it.
LEMMA OnWireStep ==
  ASSUME TypeOK, NEW r
  PROVE  /\ wire' = wire => (OnWire(r)' <=> OnWire(r))
         /\ \A x \in Written : wire' = Append(wire, x) => (OnWire(r)' <=> OnWire(r) \/ r = x)
<1>1. wire \in Seq(Written)
  BY DEF TypeOK
<1>2. wire' = wire => (OnWire(r)' <=> OnWire(r))
  BY DEF OnWire
<1>3. ASSUME NEW x \in Written, wire' = Append(wire, x)
      PROVE  OnWire(r)' <=> OnWire(r) \/ r = x
  <2>1. /\ Len(wire') = Len(wire) + 1
        /\ \A i \in 1 .. Len(wire) : wire'[i] = wire[i]
        /\ wire'[Len(wire) + 1] = x
        /\ Len(wire) \in Nat
    BY <1>1, <1>3
  <2> QED BY <2>1 DEF OnWire
<1>4. QED
  BY <1>2, <1>3

\* Every step keeps the mutexes and the Once with their holders.
LEMMA HoldersStep ==
  ASSUME TypeOK, Holders, [Next]_vars
  PROVE  Holders'
<1> USE DEF HsPc, HsIO, HsSend, HsRecv, RdPc, WrPc, ClPc, ClMuPc
<1> USE DEF Goto, connVars, callVars
<1>0. pc \in [Threads -> Labels] /\ NoThread \notin Threads
  BY NoThreadFact DEF TypeOK
<1>1. ASSUME NEW t \in Threads, NEW o \in OpNames, Call(t, o) PROVE Holders'
  BY <1>0, <1>1
     DEF Call, Entry, OpNames, Holders
<1>2. ASSUME NEW t \in Threads, OnceSkip(t) PROVE Holders'
  BY <1>0, <1>2
     DEF OnceSkip, Holders
<1>3. ASSUME NEW t \in Threads, OnceEnter(t) PROVE Holders'
  BY <1>0, <1>3
     DEF OnceEnter, Holders
<1>4. ASSUME NEW t \in Threads, HsStart(t) PROVE Holders'
  BY <1>0, <1>4
     DEF HsStart, Holders
<1>5. ASSUME NEW t \in Threads, HsProgress(t) PROVE Holders'
  BY <1>0, <1>5
     DEF HsProgress, HsNext, Holders
<1>6. ASSUME NEW t \in Threads, HsIOError(t) PROVE Holders'
  BY <1>0, <1>6
     DEF HsIOError, HsError, Holders
<1>7. ASSUME NEW t \in Threads, HsReject(t) PROVE Holders'
  BY <1>0, <1>7
     DEF HsReject, HsError, Holders
<1>8. ASSUME NEW t \in Threads, HsAlert(t) PROVE Holders'
  BY <1>0, <1>8
     DEF HsAlert, Holders
<1>9. ASSUME NEW t \in Threads, HsAlertError(t) PROVE Holders'
  BY <1>0, <1>9
     DEF HsAlertError, Holders
<1>10. ASSUME NEW t \in Threads, HsStore(t) PROVE Holders'
  BY <1>0, <1>10
     DEF HsStore, Holders
<1>11. ASSUME NEW t \in Threads, HsExit(t) PROVE Holders'
  BY <1>0, <1>11
     DEF HsExit, Holders
<1>12. ASSUME NEW t \in Threads, HandshakeReturn(t) PROVE Holders'
  BY <1>0, <1>12
     DEF HandshakeReturn, Holders
<1>13. ASSUME NEW t \in Threads, ReadLock(t) PROVE Holders'
  BY <1>0, <1>13
     DEF ReadLock, Holders
<1>14. ASSUME NEW t \in Threads, ReadControl(t) PROVE Holders'
  BY <1>0, <1>14
     DEF ReadControl, Holders
<1>15. ASSUME NEW t \in Threads, WriteLock(t) PROVE Holders'
  BY <1>0, <1>15
     DEF WriteLock, Holders
<1>16. ASSUME NEW t \in Threads, WriteClosed(t) PROVE Holders'
  BY <1>0, <1>16
     DEF WriteClosed, WriteReturn, Holders
<1>17. ASSUME NEW t \in Threads, WriteRecord(t) PROVE Holders'
  BY <1>0, <1>17
     DEF WriteRecord, WriteReturn, Holders
<1>18. ASSUME NEW t \in Threads, WriteError(t) PROVE Holders'
  BY <1>0, <1>18
     DEF WriteError, WriteReturn, Holders
<1>19. ASSUME NEW t \in Threads, CloseCAS(t) PROVE Holders'
  BY <1>0, <1>19
     DEF CloseCAS, Holders
<1>20. ASSUME NEW t \in Threads, CloseHandshakeOK(t) PROVE Holders'
  BY <1>0, <1>20
     DEF CloseHandshakeOK, Holders
<1>21. ASSUME NEW t \in Threads, CloseTryLock(t) PROVE Holders'
  BY <1>0, <1>21
     DEF CloseTryLock, Holders
<1>22. ASSUME NEW t \in Threads, CloseSetDeadline(t) PROVE Holders'
  BY <1>0, <1>22
     DEF CloseSetDeadline, Holders
<1>23. ASSUME NEW t \in Threads, CloseNotify(t) PROVE Holders'
  BY <1>0, <1>23
     DEF CloseNotify, Holders
<1>24. ASSUME NEW t \in Threads, CloseNotifyError(t) PROVE Holders'
  BY <1>0, <1>24
     DEF CloseNotifyError, Holders
<1>25. ASSUME NEW t \in Threads, CloseUnlock(t) PROVE Holders'
  BY <1>0, <1>25
     DEF CloseUnlock, Holders
<1>26. ASSUME NEW t \in Threads, CloseConn(t) PROVE Holders'
  BY <1>0, <1>26
     DEF CloseConn, Holders
<1>27. ASSUME NEW t \in Threads, NEW ds, NEW v, SetDeadline(t, ds, v) PROVE Holders'
  BY <1>0, <1>27
     DEF SetDeadline, Holders
<1>28. ASSUME \/ \E d \in Dir : Expire(d)
              \/ \E k \in RecordKinds : PeerSend(k)
              \/ PeerReset \/ UNCHANGED vars
       PROVE Holders'
  <2>1. UNCHANGED <<connVars, pc, count, late, wire>>
    BY <1>28 DEF Expire, PeerSend, PeerReset, vars, ioVars
  <2> QED BY <2>1 DEF Holders
<1> HIDE DEF HsPc, HsIO, HsSend, HsRecv, RdPc, WrPc, ClPc, ClMuPc
<1> HIDE DEF Goto, connVars, callVars
<1>29. QED
  BY ReadIsControl, <1>1, <1>2, <1>3, <1>4, <1>5, <1>6, <1>7, <1>8, <1>9, <1>10,
     <1>11, <1>12, <1>13, <1>14, <1>15, <1>16, <1>17, <1>18, <1>19, <1>20,
     <1>21, <1>22, <1>23, <1>24, <1>25, <1>26, <1>27, <1>28
     DEF Next, Run, WaitPeer

\* Every step keeps the phases of the handshake.
LEMMA PhasesStep ==
  ASSUME TypeOK, Holders, Phases, [Next]_vars
  PROVE  Phases'
<1> USE DEF HsPc, HsIO, HsSend, HsRecv, RdPc, WrPc, ClPc, ClMuPc
<1> USE DEF Goto, connVars, callVars
<1>0. pc \in [Threads -> Labels] /\ NoThread \notin Threads /\ count \in [Threads -> Nat]
  BY NoThreadFact DEF TypeOK
<1>1. ASSUME NEW t \in Threads, NEW o \in OpNames, Call(t, o) PROVE Phases'
  BY <1>0, <1>1
     DEF Call, Entry, OpNames, Holders, Phases
<1>2. ASSUME NEW t \in Threads, OnceSkip(t) PROVE Phases'
  BY <1>0, <1>2
     DEF OnceSkip, Holders, Phases
<1>3. ASSUME NEW t \in Threads, OnceEnter(t) PROVE Phases'
  BY <1>0, <1>3
     DEF OnceEnter, Holders, Phases
<1>4. ASSUME NEW t \in Threads, HsStart(t) PROVE Phases'
  BY <1>0, <1>4
     DEF HsStart, Holders, Phases
<1>5. ASSUME NEW t \in Threads, HsProgress(t) PROVE Phases'
  BY <1>0, <1>5
     DEF HsProgress, HsNext, Holders, Phases
<1>6. ASSUME NEW t \in Threads, HsIOError(t) PROVE Phases'
  BY <1>0, <1>6
     DEF HsIOError, HsError, Holders, Phases
<1>7. ASSUME NEW t \in Threads, HsReject(t) PROVE Phases'
  BY <1>0, <1>7
     DEF HsReject, HsError, Holders, Phases
<1>8. ASSUME NEW t \in Threads, HsAlert(t) PROVE Phases'
  BY <1>0, <1>8
     DEF HsAlert, Holders, Phases
<1>9. ASSUME NEW t \in Threads, HsAlertError(t) PROVE Phases'
  BY <1>0, <1>9
     DEF HsAlertError, Holders, Phases
<1>10. ASSUME NEW t \in Threads, HsStore(t) PROVE Phases'
  BY <1>0, <1>10
     DEF HsStore, Holders, Phases
<1>11. ASSUME NEW t \in Threads, HsExit(t) PROVE Phases'
  BY <1>0, <1>11
     DEF HsExit, Holders, Phases
<1>12. ASSUME NEW t \in Threads, HandshakeReturn(t) PROVE Phases'
  BY <1>0, <1>12
     DEF HandshakeReturn, Holders, Phases
<1>13. ASSUME NEW t \in Threads, ReadLock(t) PROVE Phases'
  BY <1>0, <1>13
     DEF ReadLock, Holders, Phases
<1>14. ASSUME NEW t \in Threads, ReadControl(t) PROVE Phases'
  BY <1>0, <1>14, SMTT(20)
     DEF ReadControl, Holders, Phases
<1>15. ASSUME NEW t \in Threads, WriteLock(t) PROVE Phases'
  BY <1>0, <1>15
     DEF WriteLock, Holders, Phases
<1>16. ASSUME NEW t \in Threads, WriteClosed(t) PROVE Phases'
  BY <1>0, <1>16, SMTT(20)
     DEF WriteClosed, WriteReturn, Holders, Phases
<1>17. ASSUME NEW t \in Threads, WriteRecord(t) PROVE Phases'
  BY <1>0, <1>17, SMTT(20)
     DEF WriteRecord, WriteReturn, Holders, Phases
<1>18. ASSUME NEW t \in Threads, WriteError(t) PROVE Phases'
  BY <1>0, <1>18
     DEF WriteError, WriteReturn, Holders, Phases
<1>19. ASSUME NEW t \in Threads, CloseCAS(t) PROVE Phases'
  BY <1>0, <1>19
     DEF CloseCAS, Holders, Phases
<1>20. ASSUME NEW t \in Threads, CloseHandshakeOK(t) PROVE Phases'
  BY <1>0, <1>20
     DEF CloseHandshakeOK, Holders, Phases
<1>21. ASSUME NEW t \in Threads, CloseTryLock(t) PROVE Phases'
  BY <1>0, <1>21
     DEF CloseTryLock, Holders, Phases
<1>22. ASSUME NEW t \in Threads, CloseSetDeadline(t) PROVE Phases'
  BY <1>0, <1>22
     DEF CloseSetDeadline, Holders, Phases
<1>23. ASSUME NEW t \in Threads, CloseNotify(t) PROVE Phases'
  BY <1>0, <1>23
     DEF CloseNotify, Holders, Phases
<1>24. ASSUME NEW t \in Threads, CloseNotifyError(t) PROVE Phases'
  BY <1>0, <1>24
     DEF CloseNotifyError, Holders, Phases
<1>25. ASSUME NEW t \in Threads, CloseUnlock(t) PROVE Phases'
  BY <1>0, <1>25
     DEF CloseUnlock, Holders, Phases
<1>26. ASSUME NEW t \in Threads, CloseConn(t) PROVE Phases'
  BY <1>0, <1>26
     DEF CloseConn, Holders, Phases
<1>27. ASSUME NEW t \in Threads, NEW ds, NEW v, SetDeadline(t, ds, v) PROVE Phases'
  BY <1>0, <1>27
     DEF SetDeadline, Holders, Phases
<1>28. ASSUME \/ \E d \in Dir : Expire(d)
              \/ \E k \in RecordKinds : PeerSend(k)
              \/ PeerReset \/ UNCHANGED vars
       PROVE Phases'
  <2>1. UNCHANGED <<connVars, pc, count, late, wire>>
    BY <1>28 DEF Expire, PeerSend, PeerReset, vars, ioVars
  <2> QED BY <2>1 DEF Holders, Phases
<1> HIDE DEF HsPc, HsIO, HsSend, HsRecv, RdPc, WrPc, ClPc, ClMuPc
<1> HIDE DEF Goto, connVars, callVars
<1>29. QED
  BY ReadIsControl, <1>1, <1>2, <1>3, <1>4, <1>5, <1>6, <1>7, <1>8, <1>9, <1>10,
     <1>11, <1>12, <1>13, <1>14, <1>15, <1>16, <1>17, <1>18, <1>19, <1>20,
     <1>21, <1>22, <1>23, <1>24, <1>25, <1>26, <1>27, <1>28
     DEF Next, Run, WaitPeer

\* Every step keeps what closed implies.
LEMMA ClosingStep ==
  ASSUME TypeOK, Closing, [Next]_vars
  PROVE  Closing'
<1> USE DEF HsPc, HsIO, HsSend, HsRecv, RdPc, WrPc, ClPc, ClMuPc
<1> USE DEF Goto, connVars, callVars
<1>0. pc \in [Threads -> Labels] /\ NoThread \notin Threads /\ late \in [Threads -> BOOLEAN] /\ closed \in BOOLEAN
  BY NoThreadFact DEF TypeOK
<1>1. ASSUME NEW t \in Threads, NEW o \in OpNames, Call(t, o) PROVE Closing'
  BY <1>0, <1>1
     DEF Call, Entry, OpNames, Closing
<1>2. ASSUME NEW t \in Threads, OnceSkip(t) PROVE Closing'
  BY <1>0, <1>2
     DEF OnceSkip, Closing
<1>3. ASSUME NEW t \in Threads, OnceEnter(t) PROVE Closing'
  BY <1>0, <1>3
     DEF OnceEnter, Closing
<1>4. ASSUME NEW t \in Threads, HsStart(t) PROVE Closing'
  BY <1>0, <1>4
     DEF HsStart, Closing
<1>5. ASSUME NEW t \in Threads, HsProgress(t) PROVE Closing'
  BY <1>0, <1>5
     DEF HsProgress, HsNext, Closing
<1>6. ASSUME NEW t \in Threads, HsIOError(t) PROVE Closing'
  BY <1>0, <1>6
     DEF HsIOError, HsError, Closing
<1>7. ASSUME NEW t \in Threads, HsReject(t) PROVE Closing'
  BY <1>0, <1>7
     DEF HsReject, HsError, Closing
<1>8. ASSUME NEW t \in Threads, HsAlert(t) PROVE Closing'
  BY <1>0, <1>8
     DEF HsAlert, Closing
<1>9. ASSUME NEW t \in Threads, HsAlertError(t) PROVE Closing'
  BY <1>0, <1>9
     DEF HsAlertError, Closing
<1>10. ASSUME NEW t \in Threads, HsStore(t) PROVE Closing'
  BY <1>0, <1>10
     DEF HsStore, Closing
<1>11. ASSUME NEW t \in Threads, HsExit(t) PROVE Closing'
  BY <1>0, <1>11
     DEF HsExit, Closing
<1>12. ASSUME NEW t \in Threads, HandshakeReturn(t) PROVE Closing'
  BY <1>0, <1>12
     DEF HandshakeReturn, Closing
<1>13. ASSUME NEW t \in Threads, ReadLock(t) PROVE Closing'
  BY <1>0, <1>13
     DEF ReadLock, Closing
<1>14. ASSUME NEW t \in Threads, ReadControl(t) PROVE Closing'
  BY <1>0, <1>14
     DEF ReadControl, Closing
<1>15. ASSUME NEW t \in Threads, WriteLock(t) PROVE Closing'
  BY <1>0, <1>15
     DEF WriteLock, Closing
<1>16. ASSUME NEW t \in Threads, WriteClosed(t) PROVE Closing'
  BY <1>0, <1>16
     DEF WriteClosed, WriteReturn, Closing
<1>17. ASSUME NEW t \in Threads, WriteRecord(t) PROVE Closing'
  BY <1>0, <1>17
     DEF WriteRecord, WriteReturn, Closing
<1>18. ASSUME NEW t \in Threads, WriteError(t) PROVE Closing'
  BY <1>0, <1>18
     DEF WriteError, WriteReturn, Closing
<1>19. ASSUME NEW t \in Threads, CloseCAS(t) PROVE Closing'
  BY <1>0, <1>19
     DEF CloseCAS, Closing
<1>20. ASSUME NEW t \in Threads, CloseHandshakeOK(t) PROVE Closing'
  BY <1>0, <1>20
     DEF CloseHandshakeOK, Closing
<1>21. ASSUME NEW t \in Threads, CloseTryLock(t) PROVE Closing'
  BY <1>0, <1>21
     DEF CloseTryLock, Closing
<1>22. ASSUME NEW t \in Threads, CloseSetDeadline(t) PROVE Closing'
  BY <1>0, <1>22
     DEF CloseSetDeadline, Closing
<1>23. ASSUME NEW t \in Threads, CloseNotify(t) PROVE Closing'
  BY <1>0, <1>23
     DEF CloseNotify, Closing
<1>24. ASSUME NEW t \in Threads, CloseNotifyError(t) PROVE Closing'
  BY <1>0, <1>24
     DEF CloseNotifyError, Closing
<1>25. ASSUME NEW t \in Threads, CloseUnlock(t) PROVE Closing'
  BY <1>0, <1>25
     DEF CloseUnlock, Closing
<1>26. ASSUME NEW t \in Threads, CloseConn(t) PROVE Closing'
  BY <1>0, <1>26
     DEF CloseConn, Closing
<1>27. ASSUME NEW t \in Threads, NEW ds, NEW v, SetDeadline(t, ds, v) PROVE Closing'
  BY <1>0, <1>27
     DEF SetDeadline, Closing
<1>28. ASSUME \/ \E d \in Dir : Expire(d)
              \/ \E k \in RecordKinds : PeerSend(k)
              \/ PeerReset \/ UNCHANGED vars
       PROVE Closing'
  <2>1. UNCHANGED <<connVars, pc, count, late, wire>>
    BY <1>28 DEF Expire, PeerSend, PeerReset, vars, ioVars
  <2> QED BY <2>1 DEF Closing
<1> HIDE DEF HsPc, HsIO, HsSend, HsRecv, RdPc, WrPc, ClPc, ClMuPc
<1> HIDE DEF Goto, connVars, callVars
<1>29. QED
  BY ReadIsControl, <1>1, <1>2, <1>3, <1>4, <1>5, <1>6, <1>7, <1>8, <1>9, <1>10,
     <1>11, <1>12, <1>13, <1>14, <1>15, <1>16, <1>17, <1>18, <1>19, <1>20,
     <1>21, <1>22, <1>23, <1>24, <1>25, <1>26, <1>27, <1>28
     DEF Next, Run, WaitPeer

\* Every step keeps what the wire implies.
LEMMA WireStep ==
  ASSUME TypeOK, Holders, Phases, Closing, Wire, [Next]_vars
  PROVE  Wire'
<1> USE DEF HsPc, HsIO, HsSend, HsRecv, RdPc, WrPc, ClPc, ClMuPc
<1> USE DEF Goto, connVars, callVars, ioVars
<1>0. pc \in [Threads -> Labels] /\ NoThread \notin Threads
  BY NoThreadFact DEF TypeOK
<1>1. ASSUME NEW t \in Threads, NEW o \in OpNames, Call(t, o) PROVE Wire'
  BY <1>0, <1>1, OnWireStep
     DEF Call, Entry, OpNames, Holders, Phases, Closing, Wire
<1>2. ASSUME NEW t \in Threads, OnceSkip(t) PROVE Wire'
  BY <1>0, <1>2, OnWireStep
     DEF OnceSkip, Holders, Phases, Closing, Wire
<1>3. ASSUME NEW t \in Threads, OnceEnter(t) PROVE Wire'
  BY <1>0, <1>3, OnWireStep
     DEF OnceEnter, Holders, Phases, Closing, Wire
<1>4. ASSUME NEW t \in Threads, HsStart(t) PROVE Wire'
  BY <1>0, <1>4, OnWireStep
     DEF HsStart, Holders, Phases, Closing, Wire
<1>5. ASSUME NEW t \in Threads, HsProgress(t) PROVE Wire'
  BY <1>0, <1>5, OnWireStep
     DEF HsProgress, HsNext, Written, Holders, Phases, Closing, Wire
<1>6. ASSUME NEW t \in Threads, HsIOError(t) PROVE Wire'
  BY <1>0, <1>6, OnWireStep
     DEF HsIOError, HsError, Holders, Phases, Closing, Wire
<1>7. ASSUME NEW t \in Threads, HsReject(t) PROVE Wire'
  BY <1>0, <1>7, OnWireStep
     DEF HsReject, HsError, Holders, Phases, Closing, Wire
<1>8. ASSUME NEW t \in Threads, HsAlert(t) PROVE Wire'
  BY <1>0, <1>8, OnWireStep
     DEF HsAlert, Written, Holders, Phases, Closing, Wire
<1>9. ASSUME NEW t \in Threads, HsAlertError(t) PROVE Wire'
  BY <1>0, <1>9, OnWireStep
     DEF HsAlertError, Holders, Phases, Closing, Wire
<1>10. ASSUME NEW t \in Threads, HsStore(t) PROVE Wire'
  BY <1>0, <1>10, OnWireStep
     DEF HsStore, Holders, Phases, Closing, Wire
<1>11. ASSUME NEW t \in Threads, HsExit(t) PROVE Wire'
  BY <1>0, <1>11, OnWireStep
     DEF HsExit, Holders, Phases, Closing, Wire
<1>12. ASSUME NEW t \in Threads, HandshakeReturn(t) PROVE Wire'
  BY <1>0, <1>12, OnWireStep
     DEF HandshakeReturn, Holders, Phases, Closing, Wire
<1>13. ASSUME NEW t \in Threads, ReadLock(t) PROVE Wire'
  BY <1>0, <1>13, OnWireStep
     DEF ReadLock, Holders, Phases, Closing, Wire
<1>14. ASSUME NEW t \in Threads, ReadControl(t) PROVE Wire'
  <2> DEFINE Kept == /\ UNCHANGED <<closed, handshakeOK, onceDone, onceMu, hsErr, outMu, wire, late>>
                     /\ \A u \in Threads : u # t => count'[u] = count[u]
  <2>0. Kept
    BY <1>14 DEF ReadControl
  <2>1. CASE pc[t] = "rdClosed" /\ ~closed /\ inMu' = inMu /\ pc' = [pc EXCEPT ![t] = "rdRecord"]
    BY <1>0, <2>0, <2>1, OnWireStep DEF Holders, Phases, Closing, Wire
  <2>2. CASE pc[t] \in RdPc /\ inMu' = NoThread /\ pc' = [pc EXCEPT ![t] = "idle"]
    BY <1>0, <2>0, <2>2, OnWireStep DEF Holders, Phases, Closing, Wire
  <2>3. CASE pc[t] \in RdPc /\ inMu' = inMu /\ pc' = pc
    BY <1>0, <2>0, <2>3, OnWireStep DEF Holders, Phases, Closing, Wire
  <2> QED BY <1>14, <2>1, <2>2, <2>3 DEF ReadControl
<1>15. ASSUME NEW t \in Threads, WriteLock(t) PROVE Wire'
  BY <1>0, <1>15, OnWireStep
     DEF WriteLock, Holders, Phases, Closing, Wire
<1>16. ASSUME NEW t \in Threads, WriteClosed(t) PROVE Wire'
  BY <1>0, <1>16, OnWireStep
     DEF WriteClosed, WriteReturn, Holders, Phases, Closing, Wire
<1>17. ASSUME NEW t \in Threads, WriteRecord(t) PROVE Wire'
  BY <1>0, <1>17, OnWireStep
     DEF WriteRecord, WriteReturn, Written, Holders, Phases, Closing, Wire
<1>18. ASSUME NEW t \in Threads, WriteError(t) PROVE Wire'
  BY <1>0, <1>18, OnWireStep
     DEF WriteError, WriteReturn, Holders, Phases, Closing, Wire
<1>19. ASSUME NEW t \in Threads, CloseCAS(t) PROVE Wire'
  BY <1>0, <1>19, OnWireStep
     DEF CloseCAS, Holders, Phases, Closing, Wire
<1>20. ASSUME NEW t \in Threads, CloseHandshakeOK(t) PROVE Wire'
  BY <1>0, <1>20, OnWireStep
     DEF CloseHandshakeOK, Holders, Phases, Closing, Wire
<1>21. ASSUME NEW t \in Threads, CloseTryLock(t) PROVE Wire'
  BY <1>0, <1>21, OnWireStep
     DEF CloseTryLock, Holders, Phases, Closing, Wire
<1>22. ASSUME NEW t \in Threads, CloseSetDeadline(t) PROVE Wire'
  BY <1>0, <1>22, OnWireStep
     DEF CloseSetDeadline, Holders, Phases, Closing, Wire
<1>23. ASSUME NEW t \in Threads, CloseNotify(t) PROVE Wire'
  BY <1>0, <1>23, OnWireStep
     DEF CloseNotify, Written, Holders, Phases, Closing, Wire
<1>24. ASSUME NEW t \in Threads, CloseNotifyError(t) PROVE Wire'
  BY <1>0, <1>24, OnWireStep
     DEF CloseNotifyError, Holders, Phases, Closing, Wire
<1>25. ASSUME NEW t \in Threads, CloseUnlock(t) PROVE Wire'
  BY <1>0, <1>25, OnWireStep
     DEF CloseUnlock, Holders, Phases, Closing, Wire
<1>26. ASSUME NEW t \in Threads, CloseConn(t) PROVE Wire'
  BY <1>0, <1>26, OnWireStep
     DEF CloseConn, Holders, Phases, Closing, Wire
<1>27. ASSUME NEW t \in Threads, NEW ds, NEW v, SetDeadline(t, ds, v) PROVE Wire'
  BY <1>0, <1>27, OnWireStep
     DEF SetDeadline, Holders, Phases, Closing, Wire
<1>28. ASSUME \/ \E d \in Dir : Expire(d)
              \/ \E k \in RecordKinds : PeerSend(k)
              \/ PeerReset \/ UNCHANGED vars
       PROVE Wire'
  <2>1. UNCHANGED <<connVars, pc, count, late, wire>>
    BY <1>28 DEF Expire, PeerSend, PeerReset, vars, ioVars
  <2> QED BY <2>1, OnWireStep DEF Holders, Phases, Closing, Wire
<1> HIDE DEF HsPc, HsIO, HsSend, HsRecv, RdPc, WrPc, ClPc, ClMuPc
<1> HIDE DEF Goto, connVars, callVars, ioVars
<1>29. QED
  BY ReadIsControl, <1>1, <1>2, <1>3, <1>4, <1>5, <1>6, <1>7, <1>8, <1>9, <1>10,
     <1>11, <1>12, <1>13, <1>14, <1>15, <1>16, <1>17, <1>18, <1>19, <1>20,
     <1>21, <1>22, <1>23, <1>24, <1>25, <1>26, <1>27, <1>28
     DEF Next, Run, WaitPeer

\* Every step keeps a close_notify last.
LEMMA CloseNotifyLastStep ==
  ASSUME TypeOK, Holders, Phases, Closing, Wire, CloseNotifyLast, [Next]_vars
  PROVE  CloseNotifyLast'
<1>1. wire \in Seq(Written)
  BY DEF TypeOK
<1>2. CASE wire' = wire
  BY <1>2 DEF CloseNotifyLast
<1>3. ASSUME NEW r, wire' = Append(wire, r), ~OnWire("close_notify")
      PROVE  CloseNotifyLast'
  <2>1. /\ Len(wire') = Len(wire) + 1 /\ Len(wire) \in Nat
        /\ \A i \in 1 .. Len(wire) : wire'[i] = wire[i]
    <3>1. wire' = Append(wire, r)
      BY <1>3
    <3> QED BY ONLY <1>1, <3>1
  <2>2. \A i \in 1 .. Len(wire) : wire[i] # "close_notify"
    BY <1>3 DEF OnWire
  <2>3. ASSUME NEW i \in 1 .. Len(wire'), wire'[i] = "close_notify" PROVE i = Len(wire')
    <3>1. i \notin 1 .. Len(wire)
      BY ONLY <2>1, <2>2, <2>3
    <3> QED BY ONLY i \in 1 .. Len(wire'), <2>1, <3>1
  <2> QED BY <2>3 DEF CloseNotifyLast
<1>4. ASSUME NEW t \in Threads, HsProgress(t) \/ HsAlert(t) PROVE CloseNotifyLast'
  <2>1. ~OnWire("close_notify")
    BY <1>4 DEF HsProgress, HsAlert, Wire, Phases, HsPc, HsIO, HsSend, HsRecv
  <2> QED BY <1>2, <1>3, <1>4, <2>1 DEF HsProgress, HsAlert
<1>5. ASSUME NEW t \in Threads, WriteRecord(t) \/ CloseNotify(t) PROVE CloseNotifyLast'
  <2>1. ~OnWire("close_notify")
    BY <1>5 DEF WriteRecord, CloseNotify, Wire
  <2> QED BY <1>3, <1>5, <2>1 DEF WriteRecord, CloseNotify
<1>6. CASE \/ \E d \in Dir : Expire(d)
           \/ \E k \in RecordKinds : PeerSend(k)
           \/ PeerReset \/ UNCHANGED vars
  BY <1>2, <1>6 DEF Expire, PeerSend, PeerReset, vars, ioVars
<1>7. ASSUME NEW t \in Threads, \E o \in OpNames : Call(t, o) PROVE wire' = wire
  BY <1>7 DEF Call, ioVars
<1>8. ASSUME NEW t \in Threads, Run(t) PROVE wire' = wire
  <2>1. ASSUME \/ OnceSkip(t) \/ OnceEnter(t) \/ HsStart(t) \/ HsIOError(t)
               \/ HsAlertError(t) \/ HsStore(t) \/ HsExit(t) \/ HandshakeReturn(t)
        PROVE  wire' = wire
    BY <2>1 DEF OnceSkip, OnceEnter, HsStart, HsIOError, HsError, HsAlertError,
                HsStore, HsExit, HandshakeReturn, ioVars
  <2>2. ASSUME ReadLock(t) \/ WriteLock(t) \/ WriteClosed(t) \/ WriteError(t)
        PROVE  wire' = wire
    BY <2>2 DEF ReadLock, WriteLock, WriteClosed, WriteError, ioVars
  <2>3. ASSUME ReadControl(t) PROVE wire' = wire
    BY <2>3 DEF ReadControl
  <2>4. ASSUME \/ CloseCAS(t) \/ CloseHandshakeOK(t) \/ CloseTryLock(t)
               \/ CloseSetDeadline(t) \/ CloseNotifyError(t) \/ CloseUnlock(t)
               \/ CloseConn(t)
        PROVE  wire' = wire
    BY <2>4 DEF CloseCAS, CloseHandshakeOK, CloseTryLock, CloseSetDeadline,
                CloseNotifyError, CloseUnlock, CloseConn, ioVars
  <2>5. ASSUME NEW ds, NEW v, SetDeadline(t, ds, v) PROVE wire' = wire
    BY <2>5 DEF SetDeadline
  <2> QED BY <1>8, <2>1, <2>2, <2>3, <2>4, <2>5, ReadIsControl DEF Run
<1>9. ASSUME NEW t \in Threads, WaitPeer(t) PROVE CloseNotifyLast'
  <2>1. HsReject(t) => wire' = wire
    BY DEF HsReject, HsError, ioVars
  <2> QED BY <1>2, <1>4, <1>5, <1>9, <2>1 DEF WaitPeer
<1>10. QED
  BY <1>2, <1>6, <1>7, <1>8, <1>9 DEF Next

\* newConn establishes the invariant.
LEMMA InitIInv == Init => IInv
<1> SUFFICES ASSUME Init PROVE IInv
  OBVIOUS
<1>1. TypeOK
  <2>1. /\ deadline \in [Dir -> {"none", "armed", "expired"}]
        /\ pc \in [Threads -> Labels] /\ op \in [Threads -> OpNames]
    BY LabelNames DEF Init, OpNames
  <2>2. count \in [Threads -> Nat] /\ left \in [Threads -> Nat]
    BY ConnAssumption DEF Init, ConnAssumption
  <2>3. late \in [Threads -> BOOLEAN]
    BY DEF Init
  <2>4. /\ readBuf \in Seq(Nat) /\ inbox \in Seq(Records)
        /\ wire \in Seq(Written) /\ delivered \in Seq(Nat)
    BY DEF Init
  <2> QED BY <2>1, <2>2, <2>3, <2>4 DEF Init, TypeOK
<1>2. Holders /\ Phases /\ Closing
  BY NoThreadFact DEF Init, Holders, Phases, Closing, HsPc, HsIO, HsSend, HsRecv,
     RdPc, WrPc, ClPc, ClMuPc
<1>3. Wire /\ CloseNotifyLast
  BY DEF Init, Wire, OnWire, CloseNotifyLast
<1> QED BY <1>1, <1>2, <1>3 DEF IInv

\* Every step of every goroutine, of time and of the peer preserves it.
LEMMA NextIInv == IInv /\ [Next]_vars => IInv'
  BY TypeStep, HoldersStep, PhasesStep, ClosingStep, WireStep, CloseNotifyLastStep
     DEF IInv

\* The flags, the mutexes, the labels and the wire of a Conn always fit
\* together, for any number of goroutines making any calls.
THEOREM Invariance == Spec => []IInv
  BY InitIInv, NextIInv, PTL DEF Spec

(* What it implies *)

\* Every variable of a Conn keeps its type.
THEOREM TypeCorrect == Spec => []TypeOK
<1>1. IInv => TypeOK
  BY DEF IInv
<1> QED BY <1>1, Invariance, PTL

\* handshakeOnce, handshakeOK, inMu and outMu give record.Layer the exclusion
\* its contract asks of its callers.
THEOREM LayerContractHolds == Spec => []LayerContract
<1>1. IInv => LayerContract
  <2> SUFFICES ASSUME IInv, NEW a \in Threads, NEW b \in Threads, a # b
               PROVE  /\ ~(SendSide(a) /\ SendSide(b))
                      /\ ~(RecvSide(a) /\ RecvSide(b))
                      /\ pc[a] \in HsIO => ~SendSide(b) /\ ~RecvSide(b)
    BY DEF LayerContract
  <2> QED BY DEF IInv, Holders, Phases, SendSide, RecvSide, HsPc, HsIO, HsSend,
                 HsRecv, RdPc, WrPc, ClMuPc
<1> QED BY <1>1, Invariance, PTL

\* No record follows a close_notify.
THEOREM CloseNotifyLastHolds == Spec => []CloseNotifyLast
<1>1. IInv => CloseNotifyLast
  BY DEF IInv
<1> QED BY <1>1, Invariance, PTL

\* Application data and close_notify need a handshake that succeeded.
THEOREM AppOnlyAfterHandshakeHolds == Spec => []AppOnlyAfterHandshake
<1>1. IInv => AppOnlyAfterHandshake
  BY DEF IInv, Phases, Wire, OnWire, AppOnlyAfterHandshake, RdPc, WrPc, ClMuPc
<1> QED BY <1>1, Invariance, PTL

\* A call made after Close never touches the record layer.
THEOREM NoIOAfterCloseHolds == Spec => []NoIOAfterClose
<1>1. IInv => NoIOAfterClose
  BY DEF IInv, Closing, NoIOAfterClose, SendSide, RecvSide, ClPc, ClMuPc, HsIO
<1> QED BY <1>1, Invariance, PTL
=============================================================================
