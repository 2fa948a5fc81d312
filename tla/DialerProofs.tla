--------------------------- MODULE DialerProofs ---------------------------
(***************************************************************************)
(* Two users of Conn.  Its read side, for any number of concurrent Reads:  *)
(* a stream left in the middle of a record is never parsed again, a read   *)
(* error is final, and the bytes handed out are the peer's, in order.      *)
(* And the dialer, with any goroutines using the connection it returns: a  *)
(* dial that fails leaves nothing open, one that is interrupted fails, and *)
(* one that succeeds hands over a connection without a deadline.           *)
(***************************************************************************)
EXTENDS Dialer, ConnProofs

-----------------------------------------------------------------------------
(* What a Read finds *)

\* Only the head of the inbox can be torn, and then readErr is set; a Read is
\* at the transport only if there is neither an error nor a byte to hand out
\* first; and an error is only ever reported once the buffer is empty.
RInv ==
  /\ \A i \in 1 .. Len(inbox) : inbox[i].kind = "torn" => i = 1 /\ readErr # "nil"
  /\ \A t \in Threads : pc[t] = "rdRecord" => readErr = "nil" /\ readBuf = <<>>
  /\ readErr # "nil" => readBuf = <<>>

\* A step that does not concern the read side.
Aside ==
  /\ UNCHANGED readVars
  /\ \A t \in Threads : pc'[t] = "rdRecord" => pc[t] = "rdRecord"

\* A step aside keeps the invariant.
LEMMA AsideStep == RInv /\ Aside => RInv'
  BY DEF RInv, Aside, readVars

\* All steps but those of Read under inMu and those of the peer are such steps.
LEMMA OthersAside ==
  ASSUME TypeOK, NEW t \in Threads,
         \/ OnceSkip(t) \/ OnceEnter(t) \/ HsStart(t) \/ HsIOError(t)
         \/ HsAlertError(t) \/ HsStore(t) \/ HsExit(t) \/ HandshakeReturn(t)
         \/ ReadLock(t) \/ WriteLock(t) \/ WriteClosed(t) \/ WriteError(t)
         \/ CloseCAS(t) \/ CloseHandshakeOK(t) \/ CloseTryLock(t)
         \/ CloseSetDeadline(t) \/ CloseNotifyError(t) \/ CloseUnlock(t) \/ CloseConn(t)
         \/ \E ds \in SUBSET Dir, v \in {"none", "armed"} : SetDeadline(t, ds, v)
         \/ WaitPeer(t)
         \/ \E o \in OpNames : Call(t, o)
  PROVE  Aside
<1> USE DEF Aside, Goto, connVars, readVars, ioVars, callVars
<1>0. pc \in [Threads -> Labels]
  BY DEF TypeOK
<1>1. CASE \E o \in OpNames : Call(t, o)
  BY <1>0, <1>1 DEF Call, Entry, OpNames
<1>2. CASE HsProgress(t)
  BY <1>0, <1>2 DEF HsProgress, HsNext, HsIO, HsSend, HsRecv
<1>3. CASE HsIOError(t) \/ HsReject(t)
  BY <1>0, <1>3 DEF HsIOError, HsReject, HsError
<1>4. CASE OnceSkip(t) \/ OnceEnter(t) \/ HsStart(t) \/ HsAlert(t) \/ HsAlertError(t)
  BY <1>0, <1>4 DEF OnceSkip, OnceEnter, HsStart, HsAlert, HsAlertError
<1>5. CASE HsStore(t) \/ HsExit(t) \/ HandshakeReturn(t)
  BY <1>0, <1>5 DEF HsStore, HsExit, HandshakeReturn
<1>6. CASE ReadLock(t) \/ WriteLock(t) \/ WriteClosed(t) \/ WriteError(t) \/ WriteRecord(t)
  BY <1>0, <1>6 DEF ReadLock, WriteLock, WriteClosed, WriteError, WriteRecord, WriteReturn
<1>7. CASE CloseCAS(t) \/ CloseHandshakeOK(t) \/ CloseTryLock(t) \/ CloseSetDeadline(t)
  BY <1>0, <1>7 DEF CloseCAS, CloseHandshakeOK, CloseTryLock, CloseSetDeadline
<1>8. CASE CloseNotify(t) \/ CloseNotifyError(t) \/ CloseUnlock(t) \/ CloseConn(t)
  BY <1>0, <1>8 DEF CloseNotify, CloseNotifyError, CloseUnlock, CloseConn
<1>9. CASE \E ds \in SUBSET Dir, v \in {"none", "armed"} : SetDeadline(t, ds, v)
  BY <1>0, <1>9 DEF SetDeadline
<1> QED BY <1>1, <1>2, <1>3, <1>4, <1>5, <1>6, <1>7, <1>8, <1>9 DEF WaitPeer

\* Only the holder of inMu is among the labels of Read.
LEMMA OneReader ==
  ASSUME Holders, NEW t \in Threads, pc[t] \in RdPc
  PROVE  \A u \in Threads : u # t => pc[u] \notin RdPc
  BY DEF Holders

\* The steps of Read keep the invariant.
LEMMA ReadStep ==
  ASSUME TypeOK, Holders, RInv, NEW t \in Threads,
         ReadIOError(t) \/ \E n \in BufLens : ReadBuffered(t, n) \/ ReadRecord(t, n)
  PROVE  RInv'
<1> USE DEF Goto, connVars, readVars, ioVars, callVars
<1>0. pc \in [Threads -> Labels] /\ inbox \in Seq(Records) /\ readBuf \in Seq(Nat)
  BY DEF TypeOK
<1>1. CASE ReadIOError(t)
  <2>1. pc[t] = "rdRecord" /\ pc' = [pc EXCEPT ![t] = "idle"]
        /\ readErr' = "io" /\ readBuf' = readBuf /\ readBuf = <<>>
    BY <1>1 DEF ReadIOError, ReadReturn, Goto, RInv
  <2>2. \A u \in Threads : pc'[u] # "rdRecord"
    BY <2>1, <1>0, OneReader DEF RdPc
  <2>3. \A i \in 1 .. Len(inbox) : inbox[i].kind # "torn"
    BY <2>1 DEF RInv
  <2>4. \A i \in 1 .. Len(inbox') : inbox'[i].kind = "torn" => i = 1
    <3>1. CASE inbox' = inbox
      BY <3>1, <2>3
    <3>2. CASE inbox # <<>> /\ inbox' = [inbox EXCEPT ![1].kind = "torn"]
      BY <3>2, <2>3, <1>0
    <3> QED BY <3>1, <3>2, <1>1 DEF ReadIOError
  <2> QED BY <2>1, <2>2, <2>4 DEF RInv
<1>2. CASE \E n \in BufLens : ReadBuffered(t, n)
  <2>1. PICK n \in BufLens : ReadBuffered(t, n)
    BY <1>2
  <2>2. CASE UNCHANGED readVars /\ ReadReturn(t)
    BY <2>2, <1>0, AsideStep DEF Aside, ReadReturn, Goto
  <2>3. CASE /\ readBuf # <<>> /\ ReadReturn(t)
             /\ UNCHANGED <<readErr, inbox>>
    <3>1. readErr = "nil" /\ pc[t] \in RdPc
      BY <2>1, <2>3 DEF RInv, ReadBuffered, RdPc
    <3>2. \A u \in Threads : pc'[u] # "rdRecord"
      BY <2>3, <3>1, <1>0, OneReader DEF RdPc, ReadReturn, Goto
    <3> QED BY <2>3, <3>1, <3>2 DEF RInv
  <2>4. CASE readBuf = <<>> /\ readErr = "nil" /\ UNCHANGED readVars
    BY <2>4 DEF RInv, readVars
  <2> QED BY <2>1, <2>2, <2>3, <2>4 DEF ReadBuffered
<1>3. CASE \E n \in BufLens : ReadRecord(t, n)
  <2>1. PICK n \in BufLens : ReadRecord(t, n)
    BY <1>3
  <2>2. pc[t] = "rdRecord" /\ readErr = "nil" /\ readBuf = <<>>
    BY <2>1 DEF ReadRecord, RInv
  <2>3. \A u \in Threads : u # t => pc[u] # "rdRecord"
    BY <2>2, OneReader DEF RdPc
  <2>4. \A i \in 1 .. Len(inbox') : inbox'[i].kind # "torn"
    <3>1. inbox # <<>> /\ inbox' = Tail(inbox)
      BY <2>1 DEF ReadRecord
    <3>2. \A i \in 1 .. Len(inbox) : inbox[i].kind # "torn"
      BY <2>2 DEF RInv
    <3> QED BY <3>1, <3>2, <1>0
  <2>5. \/ pc' = pc /\ readErr' = readErr /\ readBuf' = readBuf
        \/ pc' = [pc EXCEPT ![t] = "idle"] /\ (readErr' # "nil" => readBuf' = readBuf)
    BY <2>1, <2>2 DEF ReadRecord, ReadEmpty, ReadReturn, Goto
  <2> QED BY <2>2, <2>3, <2>4, <2>5, <1>0 DEF RInv
<1> QED BY <1>1, <1>2, <1>3

\* So do the peer and the clock.
LEMMA PeerStep ==
  ASSUME TypeOK, RInv, NEW k \in RecordKinds, PeerSend(k)
  PROVE  RInv'
<1>1. /\ inbox \in Seq(Records) /\ k # "torn"
      /\ UNCHANGED <<pc, readErr, readBuf>>
  BY ConnAssumption DEF ConnAssumption, TypeOK, PeerSend
<1>2. PICK d : inbox' = Append(inbox, [kind |-> k, data |-> d])
  BY DEF PeerSend
<1>3. /\ Len(inbox') = Len(inbox) + 1 /\ Len(inbox) \in Nat
      /\ \A i \in 1 .. Len(inbox) : inbox'[i] = inbox[i]
      /\ inbox'[Len(inbox) + 1].kind = k
  BY <1>1, <1>2
<1>4. \A i \in 1 .. Len(inbox') : inbox'[i].kind = "torn" => i \in 1 .. Len(inbox)
  BY <1>1, <1>3
<1> QED BY <1>1, <1>3, <1>4 DEF RInv

\* RInv is inductive relative to IInv, which says that only one Read is ever
\* under inMu.
THEOREM ReadInvariance == Spec => []RInv
<1>1. Init => RInv
  BY DEF Init, RInv
<1>2. IInv /\ RInv /\ [Next]_vars => RInv'
  <2> SUFFICES ASSUME IInv, RInv, [Next]_vars PROVE RInv'
    OBVIOUS
  <2> USE DEF IInv
  <2>1. CASE UNCHANGED vars
    BY <2>1, AsideStep DEF vars, Aside, readVars
  <2>2. CASE \E t \in Threads : Run(t) \/ WaitPeer(t) \/ \E o \in OpNames : Call(t, o)
    <3>1. PICK t \in Threads : Run(t) \/ WaitPeer(t) \/ \E o \in OpNames : Call(t, o)
      BY <2>2
    <3>2. CASE ReadIOError(t) \/ \E n \in BufLens : ReadBuffered(t, n) \/ ReadRecord(t, n)
      BY <3>2, ReadStep
    <3> QED BY <3>1, <3>2, OthersAside, AsideStep DEF Run
  <2>3. CASE (\E d \in Dir : Expire(d)) \/ PeerReset
    BY <2>3, AsideStep DEF Aside, Expire, PeerReset, readVars
  <2>4. CASE \E k \in RecordKinds : PeerSend(k)
    BY <2>4, PeerStep
  <2> QED BY <2>1, <2>2, <2>3, <2>4 DEF Next
<1> QED BY <1>1, <1>2, Invariance, PTL DEF Spec

\* A record that a failed ReadRecord has left half read is never read as the
\* start of another: readErr is set, and stays.
THEOREM DesyncNeverReadHolds == Spec => []DesyncNeverRead
<1>1. IInv /\ RInv => DesyncNeverRead
  <2> SUFFICES ASSUME IInv, RInv, inbox # <<>>, inbox[1].kind = "torn" PROVE readErr # "nil"
    BY DEF DesyncNeverRead
  <2>1. inbox \in Seq(Records)
    BY DEF IInv, TypeOK
  <2>2. 1 \in 1 .. Len(inbox)
    BY ONLY inbox # <<>>, <2>1
  <2> QED BY <2>2 DEF RInv
<1> QED BY <1>1, Invariance, ReadInvariance, PTL

\* Once readErr is set it is what every later Read reports: no step changes it,
\* takes a record from the transport or hands out a byte.
THEOREM ReadErrStickyHolds == Spec => ReadErrSticky
<1> DEFINE Sticky == readErr # "nil" => /\ readErr' = readErr
                                        /\ Len(inbox') >= Len(inbox)
                                        /\ delivered' = delivered
<1>1. IInv /\ RInv /\ [Next]_vars => [Sticky]_vars
  <2> SUFFICES ASSUME IInv, RInv, Next, readErr # "nil"
               PROVE  readErr' = readErr /\ Len(inbox') >= Len(inbox) /\ delivered' = delivered
    OBVIOUS
  <2>0. TypeOK /\ Len(inbox) \in Nat
    BY DEF IInv, TypeOK
  <2>1. CASE UNCHANGED readVars
    BY <2>0, <2>1 DEF readVars
  <2>2. CASE \E t \in Threads : Run(t) \/ WaitPeer(t) \/ \E o \in OpNames : Call(t, o)
    <3>1. PICK t \in Threads : Run(t) \/ WaitPeer(t) \/ \E o \in OpNames : Call(t, o)
      BY <2>2
    <3>2. CASE ReadIOError(t) \/ \E n \in BufLens : ReadRecord(t, n)
      BY <3>2 DEF ReadIOError, ReadRecord, RInv
    <3>3. CASE \E n \in BufLens : ReadBuffered(t, n)
      <4>1. readBuf = <<>>
        BY DEF RInv
      <4>2. UNCHANGED readVars
        BY <3>3, <4>1 DEF ReadBuffered, readVars
      <4> QED BY <4>2, <2>1
    <3> QED BY <2>0, <2>1, <3>1, <3>2, <3>3, OthersAside DEF Run, Aside
  <2>3. CASE (\E d \in Dir : Expire(d)) \/ PeerReset
    BY <2>1, <2>3 DEF Expire, PeerReset, readVars
  <2>4. CASE \E k \in RecordKinds : PeerSend(k)
    <3>1. inbox \in Seq(Records) /\ UNCHANGED <<readErr, delivered>>
      BY <2>0, <2>4 DEF TypeOK, PeerSend
    <3>2. PICK r : inbox' = Append(inbox, r)
      BY <2>4 DEF PeerSend
    <3> QED BY <3>1, <3>2, <2>0
  <2> QED BY <2>2, <2>3, <2>4 DEF Next
<1> QED BY <1>1, Invariance, ReadInvariance, PTL DEF Spec, ReadErrSticky

-----------------------------------------------------------------------------
(* The dialer *)

\* The types of the dial's own variables.
DialTypes ==
  /\ ctxKind \in {"background", "cancel", "deadline"} /\ dialErr \in BOOLEAN
  /\ dpc \in {"dial", "bound", "spawn", "call", "wait", "recv", "clear", "raw", "ok", "err"}
  /\ wpc \in {"none", "select", "poison", "send", "exited"}

\* The watcher lives between SpawnWatcher and ReceiveInterrupt, and sends
\* exactly one result.
Rendezvous ==
  /\ dpc \in {"dial", "bound", "spawn"} => wpc = "none"
  /\ ctxKind = "background" => wpc = "none" /\ dpc \notin {"bound", "spawn", "recv", "clear"}
  /\ ctxKind # "background" /\ dpc \in {"call", "wait", "recv"} => wpc # "none"
  /\ wpc \in {"select", "poison", "send"} => interrupt = <<>> /\ dpc \in {"call", "wait", "recv"}
  /\ interrupt # <<>> => wpc = "exited" /\ dpc \in {"call", "wait", "recv"}
  /\ dpc = "err" => transport = "closed"

\* The handshake of the dialing goroutine, while it runs and once it is over.
DialHandshake ==
  /\ dpc = "wait" => /\ op[Dialing] = "Handshake"
                     /\ pc[Dialing] \in {"idle", "once", "ret"} \cup HsPc
                     /\ pc[Dialing] = "idle" => onceDone
  /\ dpc \in {"recv", "clear", "ok"} => onceDone
  /\ dpc = "ok" \/ (dpc = "clear" /\ ~dialErr) => hsErr = "nil"

\* The watcher has seen ctx done: the dial can only fail.
Doomed ==
  \/ wpc \in {"poison", "send"} \/ interrupt = <<"ctx">>
  \/ (dpc = "clear" /\ dialErr) \/ dpc \in {"raw", "err"}

\* Without calls of SetDeadline, the only deadlines are those of the dial.
Deadlines ==
  /\ \A t \in Threads : pc[t] # "setDl"
  /\ dpc = "ok" /\ ~closed => deadline = BothDirs("none")
  /\ ctxKind # "deadline" /\ ~Doomed /\ ~closed => deadline = BothDirs("none")

DInv == IInv /\ DialTypes /\ Rendezvous /\ DialHandshake

-----------------------------------------------------------------------------
(* What the dial relies on in Conn *)

\* A step of a goroutine as the dial sees it: what is settled stays, and
\* deadlines are moved only by SetDeadline and by a Close.
Settled(t) ==
  /\ closed => closed'
  /\ onceDone => onceDone' /\ hsErr' = hsErr
  /\ transport = "closed" => transport' = "closed"
  /\ deadline' = deadline \/ closed' \/ pc[t] = "setDl"
  /\ pc'[t] = "setDl" => "SetDeadline" \in Ops[t]
  /\ \A u \in Threads : u # t => pc'[u] = pc[u]

\* The steps of Handshake.
LEMMA HandshakeSettles ==
  ASSUME IInv, NEW t \in Threads,
         \/ OnceSkip(t) \/ OnceEnter(t) \/ HsStart(t) \/ HsProgress(t)
         \/ HsIOError(t) \/ HsReject(t) \/ HsAlert(t) \/ HsAlertError(t)
         \/ HsStore(t) \/ HsExit(t) \/ HandshakeReturn(t)
  PROVE  Settled(t)
<1> USE DEF Settled, Goto, connVars, ioVars
<1>0. pc \in [Threads -> Labels]
  BY DEF IInv, TypeOK
<1>1. pc[t] \in HsPc => ~onceDone
  BY NoThreadFact DEF IInv, Holders
<1>2. CASE HsProgress(t)
  BY <1>0, <1>2 DEF HsProgress, HsNext, HsIO, HsSend, HsRecv
<1>3. CASE HsIOError(t) \/ HsReject(t)
  <2>1. ~onceDone
    BY <1>1, <1>3 DEF HsIOError, HsReject, HsPc, HsIO, HsSend, HsRecv
  <2>2. CASE HsIOError(t)
    BY <1>0, <2>1, <2>2 DEF HsIOError, HsError
  <2>3. CASE HsReject(t)
    BY <1>0, <2>1, <2>3 DEF HsReject, HsError
  <2> QED BY <1>3, <2>2, <2>3
<1>4. CASE HsStart(t)
  <2>1. ~onceDone
    BY <1>1, <1>4 DEF HsStart, HsPc
  <2> QED BY <1>0, <1>4, <2>1 DEF HsStart
<1>5. CASE OnceSkip(t)
  BY <1>0, <1>5 DEF OnceSkip
<1>6. CASE OnceEnter(t)
  BY <1>0, <1>6 DEF OnceEnter
<1>7. CASE HsAlert(t)
  BY <1>0, <1>7 DEF HsAlert
<1>8. CASE HsAlertError(t)
  BY <1>0, <1>8 DEF HsAlertError
<1>9. CASE HsStore(t)
  BY <1>0, <1>9 DEF HsStore
<1>10. CASE HsExit(t)
  BY <1>0, <1>10 DEF HsExit
<1>11. CASE HandshakeReturn(t)
  BY <1>0, <1>11 DEF HandshakeReturn
<1> QED BY <1>2, <1>3, <1>4, <1>5, <1>6, <1>7, <1>8, <1>9, <1>10, <1>11

\* What a step that takes a goroutine to l does to the rest.
Keeps(t, l) ==
  /\ Goto(t, l) /\ l # "setDl"
  /\ closed => closed'
  /\ onceDone' = onceDone /\ hsErr' = hsErr
  /\ transport = "closed" => transport' = "closed"
  /\ deadline' = deadline \/ closed' \/ pc[t] = "setDl"

LEMMA KeepsSettled ==
  ASSUME IInv, NEW t \in Threads, NEW l, Keeps(t, l)
  PROVE  Settled(t)
<1>1. pc \in [Threads -> Labels]
  BY DEF IInv, TypeOK
<1>2. pc'[t] = l /\ \A u \in Threads : u # t => pc'[u] = pc[u]
  BY <1>1 DEF Keeps, Goto
<1> QED BY <1>2 DEF Keeps, Settled

\* The steps of Read, Write, Close and SetDeadline, and new calls.
LEMMA CallsSettle ==
  ASSUME IInv, NEW t \in Threads,
         \/ ReadLock(t) \/ ReadIOError(t)
         \/ \E n \in BufLens : ReadBuffered(t, n) \/ ReadRecord(t, n)
         \/ WriteLock(t) \/ WriteClosed(t) \/ WriteError(t) \/ WriteRecord(t)
         \/ CloseCAS(t) \/ CloseHandshakeOK(t) \/ CloseTryLock(t)
         \/ CloseSetDeadline(t) \/ CloseNotify(t) \/ CloseNotifyError(t)
         \/ CloseUnlock(t) \/ CloseConn(t)
         \/ \E ds \in SUBSET Dir, v \in {"none", "armed"} : SetDeadline(t, ds, v)
         \/ \E o \in OpNames : Call(t, o)
  PROVE  Settled(t)
<1> USE DEF Keeps, connVars, ioVars
<1>0. \A l : Keeps(t, l) => Settled(t)
  BY KeepsSettled
<1>1. CASE ReadLock(t)
  <2>1. Keeps(t, "rdClosed")
    BY <1>1 DEF ReadLock
  <2> QED BY ONLY <1>0, <2>1
<1>2. ASSUME ReadReturn(t), UNCHANGED ioVars PROVE Settled(t)
  <2>1. Keeps(t, "idle")
    BY <1>2 DEF ReadReturn
  <2> QED BY ONLY <1>0, <2>1
<1>3. ASSUME UNCHANGED <<connVars, pc, deadline, transport>>, pc[t] # "setDl" PROVE Settled(t)
  BY <1>3 DEF Settled
<1>4. CASE ReadIOError(t)
  BY <1>2, <1>4 DEF ReadIOError
<1>5. CASE \E n \in BufLens : ReadBuffered(t, n)
  <2>1. UNCHANGED ioVars /\ (ReadReturn(t) \/ (UNCHANGED connVars /\ Goto(t, "rdRecord")))
    BY <1>5 DEF ReadBuffered
  <2>2. CASE UNCHANGED connVars /\ Goto(t, "rdRecord")
    <3>1. Keeps(t, "rdRecord")
      BY <2>1, <2>2
    <3> QED BY ONLY <1>0, <3>1
  <2> QED BY <1>2, <2>1, <2>2
<1>6. CASE \E n \in BufLens : ReadRecord(t, n)
  <2>1. UNCHANGED <<connVars, pc>> \/ ReadReturn(t)
    BY <1>6 DEF ReadRecord, ReadEmpty
  <2>2. pc[t] = "rdRecord" /\ UNCHANGED ioVars
    BY <1>6 DEF ReadRecord
  <2> QED BY <1>2, <1>3, <2>1, <2>2
<1>7. ASSUME WriteReturn(t), UNCHANGED <<deadline, transport>> PROVE Settled(t)
  <2>1. Keeps(t, "idle")
    BY <1>7 DEF WriteReturn
  <2> QED BY ONLY <1>0, <2>1
<1>8. CASE WriteLock(t)
  <2>1. Keeps(t, "wrClosed")
    BY <1>8 DEF WriteLock
  <2> QED BY ONLY <1>0, <2>1
<1>9. CASE WriteClosed(t)
  <2>1. UNCHANGED ioVars /\ (WriteReturn(t) \/ (UNCHANGED connVars /\ Goto(t, "wrRecord")))
    BY <1>9 DEF WriteClosed
  <2>2. CASE UNCHANGED connVars /\ Goto(t, "wrRecord")
    <3>1. Keeps(t, "wrRecord")
      BY <2>1, <2>2
    <3> QED BY ONLY <1>0, <3>1
  <2> QED BY <1>7, <2>1, <2>2
<1>10. CASE WriteError(t)
  BY <1>7, <1>10 DEF WriteError
<1>11. CASE WriteRecord(t)
  BY <1>3, <1>7, <1>11 DEF WriteRecord
<1>12. CASE CloseCAS(t)
  <2>1. Keeps(t, IF closed THEN "idle" ELSE "clOK")
    BY <1>12 DEF CloseCAS
  <2> QED BY ONLY <1>0, <2>1
<1>13. CASE CloseHandshakeOK(t)
  <2>1. Keeps(t, IF handshakeOK THEN "clTry" ELSE "clConn")
    BY <1>13 DEF CloseHandshakeOK
  <2> QED BY ONLY <1>0, <2>1
<1>14. CASE CloseTryLock(t)
  <2>1. Keeps(t, "clDeadline") \/ Keeps(t, "clConn")
    BY <1>14 DEF CloseTryLock
  <2> QED BY ONLY <1>0, <2>1
<1>15. CASE CloseSetDeadline(t)
  <2>1. Keeps(t, "clAlert")
    BY <1>15 DEF CloseSetDeadline, IInv, Closing, ClPc, ClMuPc
  <2> QED BY ONLY <1>0, <2>1
<1>16. CASE CloseNotify(t) \/ CloseNotifyError(t)
  <2>1. Keeps(t, "clUnlock")
    BY <1>16 DEF CloseNotify, CloseNotifyError
  <2> QED BY ONLY <1>0, <2>1
<1>17. CASE CloseUnlock(t)
  <2>1. Keeps(t, "clConn")
    BY <1>17 DEF CloseUnlock
  <2> QED BY ONLY <1>0, <2>1
<1>18. CASE CloseConn(t)
  <2>1. Keeps(t, "idle")
    BY <1>18 DEF CloseConn
  <2> QED BY ONLY <1>0, <2>1
<1>19. CASE \E ds \in SUBSET Dir, v \in {"none", "armed"} : SetDeadline(t, ds, v)
  <2>1. Keeps(t, "idle")
    BY <1>19 DEF SetDeadline
  <2> QED BY ONLY <1>0, <2>1
<1>20. CASE \E o \in OpNames : Call(t, o)
  <2>1. pc \in [Threads -> Labels]
    BY DEF IInv, TypeOK
  <2> QED BY <1>20, <2>1 DEF Call, Entry, OpNames, Goto, Settled
<1> HIDE DEF Keeps, connVars, ioVars
<1> QED BY <1>1, <1>4, <1>5, <1>6, <1>8, <1>9, <1>10, <1>11, <1>12, <1>13, <1>14, <1>15, <1>16,
           <1>17, <1>18, <1>19, <1>20

\* Every step of a goroutine.
LEMMA ThreadSettles ==
  ASSUME IInv, NEW t \in Threads, Run(t) \/ WaitPeer(t) \/ \E o \in OpNames : Call(t, o)
  PROVE  Settled(t)
  BY HandshakeSettles, CallsSettle DEF Run, WaitPeer

\* A step of a goroutine inside a call is not a new call.
LEMMA InCall ==
  ASSUME NEW t \in Threads, Run(t) \/ WaitPeer(t)
  PROVE  UNCHANGED op /\ pc[t] # "idle"
<1> USE DEF callVars
<1>1. CASE OnceSkip(t) \/ OnceEnter(t) \/ HsStart(t) \/ HsAlert(t) \/ HsAlertError(t)
  BY <1>1 DEF OnceSkip, OnceEnter, HsStart, HsAlert, HsAlertError
<1>2. CASE HsProgress(t) \/ HsIOError(t) \/ HsReject(t)
  BY <1>2 DEF HsProgress, HsIOError, HsReject, HsError, HsIO, HsSend, HsRecv
<1>3. CASE HsStore(t) \/ HsExit(t) \/ HandshakeReturn(t)
  BY <1>3 DEF HsStore, HsExit, HandshakeReturn
<1>4. CASE ReadLock(t) \/ ReadIOError(t) \/ \E n \in BufLens : ReadBuffered(t, n) \/ ReadRecord(t, n)
  BY <1>4 DEF ReadLock, ReadIOError, ReadBuffered, ReadRecord
<1>5. CASE WriteLock(t) \/ WriteClosed(t) \/ WriteError(t) \/ WriteRecord(t)
  BY <1>5 DEF WriteLock, WriteClosed, WriteError, WriteRecord
<1>6. CASE CloseCAS(t) \/ CloseHandshakeOK(t) \/ CloseTryLock(t) \/ CloseSetDeadline(t)
  BY <1>6 DEF CloseCAS, CloseHandshakeOK, CloseTryLock, CloseSetDeadline
<1>7. CASE CloseNotify(t) \/ CloseNotifyError(t) \/ CloseUnlock(t) \/ CloseConn(t)
  BY <1>7 DEF CloseNotify, CloseNotifyError, CloseUnlock, CloseConn
<1>8. CASE \E ds \in SUBSET Dir, v \in {"none", "armed"} : SetDeadline(t, ds, v)
  BY <1>8 DEF SetDeadline
<1> QED BY <1>1, <1>2, <1>3, <1>4, <1>5, <1>6, <1>7, <1>8 DEF Run, WaitPeer

\* A goroutine that called Handshake stays in it until the Once is done.
LEMMA InHandshake ==
  ASSUME IInv, NEW t \in Threads, Run(t) \/ WaitPeer(t), op[t] = "Handshake",
         pc[t] \in {"once", "ret"} \cup HsPc
  PROVE  /\ pc'[t] \in {"idle", "once", "ret"} \cup HsPc
         /\ pc'[t] = "idle" => onceDone
<1> USE DEF Goto, HsPc, HsIO, HsSend, HsRecv
<1>0. pc \in [Threads -> Labels]
  BY DEF IInv, TypeOK
<1>1. CASE HsProgress(t)
  BY <1>0, <1>1 DEF HsProgress, HsNext
<1>2. CASE HsIOError(t) \/ HsReject(t)
  BY <1>0, <1>2 DEF HsIOError, HsReject, HsError
<1>3. CASE OnceSkip(t) \/ OnceEnter(t) \/ HsStart(t)
  BY <1>0, <1>3 DEF OnceSkip, OnceEnter, HsStart
<1>4. CASE HsAlert(t) \/ HsAlertError(t) \/ HsStore(t) \/ HsExit(t)
  BY <1>0, <1>4 DEF HsAlert, HsAlertError, HsStore, HsExit
<1>5. CASE HandshakeReturn(t)
  BY <1>0, <1>5 DEF HandshakeReturn, IInv, Phases
<1>6. ~(ReadLock(t) \/ ReadIOError(t) \/ \E n \in BufLens : ReadBuffered(t, n) \/ ReadRecord(t, n))
  BY DEF ReadLock, ReadIOError, ReadBuffered, ReadRecord
<1>7. ~(WriteLock(t) \/ WriteClosed(t) \/ WriteError(t) \/ WriteRecord(t))
  BY DEF WriteLock, WriteClosed, WriteError, WriteRecord
<1>8. ~(CloseCAS(t) \/ CloseHandshakeOK(t) \/ CloseTryLock(t) \/ CloseSetDeadline(t))
  BY DEF CloseCAS, CloseHandshakeOK, CloseTryLock, CloseSetDeadline
<1>9. ~(CloseNotify(t) \/ CloseNotifyError(t) \/ CloseUnlock(t) \/ CloseConn(t))
  BY DEF CloseNotify, CloseNotifyError, CloseUnlock, CloseConn
<1>10. ~(\E ds \in SUBSET Dir, v \in {"none", "armed"} : SetDeadline(t, ds, v))
  BY DEF SetDeadline
<1> QED BY <1>1, <1>2, <1>3, <1>4, <1>5, <1>6, <1>7, <1>8, <1>9, <1>10 DEF Run, WaitPeer

-----------------------------------------------------------------------------
(* The dial and the connection *)

\* A step of the connection while the dial stands still.
ConnStep ==
  /\ \/ \E t \in Threads : \/ Run(t) \/ WaitPeer(t)
                           \/ dpc = "ok" /\ \E o \in OpNames : Call(t, o)
     \/ \E d \in Dir : Expire(d)
     \/ \E k \in RecordKinds : PeerSend(k)
     \/ PeerReset
  /\ UNCHANGED dialVars

\* Whose step it is.
LEMMA DialSteps == DialNext => DialStep \/ Watcher \/ CtxDone \/ ConnStep
  BY DEF DialNext, ConnRun, UseConn, ConnStep

\* IInv says nothing of the transport and its deadlines but their types.
LEMMA IOFrame ==
  ASSUME IInv, UNCHANGED <<connVars, readVars, wire, callVars, pc, count>>,
         deadline' \in [Dir -> {"none", "armed", "expired"}],
         transport' \in {"open", "closed", "gone"}
  PROVE  IInv'
<1>1. TypeOK'
  <2>1. /\ ConnTypes' /\ StreamTypes' /\ CallTypes' /\ PcType' /\ CountType'
    BY Frame DEF IInv
  <2>2. IOTypes'
    BY DEF IInv, TypeOK, IOTypes
  <2> QED BY <2>1, <2>2, TypeGroups
<1>2. Holders' /\ Phases' /\ Closing'
  BY DEF IInv, Holders, Phases, Closing, connVars, callVars
<1>3. Wire' /\ CloseNotifyLast'
  BY DEF IInv, Wire, OnWire, CloseNotifyLast, connVars
<1> QED BY <1>1, <1>2, <1>3 DEF IInv

\* The invariant of Conn survives in the composition.
LEMMA DialIInv ==
  ASSUME IInv, [DialNext]_allVars
  PROVE  IInv'
<1>0. /\ deadline \in [Dir -> {"none", "armed", "expired"}]
      /\ transport \in {"open", "closed", "gone"}
  BY DEF IInv, TypeOK
<1>1. CASE DialRaw \/ CloseRaw
  BY <1>0, <1>1, IOFrame DEF DialRaw, CloseRaw
<1>2. CASE BoundByCtx \/ ClearDeadline \/ WatcherPoison
  BY <1>0, <1>2, IOFrame DEF BoundByCtx, ClearDeadline, WatcherPoison, BothDirs
<1>3. CASE CallHandshake
  BY <1>3, NextIInv, DialerAssumption DEF CallHandshake, Next, OpNames
<1>4. CASE ConnStep
  BY <1>4, NextIInv DEF ConnStep, Next
<1>5. CASE UNCHANGED vars
  BY <1>5, NextIInv
<1>6. CASE SpawnWatcher \/ HandshakeReturned \/ ReceiveInterrupt \/ CtxDone
           \/ WatcherDone \/ WatcherCtx \/ WatcherSend
  BY <1>5, <1>6 DEF SpawnWatcher, HandshakeReturned, ReceiveInterrupt, CtxDone,
                    WatcherDone, WatcherCtx, WatcherSend
<1> QED BY <1>1, <1>2, <1>3, <1>4, <1>5, <1>6, DialSteps DEF DialStep, Watcher, allVars

\* The connection leaves the rendezvous alone: a closed transport stays closed.
LEMMA ConnSettles ==
  ASSUME IInv, ConnStep
  PROVE  /\ closed => closed'
         /\ onceDone => onceDone' /\ hsErr' = hsErr
         /\ transport = "closed" => transport' = "closed"
         /\ (\A t \in Threads : pc[t] # "setDl") /\ deadline = BothDirs("none") =>
              deadline' = deadline \/ closed'
<1>1. CASE \E t \in Threads : Run(t) \/ WaitPeer(t) \/ \E o \in OpNames : Call(t, o)
  <2>1. PICK t \in Threads : Run(t) \/ WaitPeer(t) \/ \E o \in OpNames : Call(t, o)
    BY <1>1
  <2> QED BY <2>1, ThreadSettles DEF Settled
<1>2. CASE \E d \in Dir : Expire(d)
  BY <1>2 DEF Expire, BothDirs, connVars
<1>3. CASE \E k \in RecordKinds : PeerSend(k)
  <2>1. UNCHANGED <<connVars, ioVars>>
    BY <1>3 DEF PeerSend
  <2> QED BY <2>1 DEF connVars, ioVars
<1>4. CASE PeerReset
  BY <1>4 DEF PeerReset, connVars
<1> QED BY <1>1, <1>2, <1>3, <1>4 DEF ConnStep

\* Every step keeps the watcher and the dialing goroutine in step.
LEMMA RendezvousStep ==
  ASSUME IInv, DialTypes, Rendezvous, [DialNext]_allVars
  PROVE  Rendezvous'
<1> USE DEF Rendezvous, DialTypes
<1>1. CASE DialRaw \/ BoundByCtx \/ SpawnWatcher
  BY <1>1 DEF DialRaw, BoundByCtx, SpawnWatcher, vars, ioVars
<1>2. CASE CallHandshake \/ HandshakeReturned
  BY <1>2 DEF CallHandshake, Call, HandshakeReturned, vars, ioVars
<1>3. CASE ReceiveInterrupt \/ ClearDeadline \/ CloseRaw
  BY <1>3 DEF ReceiveInterrupt, ClearDeadline, CloseRaw, vars, ioVars
<1>4. CASE WatcherDone \/ WatcherCtx \/ WatcherPoison \/ WatcherSend
  BY <1>4 DEF WatcherDone, WatcherCtx, WatcherPoison, WatcherSend, vars, ioVars
<1>5. CASE CtxDone \/ UNCHANGED allVars
  BY <1>5 DEF CtxDone, vars, ioVars, allVars, dialVars
<1>6. CASE ConnStep
  BY <1>6, ConnSettles DEF ConnStep, dialVars
<1> QED BY <1>1, <1>2, <1>3, <1>4, <1>5, <1>6, DialSteps DEF DialStep, Watcher

\* Every step keeps what is known of the dial's handshake.
LEMMA DialHandshakeStep ==
  ASSUME IInv, DialTypes, Rendezvous, DialHandshake, [DialNext]_allVars
  PROVE  DialHandshake'
<1> USE DEF DialHandshake, DialTypes, connVars, callVars
<1>0. pc \in [Threads -> Labels] /\ op \in [Threads -> OpNames]
  BY DEF IInv, TypeOK
<1>1. CASE DialRaw \/ BoundByCtx \/ SpawnWatcher \/ CloseRaw
  BY <1>1 DEF DialRaw, BoundByCtx, SpawnWatcher, CloseRaw
<1>2. CASE CallHandshake
  <2>1. pc' = [pc EXCEPT ![Dialing] = "once"] /\ op' = [op EXCEPT ![Dialing] = "Handshake"]
    BY <1>2 DEF CallHandshake, Call, Goto, Entry
  <2>2. pc'[Dialing] = "once" /\ op'[Dialing] = "Handshake" /\ dpc' = "wait"
    BY <1>0, <1>2, <2>1, DialerAssumption DEF CallHandshake
  <2> QED BY <2>2
<1>3. CASE HandshakeReturned \/ ReceiveInterrupt
  BY <1>3 DEF HandshakeReturned, ReceiveInterrupt, vars
<1>4. CASE ClearDeadline
  BY <1>4 DEF ClearDeadline
<1>5. CASE WatcherDone \/ WatcherCtx \/ WatcherPoison \/ WatcherSend
  BY <1>5 DEF WatcherDone, WatcherCtx, WatcherPoison, WatcherSend, vars
<1>6. CASE CtxDone \/ UNCHANGED allVars
  BY <1>6 DEF CtxDone, vars, allVars, dialVars
<1>7. CASE ConnStep
  <2>1. UNCHANGED <<dpc, dialErr>> /\ (onceDone => onceDone' /\ hsErr' = hsErr)
    BY <1>7, ConnSettles DEF ConnStep, dialVars
  <2>2. CASE dpc # "wait"
    BY <2>1, <2>2
  <2>3. CASE dpc = "wait"
    <3>1. op'[Dialing] = "Handshake"
      <4>1. UNCHANGED op
        BY <1>7, <2>3, InCall DEF ConnStep, Expire, PeerSend, PeerReset
      <4> QED BY <4>1, <2>3
    <3>2. /\ pc'[Dialing] \in {"idle", "once", "ret"} \cup HsPc
          /\ pc'[Dialing] = "idle" => onceDone'
      <4>1. CASE UNCHANGED pc
        BY <4>1, <2>1, <2>3
      <4>2. CASE \E t \in Threads : t # Dialing /\ (Run(t) \/ WaitPeer(t))
        <5>1. pc'[Dialing] = pc[Dialing]
          BY <4>2, ThreadSettles, DialerAssumption DEF Settled
        <5> QED BY <5>1, <2>1, <2>3
      <4>3. CASE Run(Dialing) \/ WaitPeer(Dialing)
        <5>1. pc[Dialing] # "idle"
          BY <4>3, InCall, DialerAssumption
        <5> QED BY <5>1, <4>3, <2>1, <2>3, InHandshake, DialerAssumption
      <4> QED BY <1>7, <2>3, <4>1, <4>2, <4>3 DEF ConnStep, Expire, PeerSend, PeerReset
    <3> QED BY <2>1, <2>3, <3>1, <3>2
  <2> QED BY <2>2, <2>3
<1> QED BY <1>1, <1>2, <1>3, <1>4, <1>5, <1>6, <1>7, DialSteps DEF DialStep, Watcher

\* Every step keeps the types.
LEMMA DialTypesStep ==
  ASSUME DialTypes, [DialNext]_allVars
  PROVE  DialTypes'
<1> USE DEF DialTypes
<1>1. CASE DialRaw \/ BoundByCtx \/ SpawnWatcher \/ CallHandshake
  BY <1>1 DEF DialRaw, BoundByCtx, SpawnWatcher, CallHandshake
<1>2. CASE HandshakeReturned \/ ClearDeadline \/ CloseRaw
  BY <1>2 DEF HandshakeReturned, ClearDeadline, CloseRaw
<1>3. CASE ReceiveInterrupt
  BY <1>3 DEF ReceiveInterrupt
<1>4. CASE Watcher \/ CtxDone
  BY <1>4 DEF Watcher, WatcherDone, WatcherCtx, WatcherPoison, WatcherSend, CtxDone
<1>5. CASE ConnStep \/ UNCHANGED allVars
  BY <1>5 DEF ConnStep, allVars, dialVars
<1> QED BY <1>1, <1>2, <1>3, <1>4, <1>5, DialSteps DEF DialStep

\* DInv is inductive: what the dial, the watcher and the connection know of
\* each other stays true under every interleaving of the three.
THEOREM DialInvariance == DialSpec => []DInv
<1>1. DialInit => DInv
  <2> SUFFICES ASSUME DialInit PROVE DInv
    OBVIOUS
  <2>1. IInv
    BY InitIInv DEF DialInit
  <2> QED BY <2>1 DEF DialInit, DInv, DialTypes, Rendezvous, DialHandshake
<1>2. DInv /\ [DialNext]_allVars => DInv'
  BY DialIInv, DialTypesStep, RendezvousStep, DialHandshakeStep DEF DInv
<1> QED BY <1>1, <1>2, PTL DEF DialSpec

-----------------------------------------------------------------------------
(* What it implies *)

\* A dial that fails has closed the connection and outlived its watcher.
THEOREM FailedClosedHolds == DialSpec => []FailedClosed
<1>1. DInv => FailedClosed
  BY DEF DInv, DialTypes, Rendezvous, FailedClosed
<1> QED BY <1>1, DialInvariance, PTL

\* No step saves a dial whose watcher has seen ctx done.
LEMMA DoomedStep ==
  ASSUME DInv, Doomed, [DialNext]_allVars
  PROVE  Doomed'
<1> USE DEF DInv, Doomed, Rendezvous
<1>1. CASE DialRaw \/ BoundByCtx \/ SpawnWatcher \/ CallHandshake \/ HandshakeReturned
  BY <1>1 DEF DialRaw, BoundByCtx, SpawnWatcher, CallHandshake, HandshakeReturned
<1>2. CASE ReceiveInterrupt
  BY <1>2 DEF ReceiveInterrupt
<1>3. CASE ClearDeadline \/ CloseRaw
  BY <1>3 DEF ClearDeadline, CloseRaw
<1>4. CASE Watcher \/ CtxDone
  BY <1>4 DEF Watcher, WatcherDone, WatcherCtx, WatcherPoison, WatcherSend, CtxDone
<1>5. CASE ConnStep \/ UNCHANGED allVars
  BY <1>5 DEF ConnStep, allVars, dialVars
<1> QED BY <1>1, <1>2, <1>3, <1>4, <1>5, DialSteps DEF DialStep

\* An interruption the watcher has seen is never lost, even if the handshake
\* completed before the watcher expired the deadlines.
THEOREM PoisonFailsHolds == DialSpec => PoisonFails
<1>1. wpc = "poison" => Doomed
  BY DEF Doomed
<1>2. DInv /\ Doomed => dpc # "ok"
  BY DEF DInv, Doomed, Rendezvous
<1>3. DInv /\ Doomed /\ [DialNext]_allVars => Doomed'
  BY DoomedStep
<1> QED BY <1>1, <1>2, <1>3, DialInvariance, PTL DEF DialSpec, PoisonFails

NoSetDeadline == \A t \in Threads : "SetDeadline" \notin Ops[t]

\* Every step keeps the deadlines those of the dial.
LEMMA DeadlinesStep ==
  ASSUME NoSetDeadline, DInv, Deadlines, [DialNext]_allVars
  PROVE  Deadlines'
<1> USE DEF DInv
<1>0. pc \in [Threads -> Labels]
  BY DEF IInv, TypeOK
<1>1. Doomed => Doomed'
  BY DoomedStep
<1>2. CASE DialRaw \/ SpawnWatcher \/ HandshakeReturned \/ CloseRaw
  <2>1. CASE DialRaw
    BY <1>1, <2>1 DEF DialRaw, Deadlines, Doomed, Rendezvous, DialTypes, vars, connVars, ioVars
  <2>2. CASE SpawnWatcher
    BY <1>1, <2>2 DEF SpawnWatcher, Deadlines, Doomed, Rendezvous, DialTypes, vars, connVars, ioVars
  <2>3. CASE HandshakeReturned
    <3>1. UNCHANGED <<pc, closed, deadline, ctxKind, wpc, interrupt>> /\ dpc = "wait"
      BY <2>3 DEF HandshakeReturned, vars, connVars, ioVars
    <3>2. dpc' = "ok" => ctxKind = "background"
      BY <2>3 DEF HandshakeReturned
    <3>3. ctxKind = "background" => wpc = "none" /\ interrupt = <<>>
      BY <3>1 DEF Rendezvous
    <3>4. dpc' = "ok" => ctxKind # "deadline" /\ ~Doomed
      BY <3>1, <3>2, <3>3 DEF Doomed
    <3> QED BY <1>1, <3>1, <3>4 DEF Deadlines, BothDirs
  <2>4. CASE CloseRaw
    BY <1>1, <2>4 DEF CloseRaw, Deadlines, Doomed, Rendezvous, DialTypes, vars, connVars, ioVars
  <2> QED BY <1>2, <2>1, <2>2, <2>3, <2>4
<1>3. CASE BoundByCtx \/ ClearDeadline
  <2>1. CASE BoundByCtx
    BY <1>1, <2>1 DEF BoundByCtx, Deadlines, Doomed, Rendezvous, connVars
  <2>2. CASE ClearDeadline
    BY <1>1, <2>2 DEF ClearDeadline, Deadlines, Doomed, Rendezvous, connVars
  <2> QED BY <1>3, <2>1, <2>2
<1>4. CASE CallHandshake
  <2>1. Settled(Dialing) /\ dpc' = "wait" /\ UNCHANGED <<ctxKind, closed, deadline>>
    BY <1>4, ThreadSettles, DialerAssumption
       DEF CallHandshake, Call, OpNames, connVars, ioVars
  <2> QED BY <1>1, <2>1, DialerAssumption DEF Settled, Deadlines, NoSetDeadline
<1>5. CASE ReceiveInterrupt
  BY <1>1, <1>5 DEF ReceiveInterrupt, Deadlines, vars, connVars, ioVars
<1>6. CASE WatcherDone \/ WatcherCtx \/ WatcherSend \/ CtxDone
  BY <1>1, <1>6 DEF WatcherDone, WatcherCtx, WatcherSend, CtxDone, Deadlines,
                    vars, connVars, ioVars
<1>7. CASE WatcherPoison
  BY <1>7 DEF WatcherPoison, Deadlines, Doomed, Rendezvous
<1>8. CASE UNCHANGED allVars
  BY <1>1, <1>8 DEF allVars, dialVars, vars, connVars, ioVars, Deadlines
<1>9. CASE ConnStep
  <2>1. \A t \in Threads : pc'[t] # "setDl"
    <3>1. CASE UNCHANGED pc
      BY <3>1 DEF Deadlines
    <3>2. CASE \E t \in Threads : Run(t) \/ WaitPeer(t) \/ \E o \in OpNames : Call(t, o)
      <4>1. PICK t \in Threads : Settled(t)
        BY <3>2, ThreadSettles
      <4> QED BY <4>1 DEF Settled, Deadlines, NoSetDeadline
    <3> QED BY <1>9, <3>1, <3>2 DEF ConnStep, Expire, PeerSend, PeerReset
  <2>2. /\ closed => closed'
        /\ deadline = BothDirs("none") => deadline' = deadline \/ closed'
    BY <1>9, ConnSettles DEF Deadlines
  <2>3. UNCHANGED <<ctxKind, dpc>>
    BY <1>9 DEF ConnStep, dialVars
  <2> QED BY <1>1, <2>1, <2>2, <2>3 DEF Deadlines, BothDirs
<1> QED BY <1>2, <1>3, <1>4, <1>5, <1>6, <1>7, <1>8, <1>9, DialSteps DEF DialStep, Watcher

\* What the dial hands over is handshaken, carries no deadline of the dial and
\* has no watcher that could still set one.  (A goroutine that calls
\* SetDeadline on it afterwards sets one of its own.)
THEOREM ReturnedCleanHolds ==
  ASSUME NoSetDeadline
  PROVE  DialSpec => []ReturnedClean
<1>1. DialInit => Deadlines
  BY DEF DialInit, Init, Deadlines, BothDirs
<1>2. DInv /\ Deadlines /\ [DialNext]_allVars => Deadlines'
  BY DeadlinesStep
<1>3. DInv /\ Deadlines => ReturnedClean
  BY DEF DInv, Deadlines, ReturnedClean, DialHandshake, Rendezvous, DialTypes, IInv, Phases
<1> QED BY <1>1, <1>2, <1>3, DialInvariance, PTL DEF DialSpec

-----------------------------------------------------------------------------
(* Concat *)

F == INSTANCE Foundations

\* Sequences: which is empty, when two are equal, and what the two parts of
\* one concatenate to.
LEMMA SeqEmpty ==
  \A S : \A s \in Seq(S) : s # <<>> <=> Len(s) # 0
OBVIOUS

LEMMA SeqAgree ==
  ASSUME NEW S, NEW s \in Seq(S), NEW t \in Seq(S), Len(s) = Len(t), \A i \in 1 .. Len(s) : s[i] = t[i]
  PROVE  s = t
OBVIOUS

LEMMA SeqParts ==
  ASSUME NEW S, NEW s \in Seq(S), NEW n \in Nat, n <= Len(s)
  PROVE  SubSeq(s, 1, n) \o SubSeq(s, n + 1, Len(s)) = s
<1> DEFINE a == SubSeq(s, 1, n)
           b == SubSeq(s, n + 1, Len(s))
<1>1. a \in Seq(S) /\ Len(a) = n /\ \A i \in 1 .. n : a[i] = s[i]
  OBVIOUS
<1>2. b \in Seq(S) /\ Len(b) = Len(s) - n
  OBVIOUS
<1>3. ASSUME NEW i \in 1 .. Len(s) - n PROVE b[i] = s[n + i]
  OBVIOUS
<1>4. Len(s) \in Nat
  OBVIOUS
<1> HIDE DEF a, b
<1>5. a \o b \in Seq(S) /\ Len(a \o b) = Len(s)
  BY <1>1, <1>2, <1>4
<1>6. ASSUME NEW i \in 1 .. Len(s) PROVE (a \o b)[i] = s[i]
  <2>1. CASE i <= n
    BY <1>1, <1>2, <1>4, <2>1
  <2>2. CASE ~(i <= n)
    <3>1. i - n \in 1 .. Len(s) - n /\ n + (i - n) = i
      BY <1>4, <2>2
    <3>2. b[i - n] = s[i]
      BY <1>3, <3>1
    <3> QED BY <1>1, <1>2, <1>4, <2>2, <3>1, <3>2
  <2> QED BY <2>1, <2>2
<1>7. a \o b = s
  BY ONLY s \in Seq(S), <1>5, <1>6, SeqAgree
<1> QED BY <1>7 DEF a, b

\* g[i] is the concatenation of the first i elements of s.
Concats(g, s) == g[0] = <<>> /\ \A i \in 1 .. Len(s) : g[i] = g[i - 1] \o s[i]

\* Concat is the last of them.
LEMMA ConcatFollows ==
  ASSUME NEW S, NEW s \in Seq(Seq(S))
  PROVE  \E g \in [0 .. Len(s) -> Seq(S)] : Concats(g, s) /\ Concat(s) = g[Len(s)]
<1> DEFINE n == Len(s)
           step == [i \in 1 .. n |-> [v \in Seq(S) |-> v \o s[i]]]
           Rec(h) == [i \in 0 .. n |-> IF i = 0 THEN <<>> ELSE h[i - 1] \o s[i]]
<1>1. n \in Nat /\ (\A i \in 1 .. n : s[i] \in Seq(S)) /\ <<>> \in Seq(S)
  OBVIOUS
<1>2. ASSUME NEW i \in 1 .. n PROVE step[i] \in [Seq(S) -> Seq(S)]
  <2>1. \A v \in Seq(S) : v \o s[i] \in Seq(S)
    BY <1>1
  <2> QED BY <2>1
<1>3. PICK f \in [0 .. n -> Seq(S)] : F!Follows(f, n, <<>>, step)
  <2> HIDE DEF n, step
  <2> QED BY <1>1, <1>2, F!Recursion
<1>4. ASSUME NEW i \in 1 .. n
      PROVE  f[i - 1] \in Seq(S) /\ f[i] = f[i - 1] \o s[i]
  <2>1. i - 1 \in 0 .. n /\ f[i] = step[i][f[i - 1]]
    <3> HIDE DEF n, step
    <3> QED BY <1>1, <1>3 DEF F!Follows
  <2>2. f[i - 1] \in Seq(S)
    <3> HIDE DEF n, step
    <3> QED BY <2>1
  <2> QED BY <2>1, <2>2
<1> HIDE DEF step
<1>5. Concats(f, s)
  BY <1>3, <1>4 DEF Concats, F!Follows
<1>6. f = Rec(f)
  <2>0. f[0] = <<>> /\ \A i \in 1 .. n : f[i] = f[i - 1] \o s[i]
    BY <1>5 DEF Concats
  <2>1. \A i \in 0 .. n : f[i] = IF i = 0 THEN <<>> ELSE f[i - 1] \o s[i]
    <3> HIDE DEF n
    <3>1. \A i \in 0 .. n : i = 0 \/ i \in 1 .. n
      BY ONLY <1>1
    <3> QED BY ONLY <2>0, <3>1
  <2>2. f = [i \in 0 .. n |-> f[i]]
    OBVIOUS
  <2> HIDE DEF n
  <2> QED BY ONLY <2>1, <2>2, Zenon
<1>7. PICK h : h = Rec(h) /\ Concat(s) = h[n]
  <2>1. \E h : h = Rec(h) /\ Concat(s) = h[n]
    BY <1>6 DEF Concat
  <2> QED BY <2>1
<1>8. h[0] = <<>> /\ \A i \in 1 .. n : h[i] = h[i - 1] \o s[i]
  <2>1. \A i \in 0 .. n : h[i] = IF i = 0 THEN <<>> ELSE h[i - 1] \o s[i]
    BY <1>7
  <2> HIDE DEF n, Rec
  <2>2. 0 \in 0 .. n /\ \A i \in 1 .. n : i \in 0 .. n /\ i # 0
    BY ONLY <1>1
  <2> QED BY ONLY <2>1, <2>2
<1> HIDE DEF n, Rec
<1> DEFINE T == {i \in 0 .. n : h[i] = f[i]}
<1>9. 0 \in T
  BY <1>1, <1>5, <1>8 DEF Concats
<1>10. ASSUME NEW i \in 1 .. n, i - 1 \in T PROVE i \in T
  <2>1. h[i] = h[i - 1] \o s[i] /\ f[i] = f[i - 1] \o s[i] /\ h[i - 1] = f[i - 1]
    BY <1>4, <1>8, <1>10
  <2>2. i \in 0 .. n
    BY ONLY <1>1, i \in 1 .. n
  <2>3. h[i] = f[i]
    BY ONLY <2>1
  <2> QED BY <2>2, <2>3
<1>11. n \in T
  <2> HIDE DEF T
  <2>1. \A i \in 0 .. n : i \in T
    BY <1>1, <1>9, <1>10, F!UpTo
  <2> QED BY <1>1, <2>1
<1> QED BY <1>5, <1>7, <1>11 DEF n

\* One more element at the end.
LEMMA ConcatAppend ==
  ASSUME NEW S, NEW s \in Seq(Seq(S)), NEW x \in Seq(S)
  PROVE  Concat(s) \in Seq(S) /\ Concat(Append(s, x)) = Concat(s) \o x
<1> DEFINE n == Len(s)
           t == Append(s, x)
<1>1. /\ n \in Nat /\ t \in Seq(Seq(S)) /\ Len(t) = n + 1 /\ t[n + 1] = x
      /\ \A i \in 1 .. n : t[i] = s[i]
  OBVIOUS
<1> HIDE DEF t
<1>2. PICK g \in [0 .. n -> Seq(S)] : Concats(g, s) /\ Concat(s) = g[n]
  BY ConcatFollows
<1>3. PICK h \in [0 .. n + 1 -> Seq(S)] : Concats(h, t) /\ Concat(t) = h[n + 1]
  BY <1>1, ConcatFollows
<1> HIDE DEF n
<1> DEFINE T == {i \in 0 .. n : h[i] = g[i]}
<1>4. 0 \in T
  BY <1>1, <1>2, <1>3 DEF Concats
<1>5. ASSUME NEW i \in 1 .. n, i - 1 \in T PROVE i \in T
  <2>0. i \in 0 .. n /\ i \in 1 .. n + 1
    BY <1>1
  <2>1. h[i - 1] = g[i - 1] /\ i \in 1 .. n + 1 /\ t[i] = s[i]
    BY <1>1, <1>5, <2>0
  <2>2. h[i] = h[i - 1] \o t[i]
    BY <1>1, <1>3, <2>1 DEF Concats
  <2>3. g[i] = g[i - 1] \o s[i]
    BY <1>2 DEF Concats, n
  <2> QED BY <2>0, <2>1, <2>2, <2>3
<1>6. h[n] = g[n]
  <2> HIDE DEF T
  <2>1. \A i \in 0 .. n : i \in T
    BY <1>1, <1>4, <1>5, F!UpTo
  <2> QED BY <1>1, <2>1 DEF T
<1>7. h[n + 1] = h[n] \o x
  <2>1. n + 1 \in 1 .. n + 1 /\ (n + 1) - 1 = n
    BY <1>1
  <2> QED BY <1>1, <1>3, <2>1 DEF Concats
<1>8. g[n] \in Seq(S)
  BY <1>1, <1>2
<1> QED BY <1>2, <1>3, <1>6, <1>7, <1>8 DEF t

\* The first element apart.
LEMMA ConcatTail ==
  ASSUME NEW S, NEW s \in Seq(Seq(S)), s # <<>>
  PROVE  Concat(Tail(s)) \in Seq(S) /\ Concat(s) = Head(s) \o Concat(Tail(s))
<1> DEFINE n == Len(s)
           t == Tail(s)
<1>1. /\ n \in Nat /\ n > 0 /\ t \in Seq(Seq(S)) /\ Len(t) = n - 1 /\ Head(s) = s[1]
      /\ \A i \in 1 .. n - 1 : t[i] = s[i + 1]
      /\ \A i \in 1 .. n : s[i] \in Seq(S)
  OBVIOUS
<1> HIDE DEF t
<1>2. PICK g \in [0 .. n -> Seq(S)] : Concats(g, s) /\ Concat(s) = g[n]
  BY ConcatFollows
<1>3. PICK h \in [0 .. n - 1 -> Seq(S)] : Concats(h, t) /\ Concat(t) = h[n - 1]
  BY <1>1, ConcatFollows
<1> HIDE DEF n
<1> DEFINE T == {i \in 0 .. n - 1 : g[i + 1] = s[1] \o h[i]}
<1>4. 0 \in T
  <2>1. 1 \in 1 .. n /\ 1 - 1 = 0 /\ s[1] \in Seq(S)
    BY <1>1
  <2>2. g[1] = <<>> \o s[1]
    BY <1>2, <2>1 DEF Concats, n
  <2>3. g[1] = s[1] \o <<>>
    BY <2>1, <2>2
  <2>4. h[0] = <<>> /\ 0 + 1 = 1 /\ 0 \in 0 .. n - 1
    BY <1>1, <1>3 DEF Concats
  <2> QED BY <2>3, <2>4
<1>5. ASSUME NEW i \in 1 .. n - 1, i - 1 \in T PROVE i \in T
  <2>1. i + 1 \in 1 .. n /\ (i + 1) - 1 = i /\ (i - 1) + 1 = i /\ i - 1 \in 0 .. n - 1 /\ i \in 0 .. n - 1
    BY <1>1
  <2>2. g[i + 1] = g[i] \o s[i + 1]
    BY <1>2, <2>1 DEF Concats, n
  <2>3. h[i] = h[i - 1] \o t[i] /\ t[i] = s[i + 1]
    BY <1>1, <1>3 DEF Concats
  <2>4. g[i] = s[1] \o h[i - 1]
    BY <1>5, <2>1
  <2>5. s[1] \in Seq(S) /\ h[i - 1] \in Seq(S) /\ s[i + 1] \in Seq(S)
    <3>1. 1 \in 1 .. n
      BY <1>1
    <3> QED BY <1>1, <1>3, <2>1, <3>1
  <2>6. (s[1] \o h[i - 1]) \o s[i + 1] = s[1] \o (h[i - 1] \o s[i + 1])
    <3> DEFINE a == s[1]
               b == h[i - 1]
               c == s[i + 1]
    <3>1. a \in Seq(S) /\ b \in Seq(S) /\ c \in Seq(S)
      BY <2>5
    <3> HIDE DEF a, b, c
    <3>2. (a \o b) \o c = a \o (b \o c)
      BY ONLY <3>1, SMT
    <3> QED BY <3>2 DEF a, b, c
  <2>7. g[i + 1] = s[1] \o h[i]
    BY <2>2, <2>3, <2>4, <2>6
  <2> QED BY <2>1, <2>7
<1>6. g[n] = s[1] \o h[n - 1]
  <2>1. n - 1 \in 0 .. n - 1 /\ (n - 1) + 1 = n /\ n - 1 \in Nat
    BY <1>1
  <2>2. n - 1 \in T
    <3> HIDE DEF T
    <3>1. \A i \in 0 .. n - 1 : i \in T
      BY <1>4, <1>5, <2>1, F!UpTo
    <3> QED BY <2>1, <3>1
  <2> QED BY <2>1, <2>2
<1>7. h[n - 1] \in Seq(S)
  BY <1>1, <1>3
<1> QED BY <1>1, <1>2, <1>3, <1>6, <1>7 DEF t

-----------------------------------------------------------------------------
(* The bytes handed out *)

\* The bytes of the records in flight, record by record.
Payloads(in) == [i \in 1 .. Len(in) |-> in[i].data]

\* Only records of application data, and what is left of one, have bytes.
Empties == \A i \in 1 .. Len(inbox) : inbox[i].kind \notin {"app", "torn"} => inbox[i].data = <<>>

\* copy splits its source.
LEMMA CopySplits ==
  ASSUME NEW s \in Seq(Nat), NEW n \in Nat
  PROVE  /\ Copied(s, n) \in Seq(Nat) /\ Uncopied(s, n) \in Seq(Nat)
         /\ Copied(s, n) \o Uncopied(s, n) = s
<1>1. CASE n < Len(s)
  <2>1. Copied(s, n) = SubSeq(s, 1, n) /\ Uncopied(s, n) = SubSeq(s, n + 1, Len(s))
    BY <1>1 DEF Copied, Uncopied
  <2>2. Len(s) \in Nat /\ n <= Len(s)
    BY <1>1
  <2>3. SubSeq(s, 1, n) \o SubSeq(s, n + 1, Len(s)) = s
    BY ONLY <2>2, s \in Seq(Nat), n \in Nat, SeqParts
  <2>4. SubSeq(s, 1, n) \in Seq(Nat) /\ SubSeq(s, n + 1, Len(s)) \in Seq(Nat)
    BY <2>2
  <2> QED BY <2>1, <2>3, <2>4
<1>2. CASE ~(n < Len(s))
  <2>1. Copied(s, n) = s /\ Uncopied(s, n) = <<>>
    BY <1>2 DEF Copied, Uncopied
  <2> QED BY <2>1
<1> QED BY <1>1, <1>2

\* The payloads of a sequence of records are sequences of bytes.
LEMMA PayloadTypes ==
  ASSUME NEW in \in Seq(Records)
  PROVE  /\ Payloads(in) \in Seq(Seq(Nat)) /\ Len(Payloads(in)) = Len(in)
         /\ in # <<>> => /\ Payloads(in) # <<>> /\ Head(Payloads(in)) = Head(in).data
                         /\ Tail(Payloads(in)) = Payloads(Tail(in))
                         /\ Head(in).data \in Seq(Nat)
<1>1. \A i \in 1 .. Len(in) : in[i] \in Records
  OBVIOUS
<1>2. \A r \in Records : r.data \in Seq(Nat)
  BY DEF Records
<1>3. Payloads(in) \in Seq(Seq(Nat)) /\ Len(Payloads(in)) = Len(in) /\ Len(in) \in Nat
  BY <1>1, <1>2 DEF Payloads
<1>4. ASSUME in # <<>>
      PROVE  /\ Payloads(in) # <<>> /\ Head(Payloads(in)) = Head(in).data
             /\ Tail(Payloads(in)) = Payloads(Tail(in))
             /\ Head(in).data \in Seq(Nat)
  <2>1. Len(in) > 0 /\ Head(in) = in[1] /\ Len(Tail(in)) = Len(in) - 1
    BY <1>4
  <2>2. Payloads(in) # <<>> /\ Head(Payloads(in)) = in[1].data
    <3>1. Len(Payloads(in)) > 0 /\ Payloads(in)[1] = in[1].data
      BY <1>3, <2>1 DEF Payloads
    <3>2. Payloads(in) # <<>> <=> Len(Payloads(in)) # 0
      BY <1>3, SeqEmpty, Zenon
    <3>3. Payloads(in) # <<>>
      BY <1>3, <3>1, <3>2
    <3>4. Head(Payloads(in)) = Payloads(in)[1]
      BY <1>3, <3>3
    <3> QED BY <3>1, <3>3, <3>4
  <2>3. Tail(Payloads(in)) = Payloads(Tail(in))
    BY <1>3, <2>1 DEF Payloads
  <2> QED BY <1>1, <1>2, <2>1, <2>2, <2>3
<1> QED BY <1>3, <1>4

\* One more record.
LEMMA PayloadAppend ==
  ASSUME NEW in \in Seq(Records), NEW r \in Records
  PROVE  Payloads(Append(in, r)) = Append(Payloads(in), r.data)
<1>1. Len(in) \in Nat /\ Len(Append(in, r)) = Len(in) + 1
  OBVIOUS
<1> QED BY <1>1 DEF Payloads

\* A record is taken from the transport: its bytes are the first in flight.
LEMMA TakeRecord ==
  ASSUME NEW in \in Seq(Records), in # <<>>
  PROVE  /\ Concat(Payloads(Tail(in))) \in Seq(Nat)
         /\ Concat(Payloads(in)) = Head(in).data \o Concat(Payloads(Tail(in)))
<1>1. /\ Payloads(in) \in Seq(Seq(Nat)) /\ Payloads(in) # <<>>
      /\ Head(Payloads(in)) = Head(in).data /\ Tail(Payloads(in)) = Payloads(Tail(in))
  BY PayloadTypes
<1>2. /\ Concat(Tail(Payloads(in))) \in Seq(Nat)
      /\ Concat(Payloads(in)) = Head(Payloads(in)) \o Concat(Tail(Payloads(in)))
  BY ONLY <1>1, ConcatTail
<1> QED BY <1>1, <1>2

\* One is sent: its bytes are the last.
LEMMA AddRecord ==
  ASSUME NEW in \in Seq(Records), NEW r \in Records
  PROVE  /\ Concat(Payloads(in)) \in Seq(Nat)
         /\ Concat(Payloads(Append(in, r))) = Concat(Payloads(in)) \o r.data
<1>1. Payloads(in) \in Seq(Seq(Nat)) /\ r.data \in Seq(Nat)
  BY PayloadTypes DEF Records
<1>2. /\ Concat(Payloads(in)) \in Seq(Nat)
      /\ Concat(Append(Payloads(in), r.data)) = Concat(Payloads(in)) \o r.data
  BY ONLY <1>1, ConcatAppend
<1> QED BY <1>2, PayloadAppend

\* The stream of bytes, from the caller's end to the peer's.
Stream(d, b, in) == (d \o b) \o Concat(Payloads(in))

\* What ReadStream says, with the invariant that makes it inductive.
SInv == Empties /\ Stream(delivered, readBuf, inbox) = [i \in 1 .. sent |-> i]

\* A ReadRecord that fails keeps the bytes where they are.
LEMMA TornKeeps ==
  ASSUME NEW in \in Seq(Records), in # <<>>
  PROVE  Payloads([in EXCEPT ![1].kind = "torn"]) = Payloads(in)
<1>1. ASSUME NEW i \in 1 .. Len(in) PROVE [in EXCEPT ![1].kind = "torn"][i].data = in[i].data
  <2>1. in[i] \in Records /\ in[1] \in Records
    OBVIOUS
  <2>2. CASE i = 1
    BY <2>1, <2>2 DEF Records
  <2>3. CASE i # 1
    BY <2>3
  <2> QED BY <2>2, <2>3
<1>2. Len([in EXCEPT ![1].kind = "torn"]) = Len(in)
  OBVIOUS
<1> QED BY <1>1, <1>2 DEF Payloads

\* The steps of Read hand out the next bytes of the stream.
LEMMA ReadKeepsStream ==
  ASSUME TypeOK, RInv, SInv, NEW t \in Threads,
         ReadIOError(t) \/ \E n \in BufLens : ReadBuffered(t, n) \/ ReadRecord(t, n)
  PROVE  SInv'
<1>0. /\ inbox \in Seq(Records) /\ readBuf \in Seq(Nat) /\ delivered \in Seq(Nat)
      /\ BufLens \subseteq Nat
  BY ConnAssumption DEF ConnAssumption, TypeOK
<1>1. /\ \A a, b, c \in Seq(Nat) : (a \o b) \o c = a \o (b \o c)
      /\ \A a \in Seq(Nat) : <<>> \o a = a
  <2>1. ASSUME NEW a \in Seq(Nat), NEW b \in Seq(Nat), NEW c \in Seq(Nat)
        PROVE  (a \o b) \o c = a \o (b \o c)
    BY ONLY a \in Seq(Nat), b \in Seq(Nat), c \in Seq(Nat), SMT
  <2>2. ASSUME NEW a \in Seq(Nat) PROVE <<>> \o a = a
    BY ONLY a \in Seq(Nat), SMT
  <2> QED BY ONLY <2>1, <2>2
<1>2. CASE ReadIOError(t)
  <2>1. UNCHANGED <<delivered, readBuf, sent>>
    BY <1>2 DEF ReadIOError
  <2>2. CASE inbox' = inbox
    BY <2>1, <2>2 DEF SInv, Empties
  <2>3. CASE inbox # <<>> /\ inbox' = [inbox EXCEPT ![1].kind = "torn"]
    <3>1. Payloads(inbox') = Payloads(inbox)
      BY <1>0, <2>3, TornKeeps
    <3>2. Stream(delivered', readBuf', inbox') = [i \in 1 .. sent' |-> i]
      BY <2>1, <3>1 DEF SInv, Stream
    <3>3. Empties'
      <4> SUFFICES ASSUME NEW i \in 1 .. Len(inbox'), inbox'[i].kind \notin {"app", "torn"}
                   PROVE  inbox'[i].data = <<>>
        BY DEF Empties
      <4>1. i \in 1 .. Len(inbox) /\ inbox[1] \in Records
        BY <1>0, <2>3
      <4>2. i # 1
        BY <1>0, <2>3, <4>1 DEF Records
      <4>3. inbox'[i] = inbox[i]
        BY <1>0, <2>3, <4>1, <4>2
      <4> QED BY <4>1, <4>3 DEF SInv, Empties
    <3> QED BY <3>2, <3>3 DEF SInv
  <2> QED BY <1>2, <2>2, <2>3 DEF ReadIOError
<1>3. ASSUME NEW n \in BufLens, ReadBuffered(t, n) PROVE SInv'
  <2>1. CASE UNCHANGED readVars
    BY <2>1 DEF readVars, SInv, Empties
  <2>2. CASE /\ delivered' = delivered \o Copied(readBuf, n) /\ readBuf' = Uncopied(readBuf, n)
             /\ UNCHANGED <<inbox, sent>>
    <3>1. /\ Copied(readBuf, n) \in Seq(Nat) /\ Uncopied(readBuf, n) \in Seq(Nat)
          /\ Copied(readBuf, n) \o Uncopied(readBuf, n) = readBuf
      BY <1>0, CopySplits
    <3>2. delivered' \o readBuf' = delivered \o readBuf
      <4> DEFINE c == Copied(readBuf, n)
                 u == Uncopied(readBuf, n)
      <4>0. delivered \in Seq(Nat) /\ c \in Seq(Nat) /\ u \in Seq(Nat)
        BY <1>0, <3>1
      <4>1. c \o u = readBuf
        BY <3>1
      <4>2. delivered' = delivered \o c /\ readBuf' = u
        BY <2>2
      <4> HIDE DEF c, u
      <4>3. (delivered \o c) \o u = delivered \o (c \o u)
        BY ONLY <4>0, SMT
      <4> QED BY <4>1, <4>2, <4>3
    <3> QED BY <2>2, <3>2 DEF SInv, Stream, Empties
  <2> QED BY <1>3, <2>1, <2>2 DEF ReadBuffered, readVars
<1>4. ASSUME NEW n \in BufLens, ReadRecord(t, n) PROVE SInv'
  <2> DEFINE r == Head(inbox)
             rest == Concat(Payloads(Tail(inbox)))
  <2>1. /\ inbox # <<>> /\ inbox' = Tail(inbox) /\ sent' = sent /\ readBuf = <<>>
    BY <1>4 DEF ReadRecord, RInv
  <2>2. rest \in Seq(Nat) /\ Concat(Payloads(inbox)) = r.data \o rest /\ r.data \in Seq(Nat)
    BY <1>0, <2>1, TakeRecord, PayloadTypes
  <2>3. /\ r = inbox[1] /\ 1 \in 1 .. Len(inbox) /\ Len(inbox) \in Nat /\ Len(inbox') = Len(inbox) - 1
        /\ \A i \in 1 .. Len(inbox) - 1 : inbox'[i] = inbox[i + 1]
    BY <1>0, <2>1
  <2> HIDE DEF rest
  <2>4. Empties'
    <3> SUFFICES ASSUME NEW i \in 1 .. Len(inbox) - 1, inbox'[i].kind \notin {"app", "torn"}
                 PROVE  inbox'[i].data = <<>>
      BY <2>3 DEF Empties
    <3>1. i + 1 \in 1 .. Len(inbox) /\ inbox'[i] = inbox[i + 1]
      BY <2>3
    <3> QED BY <3>1 DEF SInv, Empties
  <2>5. CASE r.kind = "app"
    <3>1. delivered' = delivered \o Copied(r.data, n) /\ readBuf' = readBuf \o Uncopied(r.data, n)
      BY <1>4, <2>5 DEF ReadRecord
    <3>2. /\ Copied(r.data, n) \in Seq(Nat) /\ Uncopied(r.data, n) \in Seq(Nat)
          /\ Copied(r.data, n) \o Uncopied(r.data, n) = r.data
      BY <1>0, <2>2, CopySplits
    <3>3. readBuf' = Uncopied(r.data, n)
      <4> DEFINE u == Uncopied(r.data, n)
      <4>1. u \in Seq(Nat) /\ readBuf' = <<>> \o u
        BY <2>1, <3>1, <3>2
      <4> HIDE DEF u
      <4>2. <<>> \o u = u
        BY ONLY <4>1, SMT
      <4> QED BY ONLY <4>1, <4>2 DEF u
    <3>4. delivered' \o readBuf' = delivered \o r.data
      <4> DEFINE c == Copied(r.data, n)
                 u == Uncopied(r.data, n)
      <4>0. delivered \in Seq(Nat) /\ c \in Seq(Nat) /\ u \in Seq(Nat)
        BY <1>0, <3>2
      <4>1. c \o u = r.data
        BY <3>2
      <4>2. delivered' = delivered \o c /\ readBuf' = u
        BY <3>1, <3>3
      <4> HIDE DEF c, u
      <4>3. (delivered \o c) \o u = delivered \o (c \o u)
        BY ONLY <4>0, SMT
      <4> QED BY <4>1, <4>2, <4>3
    <3>5. (delivered \o r.data) \o rest = delivered \o (r.data \o rest)
      BY <1>0, <1>1, <2>2
    <3>6. delivered \o readBuf = delivered
      BY <1>0, <2>1
    <3> QED BY <2>1, <2>2, <2>4, <3>4, <3>5, <3>6 DEF SInv, Stream, rest
  <2>6. CASE r.kind # "app"
    <3>1. r.kind \in {"empty", "close_notify", "alert", "other"} /\ UNCHANGED <<readBuf, delivered>>
      BY <1>4, <2>6 DEF ReadRecord
    <3>2. r.data = <<>>
      BY <2>3, <3>1 DEF SInv, Empties
    <3>3. Concat(Payloads(inbox)) = rest
      BY ONLY <1>1, <2>2, <3>2
    <3> QED BY <2>1, <2>4, <3>1, <3>3 DEF SInv, Stream, rest
  <2> QED BY <2>5, <2>6
<1> QED BY <1>2, <1>3, <1>4

\* What follows s in s \o d.
LEMMA SecondPart ==
  ASSUME NEW S, NEW s \in Seq(S), NEW d \in Seq(S), NEW i \in 1 .. Len(s) + Len(d), ~(i <= Len(s))
  PROVE  (s \o d)[i] = d[i - Len(s)]
<1>1. Len(s) \in Nat /\ Len(d) \in Nat /\ i \in 1 .. Len(s) + Len(d) /\ ~(i <= Len(s))
  OBVIOUS
<1> QED BY ONLY s \in Seq(S), d \in Seq(S), <1>1, SMT

\* The peer adds the next bytes at the other end.
LEMMA PeerKeepsStream ==
  ASSUME TypeOK, SInv, NEW k \in RecordKinds, PeerSend(k)
  PROVE  SInv'
<1> DEFINE n == IF k = "app" THEN 2 ELSE 0
           r == [kind |-> k, data |-> [i \in 1 .. n |-> sent + i]]
<1>1. /\ inbox' = Append(inbox, r) /\ sent' = sent + n /\ UNCHANGED <<readBuf, delivered>>
  BY DEF PeerSend
<1>2. /\ inbox \in Seq(Records) /\ readBuf \in Seq(Nat) /\ delivered \in Seq(Nat) /\ sent \in Nat
      /\ k \in {"app", "empty", "close_notify", "alert", "other"} /\ n \in Nat
  BY ConnAssumption DEF ConnAssumption, TypeOK
<1>3. r.data = [i \in 1 .. n |-> sent + i] /\ r.kind = k /\ (k # "app" => n = 0)
  OBVIOUS
<1>4. r.data \in Seq(Nat) /\ Len(r.data) = n
  BY <1>2
<1>5. r \in Records
  BY <1>2, <1>4 DEF Records
<1>6. k # "app" => r.data = <<>>
  BY <1>3
<1> HIDE DEF n, r
<1>7. Empties'
  <2>1. /\ Len(inbox) \in Nat /\ Len(inbox') = Len(inbox) + 1 /\ inbox'[Len(inbox) + 1] = r
        /\ \A i \in 1 .. Len(inbox) : inbox'[i] = inbox[i]
    BY <1>1, <1>2, <1>5
  <2> SUFFICES ASSUME NEW i \in 1 .. Len(inbox) + 1, inbox'[i].kind \notin {"app", "torn"}
               PROVE  inbox'[i].data = <<>>
    BY <2>1 DEF Empties
  <2>2. CASE i \in 1 .. Len(inbox)
    BY <2>1, <2>2 DEF SInv, Empties
  <2>3. CASE i = Len(inbox) + 1
    BY <1>3, <1>6, <2>1, <2>3
  <2> QED BY <2>1, <2>2, <2>3
<1>8. Stream(delivered', readBuf', inbox') = [i \in 1 .. sent' |-> i]
  <2> DEFINE d == r.data
  <2>0. d \in Seq(Nat) /\ Len(d) = n /\ d = [i \in 1 .. n |-> sent + i]
    BY <1>3, <1>4
  <2> HIDE DEF d
  <2> DEFINE a == delivered \o readBuf
             b == Concat(Payloads(inbox))
  <2>1. a \in Seq(Nat) /\ b \in Seq(Nat) /\ Concat(Payloads(inbox')) = b \o d
    BY <1>1, <1>2, <1>5, AddRecord DEF d
  <2>2. a \o b = [i \in 1 .. sent |-> i]
    BY DEF SInv, Stream
  <2> HIDE DEF a, b
  <2>3. a \o (b \o d) = (a \o b) \o d
    <3>1. a \in Seq(Nat) /\ b \in Seq(Nat) /\ d \in Seq(Nat)
      BY <2>0, <2>1
    <3> QED BY ONLY <3>1, SMT
  <2>4. (a \o b) \o d = [i \in 1 .. sent + n |-> i]
    <3> DEFINE s == [i \in 1 .. sent |-> i]
               u == [i \in 1 .. sent + n |-> i]
    <3>1. s \in Seq(Nat) /\ Len(s) = sent /\ u \in Seq(Nat) /\ Len(u) = sent + n
      BY <1>2
    <3>2. s \o d \in Seq(Nat) /\ Len(s \o d) = sent + n
      BY <1>2, <2>0, <3>1
    <3>3. ASSUME NEW i \in 1 .. sent + n PROVE (s \o d)[i] = u[i]
      <4>1. CASE i <= sent
        <5>1. (s \o d)[i] = s[i]
          <6> HIDE DEF s
          <6> QED BY <1>2, <2>0, <3>1, <4>1
        <5> QED BY <1>2, <4>1, <5>1
      <4>2. CASE ~(i <= sent)
        <5>1. (s \o d)[i] = d[i - sent]
          <6>1. s \in Seq(Nat) /\ Len(s) = sent /\ d \in Seq(Nat) /\ Len(d) = n
            BY <2>0, <3>1
          <6> HIDE DEF s
          <6>2. i \in 1 .. Len(s) + Len(d) /\ ~(i <= Len(s))
            BY ONLY <1>2, <6>1, <4>2, i \in 1 .. sent + n
          <6>3. (s \o d)[i] = d[i - Len(s)]
            BY ONLY <6>1, <6>2, SecondPart
          <6> QED BY ONLY <6>1, <6>3
        <5>2. i - sent \in 1 .. n /\ sent + (i - sent) = i
          BY <1>2, <4>2
        <5>3. d[i - sent] = sent + (i - sent)
          BY <2>0, <5>2
        <5> QED BY <5>1, <5>2, <5>3
      <4> QED BY <4>1, <4>2
    <3> HIDE DEF s, u
    <3>4. s \o d = u
      BY <3>1, <3>2, <3>3, SeqAgree
    <3> QED BY <2>2, <3>4 DEF s, u
  <2> QED BY <1>1, <2>1, <2>3, <2>4 DEF Stream, a, b
<1> QED BY <1>7, <1>8 DEF SInv

\* Concurrent Reads hand out the peer's bytes in order, none lost, none twice,
\* for any number of goroutines, any buffers and any records.
THEOREM ReadStreamHolds == Spec => []ReadStream
<1>1. Init => SInv
  <2> SUFFICES ASSUME Init PROVE SInv
    OBVIOUS
  <2>1. inbox = <<>> /\ Len(inbox) = 0 /\ delivered = <<>> /\ readBuf = <<>> /\ sent = 0
    BY DEF Init
  <2>2. Payloads(inbox) = <<>>
    BY <2>1 DEF Payloads
  <2>3. Concat(<<>>) = <<>>
    <3>1. <<>> \in Seq(Seq(Nat)) /\ Len(<<>>) = 0
      OBVIOUS
    <3>2. \E g : Concats(g, <<>>) /\ Concat(<<>>) = g[Len(<<>>)]
      BY <3>1, ConcatFollows
    <3> QED BY <3>1, <3>2 DEF Concats
  <2>4. [i \in 1 .. sent |-> i] = <<>>
    BY <2>1
  <2>5. (<<>> \o <<>>) \o <<>> = <<>>
    OBVIOUS
  <2> QED BY <2>1, <2>2, <2>3, <2>4, <2>5 DEF SInv, Stream, Empties
<1>2. IInv /\ RInv /\ SInv /\ [Next]_vars => SInv'
  <2> SUFFICES ASSUME IInv, RInv, SInv, [Next]_vars PROVE SInv'
    OBVIOUS
  <2>0. TypeOK
    BY DEF IInv
  <2>1. CASE UNCHANGED readVars
    BY <2>1 DEF readVars, SInv, Empties
  <2>2. CASE \E t \in Threads : Run(t) \/ WaitPeer(t) \/ \E o \in OpNames : Call(t, o)
    <3>1. PICK t \in Threads : Run(t) \/ WaitPeer(t) \/ \E o \in OpNames : Call(t, o)
      BY <2>2
    <3>2. CASE ReadIOError(t) \/ \E n \in BufLens : ReadBuffered(t, n) \/ ReadRecord(t, n)
      BY <2>0, <3>2, ReadKeepsStream
    <3> QED BY <2>0, <2>1, <3>1, <3>2, OthersAside DEF Run, Aside
  <2>3. CASE (\E d \in Dir : Expire(d)) \/ PeerReset \/ UNCHANGED vars
    BY <2>1, <2>3 DEF Expire, PeerReset, readVars, vars
  <2>4. CASE \E k \in RecordKinds : PeerSend(k)
    BY <2>0, <2>4, PeerKeepsStream
  <2> QED BY <2>2, <2>3, <2>4 DEF Next
<1>3. SInv => ReadStream
  BY DEF SInv, Stream, Payloads, ReadStream
<1> QED BY <1>1, <1>2, <1>3, Invariance, ReadInvariance, PTL DEF Spec
=============================================================================
