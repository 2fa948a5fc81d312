-------------------------------- MODULE Conn --------------------------------
(***************************************************************************)
(* The concurrency skeleton of conn.go: goroutines that share one *Conn    *)
(* and call Handshake, Read, Write, Close and Set*Deadline in any order.   *)
(*                                                                         *)
(* One step is one access to state another goroutine can see: an atomic    *)
(* flag, a mutex, handshakeOnce, a record operation of the transport.      *)
(* Work on fields guarded by a mutex the goroutine holds is folded into    *)
(* the step next to it.  A record operation (WriteRecord, ReadRecord) is   *)
(* an interval: the goroutine stays at its label until the transport       *)
(* completes or fails the operation, which may be never.                   *)
(***************************************************************************)
EXTENDS Naturals, Sequences

CONSTANTS
  Threads,          \* goroutines holding the *Conn
  NoThread,         \* the owner of a free mutex
  Ops,              \* the calls each goroutine may make, a set per goroutine
  Calls,            \* bound: calls made by each goroutine
  Chunks,           \* bound: records one Write is split into
  MaxEmptyRecords,  \* conn.go: maxEmptyRecords
  BufLens,          \* lengths of the buffers passed to Read
  RecordKinds,      \* what the peer sends after the handshake
  MaxBytes,         \* bound: application bytes the peer sends
  MaxInbox          \* bound: records in flight towards this end

OpNames == {"Handshake", "Read", "Write", "Close", "SetDeadline"}

ASSUME ConnAssumption ==
  /\ NoThread \notin Threads
  /\ Ops \in [Threads -> SUBSET OpNames]
  /\ Calls \in Nat
  /\ Chunks \in Nat \ {0}
  /\ MaxEmptyRecords \in Nat
  /\ BufLens \subseteq Nat
  /\ RecordKinds \subseteq {"app", "empty", "close_notify", "alert", "other"}
  /\ MaxBytes \in Nat
  /\ MaxInbox \in Nat

VARIABLES
  closed,       \* Conn.closed
  handshakeOK,  \* Conn.handshakeOK
  onceDone,     \* handshakeOnce has fired
  onceMu,       \* the goroutine running the function passed to handshakeOnce.Do
  hsErr,        \* Conn.handshakeErr
  inMu, outMu,  \* owners of the two mutexes
  readBuf,      \* Conn.readBuf
  readErr,      \* Conn.readErr
  deadline,     \* deadlines of the underlying net.Conn, one per direction
  transport,    \* the underlying net.Conn: open, closed here, or gone (peer)
  inbox,        \* records the peer has sent and ReadRecord has not taken
  sent,         \* number of application bytes the peer has sent
  wire,         \* history: records this end has written completely
  delivered,    \* history: application bytes returned by Read, in order
  pc,           \* label of each goroutine
  op,           \* the call each goroutine is executing
  count,        \* chunks left in a Write, emptyRecords in a Read
  left,         \* calls each goroutine may still make
  late          \* history: the call was made after closed was set

connVars  == <<closed, handshakeOK, onceDone, onceMu, hsErr, inMu, outMu>>
readVars  == <<readBuf, readErr, inbox, sent, delivered>>
callVars  == <<op, left, late>>
ioVars    == <<deadline, transport, wire>>
vars      == <<connVars, readVars, ioVars, callVars, pc, count>>

Dir == {"r", "w"}

\* Labels inside handshakeOnce.Do, split by what they do to the record layer.
HsSend == {"hsHello", "hsClientFlight", "hsAlert"}
HsRecv == {"hsServerFlight", "hsServerFinished"}
HsIO   == HsSend \cup HsRecv
HsPc   == HsIO \cup {"hsStart", "hsStore", "hsExit"}
\* Labels under inMu, under outMu in Write, and in Close after its CAS.
RdPc   == {"rdClosed", "rdRecord"}
WrPc   == {"wrClosed", "wrRecord"}
ClMuPc == {"clDeadline", "clAlert", "clUnlock"}
ClPc   == {"clOK", "clTry", "clConn"} \cup ClMuPc
Labels == {"idle", "once", "ret", "rdLock", "wrLock", "clCAS", "setDl"}
            \cup HsPc \cup RdPc \cup WrPc \cup ClPc

\* A record as ReadRecord finds it.  "torn": part of it has been taken from
\* the transport by a ReadRecord that failed.
Records == [kind : {"app", "empty", "close_notify", "alert", "other", "torn"},
            data : Seq(Nat)]

\* The records this end writes.
Written == {"hs", "app", "close_notify", "alert"}

TypeOK ==
  /\ closed \in BOOLEAN /\ handshakeOK \in BOOLEAN /\ onceDone \in BOOLEAN
  /\ onceMu \in Threads \cup {NoThread}
  /\ inMu \in Threads \cup {NoThread}
  /\ outMu \in Threads \cup {NoThread}
  /\ hsErr \in {"nil", "closed", "failed"}
  /\ readBuf \in Seq(Nat)
  /\ readErr \in {"nil", "io", "flood", "eof", "alert", "unexpected"}
  /\ deadline \in [Dir -> {"none", "armed", "expired"}]
  /\ transport \in {"open", "closed", "gone"}
  /\ inbox \in Seq(Records)
  /\ sent \in Nat
  /\ wire \in Seq(Written)
  /\ delivered \in Seq(Nat)
  /\ pc \in [Threads -> Labels]
  /\ op \in [Threads -> OpNames]
  /\ count \in [Threads -> Nat]
  /\ left \in [Threads -> Nat]
  /\ late \in [Threads -> BOOLEAN]

\* newConn: nothing has happened on the connection yet.
Init ==
  /\ closed = FALSE /\ handshakeOK = FALSE /\ onceDone = FALSE
  /\ onceMu = NoThread /\ inMu = NoThread /\ outMu = NoThread
  /\ hsErr = "nil"
  /\ readBuf = <<>> /\ readErr = "nil"
  /\ deadline = [d \in Dir |-> "none"]
  /\ transport = "open"
  /\ inbox = <<>> /\ sent = 0 /\ wire = <<>> /\ delivered = <<>>
  /\ pc = [t \in Threads |-> "idle"]
  /\ op = [t \in Threads |-> "Handshake"]
  /\ count = [t \in Threads |-> 0]
  /\ left = [t \in Threads |-> Calls]
  /\ late = [t \in Threads |-> FALSE]

Goto(t, l) == pc' = [pc EXCEPT ![t] = l]

-----------------------------------------------------------------------------
(* A goroutine makes a call.  Read and Write begin with c.Handshake().     *)

Entry(o) == CASE o \in {"Handshake", "Read", "Write"} -> "once"
              [] o = "Close"       -> "clCAS"
              [] o = "SetDeadline" -> "setDl"

Call(t, o) ==
  /\ pc[t] = "idle" /\ left[t] > 0 /\ o \in Ops[t]
  /\ left' = [left EXCEPT ![t] = @ - 1]
  /\ op' = [op EXCEPT ![t] = o]
  /\ late' = [late EXCEPT ![t] = closed]
  /\ Goto(t, Entry(o))
  /\ UNCHANGED <<connVars, readVars, ioVars, count>>

-----------------------------------------------------------------------------
(* Handshake: sync.Once, then the protocol run as an alternation of record *)
(* operations.  client.go's details are in module ClientHandshake.         *)

OnceSkip(t) ==
  /\ pc[t] = "once" /\ onceDone
  /\ Goto(t, "ret")
  /\ UNCHANGED <<connVars, readVars, ioVars, callVars, count>>

OnceEnter(t) ==
  /\ pc[t] = "once" /\ ~onceDone /\ onceMu = NoThread
  /\ onceMu' = t
  /\ Goto(t, "hsStart")
  /\ UNCHANGED <<closed, handshakeOK, onceDone, hsErr, inMu, outMu>>
  /\ UNCHANGED <<readVars, ioVars, callVars, count>>

\* Mutant: the Once does not look at closed.
HsStartUnchecked(t) ==
  /\ pc[t] = "hsStart"
  /\ Goto(t, "hsHello")
  /\ UNCHANGED <<connVars, readVars, ioVars, callVars, count>>

\* closed.Load() inside the Once; then doHandshake, whose configuration
\* errors (no suites, no server name, bad certificate files) precede any I/O.
HsStart(t) ==
  /\ pc[t] = "hsStart"
  /\ \/ closed /\ hsErr' = "closed" /\ Goto(t, "hsExit")
     \/ ~closed /\ hsErr' = "failed" /\ Goto(t, "hsExit")
     \/ ~closed /\ hsErr' = hsErr /\ Goto(t, "hsHello")
  /\ UNCHANGED <<closed, handshakeOK, onceDone, onceMu, inMu, outMu>>
  /\ UNCHANGED <<readVars, ioVars, callVars, count>>

\* The transport fails an operation in direction d.
Fails(d) == transport # "open" \/ deadline[d] = "expired"

HsNext(l) == CASE l = "hsHello"          -> "hsServerFlight"
               [] l = "hsServerFlight"   -> "hsClientFlight"
               [] l = "hsClientFlight"   -> "hsServerFinished"
               [] l = "hsServerFinished" -> "hsStore"

\* A flight goes out, or one comes in.  The peer decides when, if ever.
HsProgress(t) ==
  /\ pc[t] \in HsIO \ {"hsAlert"}
  /\ ~Fails(IF pc[t] \in HsSend THEN "w" ELSE "r")
  /\ wire' = IF pc[t] \in HsSend THEN Append(wire, "hs") ELSE wire
  /\ Goto(t, HsNext(pc[t]))
  /\ UNCHANGED <<connVars, readVars, deadline, transport, callVars, count>>

\* The handshake fails, in sendClientHello without an alert, elsewhere
\* through ClientState.fatal.
HsError(t) ==
  /\ hsErr' = "failed"
  /\ Goto(t, IF pc[t] = "hsHello" THEN "hsExit" ELSE "hsAlert")
  /\ UNCHANGED <<closed, handshakeOK, onceDone, onceMu, inMu, outMu>>
  /\ UNCHANGED <<readVars, ioVars, callVars, count>>

HsIOError(t) ==
  /\ \/ pc[t] \in HsSend \ {"hsAlert"} /\ Fails("w")
     \/ pc[t] \in HsRecv /\ Fails("r")
  /\ HsError(t)

\* The peer sent something the handshake rejects.
HsReject(t) == pc[t] \in HsRecv /\ ~Fails("r") /\ HsError(t)

\* ClientState.fatal: the alert is written if the transport takes it.
HsAlert(t) ==
  /\ pc[t] = "hsAlert" /\ ~Fails("w")
  /\ wire' = Append(wire, "alert")
  /\ Goto(t, "hsExit")
  /\ UNCHANGED <<connVars, readVars, deadline, transport, callVars, count>>

HsAlertError(t) ==
  /\ pc[t] = "hsAlert" /\ Fails("w")
  /\ Goto(t, "hsExit")
  /\ UNCHANGED <<connVars, readVars, ioVars, callVars, count>>

HsStore(t) ==
  /\ pc[t] = "hsStore"
  /\ handshakeOK' = TRUE
  /\ Goto(t, "hsExit")
  /\ UNCHANGED <<closed, onceDone, onceMu, hsErr, inMu, outMu>>
  /\ UNCHANGED <<readVars, ioVars, callVars, count>>

HsExit(t) ==
  /\ pc[t] = "hsExit"
  /\ onceDone' = TRUE /\ onceMu' = NoThread
  /\ Goto(t, "ret")
  /\ UNCHANGED <<closed, handshakeOK, hsErr, inMu, outMu>>
  /\ UNCHANGED <<readVars, ioVars, callVars, count>>

\* return c.handshakeErr, and what Read and Write do with it.
HandshakeReturn(t) ==
  /\ pc[t] = "ret"
  /\ Goto(t, IF hsErr # "nil" \/ op[t] = "Handshake" THEN "idle"
             ELSE IF op[t] = "Read" THEN "rdLock" ELSE "wrLock")
  /\ UNCHANGED <<connVars, readVars, ioVars, callVars, count>>

-----------------------------------------------------------------------------
(* Read *)

ReadLock(t) ==
  /\ pc[t] = "rdLock" /\ inMu = NoThread
  /\ inMu' = t
  /\ Goto(t, "rdClosed")
  /\ UNCHANGED <<closed, handshakeOK, onceDone, onceMu, hsErr, outMu>>
  /\ UNCHANGED <<readVars, ioVars, callVars, count>>

ReadReturn(t) == /\ inMu' = NoThread
                 /\ Goto(t, "idle")
                 /\ UNCHANGED <<closed, handshakeOK, onceDone, onceMu, hsErr, outMu>>

\* Mutant: what the caller's buffer does not hold is dropped.
UncopiedDropped(s, n) == <<>>

\* copy(b, s) with len(b) = n: what is handed to the caller and what is not.
Copied(s, n)   == SubSeq(s, 1, IF n < Len(s) THEN n ELSE Len(s))
Uncopied(s, n) == SubSeq(s, n + 1, Len(s))

\* Mutant: a pending readErr does not stop Read.
ReadBufferedUnsticky(t, n) ==
  /\ pc[t] = "rdClosed"
  /\ \/ /\ closed
        /\ ReadReturn(t)
        /\ UNCHANGED <<readVars, count>>
     \/ /\ ~closed /\ readBuf # <<>>
        /\ delivered' = delivered \o Copied(readBuf, n)
        /\ readBuf' = Uncopied(readBuf, n)
        /\ ReadReturn(t)
        /\ UNCHANGED <<readErr, inbox, sent, count>>
     \/ /\ ~closed /\ readBuf = <<>>
        /\ count' = [count EXCEPT ![t] = 0]
        /\ Goto(t, "rdRecord")
        /\ UNCHANGED <<connVars, readVars>>
  /\ UNCHANGED <<ioVars, callVars>>

\* The closed check, the buffered data, the sticky error; otherwise the loop.
ReadBuffered(t, n) ==
  /\ pc[t] = "rdClosed"
  /\ \/ /\ closed
        /\ ReadReturn(t)
        /\ UNCHANGED <<readVars, count>>
     \/ /\ ~closed /\ readBuf # <<>>
        /\ delivered' = delivered \o Copied(readBuf, n)
        /\ readBuf' = Uncopied(readBuf, n)
        /\ ReadReturn(t)
        /\ UNCHANGED <<readErr, inbox, sent, count>>
     \/ /\ ~closed /\ readBuf = <<>> /\ readErr # "nil"
        /\ ReadReturn(t)
        /\ UNCHANGED <<readVars, count>>
     \/ /\ ~closed /\ readBuf = <<>> /\ readErr = "nil"
        /\ count' = [count EXCEPT ![t] = 0]
        /\ Goto(t, "rdRecord")
        /\ UNCHANGED <<connVars, readVars>>
  /\ UNCHANGED <<ioVars, callVars>>

\* Mutant: a failed ReadRecord is reported but not remembered.
ReadIOErrorForgotten(t) ==
  /\ pc[t] = "rdRecord" /\ Fails("r")
  /\ \/ inbox' = inbox
     \/ inbox # <<>> /\ inbox' = [inbox EXCEPT ![1].kind = "torn"]
  /\ ReadReturn(t)
  /\ UNCHANGED <<readBuf, readErr, sent, delivered, ioVars, callVars, count>>

\* Mutant: a failed ReadRecord is tried again.
ReadIOErrorRetried(t) ==
  /\ pc[t] = "rdRecord" /\ Fails("r")
  /\ readErr' = "io"
  /\ UNCHANGED <<connVars, readBuf, inbox, sent, delivered, ioVars, callVars, pc, count>>

\* ReadRecord failed, perhaps halfway into a record: the error becomes the
\* sticky readErr.
ReadIOError(t) ==
  /\ pc[t] = "rdRecord" /\ Fails("r")
  /\ \/ inbox' = inbox
     \/ inbox # <<>> /\ inbox' = [inbox EXCEPT ![1].kind = "torn"]
  /\ readErr' = "io"
  /\ ReadReturn(t)
  /\ UNCHANGED <<readBuf, sent, delivered, ioVars, callVars, count>>

ErrorOf(kind) == CASE kind = "close_notify" -> "eof"
                   [] kind = "alert"        -> "alert"
                   [] kind = "other"        -> "unexpected"

\* Mutant: empty records are not counted.
ReadEmptyUncounted(t) == UNCHANGED <<connVars, readErr, pc, count>>

\* An empty record is skipped, up to the cap.
ReadEmpty(t) ==
  \/ /\ count[t] < MaxEmptyRecords
     /\ count' = [count EXCEPT ![t] = @ + 1]
     /\ UNCHANGED <<connVars, readErr, pc>>
  \/ /\ count[t] >= MaxEmptyRecords
     /\ readErr' = "flood"
     /\ ReadReturn(t)
     /\ UNCHANGED count

\* ReadRecord returned a record.  What a peer sent before it went away may
\* still arrive.
ReadRecord(t, n) ==
  /\ pc[t] = "rdRecord"
  /\ transport # "closed" /\ deadline["r"] # "expired" /\ inbox # <<>>
  /\ inbox' = Tail(inbox)
  /\ LET r == Head(inbox) IN
     \/ r.kind = "empty" /\ ReadEmpty(t) /\ UNCHANGED <<readBuf, delivered>>
     \/ /\ r.kind = "app"
        /\ delivered' = delivered \o Copied(r.data, n)
        /\ readBuf' = readBuf \o Uncopied(r.data, n)
        /\ ReadReturn(t)
        /\ UNCHANGED <<readErr, count>>
     \/ /\ r.kind \in {"close_notify", "alert", "other"}
        /\ readErr' = ErrorOf(r.kind)
        /\ ReadReturn(t)
        /\ UNCHANGED <<readBuf, delivered, count>>
  /\ UNCHANGED <<sent, ioVars, callVars>>

-----------------------------------------------------------------------------
(* Write *)

WriteLock(t) ==
  /\ pc[t] = "wrLock" /\ outMu = NoThread
  /\ outMu' = t
  /\ Goto(t, "wrClosed")
  /\ UNCHANGED <<closed, handshakeOK, onceDone, onceMu, hsErr, inMu>>
  /\ UNCHANGED <<readVars, ioVars, callVars, count>>

\* Mutant: a return path of Write keeps outMu.
WriteReturnLocked(t) == Goto(t, "idle") /\ UNCHANGED connVars

WriteReturn(t) == /\ outMu' = NoThread
                  /\ Goto(t, "idle")
                  /\ UNCHANGED <<closed, handshakeOK, onceDone, onceMu, hsErr, inMu>>

\* Mutant: Write does not look at closed under outMu.
WriteUnchecked(t) ==
  /\ pc[t] = "wrClosed"
  /\ \E k \in 1 .. Chunks : count' = [count EXCEPT ![t] = k]
  /\ Goto(t, "wrRecord")
  /\ UNCHANGED <<connVars, readVars, ioVars, callVars>>

WriteClosed(t) ==
  /\ pc[t] = "wrClosed"
  /\ \/ WriteReturn(t) /\ UNCHANGED count   \* closed, or b is empty
     \/ /\ ~closed
        /\ \E k \in 1 .. Chunks : count' = [count EXCEPT ![t] = k]
        /\ Goto(t, "wrRecord")
        /\ UNCHANGED connVars
  /\ UNCHANGED <<readVars, ioVars, callVars>>

\* One record went out; the loop goes on while chunks are left.
WriteRecord(t) ==
  /\ pc[t] = "wrRecord" /\ ~Fails("w")
  /\ wire' = Append(wire, "app")
  /\ count' = [count EXCEPT ![t] = @ - 1]
  /\ IF count[t] > 1 THEN UNCHANGED <<pc, connVars>> ELSE WriteReturn(t)
  /\ UNCHANGED <<readVars, deadline, transport, callVars>>

WriteError(t) ==
  /\ pc[t] = "wrRecord" /\ Fails("w")
  /\ WriteReturn(t)
  /\ UNCHANGED <<readVars, ioVars, callVars, count>>

-----------------------------------------------------------------------------
(* Close *)

CloseCAS(t) ==
  /\ pc[t] = "clCAS"
  /\ closed' = TRUE
  /\ Goto(t, IF closed THEN "idle" ELSE "clOK")
  /\ UNCHANGED <<handshakeOK, onceDone, onceMu, hsErr, inMu, outMu>>
  /\ UNCHANGED <<readVars, ioVars, callVars, count>>

\* Mutant: Close alerts whether or not the handshake succeeded.
CloseAlways(t) ==
  /\ pc[t] = "clOK"
  /\ Goto(t, "clTry")
  /\ UNCHANGED <<connVars, readVars, ioVars, callVars, count>>

CloseHandshakeOK(t) ==
  /\ pc[t] = "clOK"
  /\ Goto(t, IF handshakeOK THEN "clTry" ELSE "clConn")
  /\ UNCHANGED <<connVars, readVars, ioVars, callVars, count>>

\* Mutant: Close writes its alert without outMu.
CloseNoLock(t) ==
  /\ pc[t] = "clTry"
  /\ Goto(t, "clDeadline")
  /\ UNCHANGED <<connVars, readVars, ioVars, callVars, count>>

\* Mutant: Close waits for outMu.
CloseLock(t) ==
  /\ pc[t] = "clTry"
  /\ outMu = NoThread /\ outMu' = t /\ Goto(t, "clDeadline")
  /\ UNCHANGED <<closed, handshakeOK, onceDone, onceMu, hsErr, inMu>>
  /\ UNCHANGED <<readVars, ioVars, callVars, count>>

\* outMu.TryLock() never waits.
CloseTryLock(t) ==
  /\ pc[t] = "clTry"
  /\ \/ outMu = NoThread /\ outMu' = t /\ Goto(t, "clDeadline")
     \/ outMu # NoThread /\ outMu' = outMu /\ Goto(t, "clConn")
  /\ UNCHANGED <<closed, handshakeOK, onceDone, onceMu, hsErr, inMu>>
  /\ UNCHANGED <<readVars, ioVars, callVars, count>>

CloseSetDeadline(t) ==
  /\ pc[t] = "clDeadline"
  /\ deadline' = [deadline EXCEPT !["w"] = "armed"]
  /\ Goto(t, "clAlert")
  /\ UNCHANGED <<connVars, readVars, transport, wire, callVars, count>>

CloseNotify(t) ==
  /\ pc[t] = "clAlert" /\ ~Fails("w")
  /\ wire' = Append(wire, "close_notify")
  /\ Goto(t, "clUnlock")
  /\ UNCHANGED <<connVars, readVars, deadline, transport, callVars, count>>

\* Best effort: the write error is ignored.
CloseNotifyError(t) ==
  /\ pc[t] = "clAlert" /\ Fails("w")
  /\ Goto(t, "clUnlock")
  /\ UNCHANGED <<connVars, readVars, ioVars, callVars, count>>

CloseUnlock(t) ==
  /\ pc[t] = "clUnlock"
  /\ outMu' = NoThread
  /\ Goto(t, "clConn")
  /\ UNCHANGED <<closed, handshakeOK, onceDone, onceMu, hsErr, inMu>>
  /\ UNCHANGED <<readVars, ioVars, callVars, count>>

CloseConn(t) ==
  /\ pc[t] = "clConn"
  /\ transport' = "closed"
  /\ Goto(t, "idle")
  /\ UNCHANGED <<connVars, readVars, deadline, wire, callVars, count>>

-----------------------------------------------------------------------------
(* SetDeadline, SetReadDeadline, SetWriteDeadline: set or clear a deadline *)
(* of the underlying net.Conn, which also applies to operations pending.   *)

SetDeadline(t, ds, v) ==
  /\ pc[t] = "setDl"
  /\ deadline' = [d \in Dir |-> IF d \in ds THEN v ELSE deadline[d]]
  /\ Goto(t, "idle")
  /\ UNCHANGED <<connVars, readVars, transport, wire, callVars, count>>

-----------------------------------------------------------------------------
(* The environment: time and the peer. *)

Expire(d) ==
  /\ deadline[d] = "armed"
  /\ deadline' = [deadline EXCEPT ![d] = "expired"]
  /\ UNCHANGED <<connVars, readVars, transport, wire, callVars, pc, count>>

\* After the client's second flight the peer may send records; the first
\* may be on its way before this end has stored handshakeOK.
PeerSend(k) ==
  /\ transport = "open" /\ Len(inbox) < MaxInbox
  /\ Len(wire) >= 2 /\ wire[2] = "hs"
  /\ LET n == IF k = "app" THEN 2 ELSE 0 IN
       /\ sent + n <= MaxBytes
       /\ sent' = sent + n
       /\ inbox' = Append(inbox, [kind |-> k, data |-> [i \in 1 .. n |-> sent + i]])
  /\ UNCHANGED <<connVars, readBuf, readErr, delivered, ioVars, callVars, pc, count>>

PeerReset ==
  /\ transport = "open"
  /\ transport' = "gone"
  /\ UNCHANGED <<connVars, readVars, deadline, wire, callVars, pc, count>>

-----------------------------------------------------------------------------

\* Steps the Go scheduler and the transport owe a goroutine.
Run(t) ==
  \/ OnceSkip(t) \/ OnceEnter(t) \/ HsStart(t) \/ HsIOError(t)
  \/ HsAlertError(t) \/ HsStore(t) \/ HsExit(t) \/ HandshakeReturn(t)
  \/ ReadLock(t) \/ ReadIOError(t)
  \/ \E n \in BufLens : ReadBuffered(t, n) \/ ReadRecord(t, n)
  \/ WriteLock(t) \/ WriteClosed(t) \/ WriteError(t)
  \/ CloseCAS(t) \/ CloseHandshakeOK(t) \/ CloseTryLock(t)
  \/ CloseSetDeadline(t) \/ CloseNotifyError(t) \/ CloseUnlock(t) \/ CloseConn(t)
  \/ \E ds \in SUBSET Dir, v \in {"none", "armed"} : SetDeadline(t, ds, v)

\* Steps that wait for the peer, which may never drain a write or answer.
WaitPeer(t) ==
  \/ HsProgress(t) \/ HsReject(t) \/ HsAlert(t)
  \/ WriteRecord(t) \/ CloseNotify(t)

Next ==
  \/ \E t \in Threads : Run(t) \/ WaitPeer(t) \/ \E o \in OpNames : Call(t, o)
  \/ \E d \in Dir : Expire(d)
  \/ \E k \in RecordKinds : PeerSend(k)
  \/ PeerReset

Spec == Init /\ [][Next]_vars

\* The scheduler runs every goroutine that can run, and time passes.
Fairness == /\ \A t \in Threads : WF_vars(Run(t))
            /\ \A d \in Dir : WF_vars(Expire(d))

FairSpec == Spec /\ Fairness

-----------------------------------------------------------------------------
(* Safety *)

SendSide(t) == pc[t] \in HsSend \cup {"wrRecord", "clAlert"}
RecvSide(t) == pc[t] \in HsRecv \cup {"rdRecord"}

\* The contract of record.Layer (record.go, type Layer): no two goroutines
\* are inside WriteRecord, no two inside ReadRecord, and while the handshake
\* (the only caller of ChangeCipherSpec) uses the layer nobody else does.
\* It has to follow from handshakeOnce, handshakeOK, inMu and outMu, because
\* the layer has no lock of its own.
LayerContract ==
  \A a, b \in Threads : a # b =>
    /\ ~(SendSide(a) /\ SendSide(b))
    /\ ~(RecvSide(a) /\ RecvSide(b))
    /\ pc[a] \in HsIO => ~SendSide(b) /\ ~RecvSide(b)

\* A close_notify is the last record this end ever writes, so there is at
\* most one and no application data of a concurrent Write follows it (Close
\* sets closed before it takes outMu, Write looks at closed after).
CloseNotifyLast ==
  \A i \in 1 .. Len(wire) : wire[i] = "close_notify" => i = Len(wire)

\* Application data and close_notify travel only on a connection whose
\* handshake succeeded (Read and Write return handshakeErr, Close consults
\* handshakeOK).
AppOnlyAfterHandshake ==
  /\ \A i \in 1 .. Len(wire) :
        wire[i] \in {"app", "close_notify"} => handshakeOK /\ hsErr = "nil"
  /\ \A t \in Threads : pc[t] \in {"rdRecord", "wrRecord", "clAlert"} =>
        handshakeOK /\ hsErr = "nil"

\* A Handshake, Read or Write called after Close has set closed never
\* touches the record layer.
NoIOAfterClose ==
  \A t \in Threads : late[t] => ~SendSide(t) /\ ~RecvSide(t)

\* A stream that a failed ReadRecord has left in the middle of a record is
\* never parsed again (the sticky readErr of conn.go).
DesyncNeverRead ==
  inbox # <<>> /\ inbox[1].kind = "torn" => readErr # "nil"

\* The elements of ss, which are sequences, one after the other.
Concat(ss) ==
  LET cat[i \in 0 .. Len(ss)] == IF i = 0 THEN <<>> ELSE cat[i - 1] \o ss[i]
  IN cat[Len(ss)]

\* Concurrent Reads hand out the peer's bytes in order, none lost, none
\* twice: what was returned, what is buffered and what is still on its way
\* are the bytes the peer sent.
ReadStream ==
  delivered \o readBuf \o Concat([i \in 1 .. Len(inbox) |-> inbox[i].data])
    = [i \in 1 .. sent |-> i]

\* readErr is sticky: once set it does not change, nothing more is taken
\* from the transport and nothing more is handed out.
ReadErrSticky ==
  [][readErr # "nil" => /\ readErr' = readErr
                        /\ Len(inbox') >= Len(inbox)
                        /\ delivered' = delivered]_vars

-----------------------------------------------------------------------------
(* The inductive invariant behind the safety properties *)

\* Who holds what: each mutex, and the Once, is held exactly by the goroutine
\* whose label is inside the corresponding critical section.
Holders ==
  /\ \A t \in Threads : onceMu = t <=> pc[t] \in HsPc
  /\ \A t \in Threads : inMu = t <=> pc[t] \in RdPc
  /\ \A t \in Threads : outMu = t <=> pc[t] \in WrPc \cup ClMuPc
  /\ onceMu # NoThread => ~onceDone

\* How far the handshake is: handshakeOK and hsErr are decided by the
\* goroutine inside the Once, and read elsewhere only after their last change.
Phases ==
  /\ handshakeOK => hsErr = "nil"
  /\ onceDone => (hsErr = "nil" => handshakeOK)
  /\ ~onceDone /\ onceMu = NoThread => ~handshakeOK /\ hsErr = "nil"
  /\ \A t \in Threads :
       /\ pc[t] \in HsPc \ {"hsExit"} => ~handshakeOK
       /\ pc[t] \in HsPc \ {"hsExit", "hsAlert"} => hsErr = "nil"
       /\ pc[t] = "hsAlert" => hsErr # "nil"
       /\ pc[t] = "hsExit" => (hsErr = "nil" => handshakeOK)
       /\ pc[t] = "ret" => onceDone
       /\ pc[t] \in {"rdLock", "wrLock"} \cup RdPc \cup WrPc => onceDone /\ handshakeOK
       /\ pc[t] \in {"clTry"} \cup ClMuPc => handshakeOK
       /\ pc[t] = "wrRecord" => count[t] > 0

\* What closed implies: one goroutine at most is past Close's CAS, and a
\* late call is nowhere near the record layer.
Closing ==
  /\ \A t \in Threads : pc[t] \in ClPc \/ late[t] => closed
  /\ \A a, b \in Threads : pc[a] \in ClPc /\ pc[b] \in ClPc => a = b
  /\ \A t \in Threads : late[t] => pc[t] \notin HsIO \cup {"rdRecord", "wrRecord"} \cup ClPc

OnWire(r) == \E i \in 1 .. Len(wire) : wire[i] = r

\* What the wire implies: a close_notify leaves nobody who could still write.
Wire ==
  /\ OnWire("app") \/ OnWire("close_notify") => handshakeOK
  /\ OnWire("close_notify") =>
       /\ closed
       /\ \A t \in Threads : pc[t] \notin {"wrRecord", "clOK", "clTry", "clDeadline", "clAlert"}

\* The flags, the mutexes, the labels and the wire fit together as Handshake,
\* Read, Write and Close need them to: inductive, and strong enough to imply
\* the safety properties above that do not speak of the bytes read.
IInv == TypeOK /\ Holders /\ Phases /\ Closing /\ Wire /\ CloseNotifyLast

-----------------------------------------------------------------------------
(* Liveness, under FairSpec *)

\* Close returns, whatever a concurrent Write, Read or handshake is blocked
\* on and even if the peer never drains close_notify.
CloseTerminates ==
  \A t \in Threads : pc[t] \in ClPc \cup {"clCAS"} ~> pc[t] = "idle"

\* Closing the transport unblocks everybody: every call still in progress,
\* a handshake included, returns.
CloseUnblocks ==
  \A t \in Threads : transport = "closed" /\ pc[t] # "idle" ~> pc[t] = "idle"

\* A peer that never stops sending empty records does not pin a Read
\* (maxEmptyRecords), nor a second Read waiting for inMu behind it.
FloodedReadReturns ==
  WF_vars(PeerSend("empty")) =>
    \A t \in Threads : pc[t] \in {"rdLock"} \cup RdPc ~> pc[t] = "idle"
=============================================================================
