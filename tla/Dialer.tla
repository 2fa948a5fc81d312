------------------------------- MODULE Dialer -------------------------------
(***************************************************************************)
(* Dialer.DialContext (dialer.go, dialer_default.go) composed with Conn:   *)
(* the dialing goroutine, the watcher goroutine handshakeContext starts,   *)
(* the context, and the goroutines that use the connection once it has     *)
(* been returned.  The watcher and the dialing goroutine meet in the       *)
(* deadlines of the underlying net.Conn and in the channels done and       *)
(* interrupt.                                                              *)
(***************************************************************************)
EXTENDS Conn

CONSTANTS Dialing  \* the goroutine that dials, one of Threads

ASSUME DialerAssumption == Dialing \in Threads

VARIABLES
  ctxKind,    \* what ctx is: Background, cancellable, or with a deadline too
  ctxDone,    \* ctx is cancelled or past its deadline
  dpc,        \* label of the dialing goroutine in dialBackend
  wpc,        \* label of the watcher
  done,       \* the channel done is closed
  interrupt,  \* the buffered channel interrupt
  dialErr     \* what handshakeContext is about to return is an error

dialVars == <<ctxKind, ctxDone, dpc, wpc, done, interrupt, dialErr>>
allVars  == <<vars, dialVars>>

DialTypeOK ==
  /\ TypeOK
  /\ ctxKind \in {"background", "cancel", "deadline"}
  /\ ctxDone \in BOOLEAN /\ done \in BOOLEAN /\ dialErr \in BOOLEAN
  /\ dpc \in {"dial", "bound", "spawn", "call", "wait", "recv", "clear", "raw", "ok", "err"}
  /\ wpc \in {"none", "select", "poison", "send", "exited"}
  /\ interrupt \in {<<>>, <<"nil">>, <<"ctx">>}

DialInit ==
  /\ Init
  /\ ctxKind \in {"background", "cancel", "deadline"}
  /\ ctxDone = FALSE /\ done = FALSE /\ dialErr = FALSE
  /\ dpc = "dial" /\ wpc = "none" /\ interrupt = <<>>

-----------------------------------------------------------------------------
(* The dialing goroutine *)

\* nd.DialContext connects, or fails and there is nothing to close.
DialRaw ==
  /\ dpc = "dial"
  /\ \/ /\ dpc' = IF ctxKind = "background" THEN "call" ELSE "bound"
        /\ UNCHANGED transport
     \/ dpc' = "err" /\ transport' = "closed"
  /\ UNCHANGED <<connVars, readVars, deadline, wire, callVars, pc, count>>
  /\ UNCHANGED <<ctxKind, ctxDone, wpc, done, interrupt, dialErr>>

BothDirs(v) == [d \in Dir |-> v]

\* ctx's deadline becomes the connection's; clearing it is deferred.
BoundByCtx ==
  /\ dpc = "bound" /\ dpc' = "spawn"
  /\ deadline' = IF ctxKind = "deadline" THEN BothDirs("armed") ELSE deadline
  /\ UNCHANGED <<connVars, readVars, transport, wire, callVars, pc, count>>
  /\ UNCHANGED <<ctxKind, ctxDone, wpc, done, interrupt, dialErr>>

SpawnWatcher ==
  /\ dpc = "spawn" /\ dpc' = "call"
  /\ wpc' = "select"
  /\ UNCHANGED <<vars, ctxKind, ctxDone, done, interrupt, dialErr>>

CallHandshake ==
  /\ dpc = "call" /\ dpc' = "wait"
  /\ Call(Dialing, "Handshake")
  /\ UNCHANGED <<ctxKind, ctxDone, wpc, done, interrupt, dialErr>>

\* c.Handshake() returned: nothing more to do, or close(done).
HandshakeReturned ==
  /\ dpc = "wait" /\ pc[Dialing] = "idle"
  /\ \/ /\ ctxKind = "background"
        /\ dpc' = IF hsErr = "nil" THEN "ok" ELSE "raw"
        /\ UNCHANGED done
     \/ ctxKind # "background" /\ dpc' = "recv" /\ done' = TRUE
  /\ UNCHANGED <<vars, ctxKind, ctxDone, wpc, interrupt, dialErr>>

\* Mutant: the result of the watcher is not waited for.
NoReceive ==
  /\ dpc = "recv" /\ dpc' = "clear"
  /\ dialErr' = (interrupt = <<"ctx">> \/ hsErr # "nil")
  /\ interrupt' = <<>>
  /\ UNCHANGED <<vars, ctxKind, ctxDone, wpc, done>>

\* Mutant: a handshake that succeeded wins over the interruption.
ReceiveIgnored ==
  /\ dpc = "recv" /\ interrupt # <<>> /\ dpc' = "clear"
  /\ dialErr' = (hsErr # "nil")
  /\ interrupt' = <<>>
  /\ UNCHANGED <<vars, ctxKind, ctxDone, wpc, done>>

\* ctxErr := <-interrupt, which takes precedence over the handshake's result.
ReceiveInterrupt ==
  /\ dpc = "recv" /\ interrupt # <<>> /\ dpc' = "clear"
  /\ dialErr' = (interrupt = <<"ctx">> \/ hsErr # "nil")
  /\ interrupt' = <<>>
  /\ UNCHANGED <<vars, ctxKind, ctxDone, wpc, done>>

\* The deferred SetDeadline(time.Time{}).
ClearDeadline ==
  /\ dpc = "clear"
  /\ dpc' = IF dialErr THEN "raw" ELSE "ok"
  /\ deadline' = IF ctxKind = "deadline" THEN BothDirs("none") ELSE deadline
  /\ UNCHANGED <<connVars, readVars, transport, wire, callVars, pc, count>>
  /\ UNCHANGED <<ctxKind, ctxDone, wpc, done, interrupt, dialErr>>

\* Mutant: the failed connection is left to the garbage collector.
CloseRawForgotten ==
  /\ dpc = "raw" /\ dpc' = "err"
  /\ UNCHANGED <<vars, ctxKind, ctxDone, wpc, done, interrupt, dialErr>>

CloseRaw ==
  /\ dpc = "raw" /\ dpc' = "err"
  /\ transport' = "closed"
  /\ UNCHANGED <<connVars, readVars, deadline, wire, callVars, pc, count>>
  /\ UNCHANGED <<ctxKind, ctxDone, wpc, done, interrupt, dialErr>>

-----------------------------------------------------------------------------
(* The watcher *)

WatcherDone ==
  /\ wpc = "select" /\ done /\ wpc' = "exited"
  /\ interrupt' = <<"nil">>
  /\ UNCHANGED <<vars, ctxKind, ctxDone, dpc, done, dialErr>>

WatcherCtx ==
  /\ wpc = "select" /\ ctxDone /\ wpc' = "poison"
  /\ UNCHANGED <<vars, ctxKind, ctxDone, dpc, done, interrupt, dialErr>>

\* Mutant: only reads are interrupted.
PoisonReads ==
  /\ wpc = "poison" /\ wpc' = "send"
  /\ deadline' = [deadline EXCEPT !["r"] = "expired"]
  /\ UNCHANGED <<connVars, readVars, transport, wire, callVars, pc, count>>
  /\ UNCHANGED <<ctxKind, ctxDone, dpc, done, interrupt, dialErr>>

\* SetDeadline(time.Now()): whatever the handshake is blocked on fails.
WatcherPoison ==
  /\ wpc = "poison" /\ wpc' = "send"
  /\ deadline' = BothDirs("expired")
  /\ UNCHANGED <<connVars, readVars, transport, wire, callVars, pc, count>>
  /\ UNCHANGED <<ctxKind, ctxDone, dpc, done, interrupt, dialErr>>

WatcherSend ==
  /\ wpc = "send" /\ wpc' = "exited"
  /\ interrupt' = <<"ctx">>
  /\ UNCHANGED <<vars, ctxKind, ctxDone, dpc, done, dialErr>>

-----------------------------------------------------------------------------

\* ctx is cancelled, or its deadline passes; also long after the dial.
CtxDone ==
  /\ ctxKind # "background" /\ ~ctxDone /\ ctxDone' = TRUE
  /\ UNCHANGED <<vars, ctxKind, dpc, wpc, done, interrupt, dialErr>>

DialStep == \/ DialRaw \/ BoundByCtx \/ SpawnWatcher \/ CallHandshake
            \/ HandshakeReturned \/ ReceiveInterrupt \/ ClearDeadline \/ CloseRaw
Watcher  == WatcherDone \/ WatcherCtx \/ WatcherPoison \/ WatcherSend

\* Calls on the connection once DialContext has returned it.
UseConn(t, o) == dpc = "ok" /\ Call(t, o) /\ UNCHANGED dialVars

ConnRun(t) == Run(t) /\ UNCHANGED dialVars

DialNext ==
  \/ DialStep \/ Watcher \/ CtxDone
  \/ \E t \in Threads : ConnRun(t) \/ \E o \in OpNames : UseConn(t, o)
  \/ /\ \/ \E t \in Threads : WaitPeer(t)
        \/ \E d \in Dir : Expire(d)
        \/ \E k \in RecordKinds : PeerSend(k)
        \/ PeerReset
     /\ UNCHANGED dialVars

DialSpec == DialInit /\ [][DialNext]_allVars

\* Goroutines that can run do.  Nothing is assumed of the peer, nor of when
\* a deadline or a cancellation comes.
DialFairSpec == /\ DialSpec
                /\ WF_allVars(DialStep) /\ WF_allVars(Watcher)
                /\ \A t \in Threads : WF_allVars(ConnRun(t))

-----------------------------------------------------------------------------

\* The connection DialContext hands over is handshaken and clean: no
\* deadline of the dial is left on it, and no watcher is left that could
\* still put one there, however late ctx is cancelled ("it is not propagated
\* to subsequent Read/Write calls").
ReturnedClean ==
  dpc = "ok" => /\ handshakeOK
                /\ wpc \in {"none", "exited"}
                /\ ~closed => deadline = BothDirs("none")

\* A dial that fails leaves no open connection and no watcher behind.
FailedClosed ==
  dpc = "err" => transport = "closed" /\ wpc \in {"none", "exited"}

\* An interruption is never lost: once the watcher has seen ctx done, so that
\* it expires the deadlines of the connection, the dial never succeeds, not
\* even if the handshake completed meanwhile.
PoisonFails ==
  [](wpc = "poison" => [](dpc # "ok"))

\* A stalled peer cannot hold the dial past ctx (handshakeContext): once ctx
\* is done the dial returns, whether the handshake was reading, writing or
\* writing its alert, and without waiting for the deadline to expire.
CtxBoundsDial == ctxDone ~> dpc \in {"ok", "err"}
=============================================================================
