-------------------------- MODULE HandshakeProofs --------------------------
(***************************************************************************)
(* What a client that reaches the end of the handshake knows of the server *)
(* and of its own buffers, what its digests cover, and that it has         *)
(* followed the message flow of RFC 5246 section 7.3, for any suites       *)
(* offered, any messages from the peer and any fragmentation.              *)
(***************************************************************************)
EXTENDS ClientHandshake, TLAPS

ClientMsgs ==
  {Plain(t) : t \in {"ClientHello", "ClientKeyExchange", "CertificateVerify", "Finished", "CCS"}}
  \cup {Msg("ClientCertificate", v, "-") : v \in {"one", "empty"}}
Sent == ServerMsgs \cup ClientMsgs
Entries == [by : {"client", "server"}, m : Sent, prot : BOOLEAN, covers : Seq(Sent)]

Types ==
  /\ hsBuf \in Seq(ServerMsgs) /\ transcript \in Seq(Sent) /\ log \in Seq(Entries)
  /\ sendProt \in BOOLEAN /\ recvProt \in BOOLEAN

\* The empty sequence has every type.
LEMMA Empty == <<>> \in Seq(Sent) /\ <<>> \in Seq(ServerMsgs) /\ <<>> \in Seq(Entries)
  OBVIOUS

\* What a step makes of the log: it stays, or grows by one entry of by and m.
Grows(by, m) ==
  \A i \in 1 .. Len(log') :
    \/ i \in 1 .. Len(log) /\ log'[i] = log[i]
    \/ log'[i].by = by /\ log'[i].m = m

\* Logged appends one entry.
LEMMA LogGrows ==
  ASSUME Types, NEW by \in {"client", "server"}, NEW m \in Sent, NEW covers \in Seq(Sent),
         Logged(by, m, covers)
  PROVE  log' \in Seq(Entries) /\ log' # <<>> /\ Grows(by, m)
<1>1. PICK p \in BOOLEAN : log' = Append(log, Entry(by, m, p, covers))
  BY DEF Types, Logged
<1> DEFINE e == Entry(by, m, p, covers)
<1>2. e \in Entries /\ e.by = by /\ e.m = m
  BY DEF Entry, Entries
<1> HIDE DEF e
<1>3. log \in Seq(Entries) /\ log' = Append(log, e)
  BY <1>1 DEF Types, e
<1>4. log' \in Seq(Entries) /\ Len(log') = Len(log) + 1 /\ Len(log) \in Nat
  BY <1>2, <1>3
<1>5. \A i \in 1 .. Len(log') : log'[i] = IF i \in 1 .. Len(log) THEN log[i] ELSE e
  BY <1>3, <1>4
<1>6. Grows(by, m)
  BY <1>2, <1>5 DEF Grows
<1>7. log' # <<>>
  BY <1>4
<1> QED BY <1>4, <1>6, <1>7

\* Transcript.Write appends its message or leaves the transcript.
LEMMA TranscriptGrows ==
  ASSUME Types, NEW m \in Sent, TranscriptWrite(m)
  PROVE  transcript' \in Seq(Sent)
<1>1. transcript' = Append(transcript, m) \/ transcript' = transcript
  BY DEF TranscriptWrite
<1>2. transcript \in Seq(Sent)
  BY DEF Types
<1> QED BY <1>1, <1>2

\* ClientState.fatal drops the buffer and keeps the rest.
LEMMA FatalTypes == ASSUME Types, Fatal PROVE Types'
  BY DEF Types, Fatal, protVars

\* A record from the peer appends messages to hsBuf.
LEMMA RecordTypes ==
  ASSUME Types, NEW ms \in MsgSeqs
  PROVE  hsBuf \o ms \in Seq(ServerMsgs)
<1>1. PICK k \in 0 .. MaxPerRecord : ms \in [1 .. k -> ServerMsgs]
  BY DEF MsgSeqs
<1>2. k \in Nat
  BY <1>1, HandshakeAssumption DEF HandshakeAssumption
<1>3. ms \in Seq(ServerMsgs)
  BY <1>1, <1>2
<1> QED BY <1>3 DEF Types

\* An accepted message leaves the buffer and enters the log as the server's.
LEMMA AcceptTypes ==
  ASSUME Types, Ready, NEW covers \in Seq(Sent), Accept(Head(hsBuf), covers)
  PROVE  Types' /\ Grows("server", Head(hsBuf)) /\ log' # <<>>
<1>1. Head(hsBuf) \in Sent /\ hsBuf' \in Seq(ServerMsgs)
  BY DEF Types, Ready, Sent, Accept, Consume
<1> QED BY <1>1, LogGrows, TranscriptGrows DEF Types, Accept, protVars

\* A message sent enters the log as the client's.
LEMMA SendTypes ==
  ASSUME Types, NEW m \in ClientMsgs, NEW covers \in Seq(Sent),
         Logged("client", m, covers), TranscriptWrite(m), UNCHANGED <<bufVars, protVars>>
  PROVE  Types' /\ Grows("client", m) /\ log' # <<>>
<1>1. m \in Sent
  BY DEF Sent
<1> QED BY <1>1, LogGrows, TranscriptGrows DEF Types, bufVars, protVars

-----------------------------------------------------------------------------
(* The inductive invariant *)

\* What a message the server sent must be, if the client has accepted it.
CertOK(m) ==
  m.type = "Certificate" =>
    m.v = certKey /\ (insecure \/ m.w = "valid") /\ pc \notin {"hello", "serverHello", "certificate"}
SKEOK(m) ==
  m.type = "ServerKeyExchange" => m.v = Auth(suite) /\ m.w = "genuine" /\ sawSKE

Accepted == \A i \in 1 .. Len(log) : log[i].by = "server" => CertOK(log[i].m) /\ SKEOK(log[i].m)

\* The steps after the keys have been derived.
Derived == Sending \cup {"straddle", "recvCCS", "finished", "done"}

\* The invariant.  AuthenticatedWhenDone is not inductive: what the certificate
\* and the ServerKeyExchange were when they were accepted must be carried to the
\* end, and an ephemeral suite ties the certificate's key to the suite only
\* through the ServerKeyExchange that recvServerFlight insists on.
HInv ==
  /\ Types /\ Accepted
  /\ pc = "hello" => log = <<>>
  /\ pc = "recvCCS" => hsBuf = <<>>
  /\ pc \notin {"hello", "serverHello", "failed"} => suite \in Offered
  /\ sawSKE => certKey = Auth(suite) /\ pc \notin {"hello", "serverHello", "certificate"}
  /\ pc = "derive" => sawSKE \/ ~Ephemeral(suite)
  /\ pc \in Derived => certKey = Auth(suite)
  /\ AlertAfterHello

\* A failure keeps the invariant, whatever step it ends.
LEMMA FatalStep == ASSUME HInv, Fatal PROVE HInv'
<1>1. Types'
  BY FatalTypes DEF HInv
<1>2. Accepted'
  BY DEF HInv, Accepted, CertOK, SKEOK, Fatal, config, flightVars
<1> QED BY <1>1, <1>2 DEF HInv, Fatal, flightVars, AlertAfterHello, Derived, Sending

\* The client goes from one step to a later one, with or without a message.
LEMMA ClientStep ==
  ASSUME HInv, Types', NEW m, Grows("client", m), UNCHANGED <<insecure, suite, certKey, sawSKE>>,
         pc \notin {"hello", "serverHello", "failed"},
         pc' \notin {"hello", "serverHello", "certificate", "failed", "derive"},
         pc' \in Derived => certKey = Auth(suite), pc' = "recvCCS" => hsBuf' = <<>>
  PROVE  HInv'
<1>1. Accepted'
  BY DEF HInv, Accepted, CertOK, SKEOK, Grows
<1> QED BY <1>1 DEF HInv, AlertAfterHello

\* A fresh ClientState satisfies the invariant.
LEMMA InitHolds == Init => HInv
<1> SUFFICES ASSUME Init PROVE HInv
  OBVIOUS
<1>1. Types
  BY Empty DEF Init, Types
<1> QED BY <1>1 DEF Init, HInv, Accepted, Derived, Sending, AlertAfterHello

\* The steps that consume a message of the server.
LEMMA ServerStep ==
  ASSUME HInv, [RecvServerHello \/ RecvCertificate \/ RecvServerFlight \/ RecvFinished]_vars
  PROVE  HInv'
<1>1. CASE RecvServerHello
  <2> DEFINE m == Head(hsBuf)
  <2>1. CASE Fatal
    BY <2>1, FatalStep
  <2>2. CASE m.type = "ServerHello" /\ m.v \in Offered /\ Accept(m, <<>>) /\ suite' = m.v
               /\ pc' = "certificate" /\ UNCHANGED <<certKey, sawSKE>>
    <3>1. Types' /\ Grows("server", m) /\ insecure' = insecure /\ pc = "serverHello"
      BY <1>1, <2>2, AcceptTypes, Empty DEF HInv, RecvServerHello, Accept, config
    <3>2. Accepted'
      BY <2>2, <3>1 DEF HInv, Accepted, CertOK, SKEOK, Grows
    <3> QED BY <2>2, <3>1, <3>2 DEF HInv, AlertAfterHello, Derived, Sending
  <2> QED BY <1>1, <2>1, <2>2 DEF RecvServerHello
<1>2. CASE RecvCertificate
  <2> DEFINE m == Head(hsBuf)
  <2>1. CASE Fatal
    BY <2>1, FatalStep
  <2>2. CASE m.type = "Certificate" /\ ChainAccepted(m) /\ Accept(m, <<>>) /\ certKey' = m.v
               /\ pc' = "serverFlight" /\ UNCHANGED <<suite, sawSKE>>
    <3>1. Types' /\ Grows("server", m) /\ insecure' = insecure /\ pc = "certificate"
      BY <1>2, <2>2, AcceptTypes, Empty DEF HInv, RecvCertificate, Accept, config
    <3>2. Accepted'
      BY <2>2, <3>1 DEF HInv, Accepted, CertOK, SKEOK, Grows, ChainAccepted
    <3> QED BY <2>2, <3>1, <3>2 DEF HInv, AlertAfterHello, Derived, Sending
  <2> QED BY <1>2, <2>1, <2>2 DEF RecvCertificate
<1>3. CASE RecvServerFlight
  <2> DEFINE m == Head(hsBuf)
  <2>0. pc = "serverFlight" /\ Ready
    BY <1>3 DEF RecvServerFlight
  <2>1. CASE Unexpected(m)
    BY <2>1, FatalStep DEF Unexpected
  <2>2. CASE GoodSKE(m) /\ Accept(m, <<>>) /\ sawSKE' = TRUE /\ UNCHANGED <<pc, suite, certKey>>
    <3>1. Types' /\ Grows("server", m) /\ insecure' = insecure
      BY <2>0, <2>2, AcceptTypes, Empty DEF HInv, Accept, config
    <3>2. m.type = "ServerKeyExchange" /\ m.v = Auth(suite) /\ m.v = certKey /\ m.w = "genuine"
      BY <2>2 DEF GoodSKE, SKEVerified
    <3>3. Accepted'
      BY <2>0, <2>2, <3>1, <3>2 DEF HInv, Accepted, CertOK, SKEOK, Grows
    <3> QED BY <2>0, <2>2, <3>1, <3>2, <3>3 DEF HInv, AlertAfterHello, Derived, Sending
  <2>3. CASE GoodCertReq(m) /\ Accept(m, <<>>) /\ UNCHANGED <<pc, suite, certKey, sawSKE>>
    <3>1. Types' /\ Grows("server", m) /\ insecure' = insecure /\ m.type = "CertificateRequest"
      BY <2>0, <2>3, AcceptTypes, Empty DEF HInv, Accept, config, GoodCertReq
    <3>2. Accepted'
      BY <2>0, <2>3, <3>1 DEF HInv, Accepted, CertOK, SKEOK, Grows
    <3> QED BY <2>0, <2>3, <3>1, <3>2 DEF HInv, AlertAfterHello, Derived, Sending
  <2>4. CASE GoodSHD(m) /\ Accept(m, <<>>) /\ pc' = "derive" /\ UNCHANGED <<suite, certKey, sawSKE>>
    <3>0. m.type = "ServerHelloDone"
      BY <2>4 DEF GoodSHD, Plain, Msg
    <3>1. Types' /\ Grows("server", m) /\ insecure' = insecure
      BY <2>0, <2>4, AcceptTypes, Empty DEF HInv, Accept, config
    <3>2. Accepted'
      BY <2>0, <2>4, <3>0, <3>1 DEF HInv, Accepted, CertOK, SKEOK, Grows
    <3> QED BY <2>0, <2>4, <3>1, <3>2 DEF HInv, AlertAfterHello, Derived, Sending, GoodSHD
  <2> QED BY <1>3, <2>1, <2>2, <2>3, <2>4 DEF RecvServerFlight, flightVars
<1>4. CASE RecvFinished
  <2> DEFINE m == Head(hsBuf)
  <2>1. CASE Fatal
    BY <2>1, FatalStep
  <2>2. CASE m = Msg("Finished", "equal", "-") /\ Accept(m, transcript) /\ pc' = "done" /\ UNCHANGED flightVars
    <3>0. transcript \in Seq(Sent) /\ Types
      BY DEF HInv, Types
    <3>1. Types' /\ Grows("server", m) /\ insecure' = insecure /\ pc = "finished" /\ m.type = "Finished"
      BY <1>4, <2>2, <3>0, AcceptTypes DEF RecvFinished, Accept, config, Msg
    <3>2. Accepted'
      BY <2>2, <3>1 DEF HInv, Accepted, CertOK, SKEOK, Grows, flightVars
    <3> QED BY <2>2, <3>1, <3>2 DEF HInv, AlertAfterHello, Derived, Sending, flightVars
  <2> QED BY <1>4, <2>1, <2>2 DEF RecvFinished
<1>5. CASE UNCHANGED vars
  <2>1. Types' /\ Accepted'
    BY <1>5 DEF HInv, Types, Accepted, CertOK, SKEOK, vars, config, bufVars, flightVars, protVars
  <2> QED BY <1>5, <2>1 DEF HInv, AlertAfterHello, vars, config, bufVars, flightVars, protVars
<1> QED BY <1>1, <1>2, <1>3, <1>4, <1>5

\* readHandshakeRecord keeps the invariant: it touches hsBuf alone, and is
\* not called between the straddle check and the server's CCS.
LEMMA ReadStep == ASSUME HInv, ReadHandshake PROVE HInv'
<1>1. CASE Fatal
  BY <1>1, FatalStep
<1>2. CASE \E ms \in MsgSeqs : hsBuf' = hsBuf \o ms
             /\ UNCHANGED <<config, pc, flightVars, protVars, transcript, overflow, alerted, log>>
  <2>1. PICK ms \in MsgSeqs : hsBuf' = hsBuf \o ms
    BY <1>2
  <2>2. Types'
    BY <1>2, <2>1, RecordTypes DEF HInv, Types, protVars
  <2>3. Accepted' /\ pc # "recvCCS"
    BY <1>2 DEF HInv, Accepted, CertOK, SKEOK, config, flightVars, ReadHandshake, Reading
  <2> QED BY <1>2, <2>2, <2>3 DEF HInv, AlertAfterHello, flightVars
<1> QED BY <1>1, <1>2 DEF ReadHandshake

\* The steps that send a message.
LEMMA SendStep ==
  ASSUME HInv, NEW m \in ClientMsgs, NEW covers \in Seq(Sent), NEW next \in Derived,
         pc \in Derived, next # "recvCCS", Send(m, covers, next)
  PROVE  HInv'
<1>1. CASE Fatal
  BY <1>1, FatalStep
<1>2. CASE /\ Logged("client", m, covers) /\ TranscriptWrite(m) /\ pc' = next
           /\ UNCHANGED <<config, bufVars, flightVars, protVars, alerted>>
  <2>1. Types' /\ Grows("client", m)
    BY <1>2, SendTypes DEF HInv
  <2>2. certKey = Auth(suite) /\ UNCHANGED <<insecure, suite, certKey, sawSKE>>
    BY <1>2 DEF HInv, config, flightVars
  <2> QED BY <1>2, <2>1, <2>2, ClientStep DEF Derived, Sending
<1> QED BY <1>1, <1>2 DEF Send

\* Every step of Handshake keeps the invariant.
LEMMA StepHolds == HInv /\ [Next]_vars => HInv'
<1> SUFFICES ASSUME HInv, [Next]_vars PROVE HInv'
  OBVIOUS
<1>0. Types /\ transcript \in Seq(Sent)
  BY DEF HInv, Types
<1>1. CASE SendClientHello
  <2>1. CASE pc' = "failed" /\ UNCHANGED <<log, transcript, overflow>>
    <3>1. Types' /\ Accepted' /\ log' = <<>>
      BY <1>1, <2>1 DEF HInv, Types, Accepted, CertOK, SKEOK, SendClientHello, bufVars,
         protVars, config, flightVars
    <3> QED BY <1>1, <2>1, <3>1 DEF HInv, SendClientHello, flightVars, AlertAfterHello, Derived, Sending
  <2>2. CASE /\ Logged("client", Plain("ClientHello"), <<>>)
             /\ TranscriptWrite(Plain("ClientHello")) /\ pc' = "serverHello"
    <3>1. Plain("ClientHello") \in ClientMsgs
      BY DEF ClientMsgs
    <3>2. pc = "hello" /\ UNCHANGED <<bufVars, protVars>> /\ UNCHANGED <<insecure, suite, certKey, sawSKE>>
      BY <1>1 DEF SendClientHello, config, flightVars
    <3>3. Types' /\ Grows("client", Plain("ClientHello"))
      BY <1>0, <2>2, <3>1, <3>2, SendTypes, Empty
    <3>4. Accepted'
      BY <2>2, <3>2, <3>3 DEF HInv, Accepted, CertOK, SKEOK, Grows
    <3> QED BY <2>2, <3>2, <3>3, <3>4 DEF HInv, AlertAfterHello, Derived, Sending
  <2> QED BY <1>1, <2>1, <2>2 DEF SendClientHello
<1>2. CASE ReadHandshake
  BY <1>2, ReadStep
<1>3. CASE RecvServerHello \/ RecvCertificate \/ RecvServerFlight \/ RecvFinished
  BY <1>3, ServerStep
<1>4. CASE Derive
  <2>1. CASE Fatal
    BY <2>1, FatalStep
  <2>2. CASE /\ Ephemeral(suite) \/ certKey = Auth(suite)
             /\ pc' \in {"clientCert", "keyExchange"}
             /\ UNCHANGED <<config, bufVars, flightVars, protVars, transcript, overflow, alerted, log>>
    <3>1. certKey = Auth(suite) /\ pc = "derive" /\ UNCHANGED <<insecure, suite, certKey, sawSKE>>
      BY <1>4, <2>2 DEF HInv, Derive, config, flightVars
    <3>2. Types' /\ Grows("client", "none")
      BY <1>0, <2>2 DEF Types, Grows, bufVars, protVars
    <3> QED BY <2>2, <3>1, <3>2, ClientStep
  <2> QED BY <1>4, <2>1, <2>2 DEF Derive
<1>5. CASE SendClientCertificate
  <2> DEFINE m == Msg("ClientCertificate", IF HaveClientCert THEN "one" ELSE "empty", "-")
  <2>1. CASE Fatal
    BY <2>1, FatalStep
  <2>2. CASE /\ Logged("client", m, <<>>) /\ TranscriptWrite(m) /\ pc' = "keyExchange"
             /\ UNCHANGED <<config, bufVars, suite, certKey, sawSKE, protVars>>
    <3>1. m \in ClientMsgs
      BY DEF ClientMsgs
    <3>2. Types' /\ Grows("client", m)
      BY <1>0, <2>2, <3>1, SendTypes, Empty
    <3>3. pc = "clientCert" /\ certKey = Auth(suite) /\ UNCHANGED <<insecure, suite, certKey, sawSKE>>
      BY <1>5, <2>2 DEF HInv, SendClientCertificate, config, Derived, Sending
    <3> QED BY <2>2, <3>2, <3>3, ClientStep
  <2> QED BY <1>5, <2>1, <2>2 DEF SendClientCertificate
<1>6. CASE SendClientKeyExchange
  <2>1. Plain("ClientKeyExchange") \in ClientMsgs
    BY DEF ClientMsgs
  <2> QED BY <1>6, <2>1, SendStep, Empty DEF SendClientKeyExchange, Derived, Sending
<1>7. CASE SendCertificateVerify
  <2>1. Plain("CertificateVerify") \in ClientMsgs
    BY DEF ClientMsgs
  <2> QED BY <1>0, <1>7, <2>1, SendStep, FatalStep DEF SendCertificateVerify, Derived, Sending
<1>8. CASE SendFinished
  <2>1. Plain("Finished") \in ClientMsgs
    BY DEF ClientMsgs
  <2> QED BY <1>0, <1>8, <2>1, SendStep, FatalStep DEF SendFinished, Derived, Sending
<1>9. CASE SendCCS
  <2>1. CASE Fatal
    BY <2>1, FatalStep
  <2>2. CASE /\ Logged("client", Plain("CCS"), <<>>) /\ sendProt' = TRUE /\ pc' = "sendFinished"
             /\ UNCHANGED <<config, bufVars, flightVars, recvProt, transcript, overflow, alerted>>
    <3>1. Plain("CCS") \in Sent
      BY DEF ClientMsgs, Sent
    <3>2. Types' /\ Grows("client", Plain("CCS"))
      BY <1>0, <2>2, <3>1, LogGrows, Empty DEF Types, bufVars
    <3>3. pc = "sendCCS" /\ certKey = Auth(suite) /\ UNCHANGED <<insecure, suite, certKey, sawSKE>>
      BY <1>9, <2>2 DEF HInv, SendCCS, config, flightVars, Derived, Sending
    <3> QED BY <2>2, <3>2, <3>3, ClientStep
  <2> QED BY <1>9, <2>1, <2>2 DEF SendCCS
<1>10. CASE CheckStraddle
  <2>1. CASE Fatal
    BY <2>1, FatalStep
  <2>2. CASE /\ hsBuf = <<>> /\ pc' = "recvCCS"
             /\ UNCHANGED <<config, bufVars, flightVars, protVars, transcript, overflow, alerted, log>>
    <3>1. /\ pc = "straddle" /\ certKey = Auth(suite) /\ hsBuf' = <<>>
          /\ UNCHANGED <<insecure, suite, certKey, sawSKE>>
      BY <1>10, <2>2 DEF HInv, CheckStraddle, config, flightVars, bufVars, Derived
    <3>2. Types' /\ Grows("client", "none")
      BY <1>0, <2>2 DEF Types, Grows, bufVars, protVars
    <3> QED BY <2>2, <3>1, <3>2, ClientStep
  <2> QED BY <1>10, <2>1, <2>2 DEF CheckStraddle
<1>11. CASE RecvCCS
  <2>1. CASE Fatal
    BY <2>1, FatalStep
  <2>2. CASE /\ Logged("server", Plain("CCS"), <<>>) /\ recvProt' = TRUE /\ pc' = "finished"
             /\ UNCHANGED <<config, bufVars, flightVars, sendProt, transcript, overflow, alerted>>
    <3>1. Plain("CCS") \in Sent /\ Plain("CCS").type = "CCS"
      BY DEF ClientMsgs, Sent, Plain, Msg
    <3>2. Types' /\ Grows("server", Plain("CCS"))
      BY <1>0, <2>2, <3>1, LogGrows, Empty DEF Types, bufVars
    <3>3. pc = "recvCCS" /\ certKey = Auth(suite) /\ UNCHANGED <<insecure, suite, certKey, sawSKE>>
      BY <1>11, <2>2 DEF HInv, RecvCCS, config, flightVars, Derived
    <3>4. Accepted'
      BY <2>2, <3>1, <3>2, <3>3 DEF HInv, Accepted, CertOK, SKEOK, Grows
    <3> QED BY <2>2, <3>2, <3>3, <3>4 DEF HInv, AlertAfterHello, Derived
  <2> QED BY <1>11, <2>1, <2>2 DEF RecvCCS
<1>12. CASE UNCHANGED vars
  BY <1>12, ServerStep
<1> QED BY <1>1, <1>2, <1>3, <1>4, <1>5, <1>6, <1>7, <1>8, <1>9, <1>10, <1>11, <1>12 DEF Next

\* The invariant is inductive.
THEOREM HandshakeInvariance == Spec => []HInv
  BY InitHolds, StepHolds, PTL DEF Spec

\* A handshake that completes has authenticated the server, for any suites
\* offered and any messages: AuthenticatedWhenDone.
THEOREM AuthenticatedHolds == Spec => []AuthenticatedWhenDone
<1>1. HInv => AuthenticatedWhenDone
  BY DEF HInv, Accepted, CertOK, SKEOK, AuthenticatedWhenDone, ServerMsg, Derived
<1> QED BY <1>1, HandshakeInvariance, PTL

\* A failure after the ClientHello has sent the fatal alert.
THEOREM AlertAfterHelloHolds == Spec => []AlertAfterHello
<1>1. HInv => AlertAfterHello
  BY DEF HInv
<1> QED BY <1>1, HandshakeInvariance, PTL

\* hsBuf is empty when the receive protector is installed and at the end.
THEOREM NoStraddleHolds == Spec => NoStraddle
<1>1. HInv /\ [Next]_vars => [recvProt' # recvProt \/ pc' = "done" => hsBuf' = <<>>]_vars
  <2> SUFFICES ASSUME HInv, Next, recvProt' # recvProt \/ pc' = "done"
               PROVE  hsBuf' = <<>>
    OBVIOUS
  <2>1. CASE RecvCCS
    BY <2>1 DEF HInv, RecvCCS, Fatal, bufVars
  <2>2. CASE RecvFinished
    <3>1. CASE Fatal
      BY <3>1 DEF Fatal
    <3>2. CASE hsBuf' = Tail(hsBuf) /\ Len(hsBuf) = 1
      BY <3>2 DEF HInv, Types
    <3> QED BY <2>2, <3>1, <3>2 DEF RecvFinished, Accept, Consume
  <2>3. CASE Fatal
    BY <2>3 DEF Fatal
  <2>4. ASSUME ~RecvCCS, ~RecvFinished, ~Fatal PROVE recvProt' = recvProt /\ pc' # "done"
    BY <2>4 DEF Next, SendClientHello, ReadHandshake, Reading, RecvServerHello, RecvCertificate,
       RecvServerFlight, Unexpected, Derive, SendClientCertificate, SendClientKeyExchange,
       SendCertificateVerify, SendCCS, SendFinished, CheckStraddle, Send, Accept, protVars
  <2> QED BY <2>1, <2>2, <2>3, <2>4
<1> QED BY <1>1, HandshakeInvariance, PTL DEF Spec, NoStraddle

-----------------------------------------------------------------------------
(* The message flow *)

\* One record of the flow.
FlowTypes ==
  {"ClientHello", "ServerHello", "Certificate", "ServerKeyExchange", "CertificateRequest",
   "ServerHelloDone", "ClientCertificate", "ClientKeyExchange", "CertificateVerify", "CCS",
   "Finished"}
Records == {"client", "server"} \X FlowTypes \X BOOLEAN

\* The flow up to a step, with ske and ccs: was there a ServerKeyExchange and a
\* client certificate; and cr, the answer to the CertificateRequest or "none".
Hello3 == Append(Append(Append(<<>>, <<"client", "ClientHello", FALSE>>),
                        <<"server", "ServerHello", FALSE>>), <<"server", "Certificate", FALSE>>)
Opt(s, b, x) == IF b THEN Append(s, x) ELSE s
Flight(ske, cr) ==
  Opt(Opt(Hello3, ske, <<"server", "ServerKeyExchange", FALSE>>),
      cr # "none", <<"server", "CertificateRequest", FALSE>>)
ToDone(ske, cr) == Append(Flight(ske, cr), <<"server", "ServerHelloDone", FALSE>>)
ToCert(ske, cr) == Opt(ToDone(ske, cr), cr # "none", <<"client", "ClientCertificate", FALSE>>)
ToKey(ske, cr) == Append(ToCert(ske, cr), <<"client", "ClientKeyExchange", FALSE>>)
ToVerify(ske, cr, ccs) == Opt(ToKey(ske, cr), ccs, <<"client", "CertificateVerify", FALSE>>)
ToCCS(ske, cr, ccs) == Append(ToVerify(ske, cr, ccs), <<"client", "CCS", FALSE>>)
ToFinished(ske, cr, ccs) == Append(ToCCS(ske, cr, ccs), <<"client", "Finished", TRUE>>)
ToServerCCS(ske, cr, ccs) == Append(ToFinished(ske, cr, ccs), <<"server", "CCS", FALSE>>)
ToEnd(ske, cr, ccs) == Append(ToServerCCS(ske, cr, ccs), <<"server", "Finished", TRUE>>)

\* Where the log is at each step of Handshake.
FlowInv ==
  LET s == Shape(log) IN
  /\ pc = "hello" => s = <<>>
  /\ pc = "serverHello" => s = Append(<<>>, <<"client", "ClientHello", FALSE>>)
  /\ pc = "certificate" => s = Append(Append(<<>>, <<"client", "ClientHello", FALSE>>),
                                      <<"server", "ServerHello", FALSE>>)
  /\ pc = "serverFlight" => s = Flight(sawSKE, certReq)
  /\ pc \in {"derive", "clientCert"} => s = ToDone(sawSKE, certReq)
  /\ pc = "keyExchange" => s = ToCert(sawSKE, certReq)
  /\ pc = "certVerify" => s = ToKey(sawSKE, certReq)
  /\ pc = "sendCCS" => s = ToVerify(sawSKE, certReq, clientCertSent)
  /\ pc = "sendFinished" => s = ToCCS(sawSKE, certReq, clientCertSent)
  /\ pc \in {"straddle", "recvCCS"} => s = ToFinished(sawSKE, certReq, clientCertSent)
  /\ pc = "finished" => s = ToServerCCS(sawSKE, certReq, clientCertSent)
  /\ pc = "done" => s = ToEnd(sawSKE, certReq, clientCertSent)

\* What the flags say about the optional messages and the protection.
FlagInv ==
  /\ pc \in {"hello", "serverHello", "certificate"} => certReq = "none" /\ ~sawSKE
  /\ pc \in {"hello", "serverHello", "certificate", "serverFlight", "derive", "clientCert"} =>
       ~clientCertSent
  /\ ~sawCertReq => certReq = "none"
  /\ pc = "serverFlight" /\ sawSKE => Ephemeral(suite)
  /\ pc = "clientCert" => certReq # "none"
  /\ pc = "certVerify" => clientCertSent
  /\ pc \in Derived \cup {"derive"} => (sawSKE <=> Ephemeral(suite))
  /\ pc \in Derived \ {"clientCert"} => (clientCertSent <=> HaveClientCert)
  /\ pc # "failed" => (sendProt <=> pc \in {"sendFinished", "straddle", "recvCCS", "finished", "done"})
  /\ pc # "failed" => (recvProt <=> pc \in {"finished", "done"})
  /\ pc \in {"hello", "derive", "failed"} \cup Reading \cup Derived

LInv == HInv /\ FlagInv /\ FlowInv

-----------------------------------------------------------------------------
(* Sequences *)

\* A record added to a flow gives a flow.
LEMMA AppendRecord ==
  ASSUME NEW s \in Seq(Records), NEW x \in Records
  PROVE  Append(s, x) \in Seq(Records)
  OBVIOUS

\* Every stage of the flow is a sequence of records.
LEMMA FlowTyped ==
  ASSUME NEW ske, NEW cr, NEW ccs
  PROVE  /\ Flight(ske, cr) \in Seq(Records) /\ ToDone(ske, cr) \in Seq(Records)
         /\ ToCert(ske, cr) \in Seq(Records) /\ ToKey(ske, cr) \in Seq(Records)
         /\ ToVerify(ske, cr, ccs) \in Seq(Records) /\ ToCCS(ske, cr, ccs) \in Seq(Records)
         /\ ToFinished(ske, cr, ccs) \in Seq(Records) /\ ToServerCCS(ske, cr, ccs) \in Seq(Records)
         /\ Append(<<>>, <<"client", "ClientHello", FALSE>>) \in Seq(Records)
         /\ Append(Append(<<>>, <<"client", "ClientHello", FALSE>>),
                   <<"server", "ServerHello", FALSE>>) \in Seq(Records)
         /\ <<>> \in Seq(Records)
<1>0. \A by \in {"client", "server"}, t \in FlowTypes, p \in BOOLEAN : <<by, t, p>> \in Records
  BY DEF Records
<1>00. <<>> \in Seq(Records)
  OBVIOUS
<1>1. Append(<<>>, <<"client", "ClientHello", FALSE>>) \in Seq(Records)
  BY <1>0, <1>00, AppendRecord DEF FlowTypes
<1>2. Append(Append(<<>>, <<"client", "ClientHello", FALSE>>),
             <<"server", "ServerHello", FALSE>>) \in Seq(Records)
  BY <1>0, <1>1, AppendRecord DEF FlowTypes
<1>3. Hello3 \in Seq(Records)
  BY <1>0, <1>2, AppendRecord DEF FlowTypes, Hello3
<1>4. Opt(Hello3, ske, <<"server", "ServerKeyExchange", FALSE>>) \in Seq(Records)
  BY <1>0, <1>3, AppendRecord DEF FlowTypes, Opt
<1>5. Flight(ske, cr) \in Seq(Records)
  BY <1>0, <1>4, AppendRecord DEF FlowTypes, Opt, Flight
<1>6. ToDone(ske, cr) \in Seq(Records)
  BY <1>0, <1>5, AppendRecord DEF FlowTypes, ToDone
<1>7. ToCert(ske, cr) \in Seq(Records)
  BY <1>0, <1>6, AppendRecord DEF FlowTypes, Opt, ToCert
<1>8. ToKey(ske, cr) \in Seq(Records)
  BY <1>0, <1>7, AppendRecord DEF FlowTypes, ToKey
<1>9. ToVerify(ske, cr, ccs) \in Seq(Records)
  BY <1>0, <1>8, AppendRecord DEF FlowTypes, Opt, ToVerify
<1>10. ToCCS(ske, cr, ccs) \in Seq(Records)
  BY <1>0, <1>9, AppendRecord DEF FlowTypes, ToCCS
<1>11. ToFinished(ske, cr, ccs) \in Seq(Records)
  BY <1>0, <1>10, AppendRecord DEF FlowTypes, ToFinished
<1>12. ToServerCCS(ske, cr, ccs) \in Seq(Records)
  BY <1>0, <1>11, AppendRecord DEF FlowTypes, ToServerCCS
<1> QED BY <1>00, <1>1, <1>2, <1>5, <1>6, <1>7, <1>8, <1>9, <1>10, <1>11, <1>12

\* The flow of records grows as the log does.
LEMMA ShapeGrows ==
  ASSUME Types, NEW by \in {"client", "server"}, NEW m \in Sent, NEW covers \in Seq(Sent),
         Logged(by, m, covers), Shape(log) \in Seq(Records)
  PROVE  Shape(log') = Append(Shape(log),
                              <<by, m.type, IF by = "client" THEN sendProt ELSE recvProt>>)
<1> DEFINE p == IF by = "client" THEN sendProt ELSE recvProt
           e == Entry(by, m, p, covers)
<1>1. e \in Entries /\ e.by = by /\ e.m = m /\ e.prot = p
  BY DEF Entry, Entries, Types
<1>2. log \in Seq(Entries) /\ log' = Append(log, e)
  BY DEF Types, Logged
<1> HIDE DEF e, p
<1>3. Len(log') = Len(log) + 1 /\ Len(log) \in Nat
  BY <1>1, <1>2
<1>4. \A i \in 1 .. Len(log') : log'[i] = IF i \in 1 .. Len(log) THEN log[i] ELSE e
  BY <1>1, <1>2, <1>3
<1>5. Len(Shape(log)) = Len(log)
  BY <1>3 DEF Shape
<1>6. Append(Shape(log), <<by, m.type, p>>)
        = [i \in 1 .. Len(log) + 1 |-> IF i = Len(log) + 1 THEN <<by, m.type, p>> ELSE Shape(log)[i]]
  BY <1>3, <1>5
<1>7. \A i \in 1 .. Len(log) : Shape(log)[i] = <<log[i].by, log[i].m.type, log[i].prot>>
  BY DEF Shape
<1>8. Shape(log') = [i \in 1 .. Len(log) + 1 |-> <<log'[i].by, log'[i].m.type, log'[i].prot>>]
  BY <1>3 DEF Shape
<1>9. ASSUME NEW i \in 1 .. Len(log) + 1
      PROVE  <<log'[i].by, log'[i].m.type, log'[i].prot>>
               = IF i = Len(log) + 1 THEN <<by, m.type, p>> ELSE Shape(log)[i]
  BY <1>1, <1>3, <1>4, <1>7
<1>10. Shape(log') = Append(Shape(log), <<by, m.type, p>>)
  BY <1>6, <1>8, <1>9
<1> QED BY <1>10 DEF p

-----------------------------------------------------------------------------
(* Steps *)

\* A failure ends the flow wherever it is.
LEMMA FatalFlow == ASSUME LInv, Fatal PROVE FlagInv' /\ FlowInv'
<1>1. FlagInv'
  BY DEF LInv, FlagInv, Fatal, flightVars, Derived, Sending
<1>2. FlowInv'
  BY DEF Fatal, FlowInv
<1> QED BY <1>1, <1>2

\* A message of the client, or its CCS.
LEMMA ClientRecord ==
  ASSUME LInv, NEW m \in ClientMsgs, NEW covers \in Seq(Sent), Logged("client", m, covers),
         Shape(log) \in Seq(Records), NEW p \in BOOLEAN, p <=> sendProt
  PROVE  Shape(log') = Append(Shape(log), <<"client", m.type, p>>)
<1>1. m \in Sent /\ Types /\ p = sendProt
  BY DEF Sent, LInv, HInv, Types
<1> QED BY <1>1, ShapeGrows

\* A message of the server.
LEMMA ServerRecord ==
  ASSUME LInv, Ready, NEW covers \in Seq(Sent), Accept(Head(hsBuf), covers),
         Shape(log) \in Seq(Records), NEW p \in BOOLEAN, p <=> recvProt
  PROVE  Shape(log') = Append(Shape(log), <<"server", Head(hsBuf).type, p>>)
<1>1. Head(hsBuf) \in Sent /\ Types /\ p = recvProt
  BY DEF Sent, LInv, HInv, Types, Ready
<1> QED BY <1>1, ShapeGrows DEF Accept

\* sendClientHello.
LEMMA HelloFlow == ASSUME LInv, SendClientHello PROVE FlagInv' /\ FlowInv'
<1>0. pc = "hello" /\ UNCHANGED <<config, bufVars, flightVars, protVars, alerted>>
  BY DEF SendClientHello
<1>1. CASE pc' = "failed"
  BY <1>0, <1>1 DEF LInv, FlagInv, FlowInv, flightVars, Derived, Sending
<1>2. CASE Logged("client", Plain("ClientHello"), <<>>) /\ pc' = "serverHello"
  <2>1. FlagInv'
    BY <1>0, <1>2 DEF LInv, FlagInv, flightVars, protVars, Derived, Sending, Reading
  <2>2. Plain("ClientHello") \in ClientMsgs /\ Plain("ClientHello").type = "ClientHello"
    BY DEF ClientMsgs, Plain, Msg
  <2>3. Shape(log) = <<>> /\ ~sendProt
    BY <1>0 DEF LInv, FlowInv, FlagInv
  <2>4. Shape(log') = Append(<<>>, <<"client", "ClientHello", FALSE>>)
    BY <1>2, <2>2, <2>3, ClientRecord, Empty, FlowTyped
  <2> QED BY <1>2, <2>1, <2>4 DEF FlowInv
<1> QED BY <1>1, <1>2 DEF SendClientHello

\* Reading a record and the other steps without a message.
LEMMA QuietFlow ==
  ASSUME LInv, UNCHANGED <<config, flightVars, protVars, log>>,
         \/ pc' = pc
         \/ Derive /\ pc = "derive" /\ pc' = IF certReq # "none" THEN "clientCert" ELSE "keyExchange"
         \/ pc = "straddle" /\ pc' = "recvCCS"
  PROVE  FlagInv' /\ FlowInv'
<1> USE DEF flightVars, protVars, config
<1>1. CASE pc' = pc
  <2>0. FlagInv /\ FlowInv
    BY DEF LInv
  <2>1. UNCHANGED <<pc, suite, sawSKE, sawCertReq, certReq, clientCertSent, sendProt, recvProt>>
    BY <1>1
  <2>2. HaveClientCert' = HaveClientCert
    BY DEF HaveClientCert
  <2>3. FlagInv'
    BY ONLY <2>0, <2>1, <2>2 DEF FlagInv
  <2>4. log' = log /\ pc' = pc /\ sawSKE' = sawSKE /\ certReq' = certReq
        /\ clientCertSent' = clientCertSent
    BY <2>1
  <2>5. FlowInv'
    BY ONLY <2>0, <2>4, ZenonT(30) DEF FlowInv
  <2> QED BY <2>3, <2>5
<1>2. CASE Derive /\ pc = "derive" /\ pc' = IF certReq # "none" THEN "clientCert" ELSE "keyExchange"
  <2>1. FlagInv'
    BY <1>2 DEF LInv, FlagInv, HaveClientCert, Derived, Sending
  <2>2. Shape(log') = ToDone(sawSKE, certReq)
    BY <1>2 DEF LInv, FlowInv
  <2>3. certReq = "none" => ToCert(sawSKE, certReq) = ToDone(sawSKE, certReq)
    BY DEF ToCert, Opt
  <2> QED BY <1>2, <2>1, <2>2, <2>3 DEF FlowInv
<1>3. CASE pc = "straddle" /\ pc' = "recvCCS"
  <2>1. FlagInv'
    BY <1>3 DEF LInv, FlagInv, HaveClientCert, Derived, Sending
  <2> QED BY <1>3, <2>1 DEF LInv, FlowInv
<1> QED BY <1>1, <1>2, <1>3

\* recvServerHello and recvCertificate.
LEMMA ServerHelloFlow ==
  ASSUME LInv, RecvServerHello \/ RecvCertificate PROVE FlagInv' /\ FlowInv'
<1> DEFINE m == Head(hsBuf)
<1>1. CASE Fatal
  BY <1>1, FatalFlow
<1>2. CASE RecvServerHello /\ m.type = "ServerHello" /\ Accept(m, <<>>) /\ pc' = "certificate"
             /\ UNCHANGED <<sawSKE, sawCertReq, certReq, clientCertSent>>
  <2>0. pc = "serverHello" /\ Ready /\ UNCHANGED protVars
    BY <1>2 DEF RecvServerHello, Accept
  <2>1. FlagInv'
    BY <1>2, <2>0 DEF LInv, FlagInv, protVars, Derived, Sending, Reading
  <2>2. Shape(log) = Append(<<>>, <<"client", "ClientHello", FALSE>>) /\ ~recvProt
    BY <2>0 DEF LInv, FlowInv, FlagInv
  <2>3. Shape(log') = Append(Shape(log), <<"server", "ServerHello", FALSE>>)
    BY <1>2, <2>0, <2>2, ServerRecord, Empty, FlowTyped
  <2> QED BY <1>2, <2>1, <2>2, <2>3 DEF FlowInv
<1>3. CASE RecvCertificate /\ m.type = "Certificate" /\ Accept(m, <<>>) /\ pc' = "serverFlight"
             /\ UNCHANGED <<sawSKE, sawCertReq, certReq, clientCertSent>>
  <2>0. pc = "certificate" /\ Ready /\ UNCHANGED protVars
    BY <1>3 DEF RecvCertificate, Accept
  <2>1. FlagInv'
    BY <1>3, <2>0 DEF LInv, FlagInv, protVars, Derived, Sending, Reading
  <2>2. /\ Shape(log) = Append(Append(<<>>, <<"client", "ClientHello", FALSE>>),
                               <<"server", "ServerHello", FALSE>>)
        /\ ~recvProt /\ ~sawSKE /\ certReq = "none"
    BY <2>0 DEF LInv, FlowInv, FlagInv
  <2>3. Shape(log') = Append(Shape(log), <<"server", "Certificate", FALSE>>)
    BY <1>3, <2>0, <2>2, ServerRecord, Empty, FlowTyped
  <2>4. Shape(log') = Flight(sawSKE, certReq)
    BY <2>2, <2>3 DEF Flight, Opt, Hello3
  <2> QED BY <1>3, <2>1, <2>4 DEF FlowInv
<1> QED BY <1>1, <1>2, <1>3 DEF RecvServerHello, RecvCertificate

\* A CertificateRequest that parses leaves a trace in certReq.
LEMMA CertReqValue ==
  ASSUME NEW m \in ServerMsgs, m.type = "CertificateRequest", m.w # "malformed"
  PROVE  m.v # "none"
<1>1. m \in Messages
  BY ServerMsgsAssumption DEF ServerMsgsAssumption
<1> QED BY <1>1 DEF Messages, Msg, Plain, Malformed

\* recvServerFlight: the optional messages come in order, and at most once.
LEMMA FlightFlow == ASSUME LInv, RecvServerFlight PROVE FlagInv' /\ FlowInv'
<1> DEFINE m == Head(hsBuf)
<1>0. pc = "serverFlight" /\ Ready /\ m \in ServerMsgs
  BY DEF RecvServerFlight, LInv, HInv, Types, Ready
<1>00. Shape(log) = Flight(sawSKE, certReq) /\ ~recvProt /\ ~sendProt /\ Shape(log) \in Seq(Records)
  BY <1>0, FlowTyped DEF LInv, FlowInv, FlagInv
<1>1. CASE Unexpected(m)
  BY <1>1, FatalFlow DEF Unexpected
<1>2. CASE GoodSKE(m) /\ Accept(m, <<>>) /\ sawSKE' = TRUE
             /\ UNCHANGED <<pc, suite, certKey, sawCertReq, certReq, clientCertSent>>
  <2>1. m.type = "ServerKeyExchange" /\ ~sawSKE /\ certReq = "none" /\ Ephemeral(suite)
    BY <1>2 DEF GoodSKE, SKEVerified, LInv, FlagInv
  <2>2. FlagInv'
    BY <1>0, <1>2, <2>1 DEF LInv, FlagInv, Accept, protVars, Derived, Sending
  <2>3. Shape(log') = Append(Shape(log), <<"server", "ServerKeyExchange", FALSE>>)
    BY <1>0, <1>00, <1>2, <2>1, ServerRecord, Empty
  <2>4. Shape(log') = Flight(sawSKE', certReq')
    BY <1>00, <1>2, <2>1, <2>3 DEF Flight, Opt
  <2> QED BY <1>0, <1>2, <2>2, <2>4 DEF FlowInv
<1>3. CASE GoodCertReq(m) /\ Accept(m, <<>>) /\ sawCertReq' = TRUE /\ certReq' = m.v
             /\ UNCHANGED <<pc, suite, certKey, sawSKE, clientCertSent>>
  <2>1. m.type = "CertificateRequest" /\ certReq = "none" /\ certReq' # "none"
    BY <1>0, <1>3, CertReqValue DEF GoodCertReq, LInv, FlagInv
  <2>2. FlagInv'
    BY <1>0, <1>3, <2>1 DEF LInv, FlagInv, Accept, protVars, Derived, Sending
  <2>3. Shape(log') = Append(Shape(log), <<"server", "CertificateRequest", FALSE>>)
    BY <1>0, <1>00, <1>3, <2>1, ServerRecord, Empty
  <2>4. Shape(log') = Flight(sawSKE', certReq')
    BY <1>00, <1>3, <2>1, <2>3 DEF Flight, Opt
  <2> QED BY <1>0, <1>3, <2>2, <2>4 DEF FlowInv
<1>4. CASE GoodSHD(m) /\ Accept(m, <<>>) /\ pc' = "derive" /\ UNCHANGED flightVars
  <2>1. m.type = "ServerHelloDone"
    BY <1>4 DEF GoodSHD, Plain, Msg
  <2>2. FlagInv'
    BY <1>0, <1>4 DEF LInv, FlagInv, GoodSHD, Accept, flightVars, protVars, Derived, Sending
  <2>3. Shape(log') = Append(Shape(log), <<"server", "ServerHelloDone", FALSE>>)
    BY <1>0, <1>00, <1>4, <2>1, ServerRecord, Empty
  <2>4. Shape(log') = ToDone(sawSKE', certReq')
    BY <1>00, <1>4, <2>3 DEF ToDone, flightVars
  <2> QED BY <1>4, <2>2, <2>4 DEF FlowInv
<1> QED BY <1>1, <1>2, <1>3, <1>4 DEF RecvServerFlight

\* The client's Certificate follows a CertificateRequest only.
LEMMA ClientCertFlow == ASSUME LInv, SendClientCertificate PROVE FlagInv' /\ FlowInv'
<1> DEFINE m == Msg("ClientCertificate", IF HaveClientCert THEN "one" ELSE "empty", "-")
<1>1. CASE Fatal
  BY <1>1, FatalFlow
<1>2. CASE /\ Logged("client", m, <<>>) /\ clientCertSent' = HaveClientCert /\ pc' = "keyExchange"
           /\ UNCHANGED <<config, suite, certKey, sawSKE, sawCertReq, certReq, protVars>>
  <2>0. pc = "clientCert" /\ certReq # "none" /\ ~sendProt
    BY DEF SendClientCertificate, LInv, FlagInv
  <2>1. m \in ClientMsgs /\ m.type = "ClientCertificate"
    BY DEF ClientMsgs, Msg
  <2>2. FlagInv'
    BY <1>2, <2>0 DEF LInv, FlagInv, HaveClientCert, config, protVars, Derived, Sending
  <2>3. Shape(log) = ToDone(sawSKE, certReq) /\ Shape(log) \in Seq(Records)
    BY <2>0, FlowTyped DEF LInv, FlowInv
  <2> HIDE DEF m
  <2>4. Shape(log') = Append(Shape(log), <<"client", "ClientCertificate", FALSE>>)
    BY <1>2, <2>0, <2>1, <2>3, ClientRecord, Empty
  <2>5. Shape(log') = ToCert(sawSKE', certReq')
    BY <1>2, <2>0, <2>3, <2>4 DEF ToCert, Opt
  <2> QED BY <1>2, <2>2, <2>5 DEF FlowInv
<1> QED BY <1>1, <1>2 DEF SendClientCertificate

\* ClientKeyExchange, and what follows it.
LEMMA KeyExchangeFlow == ASSUME LInv, SendClientKeyExchange PROVE FlagInv' /\ FlowInv'
<1> DEFINE m == Plain("ClientKeyExchange")
<1>1. CASE Fatal
  BY <1>1, FatalFlow
<1>2. CASE /\ Logged("client", m, <<>>) /\ pc' = IF clientCertSent THEN "certVerify" ELSE "sendCCS"
           /\ UNCHANGED <<config, flightVars, protVars>>
  <2>0. pc = "keyExchange" /\ ~sendProt
    BY DEF SendClientKeyExchange, LInv, FlagInv
  <2>1. m \in ClientMsgs /\ m.type = "ClientKeyExchange"
    BY DEF ClientMsgs, Plain, Msg
  <2>2. FlagInv'
    BY <1>2, <2>0 DEF LInv, FlagInv, HaveClientCert, config, flightVars, protVars, Derived, Sending
  <2>3. Shape(log) = ToCert(sawSKE, certReq) /\ Shape(log) \in Seq(Records)
    BY <2>0, FlowTyped DEF LInv, FlowInv
  <2> HIDE DEF m
  <2>4. Shape(log') = ToKey(sawSKE', certReq')
    BY <1>2, <2>0, <2>1, <2>3, ClientRecord, Empty DEF ToKey, flightVars
  <2>5. ~clientCertSent' => Shape(log') = ToVerify(sawSKE', certReq', clientCertSent')
    BY <2>4 DEF ToVerify, Opt
  <2> QED BY <1>2, <2>2, <2>4, <2>5 DEF FlowInv, flightVars
<1> QED BY <1>1, <1>2 DEF SendClientKeyExchange, Send

\* CertificateVerify follows a certificate only.
LEMMA VerifyFlow == ASSUME LInv, SendCertificateVerify PROVE FlagInv' /\ FlowInv'
<1> DEFINE m == Plain("CertificateVerify")
<1>1. CASE Fatal
  BY <1>1, FatalFlow
<1>2. CASE /\ Logged("client", m, transcript) /\ pc' = "sendCCS"
           /\ UNCHANGED <<config, flightVars, protVars>>
  <2>0. pc = "certVerify" /\ ~sendProt /\ clientCertSent /\ transcript \in Seq(Sent)
    BY DEF SendCertificateVerify, LInv, FlagInv, HInv, Types
  <2>1. m \in ClientMsgs /\ m.type = "CertificateVerify"
    BY DEF ClientMsgs, Plain, Msg
  <2>2. FlagInv'
    BY <1>2, <2>0 DEF LInv, FlagInv, HaveClientCert, config, flightVars, protVars, Derived, Sending
  <2>3. Shape(log) = ToKey(sawSKE, certReq) /\ Shape(log) \in Seq(Records)
    BY <2>0, FlowTyped DEF LInv, FlowInv
  <2> HIDE DEF m
  <2>4. Shape(log') = Append(Shape(log), <<"client", "CertificateVerify", FALSE>>)
    BY <1>2, <2>0, <2>1, <2>3, ClientRecord
  <2>5. Shape(log') = ToVerify(sawSKE', certReq', clientCertSent')
    BY <1>2, <2>0, <2>3, <2>4 DEF ToVerify, Opt, flightVars
  <2> QED BY <1>2, <2>2, <2>5 DEF FlowInv
<1> QED BY <1>1, <1>2 DEF SendCertificateVerify, Send

\* The client's ChangeCipherSpec is the last record in the clear.
LEMMA CCSFlow == ASSUME LInv, SendCCS PROVE FlagInv' /\ FlowInv'
<1> DEFINE m == Plain("CCS")
<1>1. CASE Fatal
  BY <1>1, FatalFlow
<1>2. CASE /\ Logged("client", m, <<>>) /\ sendProt' = TRUE /\ pc' = "sendFinished"
           /\ UNCHANGED <<config, flightVars, recvProt>>
  <2>0. pc = "sendCCS" /\ ~sendProt
    BY DEF SendCCS, LInv, FlagInv
  <2>1. m \in ClientMsgs /\ m.type = "CCS"
    BY DEF ClientMsgs, Plain, Msg
  <2>2. FlagInv'
    BY <1>2, <2>0 DEF LInv, FlagInv, HaveClientCert, config, flightVars, Derived, Sending
  <2>3. /\ Shape(log) = ToVerify(sawSKE, certReq, clientCertSent)
        /\ Shape(log) \in Seq(Records)
    BY <2>0, FlowTyped DEF LInv, FlowInv
  <2> HIDE DEF m
  <2>4. Shape(log') = Append(Shape(log), <<"client", "CCS", FALSE>>)
    BY <1>2, <2>0, <2>1, <2>3, ClientRecord, Empty
  <2>5. Shape(log') = ToCCS(sawSKE', certReq', clientCertSent')
    BY <1>2, <2>3, <2>4 DEF ToCCS, flightVars
  <2> QED BY <1>2, <2>2, <2>5 DEF FlowInv
<1> QED BY <1>1, <1>2 DEF SendCCS

\* The client's Finished is protected.
LEMMA FinishedFlow == ASSUME LInv, SendFinished PROVE FlagInv' /\ FlowInv'
<1> DEFINE m == Plain("Finished")
<1>1. CASE Fatal
  BY <1>1, FatalFlow
<1>2. CASE /\ Logged("client", m, transcript) /\ pc' = "straddle"
           /\ UNCHANGED <<config, flightVars, protVars>>
  <2>0. pc = "sendFinished" /\ sendProt /\ transcript \in Seq(Sent)
    BY DEF SendFinished, LInv, FlagInv, HInv, Types
  <2>1. m \in ClientMsgs /\ m.type = "Finished"
    BY DEF ClientMsgs, Plain, Msg
  <2>2. FlagInv'
    BY <1>2, <2>0 DEF LInv, FlagInv, HaveClientCert, config, flightVars, protVars, Derived, Sending
  <2>3. /\ Shape(log) = ToCCS(sawSKE, certReq, clientCertSent)
        /\ Shape(log) \in Seq(Records)
    BY <2>0, FlowTyped DEF LInv, FlowInv
  <2> HIDE DEF m
  <2>4. Shape(log') = Append(Shape(log), <<"client", "Finished", TRUE>>)
    BY <1>2, <2>0, <2>1, <2>3, ClientRecord
  <2>5. Shape(log') = ToFinished(sawSKE', certReq', clientCertSent')
    BY <1>2, <2>3, <2>4 DEF ToFinished, flightVars
  <2> QED BY <1>2, <2>2, <2>5 DEF FlowInv
<1> QED BY <1>1, <1>2 DEF SendFinished, Send

\* The server's ChangeCipherSpec, still in the clear.
LEMMA ServerCCSFlow == ASSUME LInv, RecvCCS PROVE FlagInv' /\ FlowInv'
<1> DEFINE m == Plain("CCS")
<1>1. CASE Fatal
  BY <1>1, FatalFlow
<1>2. CASE /\ Logged("server", m, <<>>) /\ recvProt' = TRUE /\ pc' = "finished"
           /\ UNCHANGED <<config, flightVars, sendProt>>
  <2>0. pc = "recvCCS" /\ recvProt = FALSE /\ Types
    BY DEF RecvCCS, LInv, FlagInv, HInv, Types
  <2>1. m \in Sent /\ m.type = "CCS"
    BY DEF ClientMsgs, Sent, Plain, Msg
  <2>2. FlagInv'
    BY <1>2, <2>0 DEF LInv, FlagInv, HaveClientCert, config, flightVars, Derived, Sending
  <2>3. /\ Shape(log) = ToFinished(sawSKE, certReq, clientCertSent)
        /\ Shape(log) \in Seq(Records)
    BY <2>0, FlowTyped DEF LInv, FlowInv
  <2> HIDE DEF m
  <2>4. Shape(log') = Append(Shape(log), <<"server", "CCS", FALSE>>)
    BY <1>2, <2>0, <2>1, <2>3, ShapeGrows, Empty
  <2>5. Shape(log') = ToServerCCS(sawSKE', certReq', clientCertSent')
    BY <1>2, <2>3, <2>4 DEF ToServerCCS, flightVars
  <2> QED BY <1>2, <2>2, <2>5 DEF FlowInv
<1> QED BY <1>1, <1>2 DEF RecvCCS

\* The server's Finished, protected, ends the flow.
LEMMA ServerFinishedFlow == ASSUME LInv, RecvFinished PROVE FlagInv' /\ FlowInv'
<1> DEFINE m == Head(hsBuf)
<1>1. CASE Fatal
  BY <1>1, FatalFlow
<1>2. CASE m = Msg("Finished", "equal", "-") /\ Accept(m, transcript) /\ pc' = "done" /\ UNCHANGED flightVars
  <2>0. pc = "finished" /\ Ready /\ recvProt /\ transcript \in Seq(Sent)
    BY DEF RecvFinished, LInv, FlagInv, HInv, Types
  <2>1. m.type = "Finished"
    BY <1>2 DEF Msg
  <2>2. FlagInv'
    BY <1>2, <2>0 DEF LInv, FlagInv, HaveClientCert, Accept, config, flightVars, protVars, Derived, Sending
  <2>3. /\ Shape(log) = ToServerCCS(sawSKE, certReq, clientCertSent)
        /\ Shape(log) \in Seq(Records)
    BY <2>0, FlowTyped DEF LInv, FlowInv
  <2>4. Shape(log') = Append(Shape(log), <<"server", "Finished", TRUE>>)
    BY <1>2, <2>0, <2>1, <2>3, ServerRecord
  <2>5. Shape(log') = ToEnd(sawSKE', certReq', clientCertSent')
    BY <1>2, <2>3, <2>4 DEF ToEnd, flightVars
  <2> QED BY <1>2, <2>2, <2>5 DEF FlowInv
<1> QED BY <1>1, <1>2 DEF RecvFinished

\* The flow is an invariant on top of HInv.
THEOREM FlowInvariance == Spec => []LInv
<1>1. Init => LInv
  <2> SUFFICES ASSUME Init PROVE LInv
    OBVIOUS
  <2>1. FlagInv
    BY DEF Init, FlagInv, Derived, Sending
  <2>2. FlowInv
    BY DEF Init, FlowInv, Shape
  <2> QED BY <2>1, <2>2, InitHolds DEF LInv
<1>2. LInv /\ [Next]_vars => LInv'
  <2> SUFFICES ASSUME LInv, [Next]_vars PROVE FlagInv' /\ FlowInv'
    BY StepHolds DEF LInv
  <2>1. CASE ReadHandshake \/ Derive \/ CheckStraddle
    BY <2>1, FatalFlow, QuietFlow DEF ReadHandshake, Derive, CheckStraddle
  <2>2. CASE UNCHANGED vars
    BY <2>2, QuietFlow DEF vars
  <2> QED BY <2>1, <2>2, HelloFlow, ServerHelloFlow, FlightFlow, ClientCertFlow, KeyExchangeFlow,
             VerifyFlow, CCSFlow, FinishedFlow, ServerCCSFlow, ServerFinishedFlow DEF Next
<1> QED BY <1>1, <1>2, PTL DEF Spec

-----------------------------------------------------------------------------
(* The end *)

\* Appending one record, or a list of them, one by one.
LEMMA JoinOne ==
  ASSUME NEW s \in Seq(Records), NEW a \in Records
  PROVE  s \o <<a>> = Append(s, a) /\ s \o <<>> = s
<1>1. s \o <<>> = s
  OBVIOUS
<1>2. s \o <<a>> = Append(s, a)
  OBVIOUS
<1> QED BY <1>1, <1>2

\* Three records, one by one.
LEMMA JoinThree ==
  ASSUME NEW a \in Records, NEW b \in Records, NEW c \in Records
  PROVE  <<a, b, c>> = Append(Append(Append(<<>>, a), b), c)
  OBVIOUS

\* Four records at the end of a flow, one by one.
LEMMA JoinFour ==
  ASSUME NEW s \in Seq(Records), NEW a \in Records, NEW b \in Records,
         NEW c \in Records, NEW d \in Records
  PROVE  s \o <<a, b, c, d>> = Append(Append(Append(Append(s, a), b), c), d)
  OBVIOUS

\* An optional record.
LEMMA OptJoins ==
  ASSUME NEW s \in Seq(Records), NEW x \in Records, NEW b
  PROVE  s \o If(b, <<x>>) = Opt(s, b, x)
  BY JoinOne DEF If, Opt

\* The records of LegalFlow.
LEMMA LegalRecords ==
  /\ <<"client", "ClientHello", FALSE>> \in Records
  /\ <<"server", "ServerHello", FALSE>> \in Records
  /\ <<"server", "Certificate", FALSE>> \in Records
  /\ <<"server", "ServerKeyExchange", FALSE>> \in Records
  /\ <<"server", "CertificateRequest", FALSE>> \in Records
  /\ <<"server", "ServerHelloDone", FALSE>> \in Records
  /\ <<"client", "ClientCertificate", FALSE>> \in Records
  /\ <<"client", "ClientKeyExchange", FALSE>> \in Records
  /\ <<"client", "CertificateVerify", FALSE>> \in Records
  /\ <<"client", "CCS", FALSE>> \in Records
  /\ <<"client", "Finished", TRUE>> \in Records
  /\ <<"server", "CCS", FALSE>> \in Records
  /\ <<"server", "Finished", TRUE>> \in Records
  BY DEF Records, FlowTypes

\* The flow, assembled step by step, is LegalFlow.
LEMMA FlowIsLegal ==
  ASSUME sawSKE <=> Ephemeral(suite), clientCertSent <=> HaveClientCert
  PROVE  ToEnd(sawSKE, certReq, clientCertSent) = LegalFlow
<1> USE LegalRecords
<1> DEFINE h == <<<<"client", "ClientHello", FALSE>>, <<"server", "ServerHello", FALSE>>,
                  <<"server", "Certificate", FALSE>>>>
           l4 == h \o If(Ephemeral(suite), <<<<"server", "ServerKeyExchange", FALSE>>>>)
           l5 == l4 \o If(certReq # "none", <<<<"server", "CertificateRequest", FALSE>>>>)
           l6 == l5 \o <<<<"server", "ServerHelloDone", FALSE>>>>
           l7 == l6 \o If(certReq # "none", <<<<"client", "ClientCertificate", FALSE>>>>)
           l8 == l7 \o <<<<"client", "ClientKeyExchange", FALSE>>>>
           l9 == l8 \o If(HaveClientCert, <<<<"client", "CertificateVerify", FALSE>>>>)
<1>1. h = Hello3 /\ h \in Seq(Records)
  <2>1. h = Hello3
    <3> DEFINE a == <<"client", "ClientHello", FALSE>>
               b == <<"server", "ServerHello", FALSE>>
               c == <<"server", "Certificate", FALSE>>
    <3>1. a \in Records /\ b \in Records /\ c \in Records
      OBVIOUS
    <3> HIDE DEF a, b, c
    <3>2. <<a, b, c>> = Append(Append(Append(<<>>, a), b), c)
      BY <3>1, JoinThree
    <3> QED BY <3>2 DEF a, b, c, Hello3
  <2>2. h \in Seq(Records)
    OBVIOUS
  <2> QED BY <2>1, <2>2
<1> HIDE DEF h
<1>4. l4 = Opt(Hello3, sawSKE, <<"server", "ServerKeyExchange", FALSE>>) /\ l4 \in Seq(Records)
  <2> DEFINE x == <<"server", "ServerKeyExchange", FALSE>>
  <2>1. x \in Records
    OBVIOUS
  <2> HIDE DEF x
  <2>2. h \o If(Ephemeral(suite), <<x>>) = Opt(h, Ephemeral(suite), x)
    BY ONLY <1>1, <2>1, OptJoins
  <2>3. Opt(h, Ephemeral(suite), x) \in Seq(Records)
    BY ONLY <1>1, <2>1, AppendRecord DEF Opt
  <2>4. Opt(h, Ephemeral(suite), x) = Opt(Hello3, sawSKE, x)
    BY <1>1 DEF Opt
  <2> QED BY <2>2, <2>3, <2>4 DEF x
<1> HIDE DEF l4
<1>5. l5 = Flight(sawSKE, certReq)
  BY <1>4, OptJoins DEF Flight
<1> HIDE DEF l5
<1>6. l6 = ToDone(sawSKE, certReq)
  BY <1>5, JoinOne, FlowTyped DEF ToDone
<1> HIDE DEF l6
<1>7. l7 = ToCert(sawSKE, certReq)
  BY <1>6, OptJoins, FlowTyped DEF ToCert
<1> HIDE DEF l7
<1>8. l8 = ToKey(sawSKE, certReq)
  BY <1>7, JoinOne, FlowTyped DEF ToKey
<1> HIDE DEF l8
<1>9. l9 = ToVerify(sawSKE, certReq, clientCertSent)
  <2>1. l9 = Opt(ToKey(sawSKE, certReq), HaveClientCert, <<"client", "CertificateVerify", FALSE>>)
    BY <1>8, OptJoins, FlowTyped
  <2> QED BY <2>1 DEF ToVerify, Opt
<1> HIDE DEF l9
<1>10. LegalFlow = l9 \o <<<<"client", "CCS", FALSE>>, <<"client", "Finished", TRUE>>,
                           <<"server", "CCS", FALSE>>, <<"server", "Finished", TRUE>>>>
  BY DEF LegalFlow, l9, l8, l7, l6, l5, l4, h
<1>11. ToVerify(sawSKE, certReq, clientCertSent) \in Seq(Records)
  BY FlowTyped
<1> DEFINE v == ToVerify(sawSKE, certReq, clientCertSent)
           a == <<"client", "CCS", FALSE>>
           b == <<"client", "Finished", TRUE>>
           c == <<"server", "CCS", FALSE>>
           d == <<"server", "Finished", TRUE>>
<1>12. v \in Seq(Records) /\ a \in Records /\ b \in Records /\ c \in Records /\ d \in Records
  BY <1>11
<1>13. ToEnd(sawSKE, certReq, clientCertSent) = Append(Append(Append(Append(v, a), b), c), d)
  BY DEF ToEnd, ToServerCCS, ToFinished, ToCCS
<1>14. LegalFlow = v \o <<a, b, c, d>>
  BY <1>9, <1>10
<1> HIDE DEF v, a, b, c, d
<1>15. v \o <<a, b, c, d>> = Append(Append(Append(Append(v, a), b), c), d)
  BY ONLY <1>12, JoinFour
<1> QED BY <1>13, <1>14, <1>15

\* A handshake that completes followed the protocol's message flow to the
\* letter, however the peer fragments, coalesces, repeats or reorders its
\* messages: LegalWhenDone.
THEOREM LegalHolds == Spec => []LegalWhenDone
<1>1. LInv => LegalWhenDone
  <2> SUFFICES ASSUME LInv, pc = "done" PROVE Shape(log) = LegalFlow
    BY DEF LegalWhenDone
  <2>1. Shape(log) = ToEnd(sawSKE, certReq, clientCertSent)
    BY DEF LInv, FlowInv
  <2>2. (sawSKE <=> Ephemeral(suite)) /\ (clientCertSent <=> HaveClientCert)
    BY DEF LInv, FlagInv, Derived
  <2> QED BY <2>1, <2>2, FlowIsLegal
<1> QED BY <1>1, FlowInvariance, PTL

-----------------------------------------------------------------------------
(* What the digests cover *)

F == INSTANCE Foundations

\* The recursion of Handshakes, step by step.
Keep(s) == [i \in 1 .. Len(s) |->
             [v \in Seq(Sent) |-> IF s[i].m.type = "CCS" THEN v ELSE Append(v, s[i].m)]]

\* Handshakes follows it: its recursion has a solution.
LEMMA HandshakesFollows ==
  ASSUME NEW s \in Seq(Entries)
  PROVE  \E g \in [0 .. Len(s) -> Seq(Sent)] :
           F!Follows(g, Len(s), <<>>, Keep(s)) /\ Handshakes(s) = g[Len(s)]
<1> DEFINE n == Len(s)
           Rec(g) == [i \in 0 .. n |->
                      IF i = 0 THEN <<>>
                      ELSE IF s[i].m.type = "CCS" THEN g[i - 1] ELSE Append(g[i - 1], s[i].m)]
<1>1. n \in Nat /\ \A i \in 1 .. n : s[i].m \in Sent
  <2>1. n \in Nat /\ \A i \in 1 .. n : s[i] \in Entries
    OBVIOUS
  <2>2. \A e \in Entries : e.m \in Sent
    BY DEF Entries
  <2> QED BY <2>1, <2>2
<1>2. ASSUME NEW i \in 1 .. n PROVE Keep(s)[i] \in [Seq(Sent) -> Seq(Sent)]
  <2>1. \A v \in Seq(Sent) : (IF s[i].m.type = "CCS" THEN v ELSE Append(v, s[i].m)) \in Seq(Sent)
    BY <1>1
  <2> QED BY <2>1 DEF Keep
<1>3. PICK f \in [0 .. n -> Seq(Sent)] : F!Follows(f, n, <<>>, Keep(s))
  <2>1. <<>> \in Seq(Sent)
    BY Empty
  <2> HIDE DEF n
  <2> QED BY <1>1, <1>2, <2>1, F!Recursion
<1>4. ASSUME NEW i \in 0 .. n PROVE f[i] = Rec(f)[i]
  <2>1. CASE i = 0
    BY <1>3, <2>1 DEF F!Follows
  <2>2. CASE i # 0
    <3>1. i \in 1 .. n /\ i - 1 \in 0 .. n
      BY <1>1, <2>2
    <3>2. f[i] = Keep(s)[i][f[i - 1]] /\ f[i - 1] \in Seq(Sent)
      BY <1>3, <3>1 DEF F!Follows
    <3> QED BY <2>2, <3>1, <3>2 DEF Keep
  <2> QED BY <2>1, <2>2
<1>5. f = Rec(f)
  BY <1>4
<1>6. \E g : g = Rec(g) /\ Handshakes(s) = g[n]
  BY <1>5 DEF Handshakes
<1>7. PICK g : g = Rec(g) /\ Handshakes(s) = g[n]
  BY <1>6
<1>8. g[0] = <<>> /\ \A i \in 1 .. n :
         g[i] = IF s[i].m.type = "CCS" THEN g[i - 1] ELSE Append(g[i - 1], s[i].m)
  <2>1. \A i \in 0 .. n : g[i] = Rec(g)[i]
    BY <1>7
  <2>2. ASSUME NEW i \in 1 .. n
        PROVE  g[i] = IF s[i].m.type = "CCS" THEN g[i - 1] ELSE Append(g[i - 1], s[i].m)
    <3>1. i \in 0 .. n /\ i # 0
      BY <1>1
    <3> QED BY <2>1, <3>1
  <2> QED BY <1>1, <2>1, <2>2
<1> HIDE DEF n, Rec
<1> DEFINE S == {i \in 0 .. n : g[i] = f[i]}
<1>9. \A i \in 0 .. n : i \in S
  <2>1. 0 \in S
    BY <1>1, <1>3, <1>8 DEF F!Follows
  <2>2. ASSUME NEW i \in 1 .. n, i - 1 \in S PROVE i \in S
    <3>1. f[i] = Keep(s)[i][f[i - 1]] /\ f[i - 1] \in Seq(Sent) /\ g[i - 1] = f[i - 1]
      BY <1>1, <1>3, <2>2 DEF F!Follows
    <3>2. f[i] = IF s[i].m.type = "CCS" THEN f[i - 1] ELSE Append(f[i - 1], s[i].m)
      BY <3>1 DEF Keep, n
    <3> QED BY <1>8, <3>1, <3>2
  <2> HIDE DEF S
  <2> QED BY <1>1, <2>1, <2>2, F!UpTo
<1>10. g[n] = f[n]
  BY <1>1, <1>9
<1> QED BY <1>3, <1>7, <1>10 DEF n

\* One more record, one more message, unless it is a ChangeCipherSpec.
LEMMA HandshakesAppend ==
  ASSUME NEW s \in Seq(Entries), NEW e \in Entries
  PROVE  Handshakes(Append(s, e)) = IF e.m.type = "CCS" THEN Handshakes(s)
                                                         ELSE Append(Handshakes(s), e.m)
<1> DEFINE n == Len(s)
           t == Append(s, e)
<1>1. n \in Nat /\ t \in Seq(Entries) /\ Len(t) = n + 1 /\ t[n + 1] = e
      /\ \A i \in 1 .. n : t[i] = s[i]
  OBVIOUS
<1>2. PICK g \in [0 .. n -> Seq(Sent)] : F!Follows(g, n, <<>>, Keep(s)) /\ Handshakes(s) = g[n]
  BY HandshakesFollows
<1> HIDE DEF t
<1>3. PICK h \in [0 .. n + 1 -> Seq(Sent)] :
        F!Follows(h, n + 1, <<>>, Keep(t)) /\ Handshakes(t) = h[n + 1]
  BY <1>1, HandshakesFollows
<1>4. F!Follows(h, n, <<>>, Keep(s))
  <2>1. ASSUME NEW i \in 1 .. n PROVE h[i] = Keep(s)[i][h[i - 1]]
    <3>1. i \in 1 .. n + 1 /\ t[i] = s[i]
      BY <1>1
    <3>2. Keep(t)[i] = Keep(s)[i]
      BY <1>1, <3>1 DEF Keep
    <3> QED BY <1>3, <3>1, <3>2 DEF F!Follows
  <2> QED BY <1>3, <2>1 DEF F!Follows
<1>5. g[n] = h[n]
  <2>1. \A i \in 0 .. n : g[i] = h[i]
    BY ONLY <1>1, <1>2, <1>4, F!Unique
  <2> QED BY <1>1, <2>1
<1>6. h[n + 1] = Keep(t)[n + 1][h[n]]
  <2>1. n + 1 \in 1 .. n + 1 /\ (n + 1) - 1 = n
    BY <1>1
  <2> QED BY <1>3, <2>1 DEF F!Follows
<1>7. h[n] \in Seq(Sent) /\ n + 1 \in 1 .. Len(t)
  BY <1>1
<1>8. h[n + 1] = IF e.m.type = "CCS" THEN h[n] ELSE Append(h[n], e.m)
  BY <1>1, <1>6, <1>7 DEF Keep
<1> QED BY <1>2, <1>3, <1>5, <1>8 DEF t

\* Every digest covers the handshake messages before it, and the transcript
\* has them all unless it has overflowed.
Covered ==
  /\ ~overflow => transcript = Handshakes(log)
  /\ \A i \in 1 .. Len(log) :
       log[i].m.type \in {"CertificateVerify", "Finished"} =>
         log[i].covers = Handshakes(SubSeq(log, 1, i - 1))

\* A record enters the log: a message, appended to the transcript, with a
\* digest over it if it has one, ...
Digested(m, covers) ==
  /\ m.type # "CCS" /\ TranscriptWrite(m)
  /\ m.type \in {"CertificateVerify", "Finished"} => ~overflow /\ covers = transcript

\* ... or a ChangeCipherSpec.
Switches(m) == m.type = "CCS" /\ UNCHANGED <<transcript, overflow>>

\* Both keep the digests right.
LEMMA LoggedCovered ==
  ASSUME HInv, Covered, NEW by \in {"client", "server"}, NEW m \in Sent, NEW covers \in Seq(Sent),
         Logged(by, m, covers), Digested(m, covers) \/ Switches(m)
  PROVE  Covered'
<1>0. Types
  BY DEF HInv
<1>1. PICK p \in BOOLEAN : log' = Append(log, Entry(by, m, p, covers))
  BY <1>0 DEF Types, Logged
<1> DEFINE e == Entry(by, m, p, covers)
           n == Len(log)
<1>2. e \in Entries /\ e.m = m /\ e.covers = covers /\ log \in Seq(Entries) /\ log' = Append(log, e)
  BY <1>0, <1>1 DEF Entry, Entries, Types
<1> HIDE DEF e
<1>3. Handshakes(log') = IF m.type = "CCS" THEN Handshakes(log) ELSE Append(Handshakes(log), m)
  BY <1>2, HandshakesAppend
<1>4. ~overflow' => transcript' = Handshakes(log')
  <2>1. CASE Switches(m)
    BY <1>3, <2>1 DEF Switches, Covered
  <2>2. CASE Digested(m, covers)
    BY <1>3, <2>2 DEF Digested, TranscriptWrite, Covered
  <2> QED BY <2>1, <2>2
<1>5. ASSUME NEW i \in 1 .. Len(log'), log'[i].m.type \in {"CertificateVerify", "Finished"}
      PROVE  log'[i].covers = Handshakes(SubSeq(log', 1, i - 1))
  <2>1. n \in Nat /\ Len(log') = n + 1 /\ log'[n + 1] = e /\ \A j \in 1 .. n : log'[j] = log[j]
    BY <1>2
  <2>2. ASSUME NEW j \in 1 .. n + 1 PROVE SubSeq(log', 1, j - 1) = SubSeq(log, 1, j - 1)
    BY <1>2, <2>1
  <2>3. CASE i = n + 1
    <3>1. SubSeq(log', 1, i - 1) = log
      BY <1>2, <2>1, <2>2, <2>3
    <3>2. m.type \in {"CertificateVerify", "Finished"}
      BY <1>2, <1>5, <2>1, <2>3
    <3>3. ~overflow /\ covers = transcript
      BY <3>2 DEF Digested, Switches
    <3> QED BY <1>2, <2>1, <2>3, <3>1, <3>3 DEF Covered
  <2>4. CASE i # n + 1
    <3>1. i \in 1 .. n
      BY <2>1, <2>4
    <3> QED BY <1>5, <2>1, <2>2, <3>1 DEF Covered
  <2> QED BY <2>3, <2>4
<1> QED BY <1>4, <1>5 DEF Covered

\* A step that logs nothing keeps them as well.
LEMMA UnloggedCovered == ASSUME Covered, UNCHANGED <<transcript, overflow, log>> PROVE Covered'
BY DEF Covered

\* A message sent.
LEMMA SendCovered ==
  ASSUME HInv, Covered, NEW m \in ClientMsgs, NEW covers \in Seq(Sent), NEW next,
         m.type # "CCS", m.type \in {"CertificateVerify", "Finished"} => ~overflow /\ covers = transcript,
         Send(m, covers, next)
  PROVE  Covered'
<1>1. CASE Fatal
  BY <1>1, UnloggedCovered DEF Fatal
<1>2. CASE Logged("client", m, covers) /\ TranscriptWrite(m)
  <2>1. Digested(m, covers) /\ m \in Sent
    BY <1>2 DEF Digested, Sent
  <2> QED BY <1>2, <2>1, LoggedCovered
<1> QED BY <1>1, <1>2 DEF Send

\* A message accepted.
LEMMA AcceptCovered ==
  ASSUME HInv, Covered, Ready, NEW covers \in Seq(Sent), NEW m, m = Head(hsBuf),
         m.type # "CCS", m.type \in {"CertificateVerify", "Finished"} => ~overflow /\ covers = transcript,
         Accept(m, covers)
  PROVE  Covered'
<1>1. m \in Sent
  BY DEF HInv, Types, Ready, Sent
<1>2. Digested(m, covers) /\ Logged("server", m, covers)
  BY DEF Digested, Accept
<1> QED BY <1>1, <1>2, LoggedCovered

\* Every step keeps them.
LEMMA NextCovered == HInv /\ Covered /\ [Next]_vars => Covered'
<1> SUFFICES ASSUME HInv, Covered, [Next]_vars PROVE Covered'
  OBVIOUS
<1> DEFINE m == Head(hsBuf)
<1>0. transcript \in Seq(Sent) /\ <<>> \in Seq(Sent)
  BY Empty DEF HInv, Types
<1>1. CASE Fatal \/ UNCHANGED <<transcript, overflow, log>>
  BY <1>1, UnloggedCovered DEF Fatal
<1>2. CASE SendClientHello
  <2>1. CASE UNCHANGED <<log, transcript, overflow>>
    BY <2>1, UnloggedCovered
  <2>2. CASE Logged("client", Plain("ClientHello"), <<>>) /\ TranscriptWrite(Plain("ClientHello"))
    <3>1. Plain("ClientHello") \in Sent /\ Plain("ClientHello").type = "ClientHello"
      BY DEF Sent, ClientMsgs, Plain, Msg
    <3>2. Digested(Plain("ClientHello"), <<>>)
      BY <2>2, <3>1 DEF Digested
    <3> QED BY <1>0, <2>2, <3>1, <3>2, LoggedCovered
  <2> QED BY <1>2, <2>1, <2>2 DEF SendClientHello
<1>3. CASE RecvServerHello
  <2>1. Ready /\ (Fatal \/ (m.type = "ServerHello" /\ Accept(m, <<>>)))
    BY <1>3 DEF RecvServerHello
  <2> QED BY <1>0, <1>1, <2>1, AcceptCovered
<1>4. CASE RecvCertificate
  <2>1. Ready /\ (Fatal \/ (m.type = "Certificate" /\ Accept(m, <<>>)))
    BY <1>4 DEF RecvCertificate
  <2> QED BY <1>0, <1>1, <2>1, AcceptCovered
<1>5. CASE RecvServerFlight
  <2>1. /\ Ready
        /\ \/ Fatal
           \/ /\ m.type \in {"ServerKeyExchange", "CertificateRequest", "ServerHelloDone"}
              /\ Accept(m, <<>>)
    BY <1>5 DEF RecvServerFlight, Unexpected, GoodSKE, GoodCertReq, GoodSHD, Plain, Msg
  <2> QED BY <1>0, <1>1, <2>1, AcceptCovered
<1>6. CASE RecvFinished
  <2>1. Ready /\ (Fatal \/ (m.type = "Finished" /\ ~overflow /\ Accept(m, transcript)))
    BY <1>6 DEF RecvFinished, Msg
  <2> QED BY <1>0, <1>1, <2>1, AcceptCovered
<1>7. CASE SendClientCertificate
  <2> DEFINE c == Msg("ClientCertificate", IF HaveClientCert THEN "one" ELSE "empty", "-")
  <2>1. c \in Sent /\ c.type = "ClientCertificate"
    BY DEF Sent, ClientMsgs, Msg
  <2>2. Fatal \/ (Logged("client", c, <<>>) /\ Digested(c, <<>>))
    BY <1>7, <2>1 DEF SendClientCertificate, Digested
  <2> HIDE DEF c
  <2> QED BY <1>0, <1>1, <2>1, <2>2, LoggedCovered
<1>8. CASE SendClientKeyExchange
  <2>1. Plain("ClientKeyExchange") \in ClientMsgs /\ Plain("ClientKeyExchange").type = "ClientKeyExchange"
    BY DEF ClientMsgs, Plain, Msg
  <2> QED BY <1>0, <1>8, <2>1, SendCovered DEF SendClientKeyExchange
<1>9. CASE SendCertificateVerify
  <2>1. Plain("CertificateVerify") \in ClientMsgs /\ Plain("CertificateVerify").type = "CertificateVerify"
    BY DEF ClientMsgs, Plain, Msg
  <2> QED BY <1>0, <1>1, <1>9, <2>1, SendCovered DEF SendCertificateVerify
<1>10. CASE SendFinished
  <2>1. Plain("Finished") \in ClientMsgs /\ Plain("Finished").type = "Finished"
    BY DEF ClientMsgs, Plain, Msg
  <2> QED BY <1>0, <1>1, <1>10, <2>1, SendCovered DEF SendFinished
<1>11. CASE SendCCS \/ RecvCCS
  <2>1. Plain("CCS") \in Sent /\ Plain("CCS").type = "CCS"
    BY DEF Sent, ClientMsgs, Plain, Msg
  <2>2. Fatal \/ \E by \in {"client", "server"} : Logged(by, Plain("CCS"), <<>>) /\ Switches(Plain("CCS"))
    BY <1>11, <2>1 DEF SendCCS, RecvCCS, Switches
  <2> QED BY <1>0, <1>1, <2>1, <2>2, LoggedCovered
<1>12. CASE ReadHandshake \/ Derive \/ CheckStraddle \/ UNCHANGED vars
  <2>1. Fatal \/ UNCHANGED <<transcript, overflow, log>>
    BY <1>12 DEF ReadHandshake, Derive, CheckStraddle, vars
  <2> QED BY <1>1, <2>1
<1> QED BY <1>2, <1>3, <1>4, <1>5, <1>6, <1>7, <1>8, <1>9, <1>10, <1>11, <1>12 DEF Next

\* CertificateVerify and both Finished cover exactly the handshake messages
\* before them, in wire order, for every cap of the transcript and however long
\* the handshake: Transcript.Sum refuses what Transcript.Write has truncated.
THEOREM DigestsCoverHolds == Spec => []DigestsCover
<1>1. Init => Covered
  <2> SUFFICES ASSUME Init PROVE Covered
    OBVIOUS
  <2>1. log = <<>> /\ transcript = <<>> /\ Len(log) = 0 /\ log \in Seq(Entries)
    BY Empty DEF Init
  <2>2. PICK g \in [0 .. Len(log) -> Seq(Sent)] :
          F!Follows(g, Len(log), <<>>, Keep(log)) /\ Handshakes(log) = g[Len(log)]
    BY <2>1, HandshakesFollows
  <2>3. Handshakes(log) = <<>>
    BY <2>1, <2>2 DEF F!Follows
  <2> QED BY <2>1, <2>3 DEF Covered
<1>2. Covered => DigestsCover
  BY DEF Covered, DigestsCover
<1> QED BY <1>1, <1>2, NextCovered, HandshakeInvariance, PTL DEF Spec
=============================================================================
