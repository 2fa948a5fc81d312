-------------------------- MODULE ClientHandshake --------------------------
(***************************************************************************)
(* The TLS 1.2 client handshake of internal/handshake/client.go against a  *)
(* peer that may send any records in any order: ClientState.Handshake and  *)
(* the functions it calls, the reassembly of handshake messages from       *)
(* records (readHandshakeRecord, hsBuf), the transcript (transcript.go)    *)
(* and the checks that decide whether a message is accepted.               *)
(*                                                                         *)
(* A message is a record of its type, whether it parses, and the outcome   *)
(* of the checks the code makes on its contents.  One step reads or writes *)
(* one record, or consumes one reassembled message.                        *)
(***************************************************************************)
EXTENDS Naturals, Sequences

CONSTANTS
  ServerMsgs,     \* the messages the peer may send
  Offered,        \* ClientParams.OfferedSuites
  MaxPerRecord,   \* bound: handshake messages coalesced into one record
  MaxBuffered,    \* bound: messages in hsBuf
  FitTranscript,  \* so many messages fit under maxTranscriptBytes (transcript.go)
  MaxTranscript   \*   whatever their sizes, and no more than so many

\* Registered suites, one for each pair of key exchange and authentication
\* that client.go tells apart.
Suites == {"ECDHE_RSA", "ECDHE_ECDSA", "DHE_RSA", "RSA", "GOST"}

ASSUME HandshakeAssumption ==
  /\ Offered \subseteq Suites \cup {"unregistered"}
  /\ MaxPerRecord \in Nat /\ MaxBuffered \in Nat
  /\ FitTranscript \in Nat /\ MaxTranscript \in Nat

Ephemeral(s) == s \in {"ECDHE_RSA", "ECDHE_ECDSA", "DHE_RSA"}
Auth(s) == CASE s \in {"ECDHE_RSA", "DHE_RSA", "RSA"} -> "rsa"
             [] s = "ECDHE_ECDSA" -> "ecdsa"
             [] s = "GOST"        -> "gost"

\* A handshake message: v and w are what the checks on it depend on.
Msg(type, v, w) == [type |-> type, v |-> v, w |-> w]
Plain(type)     == Msg(type, "-", "-")
Malformed(type) == Msg(type, "-", "malformed")

Messages ==
  {Msg("ServerHello", s, w) : s \in Suites \cup {"unregistered"}, w \in {"ok", "bad"}}
  \cup {Msg("Certificate", k, w) : k \in {"rsa", "ecdsa", "gost"}, w \in {"valid", "invalid"}}
  \cup {Msg("ServerKeyExchange", a, w) : a \in {"rsa", "ecdsa", "unadvertised"},
                                         w \in {"genuine", "wrong"}}
  \cup {Msg("CertificateRequest", v, "-") : v \in {"match", "nomatch"}}
  \cup {Msg("Finished", v, "-") : v \in {"equal", "different"}}
  \cup {Plain("ServerHelloDone"), Plain("HelloRequest"), Plain("oversized")}
  \cup {Malformed(t) : t \in {"ServerHello", "Certificate", "ServerKeyExchange",
                              "CertificateRequest", "ServerHelloDone", "Finished"}}

ASSUME ServerMsgsAssumption == ServerMsgs \subseteq Messages

\* The messages that may begin in one handshake record: see ReadHandshake.
MsgSeqs == UNION {[1 .. n -> ServerMsgs] : n \in 0 .. MaxPerRecord}

VARIABLES
  insecure,    \* ClientParams.InsecureSkipVerify
  hasCert,     \* ClientParams.Certificates is not empty
  pc,          \* the step of Handshake
  hsBuf,       \* ClientState.hsBuf: the messages in it,
  partial,     \*   the last of which may be incomplete
  suite,       \* ClientState.suite
  certKey,     \* key type of the server's leaf certificate
  sawSKE, sawCertReq,
  certReq,     \* ClientState.certReq: does selectClientSigAlg find a match?
  clientCertSent,
  sendProt, recvProt,   \* the layer's protectors are installed
  transcript, overflow, \* Transcript.buf and Transcript.overflow
  alerted,     \* history: fatal has tried to send its alert
  log          \* history: the handshake messages and CCSs in wire order

config == <<insecure, hasCert>>
bufVars == <<hsBuf, partial>>
flightVars == <<suite, certKey, sawSKE, sawCertReq, certReq, clientCertSent>>
protVars == <<sendProt, recvProt>>
vars == <<config, pc, bufVars, flightVars, protVars, transcript, overflow, alerted, log>>

Reading == {"serverHello", "certificate", "serverFlight", "finished"}
Sending == {"clientCert", "keyExchange", "certVerify", "sendCCS", "sendFinished"}

TypeOK ==
  /\ insecure \in BOOLEAN /\ hasCert \in BOOLEAN
  /\ pc \in {"hello", "derive", "straddle", "recvCCS", "done", "failed"}
             \cup Reading \cup Sending
  /\ Len(hsBuf) <= MaxBuffered + 1 /\ partial \in BOOLEAN
  /\ suite \in Suites \cup {"none"}
  /\ certKey \in {"none", "rsa", "ecdsa", "gost"}
  /\ {sawSKE, sawCertReq, clientCertSent, sendProt, recvProt, overflow, alerted} \subseteq BOOLEAN
  /\ certReq \in {"none", "match", "nomatch"}
  /\ Len(transcript) <= MaxTranscript

\* NewClientState, on a fresh record layer.
Init ==
  /\ insecure \in BOOLEAN /\ hasCert \in BOOLEAN
  /\ pc = "hello"
  /\ hsBuf = <<>> /\ partial = FALSE
  /\ suite = "none" /\ certKey = "none"
  /\ sawSKE = FALSE /\ sawCertReq = FALSE /\ certReq = "none"
  /\ clientCertSent = FALSE
  /\ sendProt = FALSE /\ recvProt = FALSE
  /\ transcript = <<>> /\ overflow = FALSE
  /\ alerted = FALSE /\ log = <<>>

-----------------------------------------------------------------------------
(* Helpers *)

\* Mutant: beyond the cap, messages are dropped and the hash goes on.
TranscriptDrop(m) ==
  /\ \/ Len(transcript) < MaxTranscript /\ transcript' = Append(transcript, m)
     \/ Len(transcript) >= FitTranscript /\ UNCHANGED transcript
  /\ UNCHANGED overflow

\* Transcript.Write: a message that does not fit under the cap is not
\* appended, and nothing ever is after it.
TranscriptWrite(m) ==
  \/ /\ ~overflow /\ Len(transcript) < MaxTranscript
     /\ transcript' = Append(transcript, m) /\ UNCHANGED overflow
  \/ /\ overflow \/ Len(transcript) >= FitTranscript
     /\ overflow' = TRUE /\ UNCHANGED transcript

\* A record on the wire; covers is the transcript its contents depend on.
Entry(by, m, prot, covers) == [by |-> by, m |-> m, prot |-> prot, covers |-> covers]
Logged(by, m, covers) ==
  log' = Append(log, Entry(by, m, IF by = "client" THEN sendProt ELSE recvProt, covers))

\* ClientState.fatal: the alert is attempted and Handshake returns the error;
\* the caller drops the ClientState, its buffer included.
Fatal ==
  /\ pc' = "failed" /\ alerted' = TRUE
  /\ hsBuf' = <<>> /\ partial' = FALSE
  /\ UNCHANGED <<config, flightVars, protVars, transcript, overflow, log>>

\* Write a handshake message, then append it to the transcript.
Send(m, covers, next) ==
  \/ Fatal
  \/ /\ Logged("client", m, covers) /\ TranscriptWrite(m)
     /\ pc' = next
     /\ UNCHANGED <<config, bufVars, flightVars, protVars, alerted>>

\* readHandshakeRecord has a whole message, or the header of one too large.
Ready == /\ hsBuf # <<>>
         /\ Len(hsBuf) > 1 \/ ~partial \/ Head(hsBuf).type = "oversized"

\* It returns that message: consumeBuffered.
Consume == /\ hsBuf' = Tail(hsBuf)
           /\ partial' = (partial /\ Len(hsBuf) > 1)

\* A message is consumed, accepted and appended to the transcript.
Accept(m, covers) ==
  /\ Consume
  /\ Logged("server", m, covers) /\ TranscriptWrite(m)
  /\ UNCHANGED <<config, protVars, alerted>>

-----------------------------------------------------------------------------
(* Records from the peer *)

\* readHandshakeRecord needs more: a handshake record completes the message
\* being assembled or brings more messages, the last one possibly cut; a read
\* error, an alert or any other record ends the handshake.  A record that
\* completes nothing and begins nothing leaves the state as it is.
ReadHandshake ==
  /\ pc \in Reading /\ ~Ready
  /\ \/ Fatal
     \/ \E ms \in MsgSeqs, cut \in BOOLEAN :
          /\ Len(hsBuf) + Len(ms) <= MaxBuffered
          /\ partial \/ ms # <<>>
          /\ hsBuf' = hsBuf \o ms /\ partial' = (cut /\ ms # <<>>)
          /\ UNCHANGED <<config, pc, flightVars, protVars, transcript, overflow, alerted, log>>

-----------------------------------------------------------------------------
(* Handshake, step by step *)

\* sendClientHello: its errors (randomness, write) are returned as they are.
SendClientHello ==
  /\ pc = "hello"
  /\ \/ /\ pc' = "failed"
        /\ UNCHANGED <<log, transcript, overflow>>
     \/ /\ Logged("client", Plain("ClientHello"), <<>>)
        /\ TranscriptWrite(Plain("ClientHello"))
        /\ pc' = "serverHello"
  /\ UNCHANGED <<config, bufVars, flightVars, protVars, alerted>>

\* recvServerHello: w is "bad" when the version, the compression method, the
\* extended master secret or an extension is not acceptable.
RecvServerHello ==
  /\ pc = "serverHello" /\ Ready
  /\ LET m == Head(hsBuf)
         accepted == m.type = "ServerHello" /\ m.w = "ok" /\ m.v \in Offered \cap Suites
     IN \/ ~accepted /\ Fatal
        \/ /\ accepted /\ Accept(m, <<>>)
           /\ suite' = m.v
           /\ pc' = "certificate"
           /\ UNCHANGED <<certKey, sawSKE, sawCertReq, certReq, clientCertSent>>

\* Mutant: a chain that does not verify is accepted.
ChainUnchecked(m) == m.w \in {"valid", "invalid"}

\* parseAndVerifyChain.
ChainAccepted(m) == m.w = "valid" \/ (insecure /\ m.w = "invalid")

\* recvCertificate; the VerifyPeerCertificate callback may still refuse.
RecvCertificate ==
  /\ pc = "certificate" /\ Ready
  /\ \/ Fatal
     \/ LET m == Head(hsBuf) IN
        /\ m.type = "Certificate" /\ ChainAccepted(m) /\ Accept(m, <<>>)
        /\ certKey' = m.v
        /\ pc' = "serverFlight"
        /\ UNCHANGED <<suite, sawSKE, sawCertReq, certReq, clientCertSent>>

\* verifyServerKeyExchange: only ephemeral suites have one; it is signed with
\* an advertised algorithm, the one of the suite, by the certificate's key.
SKEVerified(m) ==
  /\ Ephemeral(suite)
  /\ m.v = Auth(suite) /\ m.v = certKey
  /\ m.w = "genuine"

\* The messages the loop of recvServerFlight accepts.
GoodSKE(m) == m.type = "ServerKeyExchange" /\ ~sawSKE /\ ~sawCertReq /\ SKEVerified(m)
GoodCertReq(m) == m.type = "CertificateRequest" /\ m.w # "malformed" /\ ~sawCertReq
GoodSHD(m) == m = Plain("ServerHelloDone") /\ (sawSKE \/ ~Ephemeral(suite))

\* Mutant: a HelloRequest is skipped.
SkipHelloRequest(m) ==
  \/ /\ m = Plain("HelloRequest") /\ Consume
     /\ UNCHANGED <<config, pc, flightVars, protVars, transcript, overflow, alerted, log>>
  \/ ~(GoodSKE(m) \/ GoodCertReq(m) \/ GoodSHD(m)) /\ Fatal

\* Every other message is unexpected.
Unexpected(m) == ~(GoodSKE(m) \/ GoodCertReq(m) \/ GoodSHD(m)) /\ Fatal

\* One turn of the loop of recvServerFlight; ServerHelloDone leaves it.
RecvServerFlight ==
  /\ pc = "serverFlight" /\ Ready
  /\ LET m == Head(hsBuf) IN
     \/ Unexpected(m)
     \/ /\ GoodSKE(m) /\ Accept(m, <<>>)
        /\ sawSKE' = TRUE
        /\ UNCHANGED <<pc, suite, certKey, sawCertReq, certReq, clientCertSent>>
     \/ /\ GoodCertReq(m) /\ Accept(m, <<>>)
        /\ sawCertReq' = TRUE /\ certReq' = m.v
        /\ UNCHANGED <<pc, suite, certKey, sawSKE, clientCertSent>>
     \/ /\ GoodSHD(m) /\ Accept(m, <<>>)
        /\ pc' = "derive"
        /\ UNCHANGED flightVars

\* Steps 5 to 7: the key exchange takes the key of the certificate where it
\* is static; then the master secret, the key block and the protectors.
Derive ==
  /\ pc = "derive"
  /\ \/ Fatal
     \/ /\ Ephemeral(suite) \/ certKey = Auth(suite)
        /\ pc' = IF certReq # "none" THEN "clientCert" ELSE "keyExchange"
        /\ UNCHANGED <<config, bufVars, flightVars, protVars, transcript, overflow, alerted, log>>

\* selectClientSigAlg found an algorithm for Certificates[0].
HaveClientCert == hasCert /\ certReq = "match"

SendClientCertificate ==
  /\ pc = "clientCert"
  /\ \/ Fatal
     \/ LET m == Msg("ClientCertificate", IF HaveClientCert THEN "one" ELSE "empty", "-") IN
        /\ Logged("client", m, <<>>) /\ TranscriptWrite(m)
        /\ clientCertSent' = HaveClientCert
        /\ pc' = "keyExchange"
        /\ UNCHANGED <<config, bufVars, suite, certKey, sawSKE, sawCertReq, certReq>>
        /\ UNCHANGED <<protVars, alerted>>

\* Mutant: CertificateVerify follows every client Certificate, empty or not.
SendKeyExchangeVerify ==
  /\ pc = "keyExchange"
  /\ Send(Plain("ClientKeyExchange"), <<>>,
          IF certReq # "none" THEN "certVerify" ELSE "sendCCS")

SendClientKeyExchange ==
  /\ pc = "keyExchange"
  /\ Send(Plain("ClientKeyExchange"), <<>>,
          IF clientCertSent THEN "certVerify" ELSE "sendCCS")

\* Transcript.Sum fails once the transcript has overflowed.
SendCertificateVerify ==
  /\ pc = "certVerify"
  /\ \/ overflow /\ Fatal
     \/ ~overflow /\ Send(Plain("CertificateVerify"), transcript, "sendCCS")

\* ChangeCipherSpec, then the send protector.
SendCCS ==
  /\ pc = "sendCCS"
  /\ \/ Fatal
     \/ /\ Logged("client", Plain("CCS"), <<>>)
        /\ sendProt' = TRUE
        /\ pc' = "sendFinished"
        /\ UNCHANGED <<config, bufVars, flightVars, recvProt, transcript, overflow, alerted>>

SendFinished ==
  /\ pc = "sendFinished"
  /\ \/ overflow /\ Fatal
     \/ ~overflow /\ Send(Plain("Finished"), transcript, "straddle")

\* Mutant: what the server coalesced after ServerHelloDone is ignored.
StraddleUnchecked ==
  /\ pc = "straddle" /\ pc' = "recvCCS"
  /\ UNCHANGED <<config, bufVars, flightVars, protVars, transcript, overflow, alerted, log>>

\* No handshake bytes may straddle the server's ChangeCipherSpec.
CheckStraddle ==
  /\ pc = "straddle"
  /\ \/ hsBuf # <<>> /\ Fatal
     \/ /\ hsBuf = <<>> /\ pc' = "recvCCS"
        /\ UNCHANGED <<config, bufVars, flightVars, protVars, transcript, overflow, alerted, log>>

\* The next record is a well-formed ChangeCipherSpec, or the end.
RecvCCS ==
  /\ pc = "recvCCS"
  /\ \/ Fatal
     \/ /\ Logged("server", Plain("CCS"), <<>>)
        /\ recvProt' = TRUE
        /\ pc' = "finished"
        /\ UNCHANGED <<config, bufVars, flightVars, sendProt, transcript, overflow, alerted>>

\* Mutant: a Finished that fails its check is refused without an alert.
RecvFinishedSilent ==
  /\ pc = "finished" /\ Ready
  /\ \/ /\ Head(hsBuf).v # "equal" /\ pc' = "failed"
        /\ UNCHANGED <<config, bufVars, protVars, transcript, overflow, alerted, log>>
     \/ /\ Head(hsBuf).v = "equal" /\ pc' = "done" /\ Accept(Head(hsBuf), transcript)
  /\ UNCHANGED flightVars

\* verify_data is compared with the one computed over the transcript so far,
\* and nothing may follow in the buffer.
RecvFinished ==
  /\ pc = "finished" /\ Ready
  /\ LET m == Head(hsBuf)
         accepted == m = Msg("Finished", "equal", "-") /\ ~overflow /\ Len(hsBuf) = 1
     IN \/ ~accepted /\ Fatal
        \/ /\ accepted /\ Accept(m, transcript)
           /\ pc' = "done"
           /\ UNCHANGED flightVars

Next ==
  \/ SendClientHello \/ ReadHandshake \/ RecvServerHello \/ RecvCertificate
  \/ RecvServerFlight \/ Derive \/ SendClientCertificate \/ SendClientKeyExchange
  \/ SendCertificateVerify \/ SendCCS \/ SendFinished \/ CheckStraddle
  \/ RecvCCS \/ RecvFinished

Spec == Init /\ [][Next]_vars

\* Writes complete or fail, and a peer that goes on sending does not send
\* empty handshake records for ever.
FairSpec == Spec /\ WF_vars(Next)

-----------------------------------------------------------------------------
(* Properties *)

\* The handshake messages of a log.
Handshakes(s) ==
  LET hs[i \in 0 .. Len(s)] ==
        IF i = 0 THEN <<>>
        ELSE IF s[i].m.type = "CCS" THEN hs[i - 1] ELSE Append(hs[i - 1], s[i].m)
  IN hs[Len(s)]

\* Both Finished messages and the CertificateVerify are computed over exactly
\* the handshake messages that crossed the wire before them, in wire order,
\* none omitted, none truncated by the transcript's cap.
DigestsCover ==
  \A i \in 1 .. Len(log) :
    log[i].m.type \in {"CertificateVerify", "Finished"} /\ pc # "failed" =>
      log[i].covers = Handshakes(SubSeq(log, 1, i - 1))

If(b, s) == IF b THEN s ELSE <<>>
Shape(s) == [i \in 1 .. Len(s) |-> <<s[i].by, s[i].m.type, s[i].prot>>]

\* The message flow of RFC 5246 section 7.3 for a full handshake.
LegalFlow ==
  <<<<"client", "ClientHello", FALSE>>,
    <<"server", "ServerHello", FALSE>>, <<"server", "Certificate", FALSE>>>>
  \o If(Ephemeral(suite), <<<<"server", "ServerKeyExchange", FALSE>>>>)
  \o If(certReq # "none", <<<<"server", "CertificateRequest", FALSE>>>>)
  \o <<<<"server", "ServerHelloDone", FALSE>>>>
  \o If(certReq # "none", <<<<"client", "ClientCertificate", FALSE>>>>)
  \o <<<<"client", "ClientKeyExchange", FALSE>>>>
  \o If(HaveClientCert, <<<<"client", "CertificateVerify", FALSE>>>>)
  \o <<<<"client", "CCS", FALSE>>, <<"client", "Finished", TRUE>>,
       <<"server", "CCS", FALSE>>, <<"server", "Finished", TRUE>>>>

\* A handshake that completes followed the protocol's message flow to the
\* letter, in both directions and with protection switched on exactly between
\* ChangeCipherSpec and Finished, however the peer fragmented, coalesced,
\* repeated or reordered its messages.  In particular CertificateVerify is
\* sent iff a non-empty certificate was.
LegalWhenDone == pc = "done" => Shape(log) = LegalFlow

ServerMsg(type) == {log[i].m : i \in {j \in 1 .. Len(log) :
                                       log[j].by = "server" /\ log[j].m.type = type}}

\* A handshake that completes authenticated the server: an offered suite, a
\* verified chain unless InsecureSkipVerify, a certificate key of the kind the
\* suite prescribes, and a genuine signature over ephemeral parameters.
AuthenticatedWhenDone ==
  pc = "done" =>
    /\ suite \in Offered
    /\ \A m \in ServerMsg("Certificate") : m.v = Auth(suite) /\ (insecure \/ m.w = "valid")
    /\ \A m \in ServerMsg("ServerKeyExchange") : m.v = Auth(suite) /\ m.w = "genuine"

\* No byte of a handshake message crosses a change of keys: the receive
\* protector is installed, and the handshake ends, only with hsBuf empty.
NoStraddle ==
  [][recvProt' # recvProt \/ pc' = "done" => hsBuf' = <<>>]_vars

\* Every failure after the ClientHello went out has sent the fatal alert.
AlertAfterHello == pc = "failed" /\ log # <<>> => alerted

\* What the comment on Handshake says: "On failure, a fatal alert has been
\* sent and the error is returned."
AlertOnFailure == pc = "failed" => alerted

\* The handshake ends after finitely many useful records: no sequence of
\* messages keeps a client in a loop.
Terminates == <>(pc \in {"done", "failed"})
=============================================================================
