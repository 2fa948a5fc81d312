---------------------------- MODULE Negotiation -----------------------------
(***************************************************************************)
(* What a handshake agrees on: from a Config to the pre-master secret and  *)
(* the suite the records are protected with.  The client (client.go) works *)
(* on the bytes of Codec, with the trust of Trust and the exchanges of     *)
(* KeyExchange; then Protectors takes over.  The server sends well-framed  *)
(* messages with any content from the sets below.  Records, alerts and the *)
(* order of messages are those of ClientHandshake.  A check that fails     *)
(* ends the handshake, and what it left in the ClientState is dropped.     *)
(*                                                                         *)
(* focus is the part of the handshake whose inputs are tried in full in a  *)
(* behaviour; the others are then typical ones.                            *)
(***************************************************************************)
EXTENDS Protectors, KeyExchange, Trust

CONSTANTS
  Cases,       \* records: a focus, a Config, and the host that was dialed
  CertLists,   \* lists of certificates the server may send (focus "trust")
  Leaves,      \* leaves it may send otherwise
  Inter,       \* what follows a leaf then
  Secrets,     \* private numbers of both ends
  Groups,      \* DHE groups: p, the length it is sent in, and g
  SigAlgLists, \* lists a CertificateRequest may name (focus "auth")
  Samples      \* messages that arrive damaged (focus "wire")

Foci == {"wire", "hello", "trust", "kex", "auth"}

ASSUME NegotiationAssumption ==
  /\ \A c \in Cases : c.focus \in Foci
  /\ Leaves \subseteq DOMAIN Certs /\ Inter \in Seq(DOMAIN Certs)
  /\ Secrets \subseteq Nat \ {0}
  /\ CertLists \subseteq Seq(0 .. 255)

\* Pointers and slices of a Config are nil or have a value; lists are of
\* certificates.
ASSUME ConfigAssumption ==
  \A c \in Cases :
    LET config == c.config IN
    /\ config.RootCAs = Nil \/ config.RootCAs = <<config.RootCAs[1]>>
    /\ \A v \in {config.GOSTRoots, config.GOSTIntermediates} :
         v = Nil \/ (v = <<v[1]>> /\ v[1] \in Seq(DOMAIN Certs))

VARIABLES
  case,          \* the case
  params,        \* ClientParams
  transcript,    \* the messages sent and received
  received,      \* the last message received
  leaf, gostLeaf,
  serverParams,  \* of the ServerKeyExchange
  certReq,
  secret,        \* what the server remembers of its ServerKeyExchange
  preMaster

handshakeVars ==
  <<case, params, transcript, received, leaf, gostLeaf, serverParams, certReq, secret, preMaster>>
vars == <<protectorVars, handshakeVars>>

\* What a handshake leaves alone until it is over.
recordVars == <<keys, side, kind, plainLen, fragLen, payload, macOK, opened>>

NoCase == [focus |-> "none"]
NoSecret == [params |-> Nil, k |-> 0]

Init ==
  /\ ProtectorsInit
  /\ case = NoCase /\ params = Nil /\ transcript = <<>> /\ received = Nil
  /\ leaf = Nil /\ gostLeaf = Nil /\ serverParams = Nil /\ certReq = Nil
  /\ secret = NoSecret /\ preMaster = Nil

clientRandom == [i \in 1 .. tlsRandomLen |-> i]
serverRandom == [i \in 1 .. tlsRandomLen |-> 100 + i]
staleRandom  == [i \in 1 .. tlsRandomLen |-> 200 + (i % 2)]   \* of another handshake

\* buildEnvelope
Envelope(type, body) == <<TypeCode[type]>> \o Prefixed(3, body)
Focus(f) == case.focus = f

-----------------------------------------------------------------------------
(* ClientHello and ServerHello *)

availableCipherNames ==
  {"AES-128-CBC", "AES-256-CBC", "AES-128-GCM", "AES-256-GCM", "CHACHA20-POLY1305"}

AvailableSuites ==
  LET all == SelectSeq(registryOrder, LAMBDA s : s.cipher.name \in availableCipherNames)
  IN [i \in DOMAIN all |-> all[i].id]

Configure ==
  /\ pc = "register" /\ Len(registryOrder) = Len(Registrations)
  /\ \E c \in Cases :
       LET p == ClientParams(c.config, c.dialed, AvailableSuites) IN
       /\ case' = c
       /\ params' = IF p = Fail THEN Nil ELSE Value(p)
       /\ pc' = IF p = Fail THEN "refused" ELSE "start"
  /\ UNCHANGED <<registryOrder, suite, recordVars, transcript, received, leaf, gostLeaf,
                 serverParams, certReq, secret, preMaster>>

Hello ==
  [type |-> "ClientHello", Version |-> \h0303, Random |-> clientRandom, SessionID |-> <<>>,
   CipherSuites |-> params.OfferedSuites, CompressionMethods |-> <<0>>,
   ext |-> [ServerName |-> params.ServerName,
            SupportedGroups |-> <<\h1D, \h17, \h18, \h19, \h100, \h101>>,
            ECPointFormats |-> <<0>>, SignatureAlgorithms |-> clientSigAlgsAdvertised,
            ExtendedMasterSecret |-> FALSE, RenegotiationInfo |-> TRUE]]

sendClientHello ==
  /\ pc = "start" /\ ~Focus("wire")
  /\ transcript' = <<MarshalMessage(Hello)>>
  /\ pc' = "recvServerHello"
  /\ UNCHANGED <<registryOrder, suite, recordVars, case, params, received, leaf, gostLeaf,
                 serverParams, certReq, secret, preMaster>>

\* The bodies of a ServerHello: a good one for each suite offered; ones with
\* a single field wrong or odd; and ones with up to two extensions.
ServerHelloBody(version, session, id, compression, extensions) ==
  Enc(version, 2) \o serverRandom \o Prefixed(1, session) \o Enc(id, 2) \o Enc(compression, 1)
  \o extensions

Extensions ==
  {appendExtension(TRUE, code, body) :
     code \in {extServerName, extECPointFormats, extExtendedMasterSecret, extRenegotiationInfo, 16},
     body \in {<<>>, <<0>>, <<1, 0>>}}

ServerHellos ==
  LET id == params.OfferedSuites[1]
      RI == Prefixed(2, appendExtension(TRUE, extRenegotiationInfo, <<0>>))
      good == {ServerHelloBody(\h0303, <<>>, o, 0, RI) : o \in Range(params.OfferedSuites)}
  IN IF ~Focus("hello") THEN good
     ELSE good \cup {ServerHelloBody(\h0302, <<>>, id, 0, RI)}
          \cup {ServerHelloBody(\h0303, [i \in 1 .. n |-> i], id, 0, RI) : n \in {32, 33}}
          \cup {ServerHelloBody(\h0303, <<>>, s.id, 0, RI) : s \in Range(registryOrder)}
          \cup {ServerHelloBody(\h0303, <<>>, id, 1, RI)}
          \cup {ServerHelloBody(\h0303, <<>>, id, 0, Prefixed(2, x \o y)) :
                  x \in Extensions, y \in Extensions \cup {<<>>}}
          \cup {ServerHelloBody(\h0303, <<>>, id, 0, <<>>)}

offeredExt ==
  {extSupportedGroups, extECPointFormats, extSignatureAlgorithms, extRenegotiationInfo}
  \cup (IF params.ServerName # <<>> THEN {extServerName} ELSE {})

Registered(id) == {s \in Range(registryOrder) : s.id = id}

\* Mutant: server extensions are not compared with those that were offered.
AcceptUnsolicited(sh) ==
  /\ sh.Version = \h0303
  /\ sh.CipherSuite \in Range(params.OfferedSuites)
  /\ Registered(sh.CipherSuite) # {}
  /\ sh.CompressionMethod = 0
  /\ ~sh.ExtendedMasterSecret

\* The checks of recvServerHello on a ServerHello that parsed.
AcceptServerHello(sh) ==
  /\ sh.Version = \h0303
  /\ sh.CipherSuite \in Range(params.OfferedSuites)
  /\ Registered(sh.CipherSuite) # {}
  /\ sh.CompressionMethod = 0
  /\ ~sh.ExtendedMasterSecret
  /\ Range(sh.ExtensionTypes) \subseteq offeredExt

recvServerHello ==
  /\ pc = "recvServerHello"
  /\ \E body \in ServerHellos :
       LET env == Envelope("ServerHello", body)
           m   == ParseMessage(env)
       IN /\ received' = env
          /\ \/ \E r \in m :
                  /\ AcceptServerHello(r.msg) /\ suite' \in Registered(r.msg.CipherSuite)
                  /\ transcript' = Append(transcript, env)
                  /\ pc' = "recvCertificate"
             \/ /\ ~\E r \in m : AcceptServerHello(r.msg)
                /\ pc' = "aborted" /\ UNCHANGED <<suite, transcript>>
  /\ UNCHANGED <<registryOrder, recordVars, case, params, leaf, gostLeaf, serverParams,
                 certReq, secret, preMaster>>

-----------------------------------------------------------------------------
(* Certificate *)

ServerCertLists ==
  IF Focus("trust") THEN CertLists ELSE {<<l>> \o Inter : l \in Leaves}

\* The client's callback returns nil or an error, or there is none.
recvCertificate ==
  /\ pc = "recvCertificate"
  /\ \E list \in ServerCertLists :
       LET raw == [i \in DOMAIN list |-> <<list[i]>>]
           env == MarshalMessage([type |-> "Certificate", RawCerts |-> raw])
           m   == ParseMessage(env)
           certs == IF m = Fail THEN <<>> ELSE Value(m).msg.RawCerts
           v   == IF certs = <<>> THEN Fail ELSE parseAndVerifyChain(params, certs)
       IN /\ received' = env
          /\ IF v # Fail /\ params.VerifyPeerCertificate # "error"
               THEN /\ leaf' = <<Value(v).leaf>> /\ gostLeaf' = Value(v).gostLeaf
                    /\ transcript' = Append(transcript, env)
                    /\ pc' = "flight"
               ELSE pc' = "badCertificate" /\ UNCHANGED <<leaf, gostLeaf, transcript>>
  /\ UNCHANGED <<registryOrder, suite, recordVars, case, params, serverParams, certReq, secret,
                 preMaster>>

Leaf == Certs[leaf[1]]

-----------------------------------------------------------------------------
(* The server's flight *)

\* A ServerKeyExchange: parameters made with the private number k, and the
\* algorithm, the key (the leaf's or another) and the randoms of the signature.
Offer(ps, k, alg, ownKey, randoms) ==
  [params |-> ps, k |-> k, alg |-> alg, ownKey |-> ownKey, randoms |-> randoms]

Randoms == clientRandom \o serverRandom

GoodAlg == IF suite.auth = "ECDSA" THEN <<4, 3>> ELSE <<4, 1>>

OfferedParams ==
  IF suite.kx = "DHE"
    THEN {[ps |-> DHEParams(g, k), k |-> k] : g \in Groups, k \in Secrets}
    ELSE {[ps |-> ECDHEParams(curve, k), k |-> k] : curve \in {\h17, \h1D, \h1E}, k \in Secrets}
         \cup {[ps |-> <<1>> \o Tail(ECDHEParams(\h17, k)), k |-> k] : k \in Secrets}

FromRand(n, x) == [i \in 1 .. n |-> x]

buildGOSTExchange(x) ==
  IF gostLeaf = Nil \/ Leaf.curve.len = 0 THEN Fail
  ELSE IF suite.kx = "GOST2018_256"
    THEN Gost2018Exchange(Variant(suite.id), Leaf, Randoms, x, FromRand(32, x))
  ELSE IF suite.kx = "GOST2001"
    THEN VKOGost2001(Leaf, SubSeq(clientRandom, 1, 8), x, FromRand(32, x))
    ELSE VKOGost2012_256(Leaf, SubSeq(clientRandom, 1, 8), x, FromRand(32, x))

\* ps are the server's parameters, x is what the random source gives.
computeKeyExchange(ps, x) ==
  CASE suite.kx = "ECDHE" -> ECDHEExchange(ps, x)
    [] suite.kx = "DHE"   -> DHEExchange(ps, x)
    [] suite.kx = "RSA"   -> RSAExchange(Leaf, FromRand(46, x))
    [] OTHER -> buildGOSTExchange(x)

Offers ==
  LET good == {Offer(o.ps, o.k, GoodAlg, TRUE, Randoms) : o \in OfferedParams}
      one  == CHOOSE o \in good :
                suite.kx \in {"ECDHE", "DHE"} => computeKeyExchange(o.params, o.k) # Fail
  IN IF ~Focus("kex") THEN {one}
     ELSE good \cup {[one EXCEPT !.alg = a] : a \in {<<5, 1>>, <<5, 3>>, <<2, 1>>, <<6, 3>>}}
               \cup {[one EXCEPT !.ownKey = FALSE],
                     [one EXCEPT !.randoms = staleRandom \o serverRandom]}

\* sawSKE is serverParams # Nil, sawCertReq is certReq # Nil.  The server
\* remembers its number if the message is one it made for this handshake.
recvServerKeyExchange ==
  /\ pc = "flight"
  /\ \E o \in Offers :
       LET body == ServerKeyExchangeBody(IF o.ownKey THEN Leaf.pub ELSE 0, o.alg, o.randoms,
                                      o.params)
           env  == Envelope("ServerKeyExchange", body)
           v    == verifyServerKeyExchange(suite, Leaf, Randoms, Value(ParseMessage(env)).msg.Body)
       IN /\ received' = env
          /\ secret' = IF o.randoms = Randoms /\ o.ownKey
                       THEN [params |-> o.params, k |-> o.k] ELSE NoSecret
          /\ IF serverParams = Nil /\ certReq = Nil /\ v # Fail
               THEN serverParams' = <<Value(v)>> /\ transcript' = Append(transcript, env) /\ UNCHANGED pc
               ELSE pc' = "aborted" /\ UNCHANGED <<serverParams, transcript>>
  /\ UNCHANGED <<registryOrder, suite, recordVars, case, params, leaf, gostLeaf, certReq,
                 preMaster>>

CertificateRequests ==
  {Prefixed(1, <<1, 64>>) \o Prefixed(2, Concat(algs)) \o Prefixed(2, Prefixed(2, <<7>>)) :
     algs \in SigAlgLists}

recvCertificateRequest ==
  /\ pc = "flight" /\ Focus("auth")
  /\ \E body \in CertificateRequests :
       LET env == Envelope("CertificateRequest", body)
           m   == ParseMessage(env)
       IN /\ received' = env
          /\ IF certReq = Nil /\ m # Fail
               THEN /\ certReq' = <<Value(m).msg>> /\ transcript' = Append(transcript, env)
                    /\ UNCHANGED pc
               ELSE pc' = "aborted" /\ UNCHANGED <<certReq, transcript>>
  /\ UNCHANGED <<registryOrder, suite, recordVars, case, params, leaf, gostLeaf, serverParams,
                 secret, preMaster>>

recvServerHelloDone ==
  /\ pc = "flight"
  /\ LET env == Envelope("ServerHelloDone", <<>>)
     IN /\ received' = env
        /\ IF serverParams = Nil /\ suite.kx \in {"DHE", "ECDHE"}
             THEN pc' = "aborted" /\ UNCHANGED transcript
             ELSE pc' = "exchange" /\ transcript' = Append(transcript, env)
  /\ UNCHANGED <<registryOrder, suite, recordVars, case, params, leaf, gostLeaf, serverParams,
                 certReq, secret, preMaster>>

-----------------------------------------------------------------------------
(* The client's flight *)

keyCompatible(key, alg) ==
  \/ key = "RSA" /\ alg[2] = 1
  \/ key = "P256" /\ alg = <<4, 3>>
  \/ key = "P384" /\ alg = <<5, 3>>

\* The first algorithm of ours that the server has and the key can use.
selectClientSigAlg ==
  LET usable == IF certReq = Nil \/ params.Certificates = <<>> THEN <<>>
                ELSE SelectSeq(clientSigAlgsAdvertised,
                       LAMBDA a : /\ a \in Range(certReq[1].SupportedSignatureAlgs)
                                  /\ keyCompatible(params.Certificates[1].PrivateKey, a))
  IN IF usable = <<>> THEN Nil ELSE <<Head(usable)>>

\* sendClientCertificate, the ClientKeyExchange and sendCertificateVerify,
\* which signs the transcript before it.
ClientFlight(cke) ==
  LET alg  == selectClientSigAlg
      cert == MarshalMessage([type |-> "Certificate",
                RawCerts |-> IF alg = Nil THEN <<>> ELSE <<params.Certificates[1].RawCertificate>>])
      t == transcript \o (IF certReq = Nil THEN <<>> ELSE <<cert>>)
           \o <<MarshalMessage([type |-> "ClientKeyExchange", Body |-> cke])>>
      verify == MarshalMessage([type |-> "CertificateVerify", Algorithm |-> alg[1],
                  Signature |-> Sign(params.Certificates[1].PrivateKey, alg[1][1], Concat(t))])
  IN t \o (IF alg = Nil THEN <<>> ELSE <<verify>>)

\* Key expansion comes before these messages are sent; neither depends on the
\* other.
KeyExchangeAndSend ==
  /\ pc = "exchange"
  /\ \E x \in Secrets :
       LET e == computeKeyExchange(IF serverParams = Nil THEN Nil ELSE serverParams[1], x) IN
       IF e = Fail THEN pc' = "aborted" /\ UNCHANGED <<transcript, preMaster>>
       ELSE /\ transcript' = ClientFlight(Value(e).cke)
            /\ preMaster' = Value(e).preMaster
            /\ pc' = "expand"
  /\ UNCHANGED <<registryOrder, suite, recordVars, case, params, received, leaf, gostLeaf,
                 serverParams, certReq, secret>>

-----------------------------------------------------------------------------
\* A message with one byte changed, cut short, or with a byte too many.
Damaged(env) ==
  {[env EXCEPT ![i] = v] : i \in DOMAIN env, v \in {0, 1, 255}}
  \cup {SubSeq(env, 1, i) : i \in 0 .. Len(env)} \cup {Append(env, 0)}

ReceiveDamaged ==
  /\ pc = "start" /\ Focus("wire")
  /\ \E env \in Samples : \E data \in Damaged(env) : received' = data
  /\ pc' = "damaged"
  /\ UNCHANGED <<registryOrder, suite, recordVars, case, params, transcript, leaf, gostLeaf,
                 serverParams, certReq, secret, preMaster>>

\* Nothing of the handshake but the suite matters once keys are expanded.
Expansion ==
  /\ ExpandKeys
  /\ case' = NoCase /\ params' = Nil /\ transcript' = <<>> /\ received' = Nil
  /\ leaf' = Nil /\ gostLeaf' = Nil /\ serverParams' = Nil /\ certReq' = Nil
  /\ secret' = NoSecret /\ preMaster' = Nil

Next ==
  \/ Register /\ UNCHANGED handshakeVars
  \/ Configure \/ sendClientHello \/ recvServerHello \/ recvCertificate
  \/ recvServerKeyExchange \/ recvCertificateRequest \/ recvServerHelloDone
  \/ KeyExchangeAndSend \/ ReceiveDamaged \/ Expansion
  \/ BuildProtector /\ UNCHANGED handshakeVars
  \/ SealAndOpen /\ UNCHANGED handshakeVars
  \/ OpenCBC /\ UNCHANGED handshakeVars

Spec == Init /\ [][Next]_vars

-----------------------------------------------------------------------------
(* Properties *)

Parsed(env) == Value(ParseMessage(env)).msg
Types(t) == {i \in DOMAIN transcript : transcript[i][1] = TypeCode[t]}
The(t) == Parsed(transcript[CHOOSE i \in Types(t) : TRUE])

\* ExtensionTypes is what a ServerHello came with, not what it says.
Content(m) == IF m.type = "ServerHello" THEN [m EXCEPT !.ExtensionTypes = <<>>] ELSE m

Same(env) ==
  \A r \in ParseMessage(env) : r.msg.type # "CertificateRequest" =>
    \E again \in ParseMessage(MarshalMessage(r.msg)) :
      again.rest = <<>> /\ Content(again.msg) = Content(r.msg)

\* Parsing undoes marshalling.  Whatever configuration is accepted, every
\* message the client sends parses, the ClientHello to what was meant; and
\* whatever a parser accepts, of messages damaged in transit too, marshals to
\* a message that parses to the same.
MessagesRoundTrip ==
  /\ pc = "recvServerHello" => ParseMessage(transcript[1]) = {[msg |-> Hello, rest |-> <<>>]}
  /\ pc = "expand" =>
       \A i \in DOMAIN transcript : ParseMessage(transcript[i]) # Fail /\ Same(transcript[i])
  /\ received # Nil /\ pc # "expand" => Same(received)

\* The extensions a ClientHello makes use of.
Offered(ext) ==
  {c \in {extServerName} : ext.ServerName # <<>>}
  \cup {c \in {extSupportedGroups} : ext.SupportedGroups # <<>>}
  \cup {c \in {extECPointFormats} : ext.ECPointFormats # <<>>}
  \cup {c \in {extSignatureAlgorithms} : ext.SignatureAlgorithms # <<>>}
  \cup {c \in {extExtendedMasterSecret} : ext.ExtendedMasterSecret}
  \cup {c \in {extRenegotiationInfo} : ext.RenegotiationInfo}

\* The i-th message, cv, signs all that came before with an algorithm of both.
SignsTranscript(hello, cv, i) ==
  /\ cv.Algorithm \in Range(certReq[1].SupportedSignatureAlgs)
  /\ cv.Algorithm \in Range(hello.ext.SignatureAlgorithms)
  /\ cv.Signature = Sign(params.Certificates[1].PrivateKey, cv.Algorithm[1],
                         Concat(SubSeq(transcript, 1, i - 1)))

\* The algorithm of the server's signature is one offered, and the certificate's.
SignedAs(hello, alg) ==
  alg \in Range(hello.ext.SignatureAlgorithms) /\ SigKey(alg[2]) = Leaf.key /\ suite.auth = Leaf.key

\* What the messages agree on was offered in hello.
Solicited(hello, sh) ==
  /\ sh.CipherSuite \in Range(hello.CipherSuites) /\ suite.id = sh.CipherSuite
  /\ sh.CompressionMethod \in Range(hello.CompressionMethods)
  /\ Range(sh.ExtensionTypes) \subseteq Offered(hello.ext)
  /\ IsInjective(sh.ExtensionTypes)
  /\ suite.kx = "ECDHE" =>
       Val(SubSeq(serverParams[1], 2, 3)) \in Range(hello.ext.SupportedGroups)
  /\ suite.kx \in {"ECDHE", "DHE"} =>
       LET n == Len(serverParams[1])
       IN SignedAs(hello, SubSeq(The("ServerKeyExchange").Body, n + 1, n + 2))
  /\ \A i \in Types("CertificateVerify") : SignsTranscript(hello, Parsed(transcript[i]), i)
  /\ Types("CertificateVerify") # {} <=>
       \E i \in Types("Certificate") : i > 3 /\ Parsed(transcript[i]).RawCerts # <<>>

\* What is agreed on was offered, on the wire and not only in the client's
\* own tables: the suite, the compression method, each extension (once), the
\* curve, the algorithm of the server's signature, which is that of the
\* certificate and of the suite; and a client that shows a certificate, and
\* no other, signs all that came before, with an algorithm the server named.
SolicitedOnly == pc = "expand" => Solicited(The("ClientHello"), The("ServerHello"))

\* Whom the configuration trusts, for signatures of a kind; none if it is one
\* the client must refuse.
Trusted(config, gost) ==
  IF gost THEN UNION {Range(r) : r \in Range(config.GOSTRoots)}
  ELSE IF config.RootCAs = Nil /\ config.RootCAPEMs = <<>> THEN SystemRoots
  ELSE UNION (Range(config.RootCAs) \cup {InPEM(b) : b \in Range(config.RootCAPEMs)})

\* A path leads from the first of certs to whom the configuration trusts.
VouchedFor(config, certs) ==
  LET gost == Certs[certs[1]].gostSig
      configured == IF gost THEN UNION {Range(r) : r \in Range(config.GOSTIntermediates)} ELSE {}
  IN PathExists(certs[1], gost, Range(Tail(certs)) \cup configured, Trusted(config, gost))

\* The certificates in DER, as the model numbers them.
ListOf(ders) == [i \in DOMAIN ders |-> ders[i][1]]

\* Those that are looked at are certificates.
WellFormed(config, ders) ==
  Range(IF config.InsecureSkipVerify THEN <<ders[1]>> ELSE ders) \subseteq {<<c>> : c \in DOMAIN Certs}

\* The first is for name, and vouched for; or verification is off.
Vouched(config, name, list) ==
  \/ config.InsecureSkipVerify
  \/ name # <<>> /\ Certs[list[1]].name = name /\ VouchedFor(config, list)

\* Accepted or not, this is the right answer to ders.
Answered(config, dialed, ders, accepted) ==
  LET name == IF config.ServerName = <<>> THEN dialed ELSE config.ServerName
  IN /\ config.RootCAs = Nil \/ config.RootCAPEMs = <<>>
     /\ \A b \in Range(config.RootCAPEMs) : InPEM(b) # {}
     /\ accepted <=> /\ ders # <<>> /\ WellFormed(config, ders) /\ Vouched(config, name, ListOf(ders))
                     /\ config.VerifyPeerCertificate # "error"

RawCertsIn(env) == IF ParseMessage(env) = Fail THEN <<>> ELSE Parsed(env).RawCerts

\* The server is whom the configuration says.  A certificate is accepted, and
\* the handshake goes on, exactly if it is for the name that was configured or
\* dialed and a path leads from it to the configured roots of its kind, never
\* to the system's when others are configured, and the callback agrees; or
\* if verification is off.  A broken list of roots is refused at once.
TrustAnchored ==
  pc \in {"flight", "badCertificate"} /\ serverParams = Nil /\ certReq = Nil =>
    Answered(case.config, case.dialed, RawCertsIn(received), pc = "flight")

\* What the server makes of the ClientKeyExchange: the pre-master secret, for
\* DHE as a number.
ServerSecret ==
  LET body == The("ClientKeyExchange").Body IN
  CASE suite.kx = "ECDHE" -> ECDHEServer(Val(SubSeq(secret.params, 2, 3)), secret.k, body)
    [] suite.kx = "DHE" -> DHEServer(secret.params, secret.k, body)
    [] suite.kx = "RSA" -> RSAServer(Leaf, body)
    [] suite.kx = "GOST2018_256" -> Gost2018Server(Variant(suite.id), Leaf, Randoms, body)
    [] OTHER -> VKOServer(suite.kx, Leaf, body)

\* Both ends hold the same pre-master secret: for every suite, from the bytes
\* of the ClientKeyExchange and its own private key, and for DHE and ECDHE
\* from parameters it made for this handshake, the server derives what the
\* client has.  A DHE secret has the length of the prime.
PreMasterAgrees ==
  pc = "expand" =>
    /\ suite.kx \in {"ECDHE", "DHE"} => serverParams = <<secret.params>>
    /\ ServerSecret # Fail
    /\ IF suite.kx = "DHE"
         THEN Val(preMaster) = Value(ServerSecret) /\ Len(preMaster) = Val(SubSeq(secret.params, 1, 2))
         ELSE preMaster = Value(ServerSecret)

\* What the comment in DHEExchange.ClientKeyExchange cites for the padding:
\* "Left-pad Z to len(p) bytes per RFC 5246 section 8.1.2", where leading
\* zero bytes of Z are stripped before it is used as the pre-master secret.
PreMasterPerRFC ==
  pc = "expand" /\ suite.kx = "DHE" => preMaster = Enc(Val(preMaster), Digits(Val(preMaster), Radix))
=============================================================================
