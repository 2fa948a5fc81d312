------------------------------- MODULE Trust --------------------------------
(***************************************************************************)
(* What a client is configured with and whom it trusts: Config and its     *)
(* methods (config.go), the part of doHandshake (conn.go) that makes       *)
(* ClientParams of it, and the verification of the server's certificates   *)
(* (cert_gost.go).                                                         *)
(*                                                                         *)
(* A certificate is a number, the DER of which is the one byte <<number>>. *)
(* A nil pointer or slice is <<>>, anything else <<value>>.                *)
(***************************************************************************)
EXTENDS Codec, FiniteSets

CONSTANTS
  Certs,       \* what each certificate says
  SystemRoots  \* the OS trust store

\* key and its curve and numbers, the DER of its AlgorithmIdentifier; who
\* signed the certificate, and whether that is a GOST signature.
ASSUME TrustAssumption ==
  /\ DOMAIN Certs \subseteq 1 .. 255 /\ SystemRoots \subseteq DOMAIN Certs
  /\ \A c \in DOMAIN Certs :
       /\ {"key", "curve", "pub", "priv", "algo", "gostSig", "issuer", "name"} = DOMAIN Certs[c]
       /\ Certs[c].issuer \in DOMAIN Certs
       /\ Certs[c].gostSig = (Certs[Certs[c].issuer].key = "GOST")

Nil == <<>>

ParseCertificate(der) == Check(Len(der) = 1 /\ der[1] \in DOMAIN Certs, der[1])

\* All of a list, or the first error.
ParseCertificates(ders) ==
  IF \E i \in DOMAIN ders : ParseCertificate(ders[i]) = Fail THEN Fail
  ELSE {[i \in DOMAIN ders |-> Value(ParseCertificate(ders[i]))]}

-----------------------------------------------------------------------------
(* config.go *)

\* The certificates AppendCertsFromPEM finds: blocks that do not parse, and
\* blocks of another type, are skipped.
InPEM(blocks) == {blocks[i] : i \in DOMAIN blocks} \cap DOMAIN Certs

\* Mutant: elements without certificates are skipped, and no certificate at
\* all means no pool.
PoolSkipping(config) ==
  LET pool == UNION {InPEM(config.RootCAPEMs[i]) : i \in DOMAIN config.RootCAPEMs} IN
  IF config.RootCAs # Nil THEN Check(config.RootCAPEMs = <<>>, config.RootCAs)
  ELSE {IF pool = {} THEN Nil ELSE <<pool>>}

rootCAPool(config) ==
  LET elements == [i \in DOMAIN config.RootCAPEMs |-> InPEM(config.RootCAPEMs[i])] IN
  IF config.RootCAs # Nil THEN Check(config.RootCAPEMs = <<>>, config.RootCAs)
  ELSE IF config.RootCAPEMs = <<>> THEN {Nil}
  ELSE Check(\A i \in DOMAIN elements : elements[i] # {},
             <<UNION {elements[i] : i \in DOMAIN elements}>>)

\* Mutant: a certificate that is parsed already needs no RawCertificate.
ClientCertsUnchecked(config) ==
  Check(\A i \in DOMAIN config.Certificates :
          LET cert == config.Certificates[i] IN
          /\ cert.PrivateKey \in {"RSA", "P256", "P384", "P521"}
          /\ cert.Parsed \/ ParseCertificate(cert.RawCertificate) # Fail,
        config.Certificates)

\* A private key is RSA or ECDSA on some curve, or of another type.
clientCerts(config) ==
  Check(\A i \in DOMAIN config.Certificates :
          LET cert == config.Certificates[i] IN
          /\ cert.PrivateKey \in {"RSA", "P256", "P384", "P521"}
          /\ cert.RawCertificate # <<>>
          /\ cert.Parsed \/ ParseCertificate(cert.RawCertificate) # Fail,
        config.Certificates)

\* doHandshake: the parameters of the handshake.  dialed is the host of the
\* address the Dialer was given, available the suites offered by default.
ClientParams(config, dialed, available) ==
  LET offered == IF config.CipherSuites = Nil THEN available ELSE config.CipherSuites[1]
      name == IF config.ServerName = <<>> THEN dialed ELSE config.ServerName
  IN IF offered = <<>> \/ (name = <<>> /\ ~config.InsecureSkipVerify) THEN Fail
     ELSE {[ServerName |-> name, OfferedSuites |-> offered, RootCAs |-> roots,
            GOSTRoots |-> config.GOSTRoots, GOSTIntermediates |-> config.GOSTIntermediates,
            InsecureSkipVerify |-> config.InsecureSkipVerify,
            VerifyPeerCertificate |-> config.VerifyPeerCertificate, Certificates |-> certs] :
             roots \in rootCAPool(config), certs \in clientCerts(config)}

-----------------------------------------------------------------------------
(* cert_gost.go *)

\* Verify of crypto/x509 and of x509gost: a chain of signatures of its kind
\* leads through inter to one of roots.
Anchored(c, gost, inter, roots) ==
  LET signed(d, by) == Certs[d].gostSig = gost /\ Certs[d].issuer \in by
      anchors[i \in 0 .. Cardinality(inter)] ==   \* at most i links lead to roots
        IF i = 0 THEN roots ELSE anchors[i - 1] \cup {d \in inter : signed(d, anchors[i - 1])}
  IN signed(c, anchors[Cardinality(inter)])

extractGOSTRoots(v) == IF v = Nil THEN Fail ELSE Check(v[1] # <<>>, v[1])
extractGOSTIntermediates(v) == IF v = Nil THEN <<>> ELSE v[1]

\* rawCerts[1:] is parsed before anything is verified.  A nil RootCAs means
\* the roots of the system.
Verified(params, leaf, wire) ==
  IF Certs[leaf].gostSig
    THEN LET roots == extractGOSTRoots(params.GOSTRoots)
             inter == extractGOSTIntermediates(params.GOSTIntermediates) \o wire
         IN \E r \in roots : Anchored(leaf, TRUE, Range(inter), Range(r))
    ELSE Anchored(leaf, FALSE, Range(wire),
                  IF params.RootCAs = Nil THEN SystemRoots ELSE params.RootCAs[1])

\* The leaf, and gostLeaf if it has a GOST key.
parseAndVerifyChain(params, rawCerts) ==
  LET vouched(leaf) == /\ Certs[leaf].name = params.ServerName
                       /\ \E wire \in ParseCertificates(Tail(rawCerts)) : Verified(params, leaf, wire)
  IN {[leaf |-> leaf, gostLeaf |-> IF Certs[leaf].key = "GOST" THEN <<leaf>> ELSE Nil] :
        leaf \in {l \in ParseCertificate(rawCerts[1]) : params.InsecureSkipVerify \/ vouched(l)}}

-----------------------------------------------------------------------------
(* What verification promises *)

\* Some path of issuers leads from c through inter to one of roots.  It need
\* not be longer than a path that visits each of inter once.
PathExists(c, gost, inter, roots) ==
  \E n \in 0 .. Cardinality(inter) : \E path \in [1 .. n -> inter] :
    LET At(i) == IF i = 0 THEN c ELSE path[i]
    IN /\ \A i \in 0 .. n : Certs[At(i)].gostSig = gost
       /\ \A i \in 0 .. n - 1 : Certs[At(i)].issuer = At(i + 1)
       /\ Certs[At(n)].issuer \in roots
=============================================================================
