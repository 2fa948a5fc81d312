--------------------------- MODULE MCNegotiation ----------------------------
(* Instances of Negotiation for TLC. *)
EXTENDS Negotiation

-----------------------------------------------------------------------------
(* Certificates *)

NoCurve == [oid |-> "none", len |-> 0]
A256 == [oid |-> "CryptoPro-A", len |-> 64]
A512 == [oid |-> "paramSetA", len |-> 128]
Host == <<104>>
Algo == DER(\h30, <<6, 1, 42>>)

Plain(key, number, issuer, gostSig, name) ==
  [key |-> key, curve |-> NoCurve, pub |-> number, priv |-> number, algo |-> Algo,
   gostSig |-> gostSig, issuer |-> issuer, name |-> name]
Gost(curve, k, issuer, gostSig, name) ==
  [key |-> "GOST", curve |-> curve, pub |-> GOSTPublic(curve, k), priv |-> k, algo |-> Algo,
   gostSig |-> gostSig, issuer |-> issuer, name |-> name]

MCCerts == <<
  Plain("RSA", 51, 4, FALSE, Host),       \* 1: issued by the root 4
  Plain("ECDSA", 52, 3, FALSE, Host),     \* 2: by the intermediate 3
  Plain("RSA", 53, 4, FALSE, <<>>),       \* 3
  Plain("RSA", 54, 4, FALSE, <<>>),       \* 4: a root
  Plain("RSA", 55, 5, FALSE, <<>>),       \* 5: a root of the system
  Plain("RSA", 56, 5, FALSE, Host),       \* 6: issued by it
  Plain("RSA", 57, 4, FALSE, <<105>>),    \* 7: of another host
  Gost(A256, 3, 10, TRUE, Host),          \* 8: issued by the GOST root 10
  Gost(A256, 4, 10, TRUE, <<>>),          \* 9: a GOST intermediate
  Gost(A256, 5, 10, TRUE, <<>>),          \* 10: a GOST root
  Gost(A512, 6, 9, TRUE, Host),           \* 11: issued by the intermediate 9
  Gost(A256, 7, 4, FALSE, Host),          \* 12: a GOST key, the root 4
  Gost(NoCurve, 2, 4, FALSE, Host)>>      \* 13: on a curve that is not known

MCSystemRoots == {5}

-----------------------------------------------------------------------------
(* Configurations *)

Trusting ==
  [RootCAs |-> <<{4}>>, RootCAPEMs |-> <<>>, GOSTRoots |-> <<<<10>>>>,
   GOSTIntermediates |-> <<<<9>>>>, Certificates |-> <<>>, ServerName |-> Host,
   CipherSuites |-> Nil, InsecureSkipVerify |-> FALSE, VerifyPeerCertificate |-> "none"]

Case(focus, config) == [focus |-> focus, config |-> config, dialed |-> <<>>]

SuiteIDs(suites) == [i \in DOMAIN suites |-> suites[i].id]

HelloCases ==
  {Case("hello", [Trusting EXCEPT !.CipherSuites = s, !.ServerName = n, !.InsecureSkipVerify = i]) :
     s \in {<<<<\hC02F>>>>, <<<<\h1301, \hC030, \h0081>>>>, <<<<>>>>, Nil},
     n \in {Host, <<>>}, i \in BOOLEAN}

\* A block of PEM is a certificate, a damaged one (0), or a key (-1).
TrustCases ==
  {[focus |-> "trust", dialed |-> n[1],
    config |-> [Trusting EXCEPT !.CipherSuites = <<<<\hC02F>>>>, !.ServerName = n[2],
                  !.RootCAs = r[1], !.RootCAPEMs = r[2], !.GOSTRoots = g[1],
                  !.GOSTIntermediates = g[2], !.InsecureSkipVerify = v[1],
                  !.VerifyPeerCertificate = v[2]]] :
     n \in {<<Host, <<>>>>, <<Host, <<105>>>>, <<<<>>, <<>>>>},
     r \in {<<Nil, <<>>>>, <<<<{4}>>, <<>>>>, <<<<{}>>, <<>>>>, <<<<{4}>>, <<<<4>>>>>>,
            <<Nil, <<<<4>>>>>>, <<Nil, <<<<4>>, <<-1>>>>>>, <<Nil, <<<<-1>>>>>>,
            <<Nil, <<<<0, 4>>, <<5>>>>>>, <<Nil, <<<<0>>>>>>},
     g \in {<<Nil, Nil>>, <<<<<<10>>>>, Nil>>, <<<<<<10>>>>, <<<<9>>>>>>, <<<<<<>>>>, <<<<9>>>>>>},
     v \in {<<FALSE, "none">>, <<FALSE, "error">>, <<TRUE, "ok">>}}

KexCases == {Case("kex", [Trusting EXCEPT !.CipherSuites = <<SuiteIDs(Registrations)>>])}

ClientCert(key, raw, parsed) == [PrivateKey |-> key, RawCertificate |-> raw, Parsed |-> parsed]

AuthCases ==
  {Case("auth", [Trusting EXCEPT !.CipherSuites = <<<<\hC02F, \h009C>>>>, !.Certificates = c]) :
     c \in {<<>>, <<ClientCert("other", <<1>>, TRUE)>>}
           \cup {<<ClientCert(key, raw, parsed)>> :
                   key \in {"RSA", "P256", "P384", "P521"}, raw \in {<<1>>, <<99>>, <<>>},
                   parsed \in BOOLEAN}}

MCCases ==
  HelloCases \cup TrustCases \cup KexCases \cup AuthCases \cup {Case("wire", Trusting)}

DHECases == {Case("kex", [Trusting EXCEPT !.CipherSuites = <<<<\h009E>>>>])}

-----------------------------------------------------------------------------
(* Messages of the server *)

\* Lists of up to two certificates, one of which may not parse, and one of three.
MCCertLists ==
  LET ids == DOMAIN Certs \cup {99}
  IN {<<>>, <<11, 9, 10>>, <<2, 3, 99>>} \cup {<<a>> : a \in ids}
     \cup {<<a, b>> : a \in ids, b \in {3, 9, 99}}

MCInter == <<3>>

MCGroups == {[p |-> 467, len |-> 2, g |-> 2], [p |-> 467, len |-> 3, g |-> 2],
             [p |-> 251, len |-> 1, g |-> 6], [p |-> 466, len |-> 2, g |-> 3],
             [p |-> 467, len |-> 2, g |-> 1]}

MCSigAlgLists == {<<>>, <<<<4, 1>>>>, <<<<2, 1>>, <<5, 3>>>>, <<<<5, 1>>, <<4, 3>>, <<4, 1>>>>}

MCSamples ==
  {MarshalMessage([type |-> "ClientHello", Version |-> \h0303, Random |-> clientRandom,
     SessionID |-> <<5>>, CipherSuites |-> <<\hC02F, \h009C>>, CompressionMethods |-> <<0>>,
     ext |-> [ServerName |-> Host, SupportedGroups |-> <<\h17, \h1D>>, ECPointFormats |-> <<0>>,
              SignatureAlgorithms |-> <<<<4, 1>>, <<4, 3>>>>, ExtendedMasterSecret |-> TRUE,
              RenegotiationInfo |-> TRUE]]),
   Envelope("ServerHello", ServerHelloBody(\h0303, <<5>>, \hC02F, 0,
     Prefixed(2, appendExtension(TRUE, extECPointFormats, <<1, 0>>)
                 \o appendExtension(TRUE, extExtendedMasterSecret, <<>>)
                 \o appendExtension(TRUE, extRenegotiationInfo, <<0>>)))),
   MarshalMessage([type |-> "Certificate", RawCerts |-> <<<<1, 2>>, <<3>>>>]),
   Envelope("CertificateRequest",
            Prefixed(1, <<1>>) \o Prefixed(2, <<4, 1>>) \o Prefixed(2, Prefixed(2, <<7>>))),
   MarshalMessage([type |-> "CertificateVerify", Algorithm |-> <<4, 1>>, Signature |-> <<9, 9>>]),
   Envelope("ServerKeyExchange", <<3>>), Envelope("ClientKeyExchange", <<0, 1, 7>>),
   Envelope("HelloRequest", <<>>), Envelope("ServerHelloDone", <<>>),
   Envelope("Finished", [i \in 1 .. 12 |-> i])}

-----------------------------------------------------------------------------
\* IVs with overflowing bytes in every place, or only the last.
MCFixedIVs ==
  {[i \in 1 .. n |-> IF i = n THEN b ELSE a] : n \in {4, 8, 12}, a, b \in {0, 1, 255}}

\* Around each place where a byte, a TLSTree key or the counter overflows.
MCSeqs ==
  LET At(a, b, c) == [i \in 1 .. 8 |-> IF i = 8 THEN c ELSE IF i = 7 THEN b ELSE a]
      Low(d, c) == [i \in 1 .. 8 |-> IF i < 5 THEN d ELSE c]
  IN {At(a, b, c) : a \in {0, 255}, b \in {0, 15, 16, 255}, c \in {0, 1, 63, 64, 255}}
     \cup {Low(d, c) : d \in {0, 1, 2, 255}, c \in {0, 255}}
=============================================================================
