------------------------------- MODULE Codec --------------------------------
(***************************************************************************)
(* The wire format of handshake messages (wire.go, extensions.go,          *)
(* messages.go, types.go), as operators on sequences of bytes.  A message  *)
(* is a record with the fields of its Go struct, and "type".  A parser     *)
(* returns the set of its results: one value, or none if it fails; which   *)
(* error is returned is left out.                                          *)
(* All codes and lengths are those of the code.                            *)
(***************************************************************************)
EXTENDS Integers, Sequences, Functions

Radix           == 256
tlsRandomLen    == 32
maxSessionIDLen == 32
verifyLens      == {12, 32}   \* of verify_data

Fail == {}
Check(cond, v) == IF cond THEN {v} ELSE Fail
Value(r) == CHOOSE v \in r : TRUE

-----------------------------------------------------------------------------
(* wire.go *)

\* appendUint8, appendUint16, appendUint24: v in w bytes, truncated to them.
Enc(v, w) == [i \in 1 .. w |-> (v \div Radix ^ (w - i)) % Radix]

\* binary.BigEndian.Uint16 and its like
Val(b) ==
  LET val[i \in 0 .. Len(b)] == IF i = 0 THEN 0 ELSE val[i - 1] * Radix + b[i]
  IN val[Len(b)]

\* appendLenPrefixed8, appendLenPrefixed16: the length is truncated, the data is not.
Prefixed(w, data) == Enc(Len(data), w) \o data

\* The elements of ss, which are sequences, one after the other.
Concat(ss) ==
  LET cat[i \in 0 .. Len(ss)] == IF i = 0 THEN <<>> ELSE cat[i - 1] \o ss[i]
  IN cat[Len(ss)]

Drop(b, k) == SubSeq(b, k + 1, Len(b))

\* A field of a struct on the wire: k bytes, or a length in w bytes and as
\* many bytes as it says.
Fixed(k) == [len |-> k, pfx |-> 0]
Var(w)   == [len |-> 0, pfx |-> w]

\* readUint8, readUint16, readBytes, readLenPrefixed8, 16 and 24
ReadField(b, field) ==
  LET n    == IF field.pfx = 0 THEN field.len ELSE Val(SubSeq(b, 1, field.pfx))
      data == Drop(b, field.pfx)
  IN IF Len(b) < field.pfx THEN Fail
     ELSE Check(Len(data) >= n, [value |-> SubSeq(data, 1, n), rest |-> Drop(data, n)])

\* The fields of layout one after the other, and what follows them.
Split(b, layout) ==
  LET split[i \in 0 .. Len(layout)] ==
        IF i = 0 THEN {[f |-> <<>>, rest |-> b]}
        ELSE UNION {{[f |-> Append(s.f, r.value), rest |-> r.rest] :
                       r \in ReadField(s.rest, layout[i])} : s \in split[i - 1]}
  IN split[Len(layout)]

\* The loop of a list of structs: until no byte is left, which is after Len(b)
\* turns at the latest.
Entries(b, layout) ==
  LET entries[i \in 0 .. Len(b)] ==
        IF i = 0 THEN {[es |-> <<>>, rest |-> b]}
        ELSE UNION {IF e.rest = <<>> THEN {e}
                    ELSE {[es |-> Append(e.es, s.f), rest |-> s.rest] : s \in Split(e.rest, layout)} :
                      e \in entries[i - 1]}
  IN {e.es : e \in entries[Len(b)]}

Pairs(b)   == [i \in 1 .. Len(b) \div 2 |-> <<b[2 * i - 1], b[2 * i]>>]
Uint16s(b) == [i \in 1 .. Len(b) \div 2 |-> Val(Pairs(b)[i])]
Even(b)    == Len(b) % 2 = 0
PutUint16s(vs) == Concat([i \in DOMAIN vs |-> Enc(vs[i], 2)])

-----------------------------------------------------------------------------
(* extensions.go *)

extServerName           == 0
extSupportedGroups      == 10
extECPointFormats       == 11
extSignatureAlgorithms  == 13
extExtendedMasterSecret == 23
extRenegotiationInfo    == \hFF01

\* parsedExtensions
NoExt == [ServerName |-> <<>>, SupportedGroups |-> <<>>, ECPointFormats |-> <<>>,
          SignatureAlgorithms |-> <<>>, ExtendedMasterSecret |-> FALSE,
          RenegotiationInfo |-> FALSE]

\* A list of host names, of which the last is kept; bytes after it are ignored.
parseServerName(b) ==
  IF b = <<>> THEN {<<>>}
  ELSE LET lists == UNION {Entries(s.f[1], <<Fixed(1), Var(2)>>) : s \in Split(b, <<Var(2)>>)}
       IN {IF es = <<>> THEN <<>> ELSE es[Len(es)][2] :
             es \in {l \in lists : \A i \in DOMAIN l : l[i][1] = <<0>>}}

\* parseSupportedGroups and parseSignatureAlgorithms: a list of pairs of bytes.
ParsePairs(b) == {s.f[1] : s \in {r \in Split(b, <<Var(2)>>) : Even(r.f[1])}}

parseECPointFormats(b) == {s.f[1] : s \in Split(b, <<Var(1)>>)}

\* One turn of the loop of parseExtensions, after the header.
ParseExtension(ext, code, body) ==
  CASE code = extServerName ->
         {[ext EXCEPT !.ServerName = v] : v \in parseServerName(body)}
    [] code = extSupportedGroups ->
         {[ext EXCEPT !.SupportedGroups = Uint16s(v)] : v \in ParsePairs(body)}
    [] code = extECPointFormats ->
         {[ext EXCEPT !.ECPointFormats = v] : v \in parseECPointFormats(body)}
    [] code = extSignatureAlgorithms ->
         {[ext EXCEPT !.SignatureAlgorithms = Pairs(v)] : v \in ParsePairs(body)}
    [] code = extExtendedMasterSecret ->
         Check(body = <<>>, [ext EXCEPT !.ExtendedMasterSecret = TRUE])
    [] code = extRenegotiationInfo ->
         Check(body = <<0>>, [ext EXCEPT !.RenegotiationInfo = TRUE])
    [] OTHER -> Fail

ParseEach(es) ==
  LET parsed[i \in 0 .. Len(es)] ==
        IF i = 0 THEN {NoExt}
        ELSE UNION {ParseExtension(ext, Val(es[i][1]), es[i][2]) : ext \in parsed[i - 1]}
  IN parsed[Len(es)]

\* The extensions and their codes, none of which may come twice.
parseExtensions(b) ==
  UNION {LET seen == [i \in DOMAIN es |-> Val(es[i][1])]
         IN IF IsInjective(seen) THEN {[ext |-> ext, seen |-> seen] : ext \in ParseEach(es)}
                                 ELSE Fail :
         es \in Entries(b, <<Fixed(2), Var(2)>>)}

appendExtension(cond, code, body) == IF cond THEN Enc(code, 2) \o Prefixed(2, body) ELSE <<>>

marshalExtensions(ext) ==
  LET bytes ==
        appendExtension(ext.ServerName # <<>>, extServerName,
                        Prefixed(2, <<0>> \o Prefixed(2, ext.ServerName)))
        \o appendExtension(ext.SupportedGroups # <<>>, extSupportedGroups,
                           Prefixed(2, PutUint16s(ext.SupportedGroups)))
        \o appendExtension(ext.ECPointFormats # <<>>, extECPointFormats,
                           Prefixed(1, ext.ECPointFormats))
        \o appendExtension(ext.SignatureAlgorithms # <<>>, extSignatureAlgorithms,
                           Prefixed(2, Concat(ext.SignatureAlgorithms)))
        \o appendExtension(ext.ExtendedMasterSecret, extExtendedMasterSecret, <<>>)
        \o appendExtension(ext.RenegotiationInfo, extRenegotiationInfo, <<0>>)
  IN IF bytes = <<>> THEN <<>> ELSE Prefixed(2, bytes)

\* The optional block of extensions that ends a hello.
HelloExtensions(b) ==
  IF b = <<>> THEN {[ext |-> NoExt, seen |-> <<>>]}
  ELSE UNION {parseExtensions(s.f[1]) : s \in {r \in Split(b, <<Var(2)>>) : r.rest = <<>>}}

-----------------------------------------------------------------------------
(* messages.go *)

marshalClientHello(m) ==
  Enc(m.Version, 2) \o m.Random \o Prefixed(1, m.SessionID)
  \o Prefixed(2, PutUint16s(m.CipherSuites)) \o Prefixed(1, m.CompressionMethods)
  \o marshalExtensions(m.ext)

parseClientHello(b) ==
  LET valid(s) == /\ Len(s.f[3]) <= maxSessionIDLen
                  /\ Even(s.f[4]) /\ s.f[4] # <<>> /\ s.f[5] # <<>>
      fields == Split(b, <<Fixed(2), Fixed(tlsRandomLen), Var(1), Var(2), Var(1)>>)
  IN UNION {{[type |-> "ClientHello", Version |-> Val(s.f[1]), Random |-> s.f[2],
              SessionID |-> s.f[3], CipherSuites |-> Uint16s(s.f[4]),
              CompressionMethods |-> s.f[5], ext |-> e.ext] : e \in HelloExtensions(s.rest)} :
              s \in {r \in fields : valid(r)}}

\* A ServerHello has two extensions to send, and records the codes of those
\* it came with.
marshalServerHello(m) ==
  Enc(m.Version, 2) \o m.Random \o Prefixed(1, m.SessionID)
  \o Enc(m.CipherSuite, 2) \o Enc(m.CompressionMethod, 1)
  \o marshalExtensions([NoExt EXCEPT !.ExtendedMasterSecret = m.ExtendedMasterSecret,
                                     !.RenegotiationInfo = m.RenegotiationInfo])

parseServerHello(b) ==
  LET fields == Split(b, <<Fixed(2), Fixed(tlsRandomLen), Var(1), Fixed(2), Fixed(1)>>)
  IN UNION {{[type |-> "ServerHello", Version |-> Val(s.f[1]), Random |-> s.f[2],
              SessionID |-> s.f[3], CipherSuite |-> Val(s.f[4]),
              CompressionMethod |-> Val(s.f[5]),
              ExtendedMasterSecret |-> e.ext.ExtendedMasterSecret,
              RenegotiationInfo |-> e.ext.RenegotiationInfo, ExtensionTypes |-> e.seen] :
                e \in {x \in HelloExtensions(s.rest) : x.ext.ServerName = <<>>}} :
              s \in {r \in fields : Len(r.f[3]) <= maxSessionIDLen}}

marshalCertificate(m) ==
  Prefixed(3, Concat([i \in DOMAIN m.RawCerts |-> Prefixed(3, m.RawCerts[i])]))

parseCertificate(b) ==
  LET lists == UNION {Entries(s.f[1], <<Var(3)>>) :
                        s \in {r \in Split(b, <<Var(3)>>) : r.rest = <<>>}}
  IN {[type |-> "Certificate", RawCerts |-> [i \in DOMAIN es |-> es[i][1]]] :
        es \in {l \in lists : \A i \in DOMAIN l : l[i][1] # <<>>}}

parseCertificateRequest(b) ==
  LET fields == Split(b, <<Var(1), Var(2), Var(2)>>)
  IN UNION {{[type |-> "CertificateRequest", CertificateTypes |-> s.f[1],
              SupportedSignatureAlgs |-> Pairs(s.f[2]),
              CertificateAuthorities |-> [i \in DOMAIN es |-> es[i][1]]] :
                es \in Entries(s.f[3], <<Var(2)>>)} :
              s \in {r \in fields : r.rest = <<>> /\ Even(r.f[2])}}

marshalCertificateVerify(m) == m.Algorithm \o Prefixed(2, m.Signature)

\* Bytes after the signature are ignored.
parseCertificateVerify(b) ==
  {[type |-> "CertificateVerify", Algorithm |-> s.f[1], Signature |-> s.f[2]] :
     s \in Split(b, <<Fixed(2), Var(2)>>)}

-----------------------------------------------------------------------------
(* types.go *)

TypeCode == [HelloRequest |-> 0, ClientHello |-> 1, ServerHello |-> 2, Certificate |-> 11,
             ServerKeyExchange |-> 12, CertificateRequest |-> 13, ServerHelloDone |-> 14,
             CertificateVerify |-> 15, ClientKeyExchange |-> 16, Finished |-> 20]

\* A CertificateRequest is only received: its Marshal returns nil.
Marshal(m) ==
  CASE m.type = "ClientHello" -> marshalClientHello(m)
    [] m.type = "ServerHello" -> marshalServerHello(m)
    [] m.type = "Certificate" -> marshalCertificate(m)
    [] m.type = "CertificateVerify" -> marshalCertificateVerify(m)
    [] m.type \in {"ServerKeyExchange", "ClientKeyExchange", "Finished"} -> m.Body
    [] m.type \in {"HelloRequest", "ServerHelloDone", "CertificateRequest"} -> <<>>

MarshalMessage(m) == <<TypeCode[m.type]>> \o Prefixed(3, Marshal(m))

ParseBody(type, b) ==
  CASE type = "ClientHello" -> parseClientHello(b)
    [] type = "ServerHello" -> parseServerHello(b)
    [] type = "Certificate" -> parseCertificate(b)
    [] type = "CertificateRequest" -> parseCertificateRequest(b)
    [] type = "CertificateVerify" -> parseCertificateVerify(b)
    [] type \in {"ServerKeyExchange", "ClientKeyExchange"} -> {[type |-> type, Body |-> b]}
    [] type = "Finished" -> Check(Len(b) \in verifyLens, [type |-> type, Body |-> b])
    [] type \in {"HelloRequest", "ServerHelloDone"} -> Check(b = <<>>, [type |-> type])

\* The first message of data, and what follows it.
ParseMessage(data) ==
  UNION {UNION {{[msg |-> m, rest |-> s.rest] : m \in ParseBody(t, s.f[2])} :
                  t \in {u \in DOMAIN TypeCode : TypeCode[u] = s.f[1][1]}} :
           s \in Split(data, <<Fixed(1), Var(3)>>)}
=============================================================================
