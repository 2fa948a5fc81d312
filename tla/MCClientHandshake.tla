------------------------- MODULE MCClientHandshake -------------------------
(* The handshake against a peer that sends any of these messages.  Each     *)
(* check of the client is decided both ways by some of them.                *)
EXTENDS ClientHandshake

MCServerMsgs ==
  {Msg("ServerHello", s, "ok") : s \in {"ECDHE_ECDSA", "RSA", "GOST", "unregistered"}}
  \cup {Msg("ServerHello", "DHE_RSA", "ok"), Msg("ServerHello", "RSA", "bad")}
  \cup {Msg("Certificate", k, "valid") : k \in {"rsa", "ecdsa", "gost"}}
  \cup {Msg("Certificate", "rsa", "invalid")}
  \cup {Msg("ServerKeyExchange", a, "genuine") : a \in {"rsa", "ecdsa", "unadvertised"}}
  \cup {Msg("ServerKeyExchange", "ecdsa", "wrong")}
  \cup {Msg("CertificateRequest", v, "-") : v \in {"match", "nomatch"}}
  \cup {Msg("Finished", v, "-") : v \in {"equal", "different"}}
  \cup {Plain("ServerHelloDone"), Plain("HelloRequest"), Plain("oversized"),
        Malformed("CertificateRequest")}
=============================================================================
