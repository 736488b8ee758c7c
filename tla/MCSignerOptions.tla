--------------------------- MODULE MCSignerOptions ---------------------------
(* Instance of SignerOptions: every key kind and strength that the checks  *)
(* tell apart, and every PEM form.                                         *)
EXTENDS SignerOptions

Key(id, kty, bits) == [id |-> id, kty |-> kty, bits |-> bits]

MCKeys == {Key("rsa", "RSA", 2048), Key("shortrsa", "RSA", 1024),
           Key("p256", "EC", 256), Key("p384", "EC", 384), Key("p224", "EC", 224),
           Key("ed", "OKP", 256)}

MCThumbprint == [k \in MCKeys |-> "thumb-" \o k.id]

PKCS8(k) == [form |-> "PRIVATE KEY", key |-> k]

MCPEMs ==
  {PKCS8(k) : k \in MCKeys}
    \union {[form |-> "RSA PRIVATE KEY", key |-> Key("rsa", "RSA", 2048)],
            [form |-> "EC PRIVATE KEY", key |-> Key("rsa", "RSA", 2048)],
            [form |-> "CERTIFICATE", key |-> NoKey],
            [form |-> "PRIVATE KEY", key |-> NoKey],
            [form |-> "", key |-> NoKey]}

MCUnreadable == [form |-> "unreadable", key |-> NoKey]

MCFileContents ==
  {PKCS8(Key("p256", "EC", 256)), [form |-> "", key |-> NoKey],
   [form |-> "text", key |-> NoKey], MCUnreadable}

MCIssuers    == {"", "https://issuer"}
MCAlgs       == {"RS256", "PS256", "ES256", "ES384", "HS256"}
MCKeyIDs     == {"", "k1"}
MCTTLs       == {-1, 0, 60}
MCClaimNames == {"", "jti"}
MCTyps       == {"", "at+jwt"}
=============================================================================
