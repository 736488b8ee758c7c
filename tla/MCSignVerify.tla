---------------------------- MODULE MCSignVerify ----------------------------
(* Instance of SignVerify: two Signers with the same explicit kid, two     *)
(* whose token-type claim is "iss" or "aud", RSA and EC, and JWKs that     *)
(* NewVerifier or publicKey refuse.                                        *)
EXTENDS SignVerify

Key(id, kty, bits) == [id |-> id, kty |-> kty, bits |-> bits]

RSAKey == Key("rsa", "RSA", 2048)
ECKey  == Key("p256", "EC", 256)
MCKeys == {RSAKey, ECKey}
MCThumbprint == [k \in MCKeys |-> "thumb-" \o k.id]

Config(key, alg, kid, name) ==
  [issuer |-> "https://issuer", algorithm |-> alg, keyID |-> kid,
   keyPEM |-> [form |-> "PRIVATE KEY", key |-> key], defaultTTL |-> 3,
   clock |-> "injected", tokenTypeClaim |-> name, headerTyp |-> "JWT"]

MCSigners == {Signer(cfg) : cfg \in
  {Config(RSAKey, "RS256", "", "token_type"), Config(RSAKey, "PS256", "k1", "token_type"),
   Config(ECKey, "ES256", "k1", "token_type"), Config(ECKey, "ES256", "", "iss"),
   Config(ECKey, "ES256", "", "aud")}}

JWK(kty, alg, kid, pub) == [kty |-> kty, alg |-> alg, kid |-> kid, pub |-> pub]

MCForeignJWKs ==
  {JWK("RSA", "", "f1", RSAKey), JWK("RSA", "RS256", "", RSAKey),
   JWK("oct", "HS256", "thumb-rsa", NoKey), JWK("EC", "ES256", "thumb-p256", NoKey),
   JWK("RSA", "RS256", "thumb-rsa", NoKey), JWK("RSA", "RS256", "thumb-rsa", Garbled),
   JWK("RSA", "PS512", "thumb-rsa", RSAKey)}

\* No key, one, two of the Signers' in either order, one of them beside another.
MCJWKSets ==
  LET own == {s.jwk : s \in MCSigners}
  IN  {<<>>} \union {<<j>> : j \in own \union MCForeignJWKs}
        \union {<<j, k>> : j, k \in own}
        \union {<<k, j>> : j \in {o \in own : o.alg = "RS256"}, k \in MCForeignJWKs}

MCExpectations ==
  {[iss |-> "", aud |-> ""], [iss |-> "https://issuer", aud |-> "api"],
   [iss |-> "https://other", aud |-> ""], [iss |-> "", aud |-> "https://other"]}

MCRequests ==
  {[op |-> "custom", sub |-> TRUE, aud |-> {"api"}, ttl |-> ttl,
    authTime |-> [set |-> FALSE, unix |-> 0], amr |-> FALSE, loa |-> "",
    type |-> "https://other", clientID |-> FALSE, optional |-> {}, key |-> "", acr |-> "",
    object |-> NoObject, byRef |-> FALSE] : ttl \in {0, 1}}

MCContents == [o \in {} |-> {}]

MCSkews == {-2, 1}
=============================================================================
