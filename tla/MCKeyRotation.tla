---------------------------- MODULE MCKeyRotation ----------------------------
(* Instance of KeyRotation: a key whose kid is its thumbprint, a key whose *)
(* kid is not, and a key that NewSigner refuses.                           *)
EXTENDS KeyRotation

Key(id, bits) == [id |-> id, kty |-> "RSA", bits |-> bits]

Thumbed == Key("a", 4096)
Named   == Key("b", 4096)
Short   == Key("c", 1024)

MCKeys == {Thumbed, Named, Short}
MCThumbprint == [k \in MCKeys |-> "thumb-" \o k.id]
MCServiceKid == [k \in MCKeys |-> IF k = Thumbed THEN MCThumbprint[k] ELSE "kid-" \o k.id]

\* Two keys at a time are enough for a rotation.
GoodKeys == {Thumbed, Named}
GoodThumbprint == [k \in GoodKeys |-> MCThumbprint[k]]
GoodServiceKid == [k \in GoodKeys |-> MCServiceKid[k]]

WeakKeys == {Thumbed, Short}
WeakThumbprint == [k \in WeakKeys |-> MCThumbprint[k]]
WeakServiceKid == [k \in WeakKeys |-> MCServiceKid[k]]

MCContents == [o \in {} |-> {}]
=============================================================================
