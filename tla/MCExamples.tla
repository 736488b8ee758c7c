----------------------------- MODULE MCExamples -----------------------------
(* Instance of Examples: two ticks to a second, two ticks at the start     *)
(* and four around the end of the first tokens' five minutes.              *)
EXTENDS Examples

MCKey == [id |-> "demo", kty |-> "RSA", bits |-> 2048]
MCKeys == {MCKey}
MCThumbprint == [k \in MCKeys |-> "thumb-" \o k.id]

Start == 1000
MCTimes == {Start, Start + 1} \union (Start + 598 .. Start + 601)

MCContents == [o \in {} |-> {}]
=============================================================================
