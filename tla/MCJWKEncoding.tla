---------------------------- MODULE MCJWKEncoding ----------------------------
(* Instance of JWKEncoding with four values to a byte: a curve with one-   *)
(* byte coordinates, one with three-byte ones (one, two or three leading   *)
(* zeros, in either coordinate or both), RSA moduli with and without the   *)
(* top bit, and exponents up to and beyond an int of two bytes.  Both      *)
(* curves have a point that is another one without its x, and the larger   *)
(* one a point that is another one without the last byte of its x.         *)
EXTENDS JWKEncoding

MCCoordinateSize == [crv \in {"P-256", "P-384"} |-> IF crv = "P-256" THEN 1 ELSE 3]

MCPoints == [crv \in {"P-256", "P-384"} |->
  IF crv = "P-256"
  THEN {<<<<3>>, <<1>>>>, <<<<3>>, <<2>>>>, <<<<>>, <<2>>>>}
  ELSE {<<<<1, 2, 3>>, <<3, 0, 1>>>>, <<<<3, 2>>, <<2, 2, 1>>>>,
        <<<<2, 1, 0>>, <<2>>>>, <<<<2, 1>>, <<2>>>>, <<<<>>, <<2>>>>,
        <<<<1>>, <<1, 1>>>>, <<<<3, 1, 1>>, <<>>>>}]

MCRSAKeys == {RSAKey(n, e) : n \in {<<1, 0, 3>>, <<3, 2, 1>>},
                             e \in {<<1>>, <<3>>, <<1, 1>>, <<3, 1>>, <<1, 0, 3>>}}

MCOtherParams == {ECKey("P-224", <<1>>, <<1>>), [kty |-> "OKP"]}
=============================================================================
