-------------------------------- MODULE Jose --------------------------------
(***************************************************************************)
(* wimsey-jose: algorithms, JSON Web Keys, and the signature part of a     *)
(* compact JWS.  A key pair is [alg, secret]: its secret and its algorithm *)
(* determine it, as a seed or scalar and its curve do.  The coordinates of *)
(* a public key are symbolic, and no two keys share one.                   *)
(***************************************************************************)
EXTENDS Naturals

CONSTANT Keys  \* the key pairs in existence

Algorithms == {"EdDSA", "ES256"}

(* "none", and the first of the symmetric and of the encryption ones. *)
ForbiddenAlgs == {"none", "HS256", "dir"}

X(key) == <<"x", key>>
Y(key) == <<"y", key>>

Kty(alg) == IF alg = "EdDSA" THEN "OKP" ELSE "EC"
Crv(alg) == IF alg = "EdDSA" THEN "Ed25519" ELSE "P-256"

(***************************************************************************)
(* A JWK is [alg, x, y, kty, crv], with alg and y optional.                *)
(***************************************************************************)
FromVerifyingKey(key) ==
  [alg |-> {key.alg}, x |-> X(key), y |-> IF key.alg = "ES256" THEN {Y(key)} ELSE {},
   kty |-> Kty(key.alg), crv |-> Crv(key.alg)]

(* Mutant: the shape decides, whatever alg says. *)
KeyOfShape(jwk) ==
  {key \in Keys :
     /\ jwk.kty = Kty(key.alg) /\ jwk.crv = Crv(key.alg)
     /\ jwk.x = X(key)
     /\ jwk.y = IF key.alg = "ES256" THEN {Y(key)} ELSE {}}

(* alg decides, and everything else has to agree with it. *)
ToVerifyingKey(jwk) ==
  {key \in Keys :
     /\ jwk.alg = {key.alg}
     /\ jwk.kty = Kty(key.alg) /\ jwk.crv = Crv(key.alg)
     /\ jwk.x = X(key)
     /\ jwk.y = IF key.alg = "ES256" THEN {Y(key)} ELSE {}}

(* The algorithm of a JWK: {} when it is absent. *)
ValidatedAlg(alg) ==
  IF alg = {} THEN "MissingAlg"
  ELSE IF alg \subseteq ForbiddenAlgs THEN "ForbiddenAlg"
  ELSE IF ~(alg \subseteq Algorithms) THEN "UnsupportedAlg"
  ELSE "Ok"

(* Mutant: the public half is not compared with the private one. *)
DerivedKey(jwk, d) == {key \in Keys : jwk.alg = {key.alg} /\ key.secret = d}

(* The key d derives, provided the public half is that key's. *)
ToSigningKey(jwk, d) ==
  {key \in ToVerifyingKey(jwk) : key.secret = d}

(***************************************************************************)
(* Compact JWS: [compact, header, claims, sig], where header is            *)
(* [typ, alg, crit] and a signature [key, over].  compact says that the    *)
(* text is of legal size, splits into three parts, and that these are      *)
(* Base64 of what they should be, a signature of its length included.      *)
(* MalformedToken stands for all the errors of a text that is not; the     *)
(* code finds some of them before and some after those of the header.      *)
(***************************************************************************)
Jws(typ, claims, key) ==
  LET header == [typ |-> typ, alg |-> key.alg, crit |-> FALSE]
  IN  [compact |-> TRUE, header |-> header, claims |-> claims,
       sig |-> [key |-> key, over |-> <<header, claims>>]]

(* Mutant: the algorithm is looked at before the type. *)
JwsErrorAlgFirst(token, typ, key) ==
  IF ~token.compact THEN "MalformedToken"
  ELSE IF token.header.alg \notin Algorithms THEN "UnsupportedAlg"
  ELSE IF token.header.alg # key.alg THEN "AlgorithmMismatch"
  ELSE IF token.header.typ # typ THEN "WrongType"
  ELSE IF token.header.crit THEN "UnsupportedCritical"
  ELSE IF token.sig # [key |-> key, over |-> <<token.header, token.claims>>]
    THEN "InvalidSignature"
  ELSE "Ok"

JwsError(token, typ, key) ==
  IF ~token.compact THEN "MalformedToken"
  ELSE IF token.header.typ # typ THEN "WrongType"
  ELSE IF token.header.alg \notin Algorithms THEN "UnsupportedAlg"
  ELSE IF token.header.alg # key.alg THEN "AlgorithmMismatch"
  ELSE IF token.header.crit THEN "UnsupportedCritical"
  ELSE IF token.sig # [key |-> key, over |-> <<token.header, token.claims>>]
    THEN "InvalidSignature"
  ELSE "Ok"
=============================================================================
