------------------------------ MODULE KeyFile ------------------------------
(***************************************************************************)
(* The JSON Web Key files of the `wimsey` command: the members of a JWK    *)
(* and an optional private half d.  Older files omit alg.                  *)
(***************************************************************************)
EXTENDS Jose

WithD(jwk, d) ==
  [alg |-> jwk.alg, x |-> jwk.x, y |-> jwk.y, kty |-> jwk.kty, crv |-> jwk.crv, d |-> d]

FromSigningKey(key) == WithD(FromVerifyingKey(key), {key.secret})

ToPublic(file) == WithD(file, {})

(* alg filled in from the key type; no JWK if that is not one we know. *)
PublicJwk(file) ==
  {[alg |-> {alg}, x |-> file.x, y |-> file.y, kty |-> file.kty, crv |-> file.crv] :
     alg \in IF file.alg # {} THEN file.alg
             ELSE {a \in Algorithms : file.kty = Kty(a) /\ file.crv = Crv(a)}}

SigningKey(file) ==
  UNION {ToSigningKey(jwk, d) : jwk \in PublicJwk(file), d \in file.d}

VerifyingKey(file) == UNION {ToVerifyingKey(jwk) : jwk \in PublicJwk(file)}

(* What `key public` checks before it exports. *)
Exportable(file) ==
  IF file.d # {} THEN SigningKey(file) # {} ELSE VerifyingKey(file) # {}
=============================================================================
