-------------------------------- MODULE Wit --------------------------------
(***************************************************************************)
(* wimsey-wit: Workload Identity Tokens.  The claims are                   *)
(* [iss, sub, iat, exp, jti, cnf] with iss and iat optional and cnf a JWK. *)
(***************************************************************************)
EXTENDS Jose, U64

WIT_TYP == "wit+jwt"

IssueWit(claims, key) == Jws(WIT_TYP, claims, key)

(* sub, exp and cnf are what deserializing demands. *)
WitClaims(claims) == {"sub", "exp", "cnf"} \subseteq DOMAIN claims

(* Mutant: the leeway is forgotten. *)
ExpiredStrictly(exp, v) == v.now >= exp

(* exp is the first second the token is no longer good for. *)
Expired(exp, v) == v.now >= SaturatingAdd(exp, v.leeway)

(* Mutant: a WIT without a name passes. *)
IssuerOkIfNamed(iss, v) == iss = {} \/ v.expectedIssuer \in {{}, iss}

(* The issuer's name is looked at only if one is required. *)
IssuerOk(iss, v) == v.expectedIssuer \in {{}, iss}

(* A confirmation key that no proof may be checked under. *)
ConfirmationError(jwk) ==
  CASE ValidatedAlg(jwk.alg) = "MissingAlg"     -> "MissingConfirmationAlg"
    [] ValidatedAlg(jwk.alg) = "ForbiddenAlg"   -> "ForbiddenConfirmationAlg"
    [] ValidatedAlg(jwk.alg) = "UnsupportedAlg" -> "UnsupportedConfirmationAlg"
    [] OTHER -> IF ToVerifyingKey(jwk) = {} THEN "InvalidKey" ELSE "Ok"

VerifyWit(token, key, v) ==
  IF JwsError(token, WIT_TYP, key) # "Ok" THEN JwsError(token, WIT_TYP, key)
  ELSE IF ~WitClaims(token.claims) THEN "Json"
  ELSE IF Expired(token.claims.exp, v) THEN "Expired"
  ELSE IF \E iat \in token.claims.iat : iat > SaturatingAdd(v.now, v.leeway)
    THEN "IssuedInFuture"
  ELSE IF ~IssuerOk(token.claims.iss, v) THEN "IssuerMismatch"
  ELSE ConfirmationError(token.claims.cnf)

(* The proof-of-possession key of a verified WIT. *)
PopKey(token) == CHOOSE key \in ToVerifyingKey(token.claims.cnf) : TRUE
=============================================================================
