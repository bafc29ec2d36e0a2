-------------------------------- MODULE Wpt --------------------------------
(***************************************************************************)
(* wimsey-wpt: Workload Proof Tokens.  The claims are                      *)
(* [aud, exp, jti, wth, tth, oth]: tth optional, and oth a function from   *)
(* header names to hashes, empty when the claim is absent.  A thumbprint   *)
(* stands for the token it is of (SHA-256, taken as injective).  A header  *)
(* value is [text, padded]: what remains after the surrounding spaces are  *)
(* trimmed, and whether there were any.                                    *)
(***************************************************************************)
EXTENDS Wit

WPT_TYP == "wpt+jwt"

IssueWpt(claims, key) == Jws(WPT_TYP, claims, key)

Thumbprint(token) == <<"sha-256", token>>
OtherTokenEntry(value) == <<"sha-256", value.text>>

WptClaims(claims) == {"aud", "exp", "jti", "wth"} \subseteq DOMAIN claims

(* Mutant: a Txn-Token is compared only if the proof names one. *)
TxnTokenLenient(claims, v) ==
  claims.tth = {} \/ claims.tth = {Thumbprint(t) : t \in v.txnToken}

(* tth is there exactly when the request carries a Txn-Token. *)
TxnTokenBound(claims, v) == claims.tth = {Thumbprint(t) : t \in v.txnToken}

(* Every entry of oth is carried and hashes to it; others may be unnamed. *)
OtherTokensBound(claims, v) ==
  \A n \in DOMAIN claims.oth :
    /\ n \in DOMAIN v.otherTokens
    /\ claims.oth[n] = OtherTokenEntry(v.otherTokens[n])

(* Mutant: the lifetime cap is not looked at. *)
LifetimeUnchecked(exp, v) == FALSE

LifetimeTooLong(exp, v) ==
  \E most \in v.maxLifetime : SaturatingSub(exp, v.now) > most

VerifyWpt(token, key, v) ==
  IF JwsError(token, WPT_TYP, key) # "Ok" THEN JwsError(token, WPT_TYP, key)
  ELSE IF ~WptClaims(token.claims) THEN "Json"
  ELSE IF Expired(token.claims.exp, v) THEN "Expired"
  ELSE IF LifetimeTooLong(token.claims.exp, v) THEN "LifetimeTooLong"
  ELSE IF token.claims.aud # v.audience THEN "AudienceMismatch"
  ELSE IF token.claims.wth # Thumbprint(v.wit) THEN "WitBindingMismatch"
  ELSE IF ~TxnTokenBound(token.claims, v) THEN "TxnTokenBindingMismatch"
  ELSE IF ~OtherTokensBound(token.claims, v) THEN "OtherTokenBindingMismatch"
  ELSE "Ok"
=============================================================================
