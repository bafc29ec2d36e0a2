---------------------------- MODULE TokenVectors ----------------------------
(***************************************************************************)
(* The conformance vectors of the two tokens, as wimsey-conformance        *)
(* generates them, and what its runner makes of each case.                 *)
(*                                                                         *)
(* A vector's positive case is the record of everything its verification   *)
(* looks at.  A case is [id, overrides, expect]: what it changes of that   *)
(* record, and the reason to reject it, or "Ok".                           *)
(***************************************************************************)
EXTENDS Wpt, TLC

Neg(id, overrides, expect) == [id |-> id, overrides |-> overrides, expect |-> expect]
Accepted(id, overrides)    == Neg(id, overrides, "Ok")

Input(positive, case) == case.overrides @@ positive

(***************************************************************************)
(* ErrorCode::from, for the errors that have no code of the same name.     *)
(***************************************************************************)
TokenCode(error) ==
  CASE error = "Json"              -> "InvalidEncoding"
    [] error = "AlgorithmMismatch" -> "Unmapped"
    [] OTHER                       -> error

(***************************************************************************)
(* The fixed inputs.                                                       *)
(***************************************************************************)
Seeds == [ISSUER |-> 1, OTHER_ISSUER |-> 2, CA |-> 3, OTHER_CA |-> 4, WIT_POP |-> 7,
          POP |-> 9, RESPONDER_POP |-> 11, PROXY |-> 13]

(* The same seed under either algorithm. *)
VectorKey(alg, seed) == [alg |-> alg, secret |-> Seeds[seed]]
VectorKeys == {VectorKey(alg, seed) : alg \in Algorithms, seed \in DOMAIN Seeds}

ISSUER  == "https://issuer.example"
SUBJECT == "spiffe://example.org/workload/api"
RESPONDER_SUBJECT == "spiffe://example.org/workload/ledger"
IAT == 1700000000
EXP == 1700003600

ClaimsFor(sub, pop) ==
  [iss |-> {ISSUER}, sub |-> sub, iat |-> {IAT}, exp |-> EXP, jti |-> "a1b2c3",
   cnf |-> FromVerifyingKey(pop)]

WitFor(alg, sub, seed) ==
  IssueWit(ClaimsFor(sub, VectorKey(alg, seed)), VectorKey(alg, "ISSUER"))

(* Signed again under another header; altered and not signed again. *)
ResignWithHeader(token, header, key) ==
  [token EXCEPT !.header = header,
                !.sig = [key |-> key, over |-> <<header, token.claims>>]]
TamperPayload(token, jti) == [token EXCEPT !.claims.jti = jti]

ReissueWithCnfAlg(claims, alg, key) == IssueWit([claims EXCEPT !.cnf.alg = alg], key)

(* The header of the wrong-type cases, in the ES256 vectors too. *)
JwtHeader == [typ |-> "jwt", alg |-> "EdDSA", crit |-> FALSE]

(***************************************************************************)
(* wit/issue.                                                              *)
(***************************************************************************)
WitVector(alg) ==
  [token |-> WitFor(alg, SUBJECT, "WIT_POP"), now |-> IAT,
   key |-> VectorKey(alg, "ISSUER"), expectedIssuer |-> {}]

WitNegatives(alg) ==
  LET token  == WitVector(alg).token
      issuer == VectorKey(alg, "ISSUER")
      Cnf(cnfAlg) == [token |-> ReissueWithCnfAlg(token.claims, cnfAlg, issuer)]
  IN  {Neg("expired", [now |-> EXP + 1], "Expired"),
       Neg("issued-in-future", [now |-> IAT - 1], "IssuedInFuture"),
       Neg("wrong-typ", [token |-> ResignWithHeader(token, JwtHeader, issuer)], "WrongType"),
       Neg("tampered-payload", [token |-> TamperPayload(token, "a1b2c4")], "InvalidSignature"),
       Neg("wrong-issuer-key", [key |-> VectorKey(alg, "OTHER_ISSUER")], "InvalidSignature"),
       Neg("issuer-mismatch", [expectedIssuer |-> {"https://other-issuer.example"}],
           "IssuerMismatch"),
       Neg("cnf-missing-alg", Cnf({}), "MissingConfirmationAlg"),
       Neg("cnf-symmetric-alg", Cnf({"HS256"}), "ForbiddenConfirmationAlg"),
       Neg("cnf-unsecured-alg", Cnf({"none"}), "ForbiddenConfirmationAlg")}

WitVerdict(c) ==
  TokenCode(VerifyWit(c.token, c.key,
    [now |-> c.now, leeway |-> 0, expectedIssuer |-> c.expectedIssuer]))

(***************************************************************************)
(* wpt/proof.                                                              *)
(***************************************************************************)
ContextToken(text) == "ctx-token" :> [text |-> text, padded |-> FALSE]

WptVector(alg) ==
  LET wit    == WitFor(alg, SUBJECT, "POP")
      others == ContextToken("ctx-token-0123456789abcdef")
      txn    == "txn-token-0123456789abcdef"
      claims == [aud |-> "https://workload.example.com/path", exp |-> 1700000300,
                 jti |-> "0123456789abcdef", wth |-> Thumbprint(wit),
                 tth |-> {Thumbprint(txn)},
                 oth |-> [n \in DOMAIN others |-> OtherTokenEntry(others[n])]]
  IN  [proof |-> IssueWpt(claims, VectorKey(alg, "POP")), now |-> IAT,
       audience |-> claims.aud, wit |-> wit, txnToken |-> {txn}, otherTokens |-> others]

WptNegatives(alg) ==
  LET proof == WptVector(alg).proof IN
  {Neg("expired", [now |-> proof.claims.exp + 1], "Expired"),
   Neg("audience-mismatch", [audience |-> "https://other.example.com/path"], "AudienceMismatch"),
   Neg("wit-binding-mismatch",
       [wit |-> WitFor(alg, "spiffe://example.org/workload/other", "POP")], "WitBindingMismatch"),
   Neg("wrong-typ", [proof |-> ResignWithHeader(proof, JwtHeader, VectorKey(alg, "POP"))],
       "WrongType"),
   Neg("tampered-payload", [proof |-> TamperPayload(proof, "0123456789abcdee")],
       "InvalidSignature"),
   Neg("txn-token-mismatch", [txnToken |-> {"txn-token-fedcba9876543210"}],
       "TxnTokenBindingMismatch"),
   Neg("txn-token-absent", [txnToken |-> {}], "TxnTokenBindingMismatch"),
   Neg("context-token-mismatch", [otherTokens |-> ContextToken("ctx-token-fedcba9876543210")],
       "OtherTokenBindingMismatch"),
   Neg("context-token-absent", [otherTokens |-> <<>>], "OtherTokenBindingMismatch")}

WptValidation(c) ==
  [now |-> c.now, leeway |-> 0, maxLifetime |-> {}, audience |-> c.audience,
   wit |-> c.wit, txnToken |-> c.txnToken, otherTokens |-> c.otherTokens]

(* A case is judged under the recorded key. *)
WptVerdict(alg, c) == TokenCode(VerifyWpt(c.proof, VectorKey(alg, "POP"), WptValidation(c)))

(* The positive case is judged under the key that its WIT confirms, and    *)
(* the WIT first.                                                          *)
WitAccepted(alg, wit, now) ==
  WitVerdict([token |-> wit, now |-> now, key |-> VectorKey(alg, "ISSUER"),
              expectedIssuer |-> {}]) = "Ok"

WptFlow(alg, c) ==
  IF ~WitAccepted(alg, c.wit, c.now) THEN "WitRejected"
  ELSE TokenCode(VerifyWpt(c.proof, PopKey(c.wit), WptValidation(c)))
=============================================================================
