------------------------- MODULE Credentials_proofs -------------------------
(***************************************************************************)
(* That a recipient accepts only a WIT of its issuer with a proof that the *)
(* WIT's holder minted for this very use, for every number of workloads,   *)
(* recipients, tokens and restarts, and every clock.                       *)
(***************************************************************************)
EXTENDS Credentials, TLAPS

(***************************************************************************)
(* Keys and JWKs.                                                          *)
(***************************************************************************)
(* A JWK names at most one key. *)
LEMMA OneKey ==
  ASSUME NEW jwk, NEW key \in ToVerifyingKey(jwk)
  PROVE  ToVerifyingKey(jwk) = {key}
<1>1. ASSUME NEW other \in ToVerifyingKey(jwk) PROVE other = key
  <2>1. X(other) = jwk.x /\ X(key) = jwk.x
    BY DEF ToVerifyingKey
  <2>2. QED
    BY <2>1 DEF X
<1>2. QED
  BY <1>1

(***************************************************************************)
(* What a successful verification establishes.                             *)
(***************************************************************************)
LEMMA JwsOk ==
  ASSUME NEW token, NEW typ, NEW key, JwsError(token, typ, key) = "Ok"
  PROVE  /\ token.compact
         /\ token.header.typ = typ
         /\ token.sig.key = key
         /\ token.sig.over = <<token.header, token.claims>>
         /\ token.sig.over[1].typ = typ
<1>1. /\ token.compact
      /\ token.header.typ = typ
      /\ token.sig = [key |-> key, over |-> <<token.header, token.claims>>]
  BY DEF JwsError
<1>2. QED
  BY <1>1

LEMMA WitOk ==
  ASSUME NEW token, NEW key, NEW v, VerifyWit(token, key, v) = "Ok"
  PROVE  /\ JwsError(token, WIT_TYP, key) = "Ok"
         /\ ToVerifyingKey(token.claims.cnf) # {}
         /\ ~Expired(token.claims.exp, v)
         /\ IssuerOk(token.claims.iss, v)
  BY DEF VerifyWit, ConfirmationError, ValidatedAlg

LEMMA WptOk ==
  ASSUME NEW token, NEW key, NEW v, VerifyWpt(token, key, v) = "Ok"
  PROVE  /\ JwsError(token, WPT_TYP, key) = "Ok"
         /\ token.claims.aud = v.audience
         /\ token.claims.wth = Thumbprint(v.wit)
         /\ TxnTokenBound(token.claims, v)
         /\ OtherTokensBound(token.claims, v)
         /\ ~Expired(token.claims.exp, v)
         /\ ~LifetimeTooLong(token.claims.exp, v)
  BY DEF VerifyWpt

(***************************************************************************)
(* Saturation never makes a verifier more lenient, or an honest token      *)
(* fail, than plain arithmetic would.                                      *)
(***************************************************************************)
LEMMA ExpiredExactly ==
  ASSUME NEW exp \in Nat, exp <= U64Max, NEW v, NEW clock \in Nat,
         v.now = clock, v.leeway = Leeway
  PROVE  /\ ~Expired(exp, v) => clock < exp + Leeway
         /\ clock < exp + Leeway /\ clock < U64Max => ~Expired(exp, v)
  BY CredentialsAssumption DEF Expired, SaturatingAdd

LEMMA LifetimeExactly ==
  ASSUME NEW exp \in Nat, NEW v, NEW clock \in Nat,
         v.now = clock, v.maxLifetime = MaxLifetime
  PROVE  ~LifetimeTooLong(exp, v) <=> \A most \in MaxLifetime : exp <= clock + most
<1>1. ASSUME NEW most \in MaxLifetime
      PROVE  SaturatingSub(exp, clock) > most <=> ~(exp <= clock + most)
  <2>1. most \in Nat
    BY CredentialsAssumption
  <2>2. QED
    BY <2>1 DEF SaturatingSub
<1>2. QED
  BY <1>1 DEF LifetimeTooLong

(***************************************************************************)
(* The inductive invariant.  Tokens in circulation may be damaged, but     *)
(* each carries a signature that was made in an issue, in a minting or by  *)
(* the foreign issuer, and the signature still tells what was signed.  The *)
(* times in what was issued and minted are tied to the clock of the time.  *)
(***************************************************************************)
IsToken(t) ==
  /\ t.compact \in BOOLEAN
  /\ t = [compact |-> t.compact, header |-> t.header, claims |-> t.claims, sig |-> t.sig]

Traceable(t, issues, mints) ==
  \/ t.sig.key = ForeignKey /\ t.sig.over[1].typ = WIT_TYP
  \/ \E i \in issues : t.sig = i.token.sig
  \/ \E p \in mints : t.sig = p.token.sig

(* The claims of a WIT: a lifetime that fits, the issuer's never empty. *)
ClaimsOk(claims, by, ttl) ==
  /\ WitClaims(claims) /\ ttl \in Nat
  /\ claims.exp \in Nat /\ claims.exp <= U64Max
  /\ \A iat \in claims.iat : iat \in Nat /\ claims.exp = iat + ttl
  /\ by = "issuer" => ttl \in 1..DefaultTtl

(* The key of a start; it is configured, or drawn at the start. *)
StartKey(hasKey, b) == IF hasKey THEN BootKeys[1] ELSE BootKeys[b]

IssuedOk(i, hasKey, circulating) ==
  /\ i.token = Jws(WIT_TYP, i.token.claims, StartKey(hasKey, i.boot))
  /\ i.boot \in DOMAIN BootKeys
  /\ i.token \in circulating
  /\ ClaimsOk(i.token.claims, i.by, i.ttl)

ProofClaims(p) ==
  /\ WptClaims(p.token.claims)
  /\ p.token.claims.aud = p.aud
  /\ p.token.claims.exp = p.exp
  /\ p.token.claims.wth = Thumbprint(p.wit)
  /\ p.token.claims.tth = {Thumbprint(t) : t \in p.txn}
  /\ p.token.claims.oth = Entries(p.others)

MintedOk(p, circulating) ==
  /\ p.token = Jws(WPT_TYP, p.token.claims, p.key)
  /\ p.token \in circulating
  /\ ProofClaims(p)
  /\ p.exp \in Nat /\ p.at \in Nat /\ p.exp <= U64Max
  /\ p.exp <= p.at + MaxSkew + ProofTtl

(* What a credential was accepted for: one made for it, in its lifetime. *)
AcceptedAs(a, i, p) ==
  /\ Genuine(a, i, p)
  /\ \A iat \in a.wit.claims.iat : a.at < iat + i.ttl + Leeway + MaxSkew
  /\ a.at < p.at + ProofTtl + Leeway + 2 * MaxSkew
  /\ \A most \in MaxLifetime : p.exp <= a.clock + most

AcceptedOk == \A a \in accepted : \E i \in issued, p \in minted : AcceptedAs(a, i, p)

Inv ==
  /\ now \in 0..MaxTime /\ configured \in BOOLEAN /\ boot \in DOMAIN BootKeys
  /\ damaged \in 0..MaxDamaged
  /\ fetched \in [Verifiers -> SUBSET DOMAIN BootKeys]
  /\ \A i \in issued : IssuedOk(i, configured, tokens)
  /\ \A p \in minted : MintedOk(p, tokens)
  /\ \A t \in tokens : IsToken(t) /\ Traceable(t, issued, minted)
  /\ AcceptedOk

(* A token made by signing is what it says, and what was signed. *)
LEMMA JwsMade ==
  ASSUME NEW typ, NEW claims, NEW key, NEW token, token = Jws(typ, claims, key)
  PROVE  /\ IsToken(token) /\ token.compact
         /\ token.header.typ = typ /\ token.header.alg = key.alg
         /\ ~token.header.crit
         /\ token.claims = claims /\ token = Jws(typ, token.claims, key)
         /\ token.sig.key = key
         /\ token.sig.over[1].typ = typ
  BY DEF Jws, IsToken

LEMMA JwsSigned ==
  ASSUME NEW typ, NEW claims, NEW key, NEW token, token = Jws(typ, claims, key)
  PROVE  token.sig = [key |-> key, over |-> <<token.header, token.claims>>]
  BY DEF Jws

LEMMA TraceableStep ==
  ASSUME NEW t, NEW issues, NEW more, NEW mints, NEW moreMints,
         issues \subseteq more, mints \subseteq moreMints,
         Traceable(t, issues, mints)
  PROVE  Traceable(t, more, moreMints)
  BY DEF Traceable

(* What was made stays made, and what was accepted stays accounted for. *)
LEMMA Kept ==
  ASSUME Inv, configured' = configured, tokens \subseteq tokens',
         issued \subseteq issued', minted \subseteq minted'
  PROVE  /\ \A i \in issued : IssuedOk(i, configured', tokens')
         /\ \A p \in minted : MintedOk(p, tokens')
         /\ \A t \in tokens : IsToken(t) /\ Traceable(t, issued', minted')
         /\ accepted' = accepted => AcceptedOk'
<1>1. \A i \in issued : IssuedOk(i, configured', tokens')
  BY DEF Inv, IssuedOk
<1>2. \A p \in minted : MintedOk(p, tokens')
  BY DEF Inv, MintedOk
<1>3. \A t \in tokens : Traceable(t, issued', minted')
  BY TraceableStep DEF Inv
<1>4. accepted' = accepted => AcceptedOk'
  BY DEF Inv, AcceptedOk
<1>5. QED
  BY <1>1, <1>2, <1>3, <1>4 DEF Inv

(***************************************************************************)
(* The initial states and each kind of step preserve the invariant.        *)
(***************************************************************************)
LEMMA InitInv == Init => Inv
<1> SUFFICES ASSUME Init PROVE Inv
  OBVIOUS
<1>1. 1 \in DOMAIN BootKeys
  BY CredentialsAssumption
<1>2. 0 \in 0..MaxTime /\ 0 \in 0..MaxDamaged
  BY CredentialsAssumption
<1>3. QED
  BY <1>1, <1>2 DEF Init, Inv, AcceptedOk

LEMMA IssueInv ==
  ASSUME Inv, NEW claims, NEW by, NEW ttl, ClaimsOk(claims, by, ttl),
         Issue(claims, by, ttl)
  PROVE  Inv'
<1> DEFINE token == Jws(WIT_TYP, claims, IssuerKey(boot))
           i     == [token |-> token, by |-> by, ttl |-> ttl, boot |-> boot]
<1>1. /\ issued' = issued \cup {i} /\ tokens' = tokens \cup {token}
      /\ UNCHANGED <<now, configured, boot, damaged, fetched, minted, accepted>>
  BY DEF Issue, IssueWit
<1>2. /\ IsToken(token) /\ token.claims = claims
      /\ token = Jws(WIT_TYP, token.claims, IssuerKey(boot))
  <2>1. token = Jws(WIT_TYP, claims, IssuerKey(boot))
    OBVIOUS
  <2> HIDE DEF token
  <2>2. IsToken(token) /\ token.claims = claims
    BY <2>1, JwsMade
  <2>3. QED
    BY <2>1, <2>2
<1>3. /\ i.token = token /\ i.by = by /\ i.ttl = ttl /\ i.boot = boot
      /\ i \in issued'
  BY <1>1
<1> HIDE DEF i, token
<1>4. Traceable(token, issued', minted')
  BY <1>3 DEF Traceable
<1>5. IssuedOk(i, configured', tokens')
  <2>1. StartKey(configured', i.boot) = IssuerKey(boot)
    BY <1>1, <1>3 DEF IssuerKey, StartKey
  <2>2. QED
    BY <1>1, <1>2, <1>3, <2>1 DEF Inv, IssuedOk
<1>6. /\ \A j \in issued : IssuedOk(j, configured', tokens')
      /\ \A p \in minted : MintedOk(p, tokens')
      /\ \A t \in tokens : IsToken(t) /\ Traceable(t, issued', minted')
      /\ AcceptedOk'
  BY <1>1, Kept
<1>7. \A t \in tokens' : IsToken(t) /\ Traceable(t, issued', minted')
  BY <1>1, <1>2, <1>4, <1>6
<1>8. \A j \in issued' : IssuedOk(j, configured', tokens')
  BY <1>1, <1>5, <1>6
<1>9. QED
  BY <1>1, <1>6, <1>7, <1>8 DEF Inv

LEMMA MintInv ==
  ASSUME Inv, NEW key, NEW wit, NEW aud, NEW txn, NEW others,
         NEW clock \in Clocks, NEW exp \in CheckedAdd(clock, ProofTtl),
         MintProof(key, wit, aud, txn, others, exp)
  PROVE  Inv'
<1> DEFINE claims == [aud |-> aud, exp |-> exp, jti |-> Cardinality(minted),
                      wth |-> Thumbprint(wit), tth |-> {Thumbprint(t) : t \in txn},
                      oth |-> Entries(others)]
           token  == Jws(WPT_TYP, claims, key)
           p      == [token |-> token, key |-> key, wit |-> wit, aud |-> aud,
                      txn |-> txn, others |-> others, at |-> now, exp |-> exp]
<1>1. /\ minted' = minted \cup {p} /\ tokens' = tokens \cup {token}
      /\ UNCHANGED <<now, configured, boot, damaged, fetched, issued, accepted>>
  BY DEF MintProof, IssueWpt
<1>2. /\ IsToken(token) /\ token.claims = claims
      /\ token = Jws(WPT_TYP, token.claims, key)
  <2>1. token = Jws(WPT_TYP, claims, key)
    OBVIOUS
  <2> HIDE DEF token, claims
  <2>2. IsToken(token) /\ token.claims = claims
    BY <2>1, JwsMade
  <2>3. QED
    BY <2>1, <2>2
<1>3. /\ p.token = token /\ p.key = key /\ p \in minted' /\ p.at = now /\ p.exp = exp
      /\ p.aud = aud /\ p.wit = wit /\ p.txn = txn /\ p.others = others
  BY <1>1
<1>4. /\ claims.aud = aud /\ claims.exp = exp /\ claims.wth = Thumbprint(wit)
      /\ claims.tth = {Thumbprint(t) : t \in txn} /\ claims.oth = Entries(others)
      /\ WptClaims(claims)
  BY DEF WptClaims
<1>5. /\ exp \in Nat /\ now \in Nat /\ exp <= U64Max /\ exp <= now + MaxSkew + ProofTtl
  <2>1. now \in Nat /\ {MaxSkew, ProofTtl} \subseteq Nat
    BY CredentialsAssumption DEF Inv
  <2>2. clock \in Nat /\ clock <= now + MaxSkew
    BY <2>1 DEF Clocks
  <2>3. exp = clock + ProofTtl /\ exp <= U64Max
    BY DEF CheckedAdd
  <2>4. QED
    BY <2>1, <2>2, <2>3
<1> HIDE DEF claims, token, p
<1>6. ProofClaims(p)
  BY <1>2, <1>3, <1>4 DEF ProofClaims
<1>7. MintedOk(p, tokens')
  BY <1>1, <1>2, <1>3, <1>5, <1>6 DEF MintedOk
<1>8. Traceable(token, issued', minted')
  BY <1>3 DEF Traceable
<1>9. /\ \A i \in issued : IssuedOk(i, configured', tokens')
      /\ \A q \in minted : MintedOk(q, tokens')
      /\ \A t \in tokens : IsToken(t) /\ Traceable(t, issued', minted')
      /\ AcceptedOk'
  BY <1>1, Kept
<1>10. \A t \in tokens' : IsToken(t) /\ Traceable(t, issued', minted')
  BY <1>1, <1>2, <1>8, <1>9
<1>11. \A q \in minted' : MintedOk(q, tokens')
  BY <1>1, <1>7, <1>9
<1>12. QED
  BY <1>1, <1>9, <1>10, <1>11 DEF Inv

(* Any other step that adds a token adds one that can be traced. *)
LEMMA CirculateInv ==
  ASSUME Inv, NEW token, tokens' = tokens \cup {token},
         IsToken(token), Traceable(token, issued, minted),
         damaged' \in 0..MaxDamaged,
         UNCHANGED <<now, configured, boot, issued, minted, fetched, accepted>>
  PROVE  Inv'
<1>1. /\ \A i \in issued : IssuedOk(i, configured', tokens')
      /\ \A p \in minted : MintedOk(p, tokens')
      /\ AcceptedOk'
  BY Kept
<1>2. \A t \in tokens' : IsToken(t) /\ Traceable(t, issued', minted')
  BY DEF Inv
<1>3. QED
  BY <1>1, <1>2 DEF Inv

LEMMA ForeignInv ==
  ASSUME Inv, NEW sub, NEW cnf, ForeignIssue(sub, cnf)
  PROVE  Inv'
<1> DEFINE claims == [iss |-> {Iss}, sub |-> sub, iat |-> {}, exp |-> U64Max,
                      jti |-> 0, cnf |-> cnf]
           token  == Jws(WIT_TYP, claims, ForeignKey)
<1>1. /\ tokens' = tokens \cup {token} /\ damaged' \in 0..MaxDamaged
      /\ UNCHANGED <<now, configured, boot, issued, minted, fetched, accepted>>
  BY DEF ForeignIssue, IssueWit, Inv
<1>2. token = Jws(WIT_TYP, claims, ForeignKey)
  OBVIOUS
<1> HIDE DEF claims, token
<1>3. IsToken(token) /\ token.sig.key = ForeignKey /\ token.sig.over[1].typ = WIT_TYP
  BY <1>2, JwsMade
<1>4. QED
  BY <1>1, <1>3, CirculateInv DEF Traceable

LEMMA DamageInv ==
  ASSUME Inv, NEW token \in tokens, NEW changed \in Damaged(token), Damage(token, changed)
  PROVE  Inv'
<1>1. \E compact \in BOOLEAN : \E header : changed = Altered(token, compact, header)
  <2>1. CASE changed = Altered(token, FALSE, token.header)
    BY <2>1
  <2>2. CASE changed # Altered(token, FALSE, token.header)
    <3>1. PICK header : changed = Altered(token, TRUE, header)
      BY <2>2 DEF Damaged
    <3>2. QED
      BY <3>1
  <2>3. QED
    BY <2>1, <2>2
<1>2. IsToken(changed) /\ changed.sig = token.sig
  BY <1>1 DEF Altered, IsToken
<1>3. Traceable(changed, issued, minted)
  BY <1>2 DEF Inv, Traceable
<1>4. damaged' \in 0..MaxDamaged
  BY CredentialsAssumption DEF Damage, Inv
<1>5. QED
  BY <1>2, <1>3, <1>4, CirculateInv DEF Damage

(* Two tokens with one signature, both as they were made, are one token. *)
LEMMA SameToken ==
  ASSUME NEW s, NEW t, NEW typ, NEW key, NEW signer,
         IsToken(s), JwsError(s, typ, key) = "Ok",
         t = Jws(typ, t.claims, signer), s.sig = t.sig
  PROVE  s = t
<1>1. s.compact /\ s.sig.over = <<s.header, s.claims>>
  BY JwsOk
<1>2. t.compact /\ IsToken(t)
  BY JwsMade
<1>3. t.sig.over = <<t.header, t.claims>>
  <2>1. t.sig = [key |-> signer, over |-> <<t.header, t.claims>>]
    BY JwsSigned
  <2>2. QED
    BY <2>1
<1>4. s.header = t.header /\ s.claims = t.claims
  BY <1>1, <1>3
<1>5. s.compact = t.compact
  BY <1>1, <1>2 DEF IsToken
<1>6. QED
  BY <1>2, <1>4, <1>5 DEF IsToken

(* A token with a WIT's type and a good signature is a WIT of the issuer's. *)
LEMMA IssuedWit ==
  ASSUME Inv, NEW wit \in tokens, NEW b \in DOMAIN BootKeys,
         JwsError(wit, WIT_TYP, IssuerKey(b)) = "Ok"
  PROVE  \E i \in issued : i.token = wit /\ wit.sig.key = IssuerKey(b)
<1>1. IssuerKey(b) # ForeignKey
  <2>1. 1 \in DOMAIN BootKeys
    BY CredentialsAssumption
  <2>2. \A n \in DOMAIN BootKeys : BootKeys[n] # ForeignKey
    BY CredentialsAssumption
  <2>3. QED
    BY <2>1, <2>2 DEF IssuerKey
<1>2. wit.sig.key = IssuerKey(b) /\ wit.sig.over[1].typ = WIT_TYP
  BY JwsOk
<1>3. ASSUME NEW p \in minted PROVE wit.sig # p.token.sig
  <2>1. p.token.sig.over[1].typ = WPT_TYP
    BY JwsMade DEF Inv, MintedOk
  <2>2. QED
    BY <1>2, <2>1 DEF WIT_TYP, WPT_TYP
<1>4. PICK i \in issued : wit.sig = i.token.sig
  BY <1>1, <1>2, <1>3 DEF Inv, Traceable
<1>5. i.token = Jws(WIT_TYP, i.token.claims, StartKey(configured, i.boot))
  BY DEF Inv, IssuedOk
<1>6. IsToken(wit)
  BY DEF Inv
<1>7. i.token = wit
  BY <1>4, <1>5, <1>6, SameToken
<1>8. QED
  BY <1>2, <1>7

(* The heart of the matter: both tokens accepted are the ones made. *)
LEMMA AcceptInv ==
  ASSUME Inv, NEW v \in Verifiers, NEW b \in fetched[v], NEW issuer,
         NEW clock \in Clocks, NEW wit \in tokens, NEW proof \in tokens,
         NEW txn, NEW others, Accept(v, b, issuer, clock, wit, proof, txn, others)
  PROVE  Inv'
<1> DEFINE a == [verifier |-> v, issuer |-> issuer, wit |-> wit, proof |-> proof, txn |-> txn,
                 others |-> others, at |-> now, clock |-> clock]
           validation    == WptValidation(v, clock, wit, txn, others)
           witValidation == WitValidation(clock, issuer)
<1>1. /\ accepted' = accepted \cup {a}
      /\ UNCHANGED <<now, configured, boot, issued, minted, tokens, damaged, fetched>>
      /\ Verdict(v, IssuerKey(b), issuer, clock, wit, proof, txn, others) = "Ok"
  BY DEF Accept
<1>2. /\ VerifyWit(wit, IssuerKey(b), witValidation) = "Ok"
      /\ VerifyWpt(proof, PopKey(wit), validation) = "Ok"
  BY <1>1 DEF Verdict
<1>3. /\ validation.audience = Audience[v] /\ validation.wit = wit
      /\ validation.txnToken = txn /\ validation.otherTokens = others
      /\ validation.now = clock /\ validation.leeway = Leeway
      /\ validation.maxLifetime = MaxLifetime
      /\ witValidation.now = clock /\ witValidation.leeway = Leeway
      /\ witValidation.expectedIssuer = issuer
  BY DEF WptValidation, WitValidation
<1>4. /\ a.verifier = v /\ a.wit = wit /\ a.proof = proof /\ a.txn = txn
      /\ a.others = others /\ a.at = now /\ a.clock = clock /\ a.issuer = issuer
  OBVIOUS
<1> HIDE DEF a, validation, witValidation
<1>5. /\ JwsError(wit, WIT_TYP, IssuerKey(b)) = "Ok"
      /\ ToVerifyingKey(wit.claims.cnf) # {}
      /\ ~Expired(wit.claims.exp, witValidation)
      /\ IssuerOk(wit.claims.iss, witValidation)
  BY <1>2, WitOk
<1>6. /\ JwsError(proof, WPT_TYP, PopKey(wit)) = "Ok"
      /\ proof.claims.aud = Audience[v]
      /\ proof.claims.wth = Thumbprint(wit)
      /\ proof.claims.tth = {Thumbprint(t) : t \in txn}
      /\ OtherTokensBound(proof.claims, validation)
      /\ ~Expired(proof.claims.exp, validation)
      /\ ~LifetimeTooLong(proof.claims.exp, validation)
  BY <1>2, <1>3, WptOk DEF TxnTokenBound
<1>7. PICK i \in issued : i.token = wit
  <2>1. b \in DOMAIN BootKeys
    BY DEF Inv
  <2>2. QED
    BY <1>5, <2>1, IssuedWit
<1>8. PICK p \in minted : p.token = proof /\ p.key = PopKey(wit)
  <2>1. proof.sig.key = PopKey(wit) /\ proof.sig.over[1].typ = WPT_TYP
    BY <1>6, JwsOk
  <2>2. ASSUME NEW j \in issued PROVE proof.sig # j.token.sig
    <3>1. j.token.sig.over[1].typ = WIT_TYP
      BY JwsMade DEF Inv, IssuedOk
    <3>2. QED
      BY <2>1, <3>1 DEF WIT_TYP, WPT_TYP
  <2>3. PICK p \in minted : proof.sig = p.token.sig
    BY <2>1, <2>2 DEF Inv, Traceable, WIT_TYP, WPT_TYP
  <2>4. p.token = Jws(WPT_TYP, p.token.claims, p.key)
    BY DEF Inv, MintedOk
  <2>5. IsToken(proof)
    BY DEF Inv
  <2>6. p.token = proof
    BY <1>6, <2>3, <2>4, <2>5, SameToken
  <2>7. p.token.sig.key = p.key
    BY <2>4, JwsMade
  <2>8. QED
    BY <2>1, <2>3, <2>6, <2>7
<1>9. IssuedOk(i, configured, tokens) /\ MintedOk(p, tokens) /\ ProofClaims(p)
  BY DEF Inv, MintedOk
<1>10. Genuine(a, i, p)
  <2>1. Holder(wit) = {p.key}
    <3>1. PopKey(wit) \in ToVerifyingKey(wit.claims.cnf)
      BY <1>5 DEF PopKey
    <3>2. QED
      BY <1>8, <3>1, OneKey DEF Holder
  <2>2. p.wit = wit /\ p.aud = Audience[v]
    BY <1>6, <1>8, <1>9 DEF ProofClaims, Thumbprint
  <2>3. p.txn = txn
    <3>1. {Thumbprint(t) : t \in txn} = {Thumbprint(t) : t \in p.txn}
      BY <1>6, <1>8, <1>9 DEF ProofClaims
    <3>2. \A s, t : Thumbprint(s) = Thumbprint(t) => s = t
      BY DEF Thumbprint
    <3>3. QED
      BY <3>1, <3>2
  <2>4. SameOthers(p, others)
    <3>1. proof.claims.oth = Entries(p.others)
      BY <1>8, <1>9 DEF ProofClaims
    <3>2. ASSUME NEW n \in DOMAIN p.others
          PROVE  n \in DOMAIN others /\ others[n].text = p.others[n].text
      <4>1. n \in DOMAIN proof.claims.oth
            /\ proof.claims.oth[n] = OtherTokenEntry(p.others[n])
        BY <3>1 DEF Entries
      <4>2. n \in DOMAIN others
            /\ proof.claims.oth[n] = OtherTokenEntry(others[n])
        BY <1>3, <1>6, <4>1 DEF OtherTokensBound
      <4>3. QED
        BY <4>1, <4>2 DEF OtherTokenEntry
    <3>3. QED
      BY <3>2 DEF SameOthers
  <2>5. issuer \subseteq wit.claims.iss
    BY <1>3, <1>5 DEF IssuerOk
  <2>6. QED
    BY <1>4, <1>7, <1>8, <2>1, <2>2, <2>3, <2>4, <2>5 DEF Genuine
<1>11. /\ \A iat \in wit.claims.iat : now < iat + i.ttl + Leeway + MaxSkew
       /\ now < p.at + ProofTtl + Leeway + 2 * MaxSkew
       /\ \A most \in MaxLifetime : p.exp <= clock + most
  <2>1. {now, Leeway, MaxSkew, ProofTtl, U64Max} \subseteq Nat
    BY CredentialsAssumption DEF Inv
  <2>2. clock \in Nat /\ now <= clock + MaxSkew
    BY <2>1 DEF Clocks
  <2>3. /\ wit.claims.exp \in Nat /\ wit.claims.exp <= U64Max
        /\ i.ttl \in Nat
        /\ \A iat \in wit.claims.iat : iat \in Nat /\ wit.claims.exp = iat + i.ttl
    BY <1>7, <1>9 DEF IssuedOk, ClaimsOk
  <2>4. clock < wit.claims.exp + Leeway
    BY <1>3, <1>5, <2>2, <2>3, ExpiredExactly
  <2>5. /\ p.exp \in Nat /\ p.at \in Nat /\ p.exp <= U64Max
        /\ p.exp <= p.at + MaxSkew + ProofTtl /\ proof.claims.exp = p.exp
    BY <1>8, <1>9 DEF MintedOk, ProofClaims
  <2>6. clock < p.exp + Leeway
    BY <1>3, <1>6, <2>2, <2>5, ExpiredExactly
  <2>7. \A most \in MaxLifetime : p.exp <= clock + most
    BY <1>3, <1>6, <2>2, <2>5, LifetimeExactly
  <2>8. now < p.at + ProofTtl + Leeway + 2 * MaxSkew
    BY <2>1, <2>2, <2>5, <2>6
  <2>9. QED
    BY <2>1, <2>2, <2>3, <2>4, <2>7, <2>8
<1>12. AcceptedAs(a, i, p)
  BY <1>4, <1>10, <1>11 DEF AcceptedAs
<1>13. AcceptedOk'
  BY <1>1, <1>12 DEF Inv, AcceptedOk
<1>14. QED
  BY <1>1, <1>13 DEF Inv

(* The claims that an issue signs have the lifetime it was asked for. *)
LEMMA ClaimsForOk ==
  ASSUME NEW iss, NEW sub, NEW iat \in Nat, NEW ttl \in Nat,
         NEW exp \in CheckedAdd(iat, ttl), NEW cnf, NEW by,
         by = "issuer" => ttl \in 1..DefaultTtl
  PROVE  ClaimsOk(ClaimsFor(iss, sub, iat, exp, cnf), by, ttl)
<1>1. exp = iat + ttl /\ exp <= U64Max /\ exp \in Nat
  BY DEF CheckedAdd
<1>2. QED
  BY <1>1 DEF ClaimsFor, ClaimsOk, WitClaims

LEMMA NextInv == Inv /\ [Next]_vars => Inv'
<1> SUFFICES ASSUME Inv, [Next]_vars PROVE Inv'
  OBVIOUS
<1>1. ASSUME UNCHANGED <<configured, issued, minted, tokens, damaged, accepted>>,
             now' \in 0..MaxTime, boot' \in DOMAIN BootKeys,
             fetched' \in [Verifiers -> SUBSET DOMAIN BootKeys]
      PROVE  Inv'
  <2>1. AcceptedOk'
    BY <1>1 DEF Inv, AcceptedOk
  <2>2. QED
    BY <1>1, <2>1 DEF Inv
<1>2. CASE \E sub \in Subjects, cnf \in CnfJwks, ttl \in Ttls :
             \E exp \in CheckedAdd(now, RequestedTtl(ttl)) :
               IssueWitFor(sub, cnf, RequestedTtl(ttl), exp)
  <2>1. PICK sub \in Subjects, cnf \in CnfJwks, ttl \in Ttls :
          \E exp \in CheckedAdd(now, RequestedTtl(ttl)) :
            IssueWitFor(sub, cnf, RequestedTtl(ttl), exp)
    BY <1>2
  <2>2. PICK exp \in CheckedAdd(now, RequestedTtl(ttl)) :
          IssueWitFor(sub, cnf, RequestedTtl(ttl), exp)
    BY <2>1
  <2>3. RequestedTtl(ttl) \in 1..DefaultTtl
    <3>1. RequestedTtl(ttl) \in Nat
      BY CredentialsAssumption DEF RequestedTtl
    <3>2. TtlAllowed(RequestedTtl(ttl))
      BY <2>2 DEF IssueWitFor
    <3>3. QED
      BY <3>1, <3>2, CredentialsAssumption DEF TtlAllowed
  <2>4. now \in Nat
    BY CredentialsAssumption DEF Inv
  <2>5. ClaimsOk(ClaimsFor({Iss}, sub, now, exp, cnf), "issuer", RequestedTtl(ttl))
    BY <2>3, <2>4, CredentialsAssumption, ClaimsForOk
  <2>6. QED
    BY <2>2, <2>5, IssueInv DEF IssueWitFor
<1>2a. CASE \E iss \in Issuers, sub \in Subjects, key \in CommandKeys,
               ttl \in CommandTtls, clock \in Clocks :
              \E exp \in CheckedAdd(clock, ttl) : WitIssue(iss, sub, key, ttl, clock, exp)
  <2>1. PICK iss \in Issuers, sub \in Subjects, key \in CommandKeys,
             ttl \in CommandTtls, clock \in Clocks :
          \E exp \in CheckedAdd(clock, ttl) : WitIssue(iss, sub, key, ttl, clock, exp)
    BY <1>2a
  <2>2. PICK exp \in CheckedAdd(clock, ttl) : WitIssue(iss, sub, key, ttl, clock, exp)
    BY <2>1
  <2>3. clock \in Nat /\ ttl \in Nat
    BY CredentialsAssumption DEF Clocks
  <2>4. ClaimsOk(ClaimsFor(iss, sub, clock, exp, FromVerifyingKey(key)), "command", ttl)
    BY <2>3, CredentialsAssumption, ClaimsForOk
  <2>5. QED
    BY <2>2, <2>4, IssueInv DEF WitIssue
<1>3. CASE Restart
  <2>1. boot + 1 \in DOMAIN BootKeys
    BY <1>3, CredentialsAssumption DEF Restart, Inv
  <2>2. QED
    BY <1>1, <1>3, <2>1 DEF Restart, Inv
<1>4. CASE \E key \in WorkloadKeys, wit \in tokens, v \in Verifiers,
              txn \in TxnTokens, others \in OtherTokens, clock \in Clocks :
             \E exp \in CheckedAdd(clock, ProofTtl) :
               MintProof(key, wit, Audience[v], txn, others, exp)
  BY <1>4, MintInv
<1>5. CASE \E sub \in Subjects, cnf \in CnfJwks : ForeignIssue(sub, cnf)
  BY <1>5, ForeignInv
<1>6. CASE \E token \in tokens : \E changed \in Damaged(token) : Damage(token, changed)
  BY <1>6, DamageInv
<1>7. CASE \E v \in Verifiers : Fetch(v)
  <2>1. PICK v \in Verifiers : Fetch(v)
    BY <1>7
  <2>2. [fetched EXCEPT ![v] = {boot}] \in [Verifiers -> SUBSET DOMAIN BootKeys]
    BY DEF Inv
  <2>3. QED
    BY <1>1, <2>1, <2>2 DEF Fetch, Inv
<1>8. CASE \E v \in Verifiers : \E b \in fetched[v] :
             \E issuer \in Issuers, clock \in Clocks, wit, proof \in tokens,
                txn \in TxnTokens, others \in OtherTokens :
               Accept(v, b, issuer, clock, wit, proof, txn, others)
  BY <1>8, AcceptInv
<1>9. CASE Tick
  BY <1>1, <1>9, CredentialsAssumption DEF Tick, Inv
<1>10. CASE UNCHANGED vars
  BY <1>1, <1>10 DEF vars, Inv
<1>11. QED
  BY <1>2, <1>2a, <1>3, <1>4, <1>5, <1>6, <1>7, <1>8, <1>9, <1>10 DEF Next

LEMMA SpecInv == Spec => []Inv
  BY InitInv, NextInv, PTL DEF Spec

(***************************************************************************)
(* The theorems.                                                           *)
(***************************************************************************)
(* Every credential a recipient accepts is a WIT of the issuer whose key   *)
(* it holds and a proof that the WIT's holder minted over it, for this     *)
(* recipient and the context tokens of this request: what                  *)
(* wimsey_wit::verify and wimsey_wpt::verify establish together.           *)
THEOREM AcceptsOnlyCredentials == Spec => []CredentialAuthentic
<1>1. Inv => CredentialAuthentic
  BY DEF Inv, AcceptedOk, AcceptedAs, CredentialAuthentic
<1>2. QED
  BY SpecInv, <1>1, PTL

(* No recipient accepts a credential after the lifetime its WIT was given  *)
(* or the one the proof asked for has passed, whatever the clocks read     *)
(* within their skew, and none accepts a proof with longer to live than it *)
(* allows: the checks of exp in wimsey_wit::verify and wimsey_wpt::verify. *)
THEOREM AcceptsOnlyInLifetime == Spec => []AcceptedInLifetime
<1>1. Inv => AcceptedInLifetime
  <2> SUFFICES ASSUME Inv, NEW a \in accepted
               PROVE  \E i \in issued, p \in minted :
                        /\ i.token = a.wit /\ p.token = a.proof
                        /\ \A iat \in a.wit.claims.iat :
                             a.at < iat + i.ttl + Leeway + MaxSkew
                        /\ a.at < p.at + ProofTtl + Leeway + 2 * MaxSkew
                        /\ \A most \in MaxLifetime : p.exp <= a.clock + most
    BY DEF AcceptedInLifetime
  <2>1. PICK i \in issued, p \in minted : AcceptedAs(a, i, p)
    BY DEF Inv, AcceptedOk
  <2>2. QED
    BY <2>1 DEF AcceptedAs, Genuine
<1>2. QED
  BY SpecInv, <1>1, PTL

(* No proof is accepted under a confirmed JWK that is not, member by       *)
(* member, the key it was signed with, under that key's algorithm: what    *)
(* to_verifying_key demands in issue_wit and wit::verify.                  *)
THEOREM AcceptsOnlyWholeKeys == Spec => []ConfirmedKeyIsWhole
<1>1. Inv => ConfirmedKeyIsWhole
  <2> SUFFICES ASSUME Inv, NEW a \in accepted
               PROVE  \E p \in minted :
                        LET own == FromVerifyingKey(p.key)
                        IN  /\ p.token = a.proof
                            /\ \A member \in DOMAIN own :
                                 a.wit.claims.cnf[member] = own[member]
                            /\ a.proof.header.alg \in own.alg
    BY DEF ConfirmedKeyIsWhole
  <2>1. PICK p \in minted : p.token = a.proof /\ Holder(a.wit) = {p.key}
    BY DEF Inv, AcceptedOk, AcceptedAs, Genuine
  <2> DEFINE own == FromVerifyingKey(p.key)
             cnf == a.wit.claims.cnf
  <2>2. p.key \in ToVerifyingKey(cnf)
    BY <2>1 DEF Holder
  <2>3. /\ cnf.alg = {p.key.alg} /\ cnf.x = X(p.key)
        /\ cnf.y = IF p.key.alg = "ES256" THEN {Y(p.key)} ELSE {}
        /\ cnf.kty = Kty(p.key.alg) /\ cnf.crv = Crv(p.key.alg)
    BY <2>2 DEF ToVerifyingKey
  <2> HIDE DEF cnf
  <2>4. \A member \in DOMAIN own : cnf[member] = own[member]
    BY <2>3 DEF FromVerifyingKey
  <2>5. a.proof.header.alg = p.key.alg
    BY <2>1, JwsMade DEF Inv, MintedOk
  <2>6. own.alg = {p.key.alg}
    BY DEF FromVerifyingKey
  <2> HIDE DEF own
  <2>7. QED
    BY <2>1, <2>4, <2>5, <2>6 DEF own, cnf
<1>2. QED
  BY SpecInv, <1>1, PTL

(* A WIT verifies under the key of the start that issued it, or under the  *)
(* configured one, and under no other, damaged or not and whatever the     *)
(* clock: a restart with an ephemeral key (issuer's main) voids for good   *)
(* what was issued before it, for all who fetch the new key set.           *)
THEOREM VoidsAtRestart == Spec => []VerifiesOnlyItsStart
<1>1. Inv => VerifiesOnlyItsStart
  <2> SUFFICES ASSUME Inv, NEW v \in Verifiers, NEW b \in fetched[v],
                      NEW wit \in tokens, NEW clock \in Clocks,
                      VerifyWit(wit, IssuerKey(b), WitValidation(clock, {})) = "Ok"
               PROVE  \E i \in issued : i.token = wit /\ (configured \/ i.boot = b)
    BY DEF VerifiesOnlyItsStart
  <2>1. b \in DOMAIN BootKeys
    BY DEF Inv
  <2>2. JwsError(wit, WIT_TYP, IssuerKey(b)) = "Ok"
    BY WitOk
  <2>3. PICK i \in issued : i.token = wit /\ wit.sig.key = IssuerKey(b)
    BY <2>1, <2>2, IssuedWit
  <2>4. IssuerKey(b) = StartKey(configured, i.boot) /\ i.boot \in DOMAIN BootKeys
    BY <2>3, JwsMade DEF Inv, IssuedOk
  <2>5. configured \/ i.boot = b
    BY <2>1, <2>4, CredentialsAssumption DEF IssuerKey, StartKey
  <2>6. QED
    BY <2>3, <2>5
<1>2. QED
  BY SpecInv, <1>1, PTL

(* The state keeps its kinds, and every WIT the issuer signs has a ttl of  *)
(* at least a second and at most the default, its end on no account past   *)
(* the last second there is (issue_wit's checks of ttl_secs).              *)
THEOREM KeepsTypes == Spec => []TypeOK
<1>1. Inv => TypeOK
  BY DEF Inv, IssuedOk, MintedOk, ClaimsOk, TypeOK
<1>2. QED
  BY SpecInv, <1>1, PTL

(***************************************************************************)
(* That nothing honest is refused.                                         *)
(***************************************************************************)
(* A token as it was signed passes its check under the key that signed it. *)
LEMMA JwsPasses ==
  ASSUME NEW typ, NEW claims, NEW key \in Keys, NEW token, token = Jws(typ, claims, key)
  PROVE  JwsError(token, typ, key) = "Ok"
<1>1. /\ token.compact /\ token.header.typ = typ /\ token.header.alg = key.alg
      /\ ~token.header.crit
  BY JwsMade
<1>2. token.sig = [key |-> key, over |-> <<token.header, token.claims>>]
  BY JwsSigned
<1>3. key.alg \in Algorithms
  BY CredentialsAssumption
<1>4. QED
  BY <1>1, <1>2, <1>3 DEF JwsError

(* A confirmation that names a key is of an algorithm that is supported. *)
LEMMA ConfirmationPasses ==
  ASSUME NEW jwk, NEW key \in ToVerifyingKey(jwk)
  PROVE  ConfirmationError(jwk) = "Ok"
<1>1. jwk.alg = {key.alg} /\ key.alg \in Algorithms
  BY CredentialsAssumption DEF ToVerifyingKey
<1>2. jwk.alg # {} /\ ~(jwk.alg \subseteq ForbiddenAlgs) /\ jwk.alg \subseteq Algorithms
  BY <1>1 DEF Algorithms, ForbiddenAlgs
<1>3. ValidatedAlg(jwk.alg) = "Ok"
  BY <1>2 DEF ValidatedAlg
<1>4. QED
  BY <1>3 DEF ConfirmationError

(* A WIT of the issuer's, in its lifetime and under the right key. *)
LEMMA WitPasses ==
  ASSUME Inv, NEW i \in issued, NEW key \in Holder(i.token), NEW clock \in Nat,
         NEW issuer \in {{}, i.token.claims.iss},
         \A iat \in i.token.claims.iat : iat <= clock + Leeway,
         clock < U64Max, clock < i.token.claims.exp + Leeway
  PROVE  VerifyWit(i.token, StartKey(configured, i.boot), WitValidation(clock, issuer)) = "Ok"
<1> DEFINE v == WitValidation(clock, issuer)
<1>1. v.now = clock /\ v.leeway = Leeway /\ v.expectedIssuer = issuer
  BY DEF WitValidation
<1> HIDE DEF v
<1>2. /\ IssuedOk(i, configured, tokens)
      /\ i.token = Jws(WIT_TYP, i.token.claims, StartKey(configured, i.boot))
      /\ ClaimsOk(i.token.claims, i.by, i.ttl)
  BY DEF Inv, IssuedOk
<1>3. StartKey(configured, i.boot) \in Keys
  BY <1>2, CredentialsAssumption DEF IssuedOk, StartKey
<1>4. JwsError(i.token, WIT_TYP, StartKey(configured, i.boot)) = "Ok"
  BY <1>2, <1>3, JwsPasses
<1>5. ~Expired(i.token.claims.exp, v)
  BY <1>1, <1>2, ExpiredExactly DEF ClaimsOk
<1>6. ASSUME NEW iat \in i.token.claims.iat
      PROVE  ~(iat > SaturatingAdd(v.now, v.leeway))
  <2>1. {U64Max, Leeway, clock, iat, i.ttl} \subseteq Nat /\ iat + i.ttl <= U64Max
    BY <1>2, CredentialsAssumption DEF ClaimsOk
  <2>2. iat <= clock + Leeway
    OBVIOUS
  <2>3. QED
    BY <1>1, <2>1, <2>2 DEF SaturatingAdd
<1>7. ConfirmationError(i.token.claims.cnf) = "Ok"
  BY ConfirmationPasses DEF Holder
<1>8. WitClaims(i.token.claims)
  BY <1>2 DEF ClaimsOk
<1>9. VerifyWit(i.token, StartKey(configured, i.boot), v) = "Ok"
  BY <1>1, <1>4, <1>5, <1>6, <1>7, <1>8 DEF VerifyWit, IssuerOk
<1>10. QED
  BY <1>9 DEF v

(* A proof over it, for this recipient and the tokens of the request. *)
LEMMA WptPasses ==
  ASSUME Inv, NEW p \in minted, NEW v \in Verifiers, NEW clock \in Nat, NEW others,
         p.key \in Keys, p.aud = Audience[v], SameOthers(p, others),
         clock < U64Max, clock < p.exp + Leeway,
         \A most \in MaxLifetime : p.exp <= clock + most
  PROVE  VerifyWpt(p.token, p.key, WptValidation(v, clock, p.wit, p.txn, others)) = "Ok"
<1> DEFINE u == WptValidation(v, clock, p.wit, p.txn, others)
<1>1. /\ u.now = clock /\ u.leeway = Leeway /\ u.audience = Audience[v]
      /\ u.wit = p.wit /\ u.txnToken = p.txn /\ u.otherTokens = others
      /\ u.maxLifetime = MaxLifetime
  BY DEF WptValidation
<1> HIDE DEF u
<1>2. /\ p.token = Jws(WPT_TYP, p.token.claims, p.key) /\ ProofClaims(p)
      /\ p.exp \in Nat /\ p.exp <= U64Max
  BY DEF Inv, MintedOk
<1>3. JwsError(p.token, WPT_TYP, p.key) = "Ok"
  BY <1>2, JwsPasses
<1>4. ~Expired(p.token.claims.exp, u)
  BY <1>1, <1>2, ExpiredExactly DEF ProofClaims
<1>5. ~LifetimeTooLong(p.token.claims.exp, u)
  BY <1>1, <1>2, LifetimeExactly DEF ProofClaims
<1>6. OtherTokensBound(p.token.claims, u)
  <2>1. p.token.claims.oth = Entries(p.others)
    BY <1>2 DEF ProofClaims
  <2>2. ASSUME NEW n \in DOMAIN p.token.claims.oth
        PROVE  n \in DOMAIN others /\ p.token.claims.oth[n] = OtherTokenEntry(others[n])
    <3>1. n \in DOMAIN p.others /\ p.token.claims.oth[n] = OtherTokenEntry(p.others[n])
      BY <2>1 DEF Entries
    <3>2. n \in DOMAIN others /\ others[n].text = p.others[n].text
      BY <3>1 DEF SameOthers
    <3>3. QED
      BY <3>1, <3>2 DEF OtherTokenEntry
  <2>3. QED
    BY <1>1, <2>2 DEF OtherTokensBound
<1>7. /\ WptClaims(p.token.claims) /\ p.token.claims.aud = u.audience
      /\ p.token.claims.wth = Thumbprint(u.wit) /\ TxnTokenBound(p.token.claims, u)
  BY <1>1, <1>2 DEF ProofClaims, TxnTokenBound
<1>8. VerifyWpt(p.token, p.key, u) = "Ok"
  BY <1>3, <1>4, <1>5, <1>6, <1>7 DEF VerifyWpt
<1>9. QED
  BY <1>8 DEF u

(* An honest credential in its lifetime is never refused by a recipient it *)
(* is for that holds the key of the start that issued it, or any start's   *)
(* key when one is configured: no check of wimsey_wit::verify or           *)
(* wimsey_wpt::verify turns away what issue_wit and issue produced.        *)
THEOREM AcceptsTheHonest == Spec => []IntactAccepted
<1>1. Inv => IntactAccepted
  <2> SUFFICES ASSUME Inv, NEW i \in issued, NEW p \in minted, NEW v \in Verifiers,
                      NEW issuer \in Issuers,
                      NEW clock \in Clocks, NEW others \in OtherTokens,
                      NEW b \in fetched[v],
                      configured \/ b = i.boot,
                      p.wit = i.token, Holder(i.token) = {p.key}, p.aud = Audience[v],
                      SameOthers(p, others), issuer \in {{}, i.token.claims.iss},
                      \A iat \in i.token.claims.iat : iat <= clock + Leeway,
                      clock < U64Max,
                      clock < i.token.claims.exp + Leeway, clock < p.exp + Leeway,
                      \A most \in MaxLifetime : p.exp <= clock + most
               PROVE  Verdict(v, IssuerKey(b), issuer, clock, i.token, p.token, p.txn, others)
                        = "Ok"
    BY DEF IntactAccepted
  <2>1. clock \in Nat
    BY DEF Clocks
  <2>2. IssuerKey(b) = StartKey(configured, i.boot)
    BY DEF IssuerKey, StartKey
  <2>3. p.key \in Holder(i.token) /\ p.key \in Keys
    BY DEF Holder, ToVerifyingKey
  <2>4. VerifyWit(i.token, IssuerKey(b), WitValidation(clock, issuer)) = "Ok"
    BY <2>1, <2>2, <2>3, WitPasses
  <2>5. PopKey(i.token) = p.key
    BY DEF PopKey, Holder
  <2>6. VerifyWpt(p.token, PopKey(i.token), WptValidation(v, clock, i.token, p.txn, others))
          = "Ok"
    BY <2>1, <2>3, <2>5, WptPasses
  <2>7. QED
    BY <2>4, <2>6 DEF Verdict
<1>2. QED
  BY SpecInv, <1>1, PTL
=============================================================================
