---------------------------- MODULE Credentials ----------------------------
(***************************************************************************)
(* An issuer, workloads and recipients: WITs issued over HTTP, proofs of   *)
(* possession minted under them, and both verified together as             *)
(* `wimsey wpt verify` does.  The issuer may restart, with a configured    *)
(* signing key or with a fresh ephemeral one; recipients keep the key they *)
(* last fetched.  Clocks of recipients and workloads are within MaxSkew of *)
(* the issuer's, which is the clock of the model.                          *)
(*                                                                         *)
(* Tokens are public: whatever circulates may be presented by anyone, any  *)
(* number of times, beside any other token, and a hop may damage it.       *)
(***************************************************************************)
EXTENDS Wpt, Integers, FiniteSets, Sequences

CONSTANTS
  BootKeys,          \* the signing key drawn at each start of the issuer
  ForeignKey,        \* the key of an issuer nobody here trusts
  Iss, Subjects,     \* the issuer's name; the workload identifiers
  CnfJwks,           \* the keys that workloads ask to be confirmed, as JWKs
  Ttls,              \* the ttl members of requests
  CommandKeys, CommandTtls,  \* what `wimsey wit issue` is given
  WorkloadKeys,      \* the keys workloads hold
  ProofTtl, TxnTokens, OtherTokens,  \* what proofs are minted with
  Verifiers, Audience,               \* Audience[v]
  DefaultTtl, Leeway, MaxLifetime,
  MaxSkew, MaxTime, MaxIssued, MaxMinted, MaxDamaged, MaxAccepted  \* bounds

ASSUME CredentialsAssumption ==
  /\ \A key \in Keys : key.alg \in Algorithms
  /\ BootKeys \in Seq(Keys \ {ForeignKey}) /\ BootKeys # <<>>
  /\ \A b, c \in DOMAIN BootKeys : BootKeys[b] = BootKeys[c] => b = c
  /\ DefaultTtl \in Nat \ {0} /\ Ttls \subseteq SUBSET Nat /\ CommandTtls \subseteq Nat
  /\ {U64Max, ProofTtl, Leeway, MaxSkew, MaxTime, MaxDamaged} \subseteq Nat
  /\ MaxLifetime \subseteq Nat

VARIABLES
  now,
  configured,  \* whether WIMSEY_ISSUER_KEY is set
  boot,        \* how often the issuer has started
  issued,      \* the WITs issued: [token, by, ttl, boot]
  minted,      \* the proofs minted: [token, key, wit, aud, txn, others, at, exp]
  tokens,      \* the tokens in circulation
  damaged,     \* how many tokens were damaged
  fetched,     \* fetched[v]: the start whose key recipient v holds, if any
  accepted     \* what recipients accepted

vars == <<now, configured, boot, issued, minted, tokens, damaged, fetched, accepted>>

(***************************************************************************)
(* The issuer.                                                             *)
(***************************************************************************)
(* Mutant: an ephemeral key is kept across a restart. *)
IssuerKeyKept(b) == BootKeys[1]

(* A fresh key for each start, unless one is configured. *)
IssuerKey(b) == IF configured THEN BootKeys[1] ELSE BootKeys[b]

(* Mutant: an explicit ttl of zero passes. *)
TtlAtMostDefault(ttl) == ttl <= DefaultTtl

(* The default is also the maximum. *)
TtlAllowed(ttl) == ttl # 0 /\ ttl <= DefaultTtl

RequestedTtl(ttl) == IF ttl = {} THEN DefaultTtl ELSE CHOOSE t \in ttl : TRUE

ClaimsFor(iss, sub, iat, exp, cnf) ==
  [iss |-> iss, sub |-> sub, iat |-> {iat}, exp |-> exp,
   jti |-> Cardinality(issued), cnf |-> cnf]

Issue(claims, by, ttl) ==
  LET token == IssueWit(claims, IssuerKey(boot))
  IN  /\ Cardinality(issued) < MaxIssued
      /\ issued' = issued \cup {[token |-> token, by |-> by, ttl |-> ttl, boot |-> boot]}
      /\ tokens' = tokens \cup {token}
      /\ UNCHANGED <<now, configured, boot, minted, damaged, fetched, accepted>>

(* issue_wit; a refusal (400) changes nothing. *)
IssueWitFor(sub, cnf, ttl, exp) ==
  /\ ToVerifyingKey(cnf) # {}
  /\ TtlAllowed(ttl)
  /\ Issue(ClaimsFor({Iss}, sub, now, exp, cnf), "issuer", ttl)

(* What a WIT may be issued, and be required, under: the name, or none. *)
Issuers == {{}, {Iss}}

(* run_wit's Issue, by somebody who has the issuer's key file: under any   *)
(* or no name, for any ttl, by the clock of the machine it runs on.        *)
WitIssue(iss, sub, key, ttl, clock, exp) ==
  /\ configured
  /\ Issue(ClaimsFor(iss, sub, clock, exp, FromVerifyingKey(key)), "command", ttl)

Restart ==
  /\ boot < Len(BootKeys)
  /\ boot' = boot + 1
  /\ UNCHANGED <<now, configured, issued, minted, tokens, damaged, fetched, accepted>>

(***************************************************************************)
(* Workloads, and what happens to tokens on the way.                       *)
(***************************************************************************)
Clocks == {t \in 0..(now + MaxSkew) : t + MaxSkew >= now}

Entries(others) == [n \in DOMAIN others |-> OtherTokenEntry(others[n])]

(* The proof is bound to whatever token is at hand, the minter's or not. *)
MintProof(key, wit, aud, txn, others, exp) ==
  LET claims == [aud |-> aud, exp |-> exp, jti |-> Cardinality(minted),
                 wth |-> Thumbprint(wit), tth |-> {Thumbprint(t) : t \in txn},
                 oth |-> Entries(others)]
      token  == IssueWpt(claims, key)
  IN  /\ Cardinality(minted) < MaxMinted
      /\ minted' = minted \cup
           {[token |-> token, key |-> key, wit |-> wit, aud |-> aud, txn |-> txn,
             others |-> others, at |-> now, exp |-> exp]}
      /\ tokens' = tokens \cup {token}
      /\ UNCHANGED <<now, configured, boot, issued, damaged, fetched, accepted>>

(* An issuer nobody trusts confirms a key for one of our workloads. *)
ForeignIssue(sub, cnf) ==
  /\ tokens' = tokens \cup
       {IssueWit([iss |-> {Iss}, sub |-> sub, iat |-> {}, exp |-> U64Max,
                  jti |-> 0, cnf |-> cnf], ForeignKey)}
  /\ UNCHANGED <<now, configured, boot, issued, minted, damaged, fetched, accepted>>

(* The text of a token, or its header, may change; what was signed cannot. *)
Altered(token, compact, header) ==
  [compact |-> compact, header |-> header, claims |-> token.claims, sig |-> token.sig]

Damaged(token) ==
  {Altered(token, FALSE, token.header)} \cup
  {Altered(token, TRUE, header) :
     header \in [typ: {WIT_TYP, WPT_TYP}, alg: {token.header.alg, "EdDSA", "none"},
                 crit: BOOLEAN]}

Damage(token, changed) ==
  /\ damaged < MaxDamaged
  /\ tokens' = tokens \cup {changed}
  /\ damaged' = damaged + 1
  /\ UNCHANGED <<now, configured, boot, issued, minted, fetched, accepted>>

(***************************************************************************)
(* The recipients.                                                         *)
(***************************************************************************)
Fetch(v) ==
  /\ fetched' = [fetched EXCEPT ![v] = {boot}]
  /\ UNCHANGED <<now, configured, boot, issued, minted, tokens, damaged, accepted>>

(* A recipient may require the issuer's name, or none. *)
WitValidation(clock, issuer) ==
  [now |-> clock, leeway |-> Leeway, expectedIssuer |-> issuer]

WptValidation(v, clock, wit, txn, others) ==
  [now |-> clock, leeway |-> Leeway, audience |-> Audience[v], wit |-> wit,
   txnToken |-> txn, otherTokens |-> others, maxLifetime |-> MaxLifetime]

(* run_wpt's Verify: the WIT first, under the issuer's key, then the proof *)
(* under the key that the verified WIT confirms.                           *)
Verdict(v, key, issuer, clock, wit, proof, txn, others) ==
  LET witVerdict == VerifyWit(wit, key, WitValidation(clock, issuer))
  IN  IF witVerdict # "Ok" THEN witVerdict
      ELSE VerifyWpt(proof, PopKey(wit), WptValidation(v, clock, wit, txn, others))

Accept(v, b, issuer, clock, wit, proof, txn, others) ==
  /\ Cardinality(accepted) < MaxAccepted
  /\ Verdict(v, IssuerKey(b), issuer, clock, wit, proof, txn, others) = "Ok"
  /\ accepted' = accepted \cup
       {[verifier |-> v, issuer |-> issuer, wit |-> wit, proof |-> proof, txn |-> txn,
         others |-> others, at |-> now, clock |-> clock]}
  /\ UNCHANGED <<now, configured, boot, issued, minted, tokens, damaged, fetched>>

Tick ==
  /\ now < MaxTime
  /\ now' = now + 1
  /\ UNCHANGED <<configured, boot, issued, minted, tokens, damaged, fetched, accepted>>

(***************************************************************************)
(* The specification.                                                      *)
(***************************************************************************)
Init ==
  /\ now = 0 /\ configured \in BOOLEAN /\ boot = 1
  /\ issued = {} /\ minted = {} /\ tokens = {} /\ damaged = 0
  /\ fetched = [v \in Verifiers |-> {}]
  /\ accepted = {}

Next ==
  \/ \E sub \in Subjects, cnf \in CnfJwks, ttl \in Ttls :
       \E exp \in CheckedAdd(now, RequestedTtl(ttl)) :
         IssueWitFor(sub, cnf, RequestedTtl(ttl), exp)
  \/ \E iss \in Issuers, sub \in Subjects, key \in CommandKeys, ttl \in CommandTtls,
        clock \in Clocks :
       \E exp \in CheckedAdd(clock, ttl) : WitIssue(iss, sub, key, ttl, clock, exp)
  \/ Restart
  \/ \E key \in WorkloadKeys, wit \in tokens, v \in Verifiers,
        txn \in TxnTokens, others \in OtherTokens, clock \in Clocks :
       \E exp \in CheckedAdd(clock, ProofTtl) :
         MintProof(key, wit, Audience[v], txn, others, exp)
  \/ \E sub \in Subjects, cnf \in CnfJwks : ForeignIssue(sub, cnf)
  \/ \E token \in tokens : \E changed \in Damaged(token) : Damage(token, changed)
  \/ \E v \in Verifiers : Fetch(v)
  \/ \E v \in Verifiers : \E b \in fetched[v] :
       \E issuer \in Issuers, clock \in Clocks, wit, proof \in tokens,
          txn \in TxnTokens, others \in OtherTokens :
         Accept(v, b, issuer, clock, wit, proof, txn, others)
  \/ Tick

Spec == Init /\ [][Next]_vars

-----------------------------------------------------------------------------
(***************************************************************************)
(* Properties.                                                             *)
(***************************************************************************)
Holder(wit) == ToVerifyingKey(wit.claims.cnf)

(* The header values a proof was minted over are the ones presented. *)
SameOthers(p, others) ==
  \A n \in DOMAIN p.others : /\ n \in DOMAIN others
                             /\ others[n].text = p.others[n].text

Genuine(a, i, p) ==
  /\ i.token = a.wit /\ p.token = a.proof
  /\ Holder(a.wit) = {p.key} /\ a.issuer \subseteq a.wit.claims.iss
  /\ p.wit = a.wit /\ p.aud = Audience[a.verifier] /\ p.txn = a.txn
  /\ SameOthers(p, a.others)

(* What is accepted as a caller's credential is a WIT the issuer issued,   *)
(* under the name the recipient requires if it requires one, and a proof   *)
(* its holder minted for exactly this WIT, this recipient, the Txn-Token   *)
(* of this request or its absence, and every context token named           *)
(* (wit::verify, then wpt::verify).                                        *)
CredentialAuthentic ==
  \A a \in accepted : \E i \in issued, p \in minted : Genuine(a, i, p)

(* A credential is good for the lifetime its WIT was given and the proof   *)
(* asks for, skew and leeway included, and never longer than the recipient *)
(* lets a proof still have.                                                *)
AcceptedInLifetime ==
  \A a \in accepted : \E i \in issued, p \in minted :
    /\ i.token = a.wit /\ p.token = a.proof
    /\ \A iat \in a.wit.claims.iat : a.at < iat + i.ttl + Leeway + MaxSkew
    /\ a.at < p.at + ProofTtl + Leeway + 2 * MaxSkew
    /\ \A most \in MaxLifetime : p.exp <= a.clock + most

(* An honest credential in its lifetime is accepted by every recipient it  *)
(* is for that holds the key of the start that issued it -- and, with a    *)
(* configured key, of any start: a restart then costs nothing.  A context  *)
(* token that the proof leaves unnamed does not get it refused.            *)
IntactAccepted ==
  \A i \in issued, p \in minted, v \in Verifiers, issuer \in Issuers,
     clock \in Clocks, others \in OtherTokens :
    \A b \in fetched[v] :
      /\ configured \/ b = i.boot
      /\ p.wit = i.token /\ Holder(i.token) = {p.key} /\ p.aud = Audience[v]
      /\ SameOthers(p, others)
      /\ issuer \in {{}, i.token.claims.iss}
      /\ \A iat \in i.token.claims.iat : iat <= clock + Leeway
      /\ clock < U64Max
      /\ clock < i.token.claims.exp + Leeway /\ clock < p.exp + Leeway
      /\ \A most \in MaxLifetime : p.exp <= clock + most
      => Verdict(v, IssuerKey(b), issuer, clock, i.token, p.token, p.txn, others) = "Ok"

(* A WIT is good under the key of the start that issued it, or under the   *)
(* configured one, and no other: a recipient that has fetched a restarted  *)
(* issuer's ephemeral key takes nothing from before the restart, and one   *)
(* that still holds an older key nothing from after it, however old, new,  *)
(* or damaged the token is and whatever the clock (main of the issuer,     *)
(* jwks and wit::verify).                                                  *)
VerifiesOnlyItsStart ==
  \A v \in Verifiers : \A b \in fetched[v], wit \in tokens, clock \in Clocks :
    VerifyWit(wit, IssuerKey(b), WitValidation(clock, {})) = "Ok" =>
      \E i \in issued : i.token = wit /\ (configured \/ i.boot = b)

(* The key that a WIT confirms is one key in all its members -- algorithm, *)
(* kind, curve and coordinates --, and a proof accepted under it was       *)
(* signed with that key and names its algorithm: a JWK that names one      *)
(* algorithm and has the shape of another gets no proof accepted           *)
(* (issue_wit's, wit::verify's and wpt::verify's use of to_verifying_key). *)
ConfirmedKeyIsWhole ==
  \A a \in accepted : \E p \in minted :
    LET own == FromVerifyingKey(p.key)
    IN  /\ p.token = a.proof
        /\ \A member \in DOMAIN own : a.wit.claims.cnf[member] = own[member]
        /\ a.proof.header.alg \in own.alg

(* The kinds of the state; a WIT of the issuer's lives at least a second   *)
(* and at most the default, whatever ttl was asked for (issue_wit).        *)
TypeOK ==
  /\ now \in 0..MaxTime /\ configured \in BOOLEAN /\ boot \in DOMAIN BootKeys
  /\ damaged \in 0..MaxDamaged
  /\ fetched \in [Verifiers -> SUBSET DOMAIN BootKeys]
  /\ \A i \in issued : \A iat \in i.token.claims.iat :
       /\ i.token \in tokens
       /\ i.token.claims.exp = iat + i.ttl /\ i.token.claims.exp <= U64Max
       /\ i.by = "issuer" => i.ttl \in 1..DefaultTtl
  /\ \A p \in minted : p.token \in tokens /\ p.exp <= U64Max
=============================================================================
