------------------------------ MODULE HttpSig ------------------------------
(***************************************************************************)
(* wimsey-httpsig: signing and verifying HTTP messages under the WIMSE     *)
(* profile of RFC 9421.  A dictionary field (Signature-Input, Signature)   *)
(* is the sequence of its members.  A Signature-Input member is            *)
(*   [label, components, params]                                           *)
(* where components is the inner list (its order is part of the text the   *)
(* signature covers and carries nothing else) and params is the verbatim   *)
(* parameter string, as the sequence of <<name, value>> pairs it spells.   *)
(* Signatures are symbolic: [ok, key, base] verifies under key, over base. *)
(***************************************************************************)
EXTENDS HttpMessage, U64, Integers, FiniteSets

CONSTANT Bad  \* a parameter value that does not parse as its type

WIMSE_TAG == "wimse-workload-to-workload"

(***************************************************************************)
(* Parameters.                                                             *)
(***************************************************************************)
ParamNames == {"created", "expires", "keyid", "alg", "nonce", "tag",
               "wimse-aud", "wimse-sign-response", "wimse-req-nonce"}

(* A repeated parameter: the last one wins.  Unknown names are ignored. *)
ParseParams(raw) ==
  [n \in ParamNames |->
     {raw[i][2] : i \in {i \in DOMAIN raw :
                           /\ raw[i][1] = n
                           /\ \A j \in DOMAIN raw : j > i => raw[j][1] # n}}]

ParamsParse(raw) ==
  \A i \in DOMAIN raw : raw[i][1] \in ParamNames => raw[i][2] # Bad

(***************************************************************************)
(* The WIMSE profile of the parameters, and of the covered components.     *)
(***************************************************************************)
CommonProfileError(p) ==
  IF p["keyid"] # {} \/ p["alg"] # {} THEN "ForbiddenParameter"
  ELSE IF \E n \in {"created", "expires", "nonce", "tag"} : p[n] = {}
    THEN "MissingParameter"
  ELSE IF p["tag"] # {WIMSE_TAG} THEN "WrongTag"
  ELSE "Ok"

CheckRequestProfile(p) ==
  IF CommonProfileError(p) # "Ok" THEN CommonProfileError(p)
  ELSE IF p["wimse-aud"] = {} THEN "MissingParameter"
  ELSE "Ok"

CheckResponseProfile(p) ==
  IF CommonProfileError(p) # "Ok" THEN CommonProfileError(p)
  ELSE IF p["wimse-aud"] # {} THEN "ForbiddenParameter"
  ELSE IF p["wimse-req-nonce"] = {} THEN "MissingParameter"
  ELSE "Ok"

(* What a WIMSE signature covers: the target, and each of these headers    *)
(* the message carries.  A CONNECT has an authority and no path or query.  *)
RequestHeaders  == {"content-type", "content-digest", "authorization",
                    "txn-token", "workload-identity-token"}
ResponseHeaders == {"content-type", "content-digest", "workload-identity-token"}

Carried(headers, names) ==
  {Component(n) : n \in {n \in names : HasHeader(headers, n)}}

RequestComponents(request) ==
  (IF request.method = CONNECT THEN {Method, Authority} ELSE {Method, Path, Query})
    \cup Carried(request.headers, RequestHeaders)

(* Mutant: the status is left out. *)
ResponseComponentsButStatus(response, request) ==
  {Req(Method)}
    \cup (IF request.method = CONNECT THEN {Req(Authority)}
                                      ELSE {Req(Path), Req(Query)})
    \cup Carried(response.headers, ResponseHeaders)

ResponseComponents(response, request) ==
  {Status, Req(Method)}
    \cup (IF request.method = CONNECT THEN {Req(Authority)}
                                      ELSE {Req(Path), Req(Query)})
    \cup Carried(response.headers, ResponseHeaders)

(* A CONNECT must not cover a path or a query. *)
ConnectComponentsOk(message, components) ==
  LET Target(c) == IF message.kind = "response" THEN Req(c) ELSE c
  IN  ComponentValue(message, Target(Method)) = {<<CONNECT>>}
        => {Target(Path), Target(Query)} \cap components = {}

(***************************************************************************)
(* Finding the signature to verify.                                        *)
(***************************************************************************)
(* split_dictionary: an empty field is no dictionary, and a label that     *)
(* occurs twice is an error rather than resolved.                          *)
DictionaryOk(dict) ==
  /\ dict # <<>>
  /\ \A i, j \in DOMAIN dict : dict[i].label = dict[j].label => i = j

UnderProfile(config) == config.wimseProfile \/ config.wimseResponseProfile

(* Mutant: a tag of any value will do. *)
HasAnyTag(member) ==
  \E i \in DOMAIN member.params : member.params[i][1] = "tag"

(* Any tag parameter of the member counts, not only the last. *)
HasWimseTag(member) ==
  \E i \in DOMAIN member.params :
     member.params[i][1] = "tag" /\ member.params[i][2] = WIMSE_TAG

(* A lone signature is judged whatever its tag; among several, the WIMSE   *)
(* one is found by tag under a profile, and by label otherwise.            *)
Candidates(input, config) ==
  IF Len(input) = 1 THEN {1}
  ELSE IF UnderProfile(config) THEN {i \in DOMAIN input : HasWimseTag(input[i])}
  ELSE {i \in DOMAIN input : config.label = {input[i].label}}

Chosen(input, config) == input[CHOOSE i \in Candidates(input, config) : TRUE]

(* The inner list names only components the crate models. *)
Unsupported(member) == \E c \in member.components : c.name = "@unsupported"

SelectMember(input, config) ==
  IF ~DictionaryOk(input) THEN "Parse"
  ELSE IF Candidates(input, config) = {}
    THEN IF UnderProfile(config) THEN "NoWimseSignature" ELSE "LabelMismatch"
  ELSE IF \E i, j \in Candidates(input, config) : i # j
    THEN "AmbiguousWimseSignature"
  ELSE IF /\ ~UnderProfile(config)
          /\ config.label \notin {{}, {Chosen(input, config).label}}
    THEN "LabelMismatch"
  ELSE IF Unsupported(Chosen(input, config)) THEN "UnsupportedComponent"
  ELSE IF ~ParamsParse(Chosen(input, config).params) THEN "Parse"
  ELSE "Ok"

ParseSignature(sigs, label) ==
  IF ~DictionaryOk(sigs) THEN "Parse"
  ELSE IF \A i \in DOMAIN sigs : sigs[i].label # label THEN "LabelMismatch"
  ELSE IF \E i \in DOMAIN sigs : sigs[i].label = label /\ ~sigs[i].sig.ok
    THEN "MalformedSignature"
  ELSE "Ok"

SignatureLabelled(sigs, label) ==
  sigs[CHOOSE i \in DOMAIN sigs : sigs[i].label = label].sig

(***************************************************************************)
(* Signing and verifying.  A key is [id, alg].                             *)
(***************************************************************************)
Rfc9421Alg(algorithm) ==
  CASE algorithm = "EdDSA" -> "ed25519"
    [] algorithm = "ES256" -> "ecdsa-p256-sha256"

Sign(message, components, raw, key) ==
  [ok |-> TRUE, key |-> key.id, base |-> SignatureBase(message, components, raw)]

(* Mutant: the operands are swapped. *)
TooOldSwapped(p, config) ==
  \/ config.maxAge # {} /\ p["created"] = {}
  \/ \E now \in config.now, c \in p["created"], age \in config.maxAge :
       SaturatingSub(c, now) > age

TooOld(p, config) ==
  \/ config.maxAge # {} /\ p["created"] = {}
  \/ \E now \in config.now, c \in p["created"], age \in config.maxAge :
       SaturatingSub(now, c) > age

(* Mutant: the sum wraps around. *)
PastExpiryWrapping(e, now, leeway) == now > WrappingAdd(e, leeway)

PastExpiry(e, now, leeway) == now > SaturatingAdd(e, leeway)

(* The time checks, made only once the parameters are authentic. *)
CheckTimes(p, config) ==
  IF \E c \in p["created"], e \in p["expires"] : e < c THEN "InvalidTimeWindow"
  ELSE IF config.maxAge # {} /\ config.now = {} THEN "TooOld"
  ELSE IF \E now \in config.now, e \in p["expires"] :
            PastExpiry(e, now, config.leeway) THEN "Expired"
  ELSE IF \E now \in config.now, c \in p["created"] :
            c > SaturatingAdd(now, config.leeway) THEN "CreatedInFuture"
  ELSE IF TooOld(p, config) THEN "TooOld"
  ELSE "Ok"

(* The checks on what was proven authentic: coverage, audience, nonce. *)

(* Mutant: one of the required components is enough. *)
CoversSome(member, config) ==
  config.requiredComponents \cap member.components # {}

CoversRequired(member, config) ==
  config.requiredComponents \subseteq member.components

AudienceOk(p, config) ==
  config.wimseProfile \/ config.expectedAudiences # {}
    => p["wimse-aud"] \cap config.expectedAudiences # {}

(* Mutant: a nonce comes back, whichever. *)
SomeReqNonce(p, config) == config.expectedReqNonce = {} \/ p["wimse-req-nonce"] # {}

ReqNonceOk(p, config) == config.expectedReqNonce \in {{}, p["wimse-req-nonce"]}

CheckBinding(member, config) ==
  LET p == ParseParams(member.params) IN
  IF ~CoversRequired(member, config)  THEN "MissingRequiredComponent"
  ELSE IF ~AudienceOk(p, config)      THEN "AudienceMismatch"
  ELSE IF ~ReqNonceOk(p, config)      THEN "RequestNonceMismatch"
  ELSE CheckTimes(p, config)

CheckProfile(message, member, config) ==
  LET p == ParseParams(member.params) IN
  IF config.wimseProfile /\ CheckRequestProfile(p) # "Ok"
    THEN CheckRequestProfile(p)
  ELSE IF config.wimseResponseProfile /\ CheckResponseProfile(p) # "Ok"
    THEN CheckResponseProfile(p)
  ELSE IF UnderProfile(config) /\ ~ConnectComponentsOk(message, member.components)
    THEN "ForbiddenComponent"
  ELSE "Ok"

(* One member, with the signature that shares its label. *)
VerifyMember(message, member, sig, key, config) ==
  LET p == ParseParams(member.params) IN
  IF CheckProfile(message, member, config) # "Ok"
    THEN CheckProfile(message, member, config)
  ELSE IF /\ config.acceptedAlgorithms # {}
          /\ key.alg \notin config.acceptedAlgorithms
    THEN "UnsupportedAlg"
  ELSE IF p["alg"] \notin {{}, {Rfc9421Alg(key.alg)}} THEN "UnsupportedAlg"
  ELSE IF ~HasBase(message, member.components, member.params) THEN "NoBase"
  ELSE IF ~(/\ sig.key = key.id
            /\ sig.base = SignatureBase(message, member.components, member.params))
    THEN "InvalidSignature"
  ELSE CheckBinding(member, config)

(* NoBase stands for MissingComponent, UnsupportedComponent and            *)
(* InvalidComponentValue: some covered component has no usable value.      *)
(* Which error it is depends on which comes first, and components are a    *)
(* set here.                                                               *)
Verify(message, input, sigs, key, config) ==
  IF SelectMember(input, config) # "Ok" THEN SelectMember(input, config)
  ELSE LET member == Chosen(input, config) IN
    IF ParseSignature(sigs, member.label) # "Ok"
      THEN ParseSignature(sigs, member.label)
    ELSE VerifyMember(message, member, SignatureLabelled(sigs, member.label),
                      key, config)

DefaultConfig ==
  [now |-> {}, leeway |-> 0, label |-> {}, requiredComponents |-> {},
   maxAge |-> {}, wimseProfile |-> FALSE, expectedAudiences |-> {},
   wimseResponseProfile |-> FALSE, expectedReqNonce |-> {},
   acceptedAlgorithms |-> {}]
=============================================================================
