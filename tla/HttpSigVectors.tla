--------------------------- MODULE HttpSigVectors ---------------------------
(***************************************************************************)
(* The conformance vectors of HTTP message signatures, request and         *)
(* response, as wimsey-conformance generates them, and what its runner     *)
(* makes of each case.  A positive case of a request is                    *)
(*   [request, body, input, sigs, now, maxAge, required, audiences]        *)
(* and of a response [request, input, sigs, wit, reqNonce].                *)
(***************************************************************************)
EXTENDS TokenVectors, HttpSig

(***************************************************************************)
(* Messages, parameters and signatures.                                    *)
(***************************************************************************)
AUDIENCE == "https://service.example/transfer"
NONCE    == "abcd1111"
HTTPSIG_NOW == 1700000100
REWRITTEN_AUTHORITY == "attacker.example.net"

Fields(body, wit) ==
  "content-type" :> <<"application/json">> @@ "content-digest" :> ContentDigest(body)
    @@ "workload-identity-token" :> <<wit>>

Golden(alg) ==
  LET body == "amount 100" IN
  [method |-> "POST", authority |-> "service.example", path |-> "/transfer", query |-> {},
   headers |-> Fields(body, WitFor(alg, SUBJECT, "POP")), body |-> body]

(* A CONNECT carrying the golden request's WIT. *)
ConnectRequest(alg) ==
  [Golden(alg) EXCEPT
     !.method = CONNECT, !.authority = "ledger.example:443", !.path = "",
     !.headers = "workload-identity-token" :> @["workload-identity-token"]]

(* The order in which parameters are written. *)
ParamOrder == <<"created", "expires", "keyid", "alg", "nonce", "tag", "wimse-aud",
                "wimse-sign-response", "wimse-req-nonce">>
Written(params) ==
  FlattenSeq([i \in DOMAIN ParamOrder |->
    SetToSeq({<<ParamOrder[i], value>> : value \in params[ParamOrder[i]]})])

Common(nonce) ==
  "created" :> {IAT} @@ "expires" :> {IAT + 300} @@ "nonce" :> {nonce}
    @@ "tag" :> {WIMSE_TAG} @@ [n \in ParamNames |-> {}]
RequestParams ==
  "wimse-aud" :> {AUDIENCE} @@ "wimse-sign-response" :> {TRUE} @@ Common(NONCE)
ResponseParams == "wimse-req-nonce" :> {NONCE} @@ Common("abcd2222")

(* The two fields of a message with one signature. *)
Signed(message, components, params, label, key) ==
  [input |-> <<[label |-> label, components |-> components, params |-> Written(params)]>>,
   sigs  |-> <<[label |-> label,
                sig |-> Sign(message, components, Written(params), [id |-> key, alg |-> key.alg])]>>]

(* The same message signed by an intermediary, whose member comes first. *)
WithProxy(proxy, origin) ==
  [input |-> proxy.input \o origin.input, sigs |-> proxy.sigs \o origin.sigs]

SignedGolden(alg, params, label, seed) ==
  Signed(RequestMessage(Golden(alg)), RequestComponents(Golden(alg)), params, label,
         VectorKey(alg, seed))

WithProxySignature(alg, params, proxyTag) ==
  WithProxy(SignedGolden(alg, [params EXCEPT !["tag"] = {proxyTag}], "wimse", "PROXY"),
            SignedGolden(alg, params, "origin", "POP"))

(* What breaks the profile: a parameter that is dropped, added or changed. *)
ProfileChanges(prefix, params) ==
  LET With(name, value) == [params EXCEPT ![name] = value] IN
  {Neg(prefix \o "forbidden-alg-parameter", With("alg", {"ed25519"}), "ForbiddenParameter"),
   Neg(prefix \o "forbidden-keyid-parameter", With("keyid", {"issuer-key-1"}),
       "ForbiddenParameter"),
   Neg(prefix \o "wrong-tag", With("tag", {"some-other-protocol"}), "WrongTag")}
    \cup {Neg(prefix \o "missing-" \o name, With(name, {}), "MissingParameter") :
            name \in {"nonce", "created", "expires", "tag"}}

(***************************************************************************)
(* httpsig/sign: the request.                                              *)
(***************************************************************************)
HttpSigVector(alg) ==
  [request |-> Golden(alg), body |-> Golden(alg).body, now |-> HTTPSIG_NOW, maxAge |-> {},
   required |-> RequestComponents(Golden(alg)), audiences |-> {AUDIENCE}]
    @@ SignedGolden(alg, RequestParams, "wimse", "POP")

SelectionNegatives(alg) ==
  {Neg("two-wimse-signatures", WithProxySignature(alg, RequestParams, WIMSE_TAG),
       "AmbiguousWimseSignature"),
   Neg("no-wimse-signature",
       WithProxySignature(alg, [RequestParams EXCEPT !["tag"] = {"example-origin-hop"}],
                          "example-proxy-hop"), "NoWimseSignature")}

SignedConnect(alg, covered) ==
  [request |-> ConnectRequest(alg), required |-> covered]
    @@ Signed(RequestMessage(ConnectRequest(alg)), covered, RequestParams, "wimse",
              VectorKey(alg, "POP"))

HttpSigNegatives(alg) ==
  LET golden   == Golden(alg)
      rehosted == [golden EXCEPT !.authority = REWRITTEN_AUTHORITY]
  IN  {Neg(c.id, SignedGolden(alg, c.overrides, "wimse", "POP"), c.expect) :
         c \in ProfileChanges("", RequestParams)}
      \cup SelectionNegatives(alg)
      \cup
      {Neg("missing-wimse-aud",
           SignedGolden(alg, [RequestParams EXCEPT !["wimse-aud"] = {}], "wimse", "POP"),
           "MissingParameter"),
       Neg("audience-mismatch", [audiences |-> {"https://other.example/inbox"}],
           "AudienceMismatch"),
       Neg("audience-differs-only-by-normalization", [audiences |-> {AUDIENCE \o "/"}],
           "AudienceMismatch"),
       Neg("connect-covers-path",
           SignedConnect(alg, {Method, Path, Query, Component("workload-identity-token")}),
           "ForbiddenComponent"),
       Neg("tampered-body", [body |-> "amount 999"], "ContentDigestMismatch"),
       Neg("rerouted-path", [request |-> [golden EXCEPT !.path = "/admin"]],
           "InvalidSignature"),
       Neg("authority-rewritten-inside-the-covered-set",
           [request |-> rehosted]
             @@ Signed(RequestMessage(golden), RequestComponents(golden) \cup {Authority},
                       RequestParams, "wimse", VectorKey(alg, "POP")),
           "InvalidSignature"),
       Neg("created-in-future", [now |-> IAT - 1], "CreatedInFuture"),
       Neg("too-old", [now |-> IAT + 120, maxAge |-> {30}], "TooOld"),
       Neg("missing-required-component", [required |-> {Component("authorization")}],
           "MissingRequiredComponent")}

Zeros == [ok |-> TRUE, key |-> [alg |-> "none", secret |-> 0],
          base |-> [values |-> <<>>, params |-> <<>>]]

(* An intermediary's signature over components that the crate does not     *)
(* model, of zeros.                                                        *)
ForeignHop ==
  [input |-> <<[label |-> "proxy",
                components |-> {Component("@unsupported"), Component("content-type")},
                params |-> <<<<"created", IAT>>, <<"tag", "example-proxy-hop">>>>]>>,
   sigs  |-> <<[label |-> "proxy", sig |-> Zeros]>>]

HttpSigAccepted(alg) ==
  {Accepted("authority-rewritten-outside-the-covered-set",
            [request |-> [Golden(alg) EXCEPT !.authority = REWRITTEN_AUTHORITY]]),
   Accepted("wimse-signature-found-by-tag",
            WithProxySignature(alg, RequestParams, "example-proxy-hop")),
   Accepted("intermediary-signature-outside-this-profile",
            WithProxy(ForeignHop, SignedGolden(alg, RequestParams, "wimse", "POP"))),
   Accepted("audience-among-several",
            [audiences |-> {"https://other.example/inbox", AUDIENCE}]),
   Accepted("connect-covers-authority",
            SignedConnect(alg, RequestComponents(ConnectRequest(alg))))}

(* A pop key comes from a WIT that is accepted when the vector says. *)
PopKeyFromWit(alg, wit) ==
  {[id |-> PopKey(w), alg |-> PopKey(w).alg] : w \in {w \in {wit} : WitAccepted(alg, w, HTTPSIG_NOW)}}

VerdictUnder(keys, Judge(_)) ==
  IF keys = {} THEN "WitRejected" ELSE Judge(CHOOSE key \in keys : TRUE)

HttpSigCode(error) == IF error = "Parse" THEN "ParseError" ELSE error

(* A body that is not the one signed is caught by its digest alone. *)
DigestVerdict(c) ==
  IF HeaderValue(c.request.headers, "content-digest") = {} THEN "MissingComponent"
  ELSE IF \E digest \in HeaderValue(c.request.headers, "content-digest") :
            VerifyContentDigest(digest, c.body) THEN "Ok"
  ELSE "ContentDigestMismatch"

HttpSigConfig(c) ==
  [DefaultConfig EXCEPT !.now = {c.now}, !.requiredComponents = c.required,
                        !.maxAge = c.maxAge, !.wimseProfile = TRUE,
                        !.expectedAudiences = c.audiences]

HttpSigVerdict(alg, expect, c) ==
  IF expect = "ContentDigestMismatch" THEN DigestVerdict(c)
  ELSE VerdictUnder(PopKeyFromWit(alg, WitFor(alg, SUBJECT, "POP")), LAMBDA key :
         HttpSigCode(Verify(RequestMessage(c.request), c.input, c.sigs, key, HttpSigConfig(c))))

(***************************************************************************)
(* httpsig/sign: the response, by another workload with its own WIT.       *)
(***************************************************************************)
Response(alg) ==
  [status |-> 200,
   headers |-> Fields("status accepted", WitFor(alg, RESPONDER_SUBJECT, "RESPONDER_POP"))]

SignedResponse(alg, request, params) ==
  Signed(ExchangeMessage(Response(alg), request), ResponseComponents(Response(alg), Golden(alg)),
         params, "wimse", VectorKey(alg, "RESPONDER_POP"))

ResponseVector(alg) ==
  [request |-> Golden(alg), wit |-> WitFor(alg, RESPONDER_SUBJECT, "RESPONDER_POP"),
   reqNonce |-> NONCE] @@ SignedResponse(alg, Golden(alg), ResponseParams)

ResponseNegatives(alg) ==
  LET Sig(params) == SignedResponse(alg, Golden(alg), params)
      connect     == ConnectRequest(alg)
  IN  {Neg(c.id, Sig(c.overrides), c.expect) :
         c \in ProfileChanges("response-", ResponseParams)}
      \cup
      {Neg("response-carries-wimse-aud",
           Sig([ResponseParams EXCEPT !["wimse-aud"] = {AUDIENCE}]), "ForbiddenParameter"),
       Neg("response-missing-req-nonce",
           Sig([ResponseParams EXCEPT !["wimse-req-nonce"] = {}]), "MissingParameter"),
       Neg("lifted-onto-another-request",
           [request |-> [Golden(alg) EXCEPT !.path = "/admin"]], "InvalidSignature"),
       Neg("wrong-req-nonce", [reqNonce |-> "some-other-nonce"], "RequestNonceMismatch"),
       Neg("connect-response-covers-path-req",
           [request |-> connect] @@ SignedResponse(alg, connect, ResponseParams),
           "ForbiddenComponent"),
       Neg("verified-with-the-requester-key", [wit |-> WitFor(alg, SUBJECT, "POP")],
           "InvalidSignature")}

ResponseConfig(alg, c) ==
  [DefaultConfig EXCEPT !.now = {HTTPSIG_NOW}, !.wimseResponseProfile = TRUE,
                        !.requiredComponents = ResponseComponents(Response(alg), Golden(alg)),
                        !.expectedReqNonce = {c.reqNonce}]

ResponseVerdict(alg, c) ==
  VerdictUnder(PopKeyFromWit(alg, c.wit), LAMBDA key :
    HttpSigCode(Verify(ExchangeMessage(Response(alg), c.request), c.input, c.sigs, key,
                       ResponseConfig(alg, c))))
=============================================================================
