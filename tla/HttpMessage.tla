---------------------------- MODULE HttpMessage ----------------------------
(***************************************************************************)
(* HTTP requests and responses as wimsey-httpsig sees them: the covered    *)
(* components of RFC 9421 and the value each one derives to.               *)
(*                                                                         *)
(* The header fields of a message are grouped by name: headers[n] is the   *)
(* sequence of all list elements of the fields named n, in order.  The     *)
(* code joins the fields of a name with ", ", so one field "a, b" and two  *)
(* fields "a" and "b" derive the same value, here as there; the order of   *)
(* fields of different names is nothing any operation looks at.  Names are *)
(* compared up to ASCII case in the code and are canonical here.  An       *)
(* optional value (Option<T>) is a set of at most one element.             *)
(***************************************************************************)
EXTENDS Sequences, SequencesExt

CONSTANT
  LineBreaks  \* the list elements whose text contains a bare CR or LF

CONNECT == "CONNECT"

(***************************************************************************)
(* Components: a derived component is named with a leading "@", anything   *)
(* else is a header field; req is the `;req` parameter.                    *)
(***************************************************************************)
Component(name) == [name |-> name, req |-> FALSE]
Req(component)  == [name |-> component.name, req |-> TRUE]

Method    == Component("@method")
Authority == Component("@authority")
Path      == Component("@path")
Query     == Component("@query")
Status    == Component("@status")
RequestTarget == Component("@request-target")

Derived == {Method, Authority, Path, Query, Status, RequestTarget}

HasHeader(headers, name) == name \in DOMAIN headers

(* The same request with other fields. *)
WithHeaders(r, headers) ==
  [method |-> r.method, path |-> r.path, query |-> r.query,
   authority |-> r.authority, headers |-> headers, body |-> r.body]

(* Every matching field, joined; absent when there is none. *)
HeaderValue(headers, name) ==
  IF HasHeader(headers, name) THEN {headers[name]} ELSE {}

AddField(headers, name, value) ==
  [n \in DOMAIN headers \cup {name} |->
     IF n # name THEN headers[n]
     ELSE IF HasHeader(headers, name) THEN headers[name] \o value ELSE value]

(* An empty path derives as "/". *)
PathText(request) == IF request.path = "" THEN "/" ELSE request.path

(* @query is a bare "?" without a query; @request-target keeps "no query"  *)
(* and "empty query" apart.                                                *)
QueryText(request) == SetToSeq(request.query \ {""})

RequestValue(request, c) ==
  IF c = Method         THEN {<<request.method>>}
  ELSE IF c = Authority THEN {<<request.authority>>}
  ELSE IF c = Path      THEN {<<PathText(request)>>}
  ELSE IF c = Query     THEN {<<"?">> \o QueryText(request)}
  ELSE IF c = RequestTarget
    THEN {<<PathText(request)>> \o
            (IF request.query = {} THEN <<>> ELSE <<"?">> \o QueryText(request))}
  ELSE IF c = Status \/ c.req THEN {}
  ELSE HeaderValue(request.headers, c.name)

(***************************************************************************)
(* A response is verified together with the request it answers: `;req`     *)
(* components come from the request, the status and the fields from the    *)
(* response, and a request component without `;req` cannot be derived.     *)
(***************************************************************************)
ResponseValue(exchange, c) ==
  IF c = Status THEN {<<exchange.response.status>>}
  ELSE IF c.req THEN RequestValue(exchange.request, [name |-> c.name, req |-> FALSE])
  ELSE IF c \in Derived THEN {}
  ELSE HeaderValue(exchange.response.headers, c.name)

RequestMessage(request) == [kind |-> "request", request |-> request]
ExchangeMessage(response, request) ==
  [kind |-> "response", response |-> response, request |-> request]

ComponentValue(message, c) ==
  IF message.kind = "request" THEN RequestValue(message.request, c)
                              ELSE ResponseValue(message, c)

(***************************************************************************)
(* The signature base: the covered components with their values, and the   *)
(* received parameters verbatim.  It exists when every covered component   *)
(* has a value and neither a value nor the parameters hold a CR or LF.     *)
(***************************************************************************)
CleanValue(v)   == v # {} /\ \A x \in v : ToSet(x) \cap LineBreaks = {}
CleanParams(raw) == \A i \in DOMAIN raw : raw[i][2] \notin LineBreaks

HasBase(message, components, raw) ==
  /\ CleanParams(raw)
  /\ \A c \in components : CleanValue(ComponentValue(message, c))

SignatureBase(message, components, raw) ==
  [values |-> [c \in components |-> ComponentValue(message, c)],
   params |-> raw]

(* Content-Digest of a body, injective as SHA-256 is taken to be. *)
ContentDigest(body) == <<"sha-256", body>>

(* Mutant: only the algorithm is looked at. *)
VerifyDigestAlgorithm(value, body) == value[1] = "sha-256"

VerifyContentDigest(value, body) == value = ContentDigest(body)
=============================================================================
