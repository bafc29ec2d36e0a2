--------------------------- MODULE HttpSigSession ---------------------------
(***************************************************************************)
(* Workloads exchanging signed requests and responses across              *)
(* intermediaries.  A client signs as `wimsey httpsig sign` does, a        *)
(* recipient verifies as `wimsey httpsig verify` does, and a signed        *)
(* response goes back under the response profile.  In between the network  *)
(* may forward a message any number of times and change it: add a header   *)
(* or a signature of its own, relabel, reroute, replace the body.          *)
(*                                                                         *)
(* A WIT is a model value; WitKey gives the key its cnf names.  That the   *)
(* WIT itself verifies is the business of module Wit.                      *)
(***************************************************************************)
EXTENDS HttpSig

CONSTANTS
  Servers, Audiences,    \* Audiences[s]: the audiences server s answers to
  Wits, WitKey,          \* WitKey[w]: the key [id, alg] that WIT w confirms
  ClientWits, ServerWit, \* the WITs of clients; ServerWit[s]
  HopKey,                \* an intermediary's own key
  Plain,                 \* the requests clients want to make
  Extras,                \* components a client may cover besides
  Labels,                \* signature labels in use
  HopHeaders,            \* fields an intermediary may add or drop
  HopRequestLines,       \* targets it may reroute to
  HopBodies,             \* bodies it may put instead
  Statuses,              \* response statuses
  ExpiresIn, Leeway, MaxAge,
  MaxSkew, MaxTime, MaxRequests, MaxHops, MaxReplyHops, MaxAccepted, MaxAnswers  \* bounds

ASSUME SessionAssumption ==
  /\ \A w \in Wits : WitKey[w].id # HopKey.id
  /\ ClientWits \subseteq Wits
  /\ \A s \in Servers : ServerWit[s] \in Wits
  /\ {Leeway, ExpiresIn, MaxSkew, U64Max} \subseteq Nat
  /\ {MaxTime, MaxRequests, MaxHops, MaxReplyHops} \subseteq Nat
  /\ MaxTime <= U64Max
  /\ MaxAge \subseteq Nat /\ \A x, y \in MaxAge : x = y
  /\ \A r \in Plain : \A x, y \in r.body : x = y
  /\ \A c \in Extras : c.name # "@unsupported"
  /\ Bad \notin Nat /\ Bad # WIMSE_TAG /\ \A s \in Servers : Bad \notin Audiences[s]

VARIABLES
  now,       \* the recipient's clock
  sent,      \* the requests signed by clients
  net,       \* the requests in transit; delivering one does not remove it
  accepted,  \* the requests recipients accepted
  answered,  \* the responses servers signed, each with the request it answers
  replies,   \* the signed responses in transit
  done       \* the responses clients accepted

vars == <<now, sent, net, accepted, answered, replies, done>>
requestVars  == <<sent, net, accepted>>
responseVars == <<answered, replies, done>>

WIT_HEADER == "workload-identity-token"

(***************************************************************************)
(* The client.                                                             *)
(***************************************************************************)
WithDigest(r) ==
  IF r.body = {} \/ HasHeader(r.headers, "content-digest") THEN r
  ELSE WithHeaders(r, AddField(r.headers, "content-digest",
                               ContentDigest(CHOOSE b \in r.body : TRUE)))

WithWit(r, wit) ==
  IF HasHeader(r.headers, WIT_HEADER) THEN r
  ELSE WithHeaders(r, AddField(r.headers, WIT_HEADER, <<wit>>))

(* Neither keyid nor alg: the key travels in the WIT. *)
RequestParams(created, expires, nonce, aud) ==
  << <<"created", created>>, <<"expires", expires>>,
     <<"nonce", nonce>>, <<"tag", WIMSE_TAG>>, <<"wimse-aud", aud>> >>

(* Mutant: a sum that does not fit is taken as it is. *)
ExpiryUnchecked(created) == {created + ExpiresIn}

Expiry(created) == CheckedAdd(created, ExpiresIn)

(* run_sign: a body and a content-digest field exclude each other, as do   *)
(* --wit and its field; the components are the mandatory ones or a list    *)
(* that covers them; an expiry that does not fit is refused.               *)
SignRequest(wit, plain, extra, aud, label, created, expires) ==
  LET request    == WithWit(WithDigest(plain), wit)
      components == RequestComponents(request) \cup extra
      nonce      == Cardinality(sent) + 1
      params     == RequestParams(created, expires, nonce, aud)
  IN  /\ nonce <= MaxRequests
      /\ plain.body # {} => ~HasHeader(plain.headers, "content-digest")
      /\ ~HasHeader(plain.headers, WIT_HEADER)
      /\ HasBase(RequestMessage(request), components, params)
      /\ sent' = sent \cup
           {[wit |-> wit, key |-> WitKey[wit].id, request |-> request,
             components |-> components, params |-> params, aud |-> aud,
             nonce |-> nonce, created |-> created, expires |-> expires,
             at |-> now]}
      /\ net' = net \cup
           {[request |-> request,
             input |-> <<[label |-> label, components |-> components,
                          params |-> params]>>,
             sigs |-> <<[label |-> label,
                         sig |-> Sign(RequestMessage(request), components,
                                      params, WitKey[wit])]>>,
             hops |-> 0]}
      /\ UNCHANGED <<now, accepted, responseVars>>

(***************************************************************************)
(* The intermediaries.                                                     *)
(***************************************************************************)
Forward(m, request, input, sigs) ==
  /\ m.hops < MaxHops
  /\ net' = (net \ {m}) \cup {[request |-> request, input |-> input, sigs |-> sigs,
                               hops |-> m.hops + 1]}
  /\ UNCHANGED <<now, sent, accepted, responseVars>>

ForwardRequest(m, request) == Forward(m, request, m.input, m.sigs)

AddHeader(m, h) ==
  ForwardRequest(m, WithHeaders(m.request, AddField(m.request.headers, h[1], h[2])))

DropHeader(m, name) ==
  /\ HasHeader(m.request.headers, name)
  /\ ForwardRequest(m, WithHeaders(m.request,
       Restrict(m.request.headers, DOMAIN m.request.headers \ {name})))

Reroute(m, line) ==
  ForwardRequest(m, [m.request EXCEPT !.method = line.method, !.path = line.path,
                                      !.query = line.query,
                                      !.authority = line.authority])

ReplaceBody(m, b) == ForwardRequest(m, [m.request EXCEPT !.body = b])

(* Another hop's signature, over the method only, beside the client's. *)
AddSignature(m, label, tag) ==
  LET params == <<<<"created", now>>, <<"keyid", "hop">>, <<"tag", tag>>>>
      member == [label |-> label, components |-> {Method}, params |-> params]
      sig    == Sign(RequestMessage(m.request), {Method}, params, HopKey)
  IN  Forward(m, m.request, Append(m.input, member),
                            Append(m.sigs, [label |-> label, sig |-> sig]))

(* Both fields name the client's signature anew. *)
Relabel(m, label) ==
  Forward(m, m.request, [m.input EXCEPT ![1].label = label],
                        [m.sigs EXCEPT ![1] = [label |-> label, sig |-> @.sig]])

(***************************************************************************)
(* The recipient.                                                          *)
(***************************************************************************)
RequestConfig(server, request) ==
  [DefaultConfig EXCEPT !.now = {now}, !.leeway = Leeway, !.maxAge = MaxAge,
     !.requiredComponents = RequestComponents(request),
     !.wimseProfile = TRUE, !.expectedAudiences = Audiences[server]]

(* run_verify: the fields it completes, the WIT it was given against the   *)
(* one the signature covers, the signature, then the body.                 *)
Received(m, wit) == WithDigest(WithWit(m.request, wit))

RecipientVerdict(server, wit, m) ==
  LET request == Received(m, wit)
      verdict == Verify(RequestMessage(request), m.input, m.sigs, WitKey[wit],
                        RequestConfig(server, request))
  IN  IF HeaderValue(request.headers, WIT_HEADER) # {<<wit>>} THEN "WitMismatch"
      ELSE IF verdict # "Ok" THEN verdict
      ELSE IF \E b \in request.body :
                ~\E digest \in HeaderValue(request.headers, "content-digest") :
                   VerifyContentDigest(digest, b)
        THEN "BodyMismatch"
      ELSE "Ok"

Receive(server, wit, m) ==
  /\ Cardinality(accepted) < MaxAccepted
  /\ RecipientVerdict(server, wit, m) = "Ok"
  /\ accepted' = accepted \cup
       {[server |-> server, wit |-> wit, request |-> Received(m, wit),
          member |-> Chosen(m.input, RequestConfig(server, Received(m, wit))),
          at |-> now]}
  /\ UNCHANGED <<now, sent, net, responseVars>>

(***************************************************************************)
(* The response.                                                           *)
(***************************************************************************)
NonceOf(member) == ParseParams(member.params)["nonce"]

ResponseParams(reqNonce) ==
  << <<"created", now>>, <<"expires", SaturatingAdd(now, ExpiresIn)>>,
     <<"nonce", "server">>, <<"tag", WIMSE_TAG>>, <<"wimse-req-nonce", reqNonce>> >>

SignResponse(a, status, label) ==
  LET response == [status |-> status,
                   headers |-> [n \in {WIT_HEADER} |-> <<ServerWit[a.server]>>]]
      message    == ExchangeMessage(response, a.request)
      components == ResponseComponents(response, a.request)
      params     == ResponseParams(CHOOSE n \in NonceOf(a.member) : TRUE)
  IN  /\ Cardinality(answered) < MaxAnswers
      /\ answered' = answered \cup {[to |-> a, response |-> response]}
      /\ replies' = replies \cup
           {[response |-> response,
             input |-> <<[label |-> label, components |-> components,
                          params |-> params]>>,
             sigs |-> <<[label |-> label,
                         sig |-> Sign(message, components, params,
                                      WitKey[ServerWit[a.server]])]>>,
             hops |-> 0]}
      /\ UNCHANGED <<now, requestVars, done>>

(* An intermediary changes a response in transit. *)
ForwardReply(q, changed) ==
  /\ q.hops < MaxReplyHops
  /\ replies' = (replies \ {q}) \cup {[changed EXCEPT !.hops = q.hops + 1]}
  /\ UNCHANGED <<now, requestVars, answered, done>>

ChangeStatus(q, status)  == ForwardReply(q, [q EXCEPT !.response.status = status])
AddReplyHeader(q, h)     == ForwardReply(q, [q EXCEPT !.response.headers = AddField(@, h[1], h[2])])

ResponseConfig(e, response) ==
  [DefaultConfig EXCEPT !.now = {now}, !.leeway = Leeway, !.maxAge = MaxAge,
     !.requiredComponents = ResponseComponents(response, e.request),
     !.wimseResponseProfile = TRUE, !.expectedReqNonce = {e.nonce}]

ResponseVerdict(e, wit, q) ==
  IF HeaderValue(q.response.headers, WIT_HEADER) # {<<wit>>} THEN "WitMismatch"
  ELSE Verify(ExchangeMessage(q.response, e.request), q.input, q.sigs,
              WitKey[wit], ResponseConfig(e, q.response))

(* The client of request e, still waiting, tries a response it is handed. *)
ReceiveResponse(e, wit, q) ==
  /\ \A d \in done : d.request # e
  /\ ResponseVerdict(e, wit, q) = "Ok"
  /\ done' = done \cup {[request |-> e, response |-> q.response, wit |-> wit]}
  /\ UNCHANGED <<now, requestVars, answered, replies>>

Tick == now < MaxTime /\ now' = now + 1 /\ UNCHANGED <<requestVars, responseVars>>

(***************************************************************************)
(* The specification.                                                      *)
(***************************************************************************)
Init ==
  /\ now = 0
  /\ sent = {} /\ net = {} /\ accepted = {}
  /\ answered = {} /\ replies = {} /\ done = {}

(* A client's clock is within MaxSkew of the recipient's. *)
ClientClocks == {t \in 0..(now + MaxSkew) : t + MaxSkew >= now}

Next ==
  \/ \E wit \in ClientWits, plain \in Plain, extra \in SUBSET Extras,
        server \in Servers, label \in Labels, created \in ClientClocks :
       \E aud \in Audiences[server], expires \in Expiry(created) :
         SignRequest(wit, plain, extra, aud, label, created, expires)
  \/ \E m \in net, h \in HopHeaders : AddHeader(m, h) \/ DropHeader(m, h[1])
  \/ \E m \in net, line \in HopRequestLines : Reroute(m, line)
  \/ \E m \in net, b \in HopBodies : ReplaceBody(m, b)
  \/ \E m \in net, label \in Labels, tag \in {WIMSE_TAG, "hop"} :
       AddSignature(m, label, tag)
  \/ \E m \in net, label \in Labels : Relabel(m, label)
  \/ \E server \in Servers, wit \in Wits, m \in net : Receive(server, wit, m)
  \/ \E a \in accepted, status \in Statuses, label \in Labels :
       SignResponse(a, status, label)
  \/ \E q \in replies, status \in Statuses : ChangeStatus(q, status)
  \/ \E q \in replies, h \in HopHeaders : AddReplyHeader(q, h)
  \/ \E e \in sent, wit \in Wits, q \in replies : ReceiveResponse(e, wit, q)
  \/ Tick

Spec == Init /\ [][Next]_vars

-----------------------------------------------------------------------------
(***************************************************************************)
(* Properties.                                                             *)
(***************************************************************************)
(* What a recipient acts on: the target and every mandatory header. *)
Essence(request) ==
  [c \in RequestComponents(request) |-> RequestValue(request, c)]

Genuine(a, e) ==
  /\ a.wit = e.wit
  /\ e.aud \in Audiences[a.server]
  /\ Essence(a.request) = Essence(e.request)
  /\ NonceOf(a.member) = {e.nonce}

(* Every accepted request is one that the holder of the WIT's key signed   *)
(* for this recipient: same method, path and query (authority on CONNECT), *)
(* the same mandatory headers, none added, none dropped.                   *)
RequestAuthentic == \A a \in accepted : \E e \in sent : Genuine(a, e)

(* A body the recipient was given is the one whose digest was signed. *)
BodyAuthentic ==
  \A a \in accepted : \A b \in a.request.body : \E e \in sent :
    /\ Genuine(a, e)
    /\ HeaderValue(e.request.headers, "content-digest") = {ContentDigest(b)}

(* No request is accepted earlier than the client's clock allows or after  *)
(* its expiry or maximum age, leeway included: the window is measured from *)
(* the signing, whatever happened in between.                              *)
AcceptedInWindow ==
  \A a \in accepted : \E e \in sent :
    /\ Genuine(a, e)
    /\ a.at <= e.at + MaxSkew + ExpiresIn + Leeway
    /\ \A age \in MaxAge : a.at <= e.at + MaxSkew + age
    /\ e.created <= a.at + Leeway

(* The client's own member and signature, still there side by side. *)
Intact(m, e) ==
  \E i \in DOMAIN m.input, j \in DOMAIN m.sigs :
    /\ m.input[i].components = e.components /\ m.input[i].params = e.params
    /\ m.sigs[j].label = m.input[i].label
    /\ m.sigs[j].sig.key = e.key
    /\ \A k \in DOMAIN m.input \ {i} :
         /\ m.input[k].label # m.input[i].label
         /\ <<"tag", WIMSE_TAG>> \notin ToSet(m.input[k].params)

(* A request changed only in what its client did not sign is accepted,     *)
(* under whatever label and beside whatever other hops' signatures, unless *)
(* the client covered what a CONNECT must not (sign does not look at it).  *)
IntactRequestAccepted ==
  \A m \in net, e \in sent, server \in Servers :
    /\ Intact(m, e)
    /\ DictionaryOk(m.input)
    /\ e.aud \in Audiences[server]
    /\ ConnectComponentsOk(RequestMessage(e.request), e.components)
    /\ m.request.body = e.request.body
    /\ Essence(m.request) = Essence(e.request)
    /\ \A c \in e.components :
         RequestValue(m.request, c) = RequestValue(e.request, c)
    /\ e.created <= now + Leeway /\ now <= e.created + ExpiresIn + Leeway
    /\ \A age \in MaxAge : now <= e.created + age
    => RecipientVerdict(server, e.wit, m) = "Ok"

(* The promise, with a request read as its WIT, nonce and essence and a    *)
(* response as its WIT, status and mandatory headers.                      *)
AskedOf(e)    == [wit |-> e.wit, nonce |-> {e.nonce}, essence |-> Essence(e.request)]
AcceptedOf(a) == [wit |-> a.wit, nonce |-> NonceOf(a.member),
                  essence |-> Essence(a.request)]
ResponseOf(response) ==
  [status |-> response.status,
   headers |-> [n \in ResponseHeaders |-> HeaderValue(response.headers, n)]]

(* A response a client accepted for its request was signed by a server     *)
(* that accepted this very request, and reached the client unchanged.      *)
ResponseAuthentic ==
  \A d \in done : \E ans \in answered :
    /\ Genuine(ans.to, d.request)
    /\ ServerWit[ans.to.server] = d.wit
    /\ ResponseOf(ans.response) = ResponseOf(d.response)

Exchange == INSTANCE AuthenticExchange WITH
  asked     <- {AskedOf(e) : e \in sent},
  delivered <- {AcceptedOf(a) : a \in accepted},
  answered  <- {<<AcceptedOf(x.to), ResponseOf(x.response)>> : x \in answered},
  completed <- {<<AskedOf(d.request), ResponseOf(d.response)>> : d \in done}

(* Signing, verifying and everything the network does implement the        *)
(* promise: nothing is delivered or completed that was not asked or        *)
(* answered, whatever the intermediaries did.                              *)
ImplementsExchange == Exchange!Spec

(* The kinds of the state; every time signed fits a u64 and no expiry      *)
(* precedes its creation, though lifetimes are added to them (run_sign).   *)
TypeOK ==
  /\ now \in 0..MaxTime
  /\ \A e \in sent : /\ e.wit \in ClientWits /\ e.nonce \in 1..MaxRequests
                     /\ e.created \in 0..U64Max /\ e.expires \in e.created..U64Max
  /\ \A m \in net : m.hops \in 0..MaxHops /\ Len(m.input) = Len(m.sigs)
  /\ \A a \in accepted : a.server \in Servers /\ a.wit \in Wits
  /\ \A q \in replies : q.hops \in 0..MaxReplyHops
=============================================================================
