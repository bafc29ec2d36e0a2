----------------------- MODULE HttpSigSession_proofs -----------------------
(***************************************************************************)
(* HTTP message signatures, for every number of workloads, requests,       *)
(* labels and hops and every clock.  Three parts: that a recipient accepts *)
(* only what the holder of the WIT's key signed for it; that a client      *)
(* completes a request only with an answer to that request, and that       *)
(* signing and verifying so implement AuthenticExchange; and that          *)
(* verification refuses nothing it should accept.                          *)
(***************************************************************************)
EXTENDS HttpSigSession, FiniteSetTheorems, TLAPS

-----------------------------------------------------------------------------
(***************************************************************************)
(* The way there: that a recipient accepts only what the holder of the     *)
(* WIT's key signed for it.                                                *)
(***************************************************************************)

(***************************************************************************)
(* What a successful verification establishes.                             *)
(***************************************************************************)
LEMMA BindingOk ==
  ASSUME NEW member, NEW config, CheckBinding(member, config) = "Ok"
  PROVE  /\ config.requiredComponents \subseteq member.components
         /\ config.wimseProfile =>
              ParseParams(member.params)["wimse-aud"]
                \cap config.expectedAudiences # {}
         /\ config.expectedReqNonce
              \in {{}, ParseParams(member.params)["wimse-req-nonce"]}
         /\ CheckTimes(ParseParams(member.params), config) = "Ok"
  BY DEF CheckBinding, CoversRequired, AudienceOk, ReqNonceOk

(* Saturation never makes a verifier more lenient than plain arithmetic. *)
LEMMA SaturatingAddAtMost ==
  ASSUME NEW a \in Nat, NEW b \in Nat
  PROVE  SaturatingAdd(a, b) \in Nat /\ SaturatingAdd(a, b) <= a + b
  BY SessionAssumption DEF SaturatingAdd

LEMMA SaturatingSubAtLeast ==
  ASSUME NEW a \in Nat, NEW b \in Nat
  PROVE  SaturatingSub(a, b) \in Nat /\ a <= b + SaturatingSub(a, b)
  BY DEF SaturatingSub

(* The times of a signature that passes are within leeway and maximum age. *)
LEMMA TimesOk ==
  ASSUME NEW p, NEW config, CheckTimes(p, config) = "Ok",
         NEW time \in Nat, config.now = {time}, config.leeway = Leeway,
         config.maxAge = MaxAge,
         NEW created \in Nat, p["created"] = {created},
         NEW expires \in Nat, p["expires"] = {expires}
  PROVE  /\ time <= expires + Leeway
         /\ created <= time + Leeway
         /\ \A age \in MaxAge : time <= created + age
<1>1. Leeway \in Nat /\ MaxAge \subseteq Nat
  BY SessionAssumption
<1>2. ~PastExpiry(expires, time, Leeway) /\ ~(created > SaturatingAdd(time, Leeway))
      /\ ~TooOld(p, config)
  BY DEF CheckTimes
<1>3. time <= expires + Leeway
  BY <1>1, <1>2, SaturatingAddAtMost DEF PastExpiry
<1>4. created <= time + Leeway
  BY <1>1, <1>2, SaturatingAddAtMost
<1>5. ASSUME NEW age \in MaxAge PROVE time <= created + age
  <2>1. ~(SaturatingSub(time, created) > age)
    BY <1>2 DEF TooOld
  <2>2. QED
    BY <1>1, <2>1, SaturatingSubAtLeast
<1>6. QED
  BY <1>3, <1>4, <1>5

LEMMA VerifyMemberOk ==
  ASSUME NEW message, NEW member, NEW sig, NEW key, NEW config,
         VerifyMember(message, member, sig, key, config) = "Ok"
  PROVE  /\ HasBase(message, member.components, member.params)
         /\ sig.key = key.id
         /\ sig.base = SignatureBase(message, member.components, member.params)
         /\ CheckBinding(member, config) = "Ok"
  BY DEF VerifyMember

(* The signature verified is one of those the message carries. *)
LEMMA VerifyOk ==
  ASSUME NEW message, NEW input, NEW sigs, NEW key, NEW config,
         Verify(message, input, sigs, key, config) = "Ok"
  PROVE  LET member == Chosen(input, config) IN
         \E j \in DOMAIN sigs :
           /\ HasBase(message, member.components, member.params)
           /\ sigs[j].sig.key = key.id
           /\ sigs[j].sig.base
                = SignatureBase(message, member.components, member.params)
           /\ CheckBinding(member, config) = "Ok"
<1> DEFINE member == Chosen(input, config)
           labelled == {j \in DOMAIN sigs : sigs[j].label = member.label}
<1>1. ParseSignature(sigs, member.label) = "Ok"
  BY DEF Verify
<1>2. \E j \in DOMAIN sigs : sigs[j].label = member.label
  BY <1>1 DEF ParseSignature
<1>3. VerifyMember(message, member, SignatureLabelled(sigs, member.label),
                   key, config) = "Ok"
  BY <1>1 DEF Verify
<1>4. PICK j \in DOMAIN sigs : SignatureLabelled(sigs, member.label) = sigs[j].sig
  BY <1>2 DEF SignatureLabelled
<1>5. QED
  BY <1>3, <1>4, VerifyMemberOk

(***************************************************************************)
(* Two requests with one signature base agree on every mandatory           *)
(* component: none can be changed, dropped or added under a signature that *)
(* covers the mandatory components of both.                                *)
(***************************************************************************)
LEMMA HeaderComponent ==
  ASSUME NEW request, NEW n \in RequestHeaders
  PROVE  RequestValue(request, Component(n)) = HeaderValue(request.headers, n)
  BY DEF RequestValue, RequestHeaders, Component, Req, Method, Authority, Path,
         Query, Status, RequestTarget

LEMMA SameEssence ==
  ASSUME NEW r, NEW s, NEW components,
         RequestComponents(r) \subseteq components,
         RequestComponents(s) \subseteq components,
         \A c \in components : /\ RequestValue(r, c) = RequestValue(s, c)
                               /\ RequestValue(r, c) # {}
  PROVE  Essence(r) = Essence(s)
<1>1. r.method = s.method
  <2>1. Method \in components
    BY DEF RequestComponents
  <2>2. /\ RequestValue(r, Method) = {<<r.method>>}
        /\ RequestValue(s, Method) = {<<s.method>>}
    BY DEF RequestValue
  <2>3. QED
    BY <2>1, <2>2
<1>2. ASSUME NEW n \in RequestHeaders
      PROVE  HasHeader(r.headers, n) <=> HasHeader(s.headers, n)
  <2>1. HasHeader(r.headers, n) => Component(n) \in components
    BY DEF RequestComponents, Carried
  <2>2. HasHeader(s.headers, n) => Component(n) \in components
    BY DEF RequestComponents, Carried
  <2>3. Component(n) \in components
          => HeaderValue(r.headers, n) # {} /\ HeaderValue(s.headers, n) # {}
    BY HeaderComponent
  <2>4. QED
    BY <2>1, <2>2, <2>3 DEF HeaderValue
<1>3. Carried(r.headers, RequestHeaders) = Carried(s.headers, RequestHeaders)
  BY <1>2 DEF Carried
<1>4. RequestComponents(r) = RequestComponents(s)
  BY <1>1, <1>3 DEF RequestComponents
<1>5. QED
  BY <1>4 DEF Essence

(***************************************************************************)
(* The inductive invariant.  The properties alone are not inductive: they  *)
(* need what each signing recorded (SentOk), that no two requests share a  *)
(* nonce (NoncesOk), and where the signatures in transit come from: the    *)
(* first member of a message is its client's, the others were added by     *)
(* intermediaries under their own key, and neither can be remade (PairsOk).*)
(***************************************************************************)
SignatureOf(e) == SignatureBase(RequestMessage(e.request), e.components, e.params)

SentOk(e) ==
  /\ e.wit \in ClientWits /\ e.key = WitKey[e.wit].id
  /\ e.params = RequestParams(e.created, e.expires, e.nonce, e.aud)
  /\ HeaderValue(e.request.headers, WIT_HEADER) = {<<e.wit>>}
  /\ RequestComponents(e.request) \subseteq e.components
  /\ HasBase(RequestMessage(e.request), e.components, e.params)
  /\ e.created \in Nat /\ e.at \in Nat /\ e.created <= e.at + MaxSkew
  /\ e.expires = e.created + ExpiresIn /\ e.expires <= U64Max
  /\ e.aud # Bad /\ \A c \in e.components : c.name # "@unsupported"
  /\ \A b \in e.request.body :
       HeaderValue(e.request.headers, "content-digest") = {ContentDigest(b)}

NoncesOk ==
  /\ IsFiniteSet(sent) /\ Cardinality(sent) <= MaxRequests
  /\ \A e \in sent : e.nonce \in 1..Cardinality(sent)
  /\ \A e, f \in sent : e.nonce = f.nonce => e = f

FromClient(member, sig, e) ==
  /\ member.components = e.components /\ member.params = e.params
  /\ sig.ok = TRUE /\ sig.key = e.key /\ sig.base = SignatureOf(e)

FromHop(member, sig) ==
  /\ sig.key = HopKey.id
  /\ member.params = <<<<"created", member.params[1][2]>>, <<"keyid", "hop">>,
                       <<"tag", member.params[3][2]>>>>

IsMember(x) ==
  x = [label |-> x.label, components |-> x.components, params |-> x.params]

PairsOk(input, sigs, events) ==
  /\ input \in Seq(Range(input)) /\ sigs \in Seq(Range(sigs))
  /\ Len(input) = Len(sigs) /\ Len(sigs) > 0
  /\ \A k \in DOMAIN input : IsMember(input[k])
  /\ \A k \in DOMAIN sigs : sigs[k].label = input[k].label
  /\ \E e \in events : FromClient(input[1], sigs[1].sig, e)
  /\ \A k \in DOMAIN sigs \ {1} : FromHop(input[k], sigs[k].sig)

(* What a request was accepted for: one that was signed, in its window. *)
AcceptedAs(a, e) ==
  /\ Genuine(a, e)
  /\ \A b \in a.request.body :
       HeaderValue(e.request.headers, "content-digest") = {ContentDigest(b)}
  /\ a.at <= e.at + MaxSkew + ExpiresIn + Leeway
  /\ \A age \in MaxAge : a.at <= e.at + MaxSkew + age
  /\ e.created <= a.at + Leeway

Inv ==
  /\ now \in 0..MaxTime
  /\ \A e \in sent : SentOk(e)
  /\ NoncesOk
  /\ \A m \in net : m.hops \in 0..MaxHops /\ PairsOk(m.input, m.sigs, sent)
  /\ \A a \in accepted : /\ a.server \in Servers /\ a.wit \in Wits
                          /\ \E e \in sent : AcceptedAs(a, e)

(***************************************************************************)
(* What an intermediary may do to the members keeps them paired.           *)
(***************************************************************************)
LEMMA AppendEntry ==
  ASSUME NEW s, s \in Seq(Range(s)), NEW x
  PROVE  /\ Append(s, x) \in Seq(Range(Append(s, x)))
         /\ Len(Append(s, x)) = Len(s) + 1
         /\ DOMAIN Append(s, x) = DOMAIN s \cup {Len(s) + 1}
         /\ Append(s, x)[Len(s) + 1] = x
         /\ \A k \in DOMAIN s : Append(s, x)[k] = s[k]
         /\ DOMAIN s = 1..Len(s) /\ Len(s) \in Nat
<1>1. /\ Len(Append(s, x)) = Len(s) + 1
      /\ DOMAIN Append(s, x) = DOMAIN s \cup {Len(s) + 1}
      /\ Append(s, x)[Len(s) + 1] = x
      /\ \A k \in DOMAIN s : Append(s, x)[k] = s[k]
      /\ DOMAIN s = 1..Len(s) /\ Len(s) \in Nat
  OBVIOUS
<1>2. Range(Append(s, x)) = Range(s) \cup {x}
  BY <1>1 DEF Range
<1>3. Append(s, x) \in Seq(Range(s) \cup {x})
  OBVIOUS
<1>4. QED
  BY <1>1, <1>2, <1>3

LEMMA AppendPairs ==
  ASSUME NEW input, NEW sigs, NEW events, PairsOk(input, sigs, events),
         NEW member, NEW entry,
         FromHop(member, entry.sig), entry.label = member.label, IsMember(member)
  PROVE  PairsOk(Append(input, member), Append(sigs, entry), events)
<1> DEFINE more     == Append(input, member)
           moreSigs == Append(sigs, entry)
<1>1. /\ more \in Seq(Range(more)) /\ Len(more) = Len(input) + 1
      /\ more[Len(input) + 1] = member
      /\ \A k \in DOMAIN input : more[k] = input[k]
      /\ DOMAIN input = 1..Len(input) /\ Len(input) \in Nat
  BY AppendEntry DEF PairsOk
<1>2. /\ moreSigs \in Seq(Range(moreSigs)) /\ Len(moreSigs) = Len(sigs) + 1
      /\ DOMAIN moreSigs = DOMAIN sigs \cup {Len(sigs) + 1}
      /\ moreSigs[Len(sigs) + 1] = entry
      /\ \A k \in DOMAIN sigs : moreSigs[k] = sigs[k]
      /\ DOMAIN sigs = 1..Len(sigs) /\ Len(sigs) \in Nat
  BY AppendEntry DEF PairsOk
<1>3. Len(input) = Len(sigs) /\ Len(sigs) > 0
  BY DEF PairsOk
<1> HIDE DEF more, moreSigs
<1>4. \A k \in DOMAIN moreSigs : moreSigs[k].label = more[k].label
  BY <1>1, <1>2, <1>3 DEF PairsOk
<1>5. \E e \in events : FromClient(more[1], moreSigs[1].sig, e)
  BY <1>1, <1>2, <1>3 DEF PairsOk
<1>6. \A k \in DOMAIN moreSigs \ {1} : FromHop(more[k], moreSigs[k].sig)
  BY <1>1, <1>2, <1>3 DEF PairsOk
<1>7. DOMAIN more = DOMAIN input \cup {Len(input) + 1}
  BY AppendEntry DEF PairsOk, more
<1>8. \A k \in DOMAIN more : IsMember(more[k])
  BY <1>1, <1>7 DEF PairsOk
<1>9. QED
  BY <1>1, <1>2, <1>3, <1>4, <1>5, <1>6, <1>8 DEF PairsOk, more, moreSigs

LEMMA ReplaceFirst ==
  ASSUME NEW s, s \in Seq(Range(s)), Len(s) > 0, NEW x
  PROVE  LET t == [s EXCEPT ![1] = x] IN
         /\ t \in Seq(Range(t)) /\ Len(t) = Len(s) /\ DOMAIN t = DOMAIN s
         /\ t[1] = x /\ \A k \in DOMAIN s \ {1} : t[k] = s[k]
<1> DEFINE t == [s EXCEPT ![1] = x]
<1>1. /\ DOMAIN t = 1..Len(s) /\ Len(s) \in Nat /\ DOMAIN s = 1..Len(s)
      /\ t[1] = x /\ \A k \in DOMAIN s \ {1} : t[k] = s[k]
  OBVIOUS
<1>2. t = [k \in 1..Len(s) |-> t[k]]
  BY <1>1
<1> HIDE DEF t
<1>3. \A k \in 1..Len(s) : t[k] \in Range(t)
  BY <1>1 DEF Range
<1>4. t \in Seq(Range(t)) /\ Len(t) = Len(s)
  BY <1>1, <1>2, <1>3
<1>5. QED
  BY <1>1, <1>4 DEF t

LEMMA RelabelPairs ==
  ASSUME NEW input, NEW sigs, NEW events, PairsOk(input, sigs, events), NEW label
  PROVE  PairsOk([input EXCEPT ![1].label = label],
                 [sigs EXCEPT ![1] = [label |-> label, sig |-> sigs[1].sig]], events)
<1> DEFINE member   == [input[1] EXCEPT !.label = label]
           entry    == [label |-> label, sig |-> sigs[1].sig]
           named    == [input EXCEPT ![1] = member]
           sigNamed == [sigs EXCEPT ![1] = entry]
<1>1. named = [input EXCEPT ![1].label = label]
  OBVIOUS
<1>2. /\ input \in Seq(Range(input)) /\ Len(input) > 0
      /\ DOMAIN input = 1..Len(input) /\ Len(input) \in Nat
      /\ sigs \in Seq(Range(sigs)) /\ Len(sigs) > 0 /\ Len(input) = Len(sigs)
      /\ DOMAIN sigs = 1..Len(sigs)
  BY DEF PairsOk
<1>3. /\ member.label = label /\ member.components = input[1].components
      /\ member.params = input[1].params /\ IsMember(member)
  <2>1. IsMember(input[1])
    BY <1>2 DEF PairsOk
  <2>2. member = [label |-> label, components |-> input[1].components,
                  params |-> input[1].params]
    <3> DEFINE u == input[1]
    <3>1. PICK c, p, l : u = [label |-> l, components |-> c, params |-> p]
      BY <2>1 DEF IsMember
    <3> HIDE DEF u
    <3>2. [u EXCEPT !.label = label] = [label |-> label, components |-> c, params |-> p]
      BY <3>1
    <3>3. QED
      BY <3>1, <3>2 DEF u
  <2> HIDE DEF member
  <2>3. QED
    BY <2>2 DEF IsMember
<1>4. entry.label = label /\ entry.sig = sigs[1].sig
  OBVIOUS
<1> HIDE DEF member, entry
<1>5. /\ named \in Seq(Range(named)) /\ Len(named) = Len(input)
      /\ DOMAIN named = DOMAIN input
      /\ named[1] = member /\ \A k \in DOMAIN input \ {1} : named[k] = input[k]
  BY <1>2, ReplaceFirst
<1>6. /\ sigNamed \in Seq(Range(sigNamed)) /\ Len(sigNamed) = Len(sigs)
      /\ DOMAIN sigNamed = DOMAIN sigs
      /\ sigNamed[1] = entry /\ \A k \in DOMAIN sigs \ {1} : sigNamed[k] = sigs[k]
  BY <1>2, ReplaceFirst
<1> HIDE DEF named, sigNamed
<1>7. PairsOk(named, sigNamed, events)
  <2>1. \A k \in DOMAIN sigNamed : sigNamed[k].label = named[k].label
    BY <1>2, <1>3, <1>4, <1>5, <1>6 DEF PairsOk
  <2>2. \E e \in events : FromClient(named[1], sigNamed[1].sig, e)
    BY <1>3, <1>4, <1>5, <1>6 DEF PairsOk, FromClient
  <2>3. \A k \in DOMAIN sigNamed \ {1} : FromHop(named[k], sigNamed[k].sig)
    BY <1>2, <1>5, <1>6 DEF PairsOk
  <2>4. \A k \in DOMAIN named : IsMember(named[k])
    BY <1>2, <1>3, <1>5 DEF PairsOk
  <2>5. QED
    BY <1>2, <1>5, <1>6, <2>1, <2>2, <2>3, <2>4 DEF PairsOk
<1>8. QED
  BY <1>1, <1>7 DEF entry, sigNamed

(***************************************************************************)
(* The parameters a client writes are the ones a recipient reads.          *)
(***************************************************************************)
LEMMA ParamsRoundTrip ==
  ASSUME NEW created, NEW expires, NEW nonce, NEW aud
  PROVE  LET p == ParseParams(RequestParams(created, expires, nonce, aud)) IN
         /\ p["created"] = {created} /\ p["expires"] = {expires}
         /\ p["nonce"] = {nonce} /\ p["wimse-aud"] = {aud}
<1> DEFINE raw == RequestParams(created, expires, nonce, aud)
<1>1. /\ DOMAIN raw = 1..5
      /\ raw[1] = <<"created", created>> /\ raw[2] = <<"expires", expires>>
      /\ raw[3] = <<"nonce", nonce>> /\ raw[4][1] = "tag"
      /\ raw[5] = <<"wimse-aud", aud>>
  BY DEF RequestParams
<1> HIDE DEF raw
<1>2. \A n \in ParamNames :
        ParseParams(raw)[n] =
          {raw[i][2] : i \in {i \in 1..5 :
             raw[i][1] = n /\ \A j \in 1..5 : j > i => raw[j][1] # n}}
  BY <1>1 DEF ParseParams
<1>3. {i \in 1..5 : raw[i][1] = "created"
                      /\ \A j \in 1..5 : j > i => raw[j][1] # "created"} = {1}
  BY <1>1
<1>4. {i \in 1..5 : raw[i][1] = "expires"
                      /\ \A j \in 1..5 : j > i => raw[j][1] # "expires"} = {2}
  BY <1>1
<1>5. {i \in 1..5 : raw[i][1] = "nonce"
                      /\ \A j \in 1..5 : j > i => raw[j][1] # "nonce"} = {3}
  BY <1>1
<1>6. {i \in 1..5 : raw[i][1] = "wimse-aud"
                      /\ \A j \in 1..5 : j > i => raw[j][1] # "wimse-aud"} = {5}
  BY <1>1
<1>7. ParseParams(raw)["created"] = {created}
  BY <1>1, <1>2, <1>3 DEF ParamNames
<1>8. ParseParams(raw)["expires"] = {expires}
  BY <1>1, <1>2, <1>4 DEF ParamNames
<1>9. ParseParams(raw)["nonce"] = {nonce}
  BY <1>1, <1>2, <1>5 DEF ParamNames
<1>10. ParseParams(raw)["wimse-aud"] = {aud}
  BY <1>1, <1>2, <1>6 DEF ParamNames
<1>11. QED
  BY <1>7, <1>8, <1>9, <1>10 DEF raw

(* What a client signs carries its WIT, and nothing else under that name. *)
LEMMA SignedWit ==
  ASSUME NEW plain \in Plain, NEW wit, ~HasHeader(plain.headers, WIT_HEADER)
  PROVE  HeaderValue(WithWit(WithDigest(plain), wit).headers, WIT_HEADER) = {<<wit>>}
<1> DEFINE r == WithDigest(plain)
<1>1. ~HasHeader(r.headers, WIT_HEADER)
  BY DEF WithDigest, WithHeaders, AddField, HasHeader, WIT_HEADER
<1>2. WithWit(r, wit).headers = AddField(r.headers, WIT_HEADER, <<wit>>)
  BY <1>1 DEF WithWit, WithHeaders
<1>3. QED
  BY <1>1, <1>2 DEF AddField, HeaderValue, HasHeader

(* A body travels with its digest. *)
LEMMA SignedDigest ==
  ASSUME NEW plain \in Plain, NEW wit,
         plain.body # {} => ~HasHeader(plain.headers, "content-digest"),
         NEW b \in WithWit(WithDigest(plain), wit).body
  PROVE  HeaderValue(WithWit(WithDigest(plain), wit).headers, "content-digest")
           = {ContentDigest(b)}
<1> DEFINE r == WithDigest(plain)
           digest == ContentDigest(CHOOSE x \in plain.body : TRUE)
<1>1. b \in plain.body
  BY DEF WithWit, WithDigest, WithHeaders
<1>2. r.headers = AddField(plain.headers, "content-digest", digest)
  BY <1>1 DEF WithDigest, WithHeaders
<1>3. (CHOOSE x \in plain.body : TRUE) = b
  BY <1>1, SessionAssumption
<1>4. HeaderValue(r.headers, "content-digest") = {digest}
  BY <1>1, <1>2 DEF AddField, HeaderValue, HasHeader
<1>5. HeaderValue(WithWit(r, wit).headers, "content-digest")
        = HeaderValue(r.headers, "content-digest")
  BY DEF WithWit, WithHeaders, AddField, HeaderValue, HasHeader, WIT_HEADER
<1>6. QED
  BY <1>3, <1>4, <1>5

(* Everything a client covers is a component the crate has. *)
LEMMA SignedComponents ==
  ASSUME NEW request, NEW extra \in SUBSET Extras,
         NEW c \in RequestComponents(request) \cup extra
  PROVE  c.name # "@unsupported"
  BY SessionAssumption DEF RequestComponents, Carried, RequestHeaders, Component,
     Method, Authority, Path, Query

(***************************************************************************)
(* The initial states and each kind of step preserve the invariant.        *)
(***************************************************************************)
LEMMA OneEntry ==
  ASSUME NEW x
  PROVE  /\ <<x>> \in Seq(Range(<<x>>)) /\ Len(<<x>>) = 1
         /\ DOMAIN <<x>> = {1}
         /\ <<x>>[1] = x
<1>1. DOMAIN <<x>> = {1} /\ <<x>>[1] = x
  OBVIOUS
<1>2. Range(<<x>>) = {x}
  BY <1>1 DEF Range
<1>3. QED
  BY <1>1, <1>2

LEMMA InitInv == Init => Inv
<1> SUFFICES ASSUME Init PROVE Inv
  OBVIOUS
<1>1. now = 0 /\ sent = {} /\ net = {} /\ accepted = {}
  BY DEF Init
<1>2. NoncesOk
  BY <1>1, FS_EmptySet, SessionAssumption DEF NoncesOk
<1>3. QED
  BY <1>1, <1>2, SessionAssumption DEF Inv

(* A nonce is one more than the number of requests: a new one. *)
LEMMA NonceStep ==
  ASSUME NoncesOk, Cardinality(sent) + 1 <= MaxRequests, NEW e,
         e.nonce = Cardinality(sent) + 1, sent' = sent \cup {e}
  PROVE  NoncesOk' /\ e.nonce \in Nat
<1>1. Cardinality(sent) \in Nat /\ IsFiniteSet(sent)
  BY FS_CardinalityType DEF NoncesOk
<1>2. e \notin sent
  BY <1>1 DEF NoncesOk
<1>3. IsFiniteSet(sent') /\ Cardinality(sent') = Cardinality(sent) + 1
  BY <1>1, <1>2, FS_AddElement
<1>4. \A f \in sent : f.nonce # e.nonce
  BY <1>1 DEF NoncesOk
<1>5. \A f \in sent' : f.nonce \in 1..Cardinality(sent')
  BY <1>1, <1>3 DEF NoncesOk
<1>6. \A f, g \in sent' : f.nonce = g.nonce => f = g
  BY <1>4 DEF NoncesOk
<1>7. QED
  BY <1>1, <1>3, <1>5, <1>6 DEF NoncesOk

LEMMA SignRequestInv ==
  ASSUME Inv,
         NEW wit \in ClientWits, NEW plain \in Plain, NEW extra \in SUBSET Extras,
         NEW server \in Servers, NEW aud \in Audiences[server],
         NEW label, NEW created \in ClientClocks, NEW expires \in Expiry(created),
         SignRequest(wit, plain, extra, aud, label, created, expires)
  PROVE  Inv'
<1> DEFINE request    == WithWit(WithDigest(plain), wit)
           components == RequestComponents(request) \cup extra
           nonce      == Cardinality(sent) + 1
           params     == RequestParams(created, expires, nonce, aud)
           e == [wit |-> wit, key |-> WitKey[wit].id, request |-> request,
                 components |-> components, params |-> params, aud |-> aud,
                 nonce |-> nonce, created |-> created, expires |-> expires,
                 at |-> now]
           base == SignatureBase(RequestMessage(request), components, params)
           member == [label |-> label, components |-> components, params |-> params]
           entry  == [label |-> label,
                      sig |-> [ok |-> TRUE, key |-> WitKey[wit].id, base |-> base]]
           m == [request |-> request, input |-> <<member>>, sigs |-> <<entry>>,
                 hops |-> 0]
<1>1. /\ sent' = sent \cup {e} /\ net' = net \cup {m}
      /\ accepted' = accepted /\ now' = now
      /\ nonce <= MaxRequests
      /\ ~HasHeader(plain.headers, WIT_HEADER)
      /\ plain.body # {} => ~HasHeader(plain.headers, "content-digest")
      /\ HasBase(RequestMessage(request), components, params)
  BY DEF SignRequest, Sign
<1>2. HeaderValue(request.headers, WIT_HEADER) = {<<wit>>}
  BY <1>1, SignedWit
<1>3. /\ created \in Nat /\ now \in Nat /\ created <= now + MaxSkew
      /\ expires = created + ExpiresIn /\ expires <= U64Max
  <2>1. now \in Nat
    BY DEF Inv
  <2>2. created \in Nat /\ created <= now + MaxSkew
    BY <2>1, SessionAssumption DEF ClientClocks
  <2>3. expires = created + ExpiresIn /\ expires <= U64Max
    BY <2>2, SessionAssumption DEF Expiry, CheckedAdd
  <2>4. QED
    BY <2>1, <2>2, <2>3
<1>4. /\ e.wit = wit /\ e.key = WitKey[wit].id /\ e.request = request
      /\ e.components = components /\ e.params = params /\ e.aud = aud
      /\ e.nonce = nonce /\ e.created = created /\ e.expires = expires /\ e.at = now
  OBVIOUS
<1>5. RequestComponents(request) \subseteq components
  OBVIOUS
<1>6. params = RequestParams(created, expires, nonce, aud)
  OBVIOUS
<1>6a. aud # Bad /\ \A c \in components : c.name # "@unsupported"
  BY SessionAssumption, SignedComponents
<1>6b. \A b \in request.body :
         HeaderValue(request.headers, "content-digest") = {ContentDigest(b)}
  BY <1>1, SignedDigest
<1> HIDE DEF request, components, params
<1>7. SentOk(e)
  BY <1>1, <1>2, <1>3, <1>4, <1>5, <1>6, <1>6a, <1>6b DEF SentOk
<1>8. SignatureOf(e) = base
  BY <1>4 DEF SignatureOf
<1>9. NoncesOk'
  BY <1>1, <1>4, NonceStep DEF Inv
<1>10. PairsOk(m.input, m.sigs, sent')
  <2>1. /\ m.input \in Seq(Range(m.input)) /\ m.sigs \in Seq(Range(m.sigs))
        /\ Len(m.input) = Len(m.sigs) /\ Len(m.sigs) > 0
        /\ DOMAIN m.input = {1} /\ DOMAIN m.sigs = {1}
        /\ m.input[1] = member /\ m.sigs[1] = entry
    <3>1. m.input = <<member>> /\ m.sigs = <<entry>>
      OBVIOUS
    <3> HIDE DEF m, member, entry
    <3>2. QED
      BY <3>1, OneEntry
  <2>2. member.label = entry.label /\ IsMember(member)
    BY DEF IsMember
  <2>3. FromClient(member, entry.sig, e)
    BY <1>4, <1>8 DEF FromClient
  <2>4. e \in sent'
    BY <1>1
  <2> HIDE DEF m, e, member, entry
  <2>5. QED
    BY <2>1, <2>2, <2>3, <2>4 DEF PairsOk
<1>11. m.hops \in 0..MaxHops
  BY SessionAssumption
<1> HIDE DEF e, m
<1>12. \A n \in net' : n.hops \in 0..MaxHops /\ PairsOk(n.input, n.sigs, sent')
  BY <1>1, <1>10, <1>11 DEF Inv, PairsOk
<1>13. \A d \in sent' : SentOk(d)
  BY <1>1, <1>7 DEF Inv
<1>14. \A a \in accepted' : /\ a.server \in Servers /\ a.wit \in Wits
                           /\ \E d \in sent' : AcceptedAs(a, d)
  BY <1>1 DEF Inv
<1>15. QED
  BY <1>1, <1>9, <1>12, <1>13, <1>14 DEF Inv

(* Forwarding keeps the invariant if the members it leaves are paired. *)
LEMMA ForwardInv ==
  ASSUME Inv, NEW m \in net, NEW request, NEW input, NEW sigs,
         PairsOk(input, sigs, sent), Forward(m, request, input, sigs)
  PROVE  Inv'
<1> DEFINE forwarded == [request |-> request, input |-> input, sigs |-> sigs,
                         hops |-> m.hops + 1]
<1>1. /\ net' = (net \ {m}) \cup {forwarded}
      /\ sent' = sent /\ accepted' = accepted /\ now' = now /\ m.hops < MaxHops
  BY DEF Forward
<1>2. /\ forwarded.sigs = sigs /\ forwarded.input = input
      /\ forwarded.hops = m.hops + 1
  OBVIOUS
<1> HIDE DEF forwarded
<1>3. forwarded.hops \in 0..MaxHops
  BY <1>1, <1>2, SessionAssumption DEF Inv
<1>4. \A n \in net' : n.hops \in 0..MaxHops /\ PairsOk(n.input, n.sigs, sent')
  BY <1>1, <1>2, <1>3 DEF Inv
<1>5. NoncesOk'
  BY <1>1 DEF Inv, NoncesOk
<1>6. QED
  BY <1>1, <1>4, <1>5 DEF Inv

LEMMA AddSignatureInv ==
  ASSUME Inv, NEW m \in net, NEW label, NEW tag, AddSignature(m, label, tag)
  PROVE  Inv'
<1> DEFINE params == <<<<"created", now>>, <<"keyid", "hop">>, <<"tag", tag>>>>
           member == [label |-> label, components |-> {Method}, params |-> params]
           sig    == Sign(RequestMessage(m.request), {Method}, params, HopKey)
           entry  == [label |-> label, sig |-> sig]
           input  == Append(m.input, member)
           sigs   == Append(m.sigs, entry)
<1>1. Forward(m, m.request, input, sigs)
  BY DEF AddSignature
<1>2. FromHop(member, entry.sig) /\ entry.label = member.label /\ IsMember(member)
  BY DEF Sign, FromHop, IsMember
<1> HIDE DEF entry, member
<1>3. PairsOk(m.input, m.sigs, sent)
  BY DEF Inv
<1>4. PairsOk(input, sigs, sent)
  BY <1>2, <1>3, AppendPairs
<1>5. QED
  BY <1>1, <1>4, ForwardInv

LEMMA RelabelInv ==
  ASSUME Inv, NEW m \in net, NEW label, Relabel(m, label)
  PROVE  Inv'
<1>1. PairsOk(m.input, m.sigs, sent)
  BY DEF Inv
<1>2. PairsOk([m.input EXCEPT ![1].label = label],
              [m.sigs EXCEPT ![1] = [label |-> label, sig |-> m.sigs[1].sig]], sent)
  BY <1>1, RelabelPairs
<1>3. QED
  BY <1>2, ForwardInv DEF Relabel

LEMMA ForwardRequestInv ==
  ASSUME Inv, NEW m \in net, NEW request, ForwardRequest(m, request)
  PROVE  Inv'
  BY ForwardInv DEF ForwardRequest, Inv

(* The heart of the matter: the request accepted is the one signed. *)
LEMMA ReceiveInv ==
  ASSUME Inv, NEW server \in Servers, NEW wit \in Wits, NEW m \in net,
         Receive(server, wit, m)
  PROVE  Inv'
<1> DEFINE request == Received(m, wit)
           config  == RequestConfig(server, request)
           member  == Chosen(m.input, config)
           a == [server |-> server, wit |-> wit, request |-> request,
                 member |-> member, at |-> now]
<1>1. /\ accepted' = accepted \cup {a} /\ sent' = sent /\ net' = net /\ now' = now
      /\ RecipientVerdict(server, wit, m) = "Ok"
  BY DEF Receive
<1>2. /\ Verify(RequestMessage(request), m.input, m.sigs, WitKey[wit], config) = "Ok"
      /\ HeaderValue(request.headers, WIT_HEADER) = {<<wit>>}
      /\ \A b \in request.body :
           \E digest \in HeaderValue(request.headers, "content-digest") :
             VerifyContentDigest(digest, b)
  BY <1>1 DEF RecipientVerdict
<1>3. /\ config.wimseProfile /\ config.expectedAudiences = Audiences[server]
      /\ config.requiredComponents = RequestComponents(request)
      /\ config.now = {now} /\ config.leeway = Leeway /\ config.maxAge = MaxAge
  BY DEF RequestConfig, DefaultConfig
<1>4. /\ a.server = server /\ a.wit = wit /\ a.request = request /\ a.member = member
      /\ a.at = now
  OBVIOUS
<1> HIDE DEF a, request, config, member
<1>5. PICK j \in DOMAIN m.sigs :
        /\ HasBase(RequestMessage(request), member.components, member.params)
        /\ m.sigs[j].sig.key = WitKey[wit].id
        /\ m.sigs[j].sig.base = SignatureBase(RequestMessage(request),
                                              member.components, member.params)
        /\ CheckBinding(member, config) = "Ok"
  BY <1>2, VerifyOk DEF member
<1>6. PICK e \in sent : m.sigs[j].sig.base = SignatureOf(e)
  <2>1. m.sigs[j].sig.key # HopKey.id
    BY <1>5, SessionAssumption
  <2>2. j = 1
    BY <2>1 DEF Inv, PairsOk, FromHop
  <2>3. QED
    BY <2>2 DEF Inv, PairsOk, FromClient
<1>7. SentOk(e)
  BY DEF Inv
<1>8. /\ member.components = e.components
      /\ member.params = e.params
      /\ \A c \in e.components : RequestValue(request, c) = RequestValue(e.request, c)
  <2>1. SignatureBase(RequestMessage(request), member.components, member.params)
          = SignatureBase(RequestMessage(e.request), e.components, e.params)
    BY <1>5, <1>6 DEF SignatureOf
  <2>2. [c \in member.components |-> ComponentValue(RequestMessage(request), c)]
          = [c \in e.components |-> ComponentValue(RequestMessage(e.request), c)]
    BY <2>1 DEF SignatureBase
  <2>3. member.params = e.params
    BY <2>1 DEF SignatureBase
  <2>4. member.components = e.components
    BY <2>2
  <2>5. \A c \in e.components : ComponentValue(RequestMessage(request), c)
                                 = ComponentValue(RequestMessage(e.request), c)
    BY <2>2, <2>4
  <2>6. \A c \in e.components : RequestValue(request, c) = RequestValue(e.request, c)
    BY <2>5 DEF ComponentValue, RequestMessage
  <2>7. QED
    BY <2>3, <2>4, <2>6
<1>9. LET p == ParseParams(member.params) IN
      /\ p["created"] = {e.created} /\ p["expires"] = {e.expires}
      /\ p["nonce"] = {e.nonce} /\ p["wimse-aud"] = {e.aud}
  BY <1>7, <1>8, ParamsRoundTrip DEF SentOk
<1>10. /\ RequestComponents(request) \subseteq e.components
       /\ e.aud \in Audiences[server]
       /\ CheckTimes(ParseParams(member.params), config) = "Ok"
  BY <1>3, <1>5, <1>8, <1>9, BindingOk
<1>11. Essence(request) = Essence(e.request)
  <2>1. \A c \in e.components : RequestValue(request, c) # {}
    BY <1>5, <1>8 DEF HasBase, CleanValue, ComponentValue, RequestMessage
  <2>2. QED
    BY <1>7, <1>8, <1>10, <2>1, SameEssence, ZenonT(40) DEF SentOk
<1>12. ASSUME NEW n \in RequestHeaders, HeaderValue(request.headers, n) # {}
       PROVE  HeaderValue(request.headers, n) = HeaderValue(e.request.headers, n)
  <2>1. HasHeader(request.headers, n)
    BY <1>12 DEF HeaderValue
  <2>2. Component(n) \in e.components
    BY <1>10, <2>1 DEF RequestComponents, Carried
  <2>3. QED
    BY <1>8, <2>2, HeaderComponent
<1>13. wit = e.wit
  <2>1. WIT_HEADER \in RequestHeaders
    BY DEF WIT_HEADER, RequestHeaders
  <2>2. <<wit>> = <<e.wit>>
    BY <1>2, <1>7, <1>12, <2>1 DEF SentOk
  <2>3. QED
    BY <2>2
<1>14. Genuine(a, e)
  <2>1. NonceOf(member) = {e.nonce}
    BY <1>9 DEF NonceOf
  <2>2. QED
    BY <1>4, <1>10, <1>11, <1>13, <2>1 DEF Genuine
<1>15. ASSUME NEW b \in a.request.body
       PROVE  HeaderValue(e.request.headers, "content-digest") = {ContentDigest(b)}
  <2>1. PICK digest \in HeaderValue(request.headers, "content-digest") :
          digest = ContentDigest(b)
    BY <1>2, <1>4, <1>15 DEF VerifyContentDigest
  <2>2. HeaderValue(request.headers, "content-digest") = {digest}
    BY DEF HeaderValue
  <2>3. "content-digest" \in RequestHeaders
    BY DEF RequestHeaders
  <2>4. QED
    BY <1>12, <2>1, <2>2, <2>3
<1>16. /\ a.at <= e.at + MaxSkew + ExpiresIn + Leeway
       /\ \A age \in MaxAge : a.at <= e.at + MaxSkew + age
       /\ e.created <= a.at + Leeway
  <2>1. /\ now \in Nat /\ e.created \in Nat /\ e.at \in Nat /\ e.expires \in Nat
        /\ e.created <= e.at + MaxSkew /\ e.expires = e.created + ExpiresIn
    BY <1>7, SessionAssumption DEF Inv, SentOk
  <2>2. /\ now <= e.expires + Leeway /\ e.created <= now + Leeway
        /\ \A age \in MaxAge : now <= e.created + age
    BY <1>3, <1>9, <1>10, <2>1, TimesOk
  <2>3. {ExpiresIn, Leeway, MaxSkew} \subseteq Nat /\ MaxAge \subseteq Nat
    BY SessionAssumption
  <2>4. QED
    BY <1>4, <2>1, <2>2, <2>3
<1>17. AcceptedAs(a, e)
  BY <1>14, <1>15, <1>16 DEF AcceptedAs
<1>18. NoncesOk'
  BY <1>1 DEF Inv, NoncesOk
<1>19. \A d \in accepted' : /\ d.server \in Servers /\ d.wit \in Wits
                           /\ \E f \in sent' : AcceptedAs(d, f)
  BY <1>1, <1>4, <1>17 DEF Inv
<1>20. QED
  BY <1>1, <1>18, <1>19 DEF Inv

LEMMA NextInv == Inv /\ [Next]_vars => Inv'
<1> SUFFICES ASSUME Inv, [Next]_vars PROVE Inv'
  OBVIOUS
<1>1. ASSUME UNCHANGED <<sent, net, accepted>>, now' \in 0..MaxTime PROVE Inv'
  <2>1. NoncesOk'
    BY <1>1 DEF Inv, NoncesOk
  <2>2. QED
    BY <1>1, <2>1 DEF Inv
<1>1a. ASSUME UNCHANGED <<now, sent, net, accepted>> PROVE Inv'
  BY <1>1, <1>1a DEF Inv
<1>2. CASE \E wit \in ClientWits, plain \in Plain, extra \in SUBSET Extras,
              server \in Servers, label \in Labels, created \in ClientClocks :
             \E aud \in Audiences[server], expires \in Expiry(created) :
               SignRequest(wit, plain, extra, aud, label, created, expires)
  BY <1>2, SignRequestInv
<1>3. CASE \E m \in net, h \in HopHeaders : AddHeader(m, h) \/ DropHeader(m, h[1])
  BY <1>3, ForwardRequestInv DEF AddHeader, DropHeader
<1>4. CASE \E m \in net, line \in HopRequestLines : Reroute(m, line)
  BY <1>4, ForwardRequestInv DEF Reroute
<1>5. CASE \E m \in net, b \in HopBodies : ReplaceBody(m, b)
  BY <1>5, ForwardRequestInv DEF ReplaceBody
<1>6. CASE \E m \in net, label \in Labels, tag \in {WIMSE_TAG, "hop"} :
             AddSignature(m, label, tag)
  BY <1>6, AddSignatureInv
<1>7. CASE \E m \in net, label \in Labels : Relabel(m, label)
  BY <1>7, RelabelInv
<1>8. CASE \E server \in Servers, wit \in Wits, m \in net : Receive(server, wit, m)
  BY <1>8, ReceiveInv
<1>9. CASE \E a \in accepted, status \in Statuses, label \in Labels :
             SignResponse(a, status, label)
  BY <1>1a, <1>9 DEF SignResponse, requestVars
<1>10. CASE \/ \E q \in replies, status \in Statuses : ChangeStatus(q, status)
            \/ \E q \in replies, h \in HopHeaders : AddReplyHeader(q, h)
  BY <1>1a, <1>10 DEF ChangeStatus, AddReplyHeader, ForwardReply, requestVars
<1>11. CASE \E e \in sent, wit \in Wits, q \in replies : ReceiveResponse(e, wit, q)
  BY <1>1a, <1>11 DEF ReceiveResponse, requestVars
<1>12. CASE Tick
  <2>1. now' \in 0..MaxTime
    BY <1>12, SessionAssumption DEF Tick, Inv
  <2>2. QED
    BY <1>1, <1>12, <2>1 DEF Tick, requestVars
<1>13. CASE UNCHANGED vars
  BY <1>1a, <1>13 DEF vars
<1>14. QED
  BY <1>2, <1>3, <1>4, <1>5, <1>6, <1>7, <1>8, <1>9, <1>10, <1>11, <1>12, <1>13
     DEF Next

LEMMA SpecInv == Spec => []Inv
  BY InitInv, NextInv, PTL DEF Spec

(* Every request a recipient accepts was signed, for it and as it stands,  *)
(* by the workload whose WIT it carries (httpsig::verify under the WIMSE   *)
(* profile, as `wimsey httpsig verify` calls it).                          *)
THEOREM AcceptsOnlyAuthentic == Spec => []RequestAuthentic
<1>1. Inv => RequestAuthentic
  BY DEF Inv, AcceptedAs, RequestAuthentic
<1>2. QED
  BY SpecInv, <1>1, PTL

(* A body handed over with an accepted request is the one whose digest the *)
(* client signed (run_verify compares it with the covered Content-Digest). *)
THEOREM AcceptsOnlySignedBodies == Spec => []BodyAuthentic
<1>1. Inv => BodyAuthentic
  BY DEF Inv, AcceptedAs, BodyAuthentic
<1>2. QED
  BY SpecInv, <1>1, PTL

(* No request is accepted outside the window that its client's clock, its  *)
(* expiry and the recipient's maximum age leave (check_times), however     *)
(* close to the end of u64 the times are.                                  *)
THEOREM AcceptsOnlyInWindow == Spec => []AcceptedInWindow
<1>1. Inv => AcceptedInWindow
  BY DEF Inv, AcceptedAs, AcceptedInWindow
<1>2. QED
  BY SpecInv, <1>1, PTL

-----------------------------------------------------------------------------
(***************************************************************************)
(* The way back: that a client completes a request only with an answer     *)
(* given to that very request, and that signing and verifying so implement *)
(* AuthenticExchange, whatever the intermediaries do.                      *)
(***************************************************************************)

(***************************************************************************)
(* The inductive invariant of the responses, on top of Inv: an answer is   *)
(* to an accepted request and carries its server's WIT, and a signature in *)
(* transit is over such an answer and names its request's nonce.           *)
(***************************************************************************)
AnsweredOk(x) ==
  /\ x.to \in accepted
  /\ HeaderValue(x.response.headers, WIT_HEADER) = {<<ServerWit[x.to.server]>>}

OverAnswer(sig, x) ==
  /\ sig.base = SignatureBase(ExchangeMessage(x.response, x.to.request),
                              ResponseComponents(x.response, x.to.request),
                              sig.base.params)
  /\ ParseParams(sig.base.params)["wimse-req-nonce"] = NonceOf(x.to.member)

IsReply(q) ==
  q = [response |-> q.response, input |-> q.input, sigs |-> q.sigs, hops |-> q.hops]

ReplyOk(q, answers) ==
  /\ IsReply(q) /\ q.hops \in 0..MaxReplyHops
  /\ \A j \in DOMAIN q.sigs : \E x \in answers : OverAnswer(q.sigs[j].sig, x)

ReplyInv ==
  /\ \A x \in answered : AnsweredOk(x)
  /\ \A q \in replies : ReplyOk(q, answered)
  /\ ResponseAuthentic

(* The nonce a server writes is the one a client reads. *)
LEMMA ReqNonceRoundTrip ==
  ASSUME NEW n
  PROVE  ParseParams(ResponseParams(n))["wimse-req-nonce"] = {n}
<1> DEFINE raw == ResponseParams(n)
<1>1. /\ DOMAIN raw = 1..5
      /\ raw[1][1] = "created" /\ raw[2][1] = "expires" /\ raw[3][1] = "nonce"
      /\ raw[4][1] = "tag" /\ raw[5] = <<"wimse-req-nonce", n>>
  BY DEF ResponseParams
<1> HIDE DEF raw
<1>2. ParseParams(raw)["wimse-req-nonce"] =
        {raw[i][2] : i \in {i \in 1..5 :
           raw[i][1] = "wimse-req-nonce"
             /\ \A j \in 1..5 : j > i => raw[j][1] # "wimse-req-nonce"}}
  BY <1>1 DEF ParseParams, ParamNames
<1>3. {i \in 1..5 : raw[i][1] = "wimse-req-nonce"
                      /\ \A j \in 1..5 : j > i => raw[j][1] # "wimse-req-nonce"} = {5}
  BY <1>1
<1>4. QED
  BY <1>1, <1>2, <1>3 DEF raw

(***************************************************************************)
(* Two responses under one signature base that covers what both have to    *)
(* cover agree on the status and on every mandatory header.                *)
(***************************************************************************)
LEMMA ResponseHeaderValue ==
  ASSUME NEW response, NEW request, NEW n \in ResponseHeaders
  PROVE  ComponentValue(ExchangeMessage(response, request), Component(n))
           = HeaderValue(response.headers, n)
  BY DEF ComponentValue, ExchangeMessage, ResponseValue, ResponseHeaders, Component,
         Req, Derived, Method, Authority, Path, Query, Status, RequestTarget

LEMMA CarriedComponent ==
  ASSUME NEW response, NEW request, NEW n \in ResponseHeaders,
         HeaderValue(response.headers, n) # {}
  PROVE  Component(n) \in ResponseComponents(response, request)
  BY DEF ResponseComponents, Carried, HeaderValue

LEMMA SameResponse ==
  ASSUME NEW x, NEW y, NEW request, NEW answeredRequest, NEW components,
         components = ResponseComponents(x, answeredRequest),
         ResponseComponents(y, request) \subseteq components,
         \A c \in components :
           /\ ComponentValue(ExchangeMessage(x, answeredRequest), c)
                = ComponentValue(ExchangeMessage(y, request), c)
           /\ ComponentValue(ExchangeMessage(y, request), c) # {}
  PROVE  ResponseOf(x) = ResponseOf(y)
<1>1. x.status = y.status
  <2>1. Status \in components
    BY DEF ResponseComponents
  <2>2. /\ ComponentValue(ExchangeMessage(x, answeredRequest), Status) = {<<x.status>>}
        /\ ComponentValue(ExchangeMessage(y, request), Status) = {<<y.status>>}
    BY DEF ComponentValue, ExchangeMessage, ResponseValue
  <2>3. <<x.status>> = <<y.status>>
    BY <2>1, <2>2
  <2>4. QED
    BY <2>3
<1>2. ASSUME NEW n \in ResponseHeaders
      PROVE  HeaderValue(x.headers, n) = HeaderValue(y.headers, n)
  <2>1. CASE Component(n) \in components
    BY <2>1, ResponseHeaderValue
  <2>2. CASE Component(n) \notin components
    BY <2>2, CarriedComponent
  <2>3. QED
    BY <2>1, <2>2
<1>3. QED
  BY <1>1, <1>2 DEF ResponseOf

(***************************************************************************)
(* The initial states and each kind of step preserve the invariant.        *)
(***************************************************************************)
LEMMA InitReplyInv == Init => ReplyInv
  BY DEF Init, ReplyInv, ResponseAuthentic

LEMMA SignResponseInv ==
  ASSUME Inv, ReplyInv, NEW a \in accepted, NEW status, NEW label,
         SignResponse(a, status, label)
  PROVE  ReplyInv'
<1> DEFINE response == [status |-> status,
                        headers |-> [n \in {WIT_HEADER} |-> <<ServerWit[a.server]>>]]
           message    == ExchangeMessage(response, a.request)
           components == ResponseComponents(response, a.request)
           params     == ResponseParams(CHOOSE n \in NonceOf(a.member) : TRUE)
           x     == [to |-> a, response |-> response]
           sig   == Sign(message, components, params, WitKey[ServerWit[a.server]])
           entry == [label |-> label, sig |-> sig]
           input == <<[label |-> label, components |-> components, params |-> params]>>
           q == [response |-> response, input |-> input, sigs |-> <<entry>>, hops |-> 0]
<1>1. /\ answered' = answered \cup {x} /\ replies' = replies \cup {q}
      /\ accepted' = accepted /\ done' = done /\ sent' = sent
  BY DEF SignResponse, requestVars
<1>2. AnsweredOk(x)
  <2>1. HeaderValue(response.headers, WIT_HEADER) = {<<ServerWit[a.server]>>}
    BY DEF HeaderValue, HasHeader
  <2>2. QED
    BY <2>1 DEF AnsweredOk
<1>3. OverAnswer(sig, x)
  <2>1. PICK n : NonceOf(a.member) = {n}
    BY DEF Inv, AcceptedAs, Genuine
  <2>2. (CHOOSE k \in NonceOf(a.member) : TRUE) = n
    BY <2>1
  <2>3. ParseParams(params)["wimse-req-nonce"] = NonceOf(a.member)
    BY <2>1, <2>2, ReqNonceRoundTrip
  <2>4. sig.base = SignatureBase(message, components, params)
    BY DEF Sign
  <2>5. sig.base.params = params
    BY <2>4 DEF SignatureBase
  <2>6. x.to = a /\ x.response = response
    OBVIOUS
  <2> HIDE DEF x, sig, params, response
  <2>7. QED
    BY <2>3, <2>4, <2>5, <2>6 DEF OverAnswer
<1>4. IsReply(q) /\ q.hops \in 0..MaxReplyHops /\ q.sigs = <<entry>> /\ entry.sig = sig
  BY SessionAssumption DEF IsReply
<1>5. x \in answered'
  BY <1>1
<1> HIDE DEF x, q, entry, sig
<1>6. ReplyOk(q, answered')
  BY <1>3, <1>4, <1>5, OneEntry DEF ReplyOk
<1>7. \A p \in replies' : ReplyOk(p, answered')
  BY <1>1, <1>6 DEF ReplyInv, ReplyOk
<1>8. (\A y \in answered : AnsweredOk(y))'
  BY <1>1, <1>2 DEF ReplyInv, AnsweredOk
<1>9. ResponseAuthentic'
  BY <1>1 DEF ReplyInv, ResponseAuthentic, Genuine
<1>10. QED
  BY <1>7, <1>8, <1>9 DEF ReplyInv

LEMMA ReplyExcept ==
  ASSUME NEW q, IsReply(q), NEW response
  PROVE  [q EXCEPT !.response = response]
           = [response |-> response, input |-> q.input, sigs |-> q.sigs,
              hops |-> q.hops]
<1>1. PICK r, i, s, h : q = [response |-> r, input |-> i, sigs |-> s, hops |-> h]
  BY DEF IsReply
<1>2. QED
  BY <1>1

LEMMA ForwardReplyInv ==
  ASSUME ReplyInv, NEW q \in replies, NEW changed, ForwardReply(q, changed),
         NEW response,
         changed = [response |-> response, input |-> q.input, sigs |-> q.sigs,
                    hops |-> q.hops]
  PROVE  ReplyInv'
<1> DEFINE forwarded == [response |-> response, input |-> q.input, sigs |-> q.sigs,
                         hops |-> q.hops + 1]
<1>1. [changed EXCEPT !.hops = q.hops + 1] = forwarded
  OBVIOUS
<1>2. /\ replies' = (replies \ {q}) \cup {forwarded} /\ q.hops < MaxReplyHops
      /\ UNCHANGED <<sent, accepted, answered, done>>
  BY <1>1 DEF ForwardReply, requestVars
<1>3. /\ IsReply(forwarded) /\ forwarded.sigs = q.sigs
      /\ forwarded.hops = q.hops + 1
  BY DEF IsReply
<1> HIDE DEF forwarded
<1>4. ReplyOk(forwarded, answered)
  BY <1>2, <1>3, SessionAssumption DEF ReplyInv, ReplyOk
<1>5. \A p \in replies' : ReplyOk(p, answered')
  BY <1>2, <1>4 DEF ReplyInv
<1>6. (\A y \in answered : AnsweredOk(y))'
  BY <1>2 DEF ReplyInv, AnsweredOk
<1>7. ResponseAuthentic'
  BY <1>2 DEF ReplyInv, ResponseAuthentic
<1>8. QED
  BY <1>5, <1>6, <1>7 DEF ReplyInv

(* The heart of the matter: the response completes the request it answers. *)
LEMMA ReceiveResponseInv ==
  ASSUME Inv, ReplyInv, NEW e \in sent, NEW wit \in Wits, NEW q \in replies,
         ReceiveResponse(e, wit, q)
  PROVE  ReplyInv'
<1> DEFINE config  == ResponseConfig(e, q.response)
           member  == Chosen(q.input, config)
           message == ExchangeMessage(q.response, e.request)
           d == [request |-> e, response |-> q.response, wit |-> wit]
<1>1. /\ done' = done \cup {d}
      /\ UNCHANGED <<sent, accepted, answered, replies>>
      /\ HeaderValue(q.response.headers, WIT_HEADER) = {<<wit>>}
      /\ Verify(message, q.input, q.sigs, WitKey[wit], config) = "Ok"
  BY DEF ReceiveResponse, ResponseVerdict, requestVars
<1>2. /\ config.requiredComponents = ResponseComponents(q.response, e.request)
      /\ config.expectedReqNonce = {e.nonce}
  BY DEF ResponseConfig, DefaultConfig
<1>3. d.request = e /\ d.response = q.response /\ d.wit = wit
  OBVIOUS
<1> HIDE DEF d, config, member
<1>4. PICK j \in DOMAIN q.sigs :
        /\ HasBase(message, member.components, member.params)
        /\ q.sigs[j].sig.base = SignatureBase(message, member.components, member.params)
        /\ CheckBinding(member, config) = "Ok"
  BY <1>1, VerifyOk DEF member
<1>5. PICK x \in answered : OverAnswer(q.sigs[j].sig, x)
  BY DEF ReplyInv, ReplyOk
<1> DEFINE components == ResponseComponents(x.response, x.to.request)
           answer     == ExchangeMessage(x.response, x.to.request)
<1>6. /\ member.components = components
      /\ \A c \in components : ComponentValue(answer, c) = ComponentValue(message, c)
      /\ ParseParams(member.params)["wimse-req-nonce"] = NonceOf(x.to.member)
  <2> DEFINE base == q.sigs[j].sig.base
  <2>1. /\ base = SignatureBase(message, member.components, member.params)
        /\ base = SignatureBase(answer, components, base.params)
        /\ ParseParams(base.params)["wimse-req-nonce"] = NonceOf(x.to.member)
    BY <1>4, <1>5 DEF OverAnswer
  <2> HIDE DEF base, message, answer, components
  <2>2. base.params = member.params
    BY <2>1 DEF SignatureBase
  <2>3. [c \in member.components |-> ComponentValue(message, c)]
          = [c \in components |-> ComponentValue(answer, c)]
    BY <2>1 DEF SignatureBase
  <2>4. member.components = components
    BY <2>3
  <2>5. \A c \in components : ComponentValue(answer, c) = ComponentValue(message, c)
    BY <2>3, <2>4
  <2>6. QED
    BY <2>1, <2>2, <2>4, <2>5 DEF message, answer, components
<1>7. /\ ResponseComponents(q.response, e.request) \subseteq components
      /\ NonceOf(x.to.member) = {e.nonce}
  BY <1>2, <1>4, <1>6, BindingOk
<1>8. ResponseOf(x.response) = ResponseOf(q.response)
  <2>1. \A c \in components : ComponentValue(message, c) # {}
    BY <1>4, <1>6 DEF HasBase, CleanValue
  <2>2. QED
    BY <1>6, <1>7, <2>1, SameResponse
<1>9. Genuine(x.to, e)
  <2>1. x.to \in accepted
    BY DEF ReplyInv, AnsweredOk
  <2>2. PICK f \in sent : Genuine(x.to, f)
    BY <2>1 DEF Inv, AcceptedAs
  <2>3. {f.nonce} = {e.nonce}
    BY <1>7, <2>2 DEF Genuine
  <2>4. f = e
    BY <2>3 DEF Inv, NoncesOk
  <2>5. QED
    BY <2>2, <2>4
<1>10. ServerWit[x.to.server] = wit
  <2>1. WIT_HEADER \in ResponseHeaders
    BY DEF WIT_HEADER, ResponseHeaders
  <2>2. HeaderValue(x.response.headers, WIT_HEADER)
          = HeaderValue(q.response.headers, WIT_HEADER)
    BY <1>8, <2>1 DEF ResponseOf
  <2>3. <<ServerWit[x.to.server]>> = <<wit>>
    BY <1>1, <2>2 DEF ReplyInv, AnsweredOk
  <2>4. QED
    BY <2>3
<1>11. ResponseAuthentic'
  BY <1>1, <1>3, <1>8, <1>9, <1>10 DEF ReplyInv, ResponseAuthentic
<1>12. (\A y \in answered : AnsweredOk(y))' /\ (\A p \in replies : ReplyOk(p, answered))'
  BY <1>1 DEF ReplyInv, AnsweredOk
<1>13. QED
  BY <1>11, <1>12 DEF ReplyInv

LEMMA ReplyUnchanged ==
  ASSUME ReplyInv, UNCHANGED <<answered, replies, done>>, accepted \subseteq accepted'
  PROVE  ReplyInv'
<1>1. (\A x \in answered : AnsweredOk(x))'
  BY DEF ReplyInv, AnsweredOk
<1>2. ResponseAuthentic'
  BY DEF ReplyInv, ResponseAuthentic
<1>3. QED
  BY <1>1, <1>2 DEF ReplyInv

(* Every other step leaves the responses alone. *)
LEMMA ResponseSteps ==
  ASSUME [Next]_vars
  PROVE  \/ UNCHANGED <<answered, replies, done>> /\ accepted \subseteq accepted'
         \/ \E a \in accepted, status \in Statuses, label \in Labels :
              SignResponse(a, status, label)
         \/ \E q \in replies, status \in Statuses : ChangeStatus(q, status)
         \/ \E q \in replies, h \in HopHeaders : AddReplyHeader(q, h)
         \/ \E e \in sent, wit \in Wits, q \in replies : ReceiveResponse(e, wit, q)
<1> USE DEF responseVars
<1>1. CASE \E wit \in ClientWits, plain \in Plain, extra \in SUBSET Extras,
              server \in Servers, label \in Labels, created \in ClientClocks :
             \E aud \in Audiences[server], expires \in Expiry(created) :
               SignRequest(wit, plain, extra, aud, label, created, expires)
  BY <1>1 DEF SignRequest
<1>2. CASE \E m \in net, h \in HopHeaders : AddHeader(m, h) \/ DropHeader(m, h[1])
  BY <1>2 DEF AddHeader, DropHeader, ForwardRequest, Forward
<1>3. CASE \E m \in net, line \in HopRequestLines : Reroute(m, line)
  BY <1>3 DEF Reroute, ForwardRequest, Forward
<1>4. CASE \E m \in net, b \in HopBodies : ReplaceBody(m, b)
  BY <1>4 DEF ReplaceBody, ForwardRequest, Forward
<1>5. CASE \E m \in net, label \in Labels, tag \in {WIMSE_TAG, "hop"} :
             AddSignature(m, label, tag)
  BY <1>5 DEF AddSignature, Forward
<1>6. CASE \E m \in net, label \in Labels : Relabel(m, label)
  BY <1>6 DEF Relabel, Forward
<1>7. CASE \E server \in Servers, wit \in Wits, m \in net : Receive(server, wit, m)
  BY <1>7 DEF Receive
<1>8. CASE Tick
  BY <1>8 DEF Tick, requestVars
<1>9. CASE UNCHANGED vars
  BY <1>9 DEF vars
<1>10. QED
  BY <1>1, <1>2, <1>3, <1>4, <1>5, <1>6, <1>7, <1>8, <1>9 DEF Next

LEMMA NextReplyInv == Inv /\ ReplyInv /\ [Next]_vars => ReplyInv'
<1> SUFFICES ASSUME Inv, ReplyInv, [Next]_vars PROVE ReplyInv'
  OBVIOUS
<1>1. CASE UNCHANGED <<answered, replies, done>> /\ accepted \subseteq accepted'
  BY <1>1, ReplyUnchanged
<1>2. CASE \E a \in accepted, status \in Statuses, label \in Labels :
             SignResponse(a, status, label)
  BY <1>2, SignResponseInv
<1>3. CASE \E q \in replies, status \in Statuses : ChangeStatus(q, status)
  <2>1. PICK q \in replies, status \in Statuses :
          ForwardReply(q, [q EXCEPT !.response.status = status])
    BY <1>3 DEF ChangeStatus
  <2>2. PICK changed : changed = [q EXCEPT !.response.status = status]
    OBVIOUS
  <2>3. changed = [response |-> [q.response EXCEPT !.status = status],
                   input |-> q.input, sigs |-> q.sigs, hops |-> q.hops]
    BY <2>2, ReplyExcept DEF ReplyInv, ReplyOk
  <2>4. QED
    BY <2>1, <2>2, <2>3, ForwardReplyInv
<1>4. CASE \E q \in replies, h \in HopHeaders : AddReplyHeader(q, h)
  <2>1. PICK q \in replies, h \in HopHeaders :
          ForwardReply(q, [q EXCEPT !.response.headers
                                      = AddField(q.response.headers, h[1], h[2])])
    BY <1>4 DEF AddReplyHeader
  <2> DEFINE response == [q.response EXCEPT !.headers
                                      = AddField(q.response.headers, h[1], h[2])]
  <2>2. PICK changed : changed = [q EXCEPT !.response = response]
    OBVIOUS
  <2>3. changed = [response |-> response,
                   input |-> q.input, sigs |-> q.sigs, hops |-> q.hops]
    BY <2>2, ReplyExcept DEF ReplyInv, ReplyOk
  <2>4. QED
    BY <2>1, <2>2, <2>3, ForwardReplyInv
<1>5. CASE \E e \in sent, wit \in Wits, q \in replies : ReceiveResponse(e, wit, q)
  BY <1>5, ReceiveResponseInv
<1>6. QED
  BY <1>1, <1>2, <1>3, <1>4, <1>5, ResponseSteps

LEMMA SpecReplyInv == Spec => [](Inv /\ ReplyInv)
<1>1. Spec => []Inv
  BY SpecInv
<1>2. QED
  BY <1>1, InitReplyInv, NextReplyInv, PTL DEF Spec

(* A client completes a request only with a response that a server, whose  *)
(* WIT the client was shown, gave to this very request after accepting it, *)
(* with the status and the mandatory headers it gave (httpsig::verify      *)
(* under the response profile, wimse-req-nonce included).                  *)
THEOREM CompletesOnlyAuthentic == Spec => []ResponseAuthentic
<1>1. ReplyInv => ResponseAuthentic
  BY DEF ReplyInv
<1>2. QED
  BY SpecReplyInv, <1>1, PTL

(* The state keeps its kinds, and every time a client ever signs fits a    *)
(* u64 with the expiry after the creation (run_sign's checked sum).        *)
THEOREM KeepsTypes == Spec => []TypeOK
<1>1. Inv /\ ReplyInv => TypeOK
  <2> SUFFICES ASSUME Inv, ReplyInv PROVE TypeOK
    OBVIOUS
  <2>1. ASSUME NEW e \in sent
        PROVE  /\ e.wit \in ClientWits /\ e.nonce \in 1..MaxRequests
               /\ e.created \in 0..U64Max /\ e.expires \in e.created..U64Max
    <3>1. e.nonce \in 1..MaxRequests
      <4>1. Cardinality(sent) \in Nat
        BY FS_CardinalityType DEF Inv, NoncesOk
      <4>2. QED
        BY <4>1, SessionAssumption DEF Inv, NoncesOk
    <3>2. e.created \in 0..U64Max /\ e.expires \in e.created..U64Max
      BY SessionAssumption DEF Inv, SentOk
    <3>3. QED
      BY <3>1, <3>2 DEF Inv, SentOk
  <2>2. \A m \in net : m.hops \in 0..MaxHops /\ Len(m.input) = Len(m.sigs)
    BY DEF Inv, PairsOk
  <2>3. \A q \in replies : q.hops \in 0..MaxReplyHops
    BY DEF ReplyInv, ReplyOk
  <2>4. QED
    BY <2>1, <2>2, <2>3 DEF TypeOK, Inv
<1>2. QED
  BY SpecReplyInv, <1>1, PTL

(***************************************************************************)
(* The refinement: each step asks, delivers, answers, completes or is none *)
(* of the exchange's business.                                             *)
(***************************************************************************)
Asked     == {AskedOf(e) : e \in sent}
Delivered == {AcceptedOf(a) : a \in accepted}
Answered  == {<<AcceptedOf(x.to), ResponseOf(x.response)>> : x \in answered}
Completed == {<<AskedOf(d.request), ResponseOf(d.response)>> : d \in done}

LEMMA SameAsk ==
  ASSUME NEW a, NEW e, Genuine(a, e)
  PROVE  AcceptedOf(a) = AskedOf(e)
  BY DEF Genuine, AcceptedOf, AskedOf

LEMMA InitRefines == Init => Exchange!Init
  BY DEF Init, Exchange!Init

LEMMA AskRefines ==
  ASSUME NEW e, sent' = sent \cup {e}, UNCHANGED <<accepted, answered, done>>
  PROVE  Exchange!Ask
<1>1. Asked' = Asked \cup {AskedOf(e)} /\ AskedOf(e) \in Asked'
  BY DEF Asked
<1>2. QED
  BY <1>1 DEF Exchange!Ask, Asked

LEMMA DeliverRefines ==
  ASSUME Inv', NEW a, accepted' = accepted \cup {a}, UNCHANGED <<sent, answered, done>>
  PROVE  Exchange!Deliver
<1>1. PICK e \in sent : Genuine(a, e)
  BY DEF Inv, AcceptedAs
<1>2. AcceptedOf(a) = AskedOf(e)
  BY <1>1, SameAsk
<1>3. AcceptedOf(a) \in Asked
  BY <1>2 DEF Asked
<1>4. Delivered' = Delivered \cup {AcceptedOf(a)}
  BY DEF Delivered
<1>5. QED
  BY <1>3, <1>4 DEF Exchange!Deliver, Asked, Delivered

LEMMA AnswerRefines ==
  ASSUME NEW x, x.to \in accepted, answered' = answered \cup {x},
         UNCHANGED <<sent, accepted, done>>
  PROVE  Exchange!Answer
<1> DEFINE pair == <<AcceptedOf(x.to), ResponseOf(x.response)>>
<1>1. Answered' = Answered \cup {pair} /\ pair \in Answered'
  BY DEF Answered
<1>2. pair[1] \in Delivered
  BY DEF Delivered
<1> HIDE DEF pair
<1>3. QED
  BY <1>1, <1>2 DEF Exchange!Answer, Answered, Delivered

LEMMA CompleteRefines ==
  ASSUME ReplyInv', NEW d, d.request \in sent, done' = done \cup {d},
         UNCHANGED <<sent, accepted, answered>>
  PROVE  Exchange!Complete
<1>1. PICK x \in answered : /\ Genuine(x.to, d.request)
                            /\ ResponseOf(x.response) = ResponseOf(d.response)
  BY DEF ReplyInv, ResponseAuthentic
<1> DEFINE pair == <<AskedOf(d.request), ResponseOf(d.response)>>
<1>2. AcceptedOf(x.to) = AskedOf(d.request)
  BY <1>1, SameAsk
<1>3. pair \in Answered
  BY <1>1, <1>2 DEF Answered
<1>4. pair[1] \in Asked
  BY DEF Asked
<1>5. Completed' = Completed \cup {pair}
  BY DEF Completed
<1> HIDE DEF pair
<1>6. QED
  BY <1>3, <1>4, <1>5 DEF Exchange!Complete, Asked, Answered, Completed

LEMMA StutterRefines ==
  ASSUME UNCHANGED <<sent, accepted, answered, done>>
  PROVE  UNCHANGED Exchange!vars
  BY DEF Exchange!vars

(* What SignRequest adds to sent. *)
AddedBy(wit, plain, extra, aud, created, expires) ==
  LET request    == WithWit(WithDigest(plain), wit)
      components == RequestComponents(request) \cup extra
      nonce      == Cardinality(sent) + 1
  IN  [wit |-> wit, key |-> WitKey[wit].id, request |-> request,
       components |-> components,
       params |-> RequestParams(created, expires, nonce, aud), aud |-> aud,
       nonce |-> nonce, created |-> created, expires |-> expires, at |-> now]

LEMMA StepRefines ==
  Inv' /\ ReplyInv' /\ [Next]_vars => [Exchange!Next]_(Exchange!vars)
<1> SUFFICES ASSUME Inv', ReplyInv', [Next]_vars
             PROVE  Exchange!Next \/ UNCHANGED Exchange!vars
  OBVIOUS
<1> USE DEF responseVars, requestVars
<1>1. CASE \E wit \in ClientWits, plain \in Plain, extra \in SUBSET Extras,
              server \in Servers, label \in Labels, created \in ClientClocks :
             \E aud \in Audiences[server], expires \in Expiry(created) :
               SignRequest(wit, plain, extra, aud, label, created, expires)
  <2>1. /\ \E e : sent' = sent \cup {e}
        /\ UNCHANGED <<accepted, answered, done>>
    <3>1. PICK wit, plain, extra, aud, label, created, expires :
            SignRequest(wit, plain, extra, aud, label, created, expires)
      BY <1>1, Zenon
    <3>2. /\ sent' = sent \cup {AddedBy(wit, plain, extra, aud, created, expires)}
          /\ UNCHANGED <<accepted, answered, done>>
      BY <3>1 DEF SignRequest, AddedBy
    <3>3. QED
      BY <3>2
  <2>2. QED
    BY <2>1, AskRefines DEF Exchange!Next
<1>2. CASE \E m \in net, h \in HopHeaders : AddHeader(m, h) \/ DropHeader(m, h[1])
  BY <1>2, StutterRefines DEF AddHeader, DropHeader, ForwardRequest, Forward
<1>3. CASE \E m \in net, line \in HopRequestLines : Reroute(m, line)
  BY <1>3, StutterRefines DEF Reroute, ForwardRequest, Forward
<1>4. CASE \E m \in net, b \in HopBodies : ReplaceBody(m, b)
  BY <1>4, StutterRefines DEF ReplaceBody, ForwardRequest, Forward
<1>5. CASE \E m \in net, label \in Labels, tag \in {WIMSE_TAG, "hop"} :
             AddSignature(m, label, tag)
  BY <1>5, StutterRefines DEF AddSignature, Forward
<1>6. CASE \E m \in net, label \in Labels : Relabel(m, label)
  BY <1>6, StutterRefines DEF Relabel, Forward
<1>7. CASE \E server \in Servers, wit \in Wits, m \in net : Receive(server, wit, m)
  <2>1. /\ \E a : accepted' = accepted \cup {a}
        /\ UNCHANGED <<sent, answered, done>>
    BY <1>7 DEF Receive
  <2>2. QED
    BY <2>1, DeliverRefines DEF Exchange!Next
<1>8. CASE \E a \in accepted, status \in Statuses, label \in Labels :
             SignResponse(a, status, label)
  <2>1. PICK a \in accepted, status \in Statuses, label \in Labels :
          SignResponse(a, status, label)
    BY <1>8
  <2>2. PICK response, x : /\ x = [to |-> a, response |-> response]
                           /\ answered' = answered \cup {x}
                           /\ UNCHANGED <<sent, accepted, done>>
    BY <2>1 DEF SignResponse
  <2>3. x.to \in accepted
    BY <2>2
  <2>4. QED
    BY <2>2, <2>3, AnswerRefines DEF Exchange!Next
<1>9. CASE \/ \E q \in replies, status \in Statuses : ChangeStatus(q, status)
           \/ \E q \in replies, h \in HopHeaders : AddReplyHeader(q, h)
  BY <1>9, StutterRefines DEF ChangeStatus, AddReplyHeader, ForwardReply
<1>10. CASE \E e \in sent, wit \in Wits, q \in replies : ReceiveResponse(e, wit, q)
  <2>1. PICK e \in sent, wit \in Wits, q \in replies : ReceiveResponse(e, wit, q)
    BY <1>10
  <2>2. PICK d : /\ d = [request |-> e, response |-> q.response, wit |-> wit]
                 /\ done' = done \cup {d}
                 /\ UNCHANGED <<sent, accepted, answered>>
    BY <2>1 DEF ReceiveResponse
  <2>3. d.request \in sent
    BY <2>2
  <2>4. QED
    BY <2>2, <2>3, CompleteRefines DEF Exchange!Next
<1>11. CASE Tick
  BY <1>11, StutterRefines DEF Tick
<1>12. CASE UNCHANGED vars
  BY <1>12, StutterRefines DEF vars
<1>13. QED
  BY <1>1, <1>2, <1>3, <1>4, <1>5, <1>6, <1>7, <1>8, <1>9, <1>10, <1>11, <1>12
     DEF Next

(* Signing, verifying and everything the network does implement the        *)
(* promise of AuthenticExchange: nothing is delivered that was not asked,  *)
(* nor completed that was not answered to the same request.                *)
THEOREM RefinesExchange == Spec => ImplementsExchange
<1>1. Spec => [](Inv /\ ReplyInv)
  BY SpecReplyInv
<1>2. QED
  BY <1>1, InitRefines, StepRefines, PTL DEF Spec, ImplementsExchange, Exchange!Spec

-----------------------------------------------------------------------------
(***************************************************************************)
(* The other direction of AcceptsOnlyAuthentic: that verification refuses  *)
(* nothing it should accept.  A request whose signed parts are untouched   *)
(* passes each of the checks of httpsig::verify and of run_verify, however *)
(* many hops relabelled it or put their signature beside the client's.     *)
(***************************************************************************)

(***************************************************************************)
(* The client's member is the first, and no other has the WIMSE tag.       *)
(***************************************************************************)
LEMMA HopTag ==
  ASSUME NEW member, NEW sig, FromHop(member, sig),
         <<"tag", WIMSE_TAG>> \notin ToSet(member.params)
  PROVE  ~HasWimseTag(member)
<1>1. /\ DOMAIN member.params = 1..3
      /\ member.params[1][1] = "created" /\ member.params[2][1] = "keyid"
      /\ member.params[3] = <<"tag", member.params[3][2]>>
  BY DEF FromHop
<1>2. member.params[3] \in ToSet(member.params)
  BY <1>1 DEF ToSet
<1>3. member.params[3][2] # WIMSE_TAG
  BY <1>1, <1>2
<1>4. QED
  BY <1>1, <1>3 DEF HasWimseTag

LEMMA ClientsFirst ==
  ASSUME Inv, NEW m \in net, NEW e \in sent, Intact(m, e)
  PROVE  /\ FromClient(m.input[1], m.sigs[1].sig, e)
         /\ \A k \in DOMAIN m.input \ {1} :
              m.input[k].label # m.input[1].label /\ ~HasWimseTag(m.input[k])
<1>1. PICK i \in DOMAIN m.input :
        /\ m.input[i].params = e.params
        /\ \A k \in DOMAIN m.input \ {i} :
             /\ m.input[k].label # m.input[i].label
             /\ <<"tag", WIMSE_TAG>> \notin ToSet(m.input[k].params)
  BY DEF Intact
<1>2. /\ e.params[2][1] = "expires" /\ e.params[3][2] = e.nonce
      /\ \A f \in sent : f.params[3][2] = f.nonce
  BY DEF Inv, SentOk, RequestParams
<1>3. DOMAIN m.input = DOMAIN m.sigs
  BY DEF Inv, PairsOk
<1>4. \A k \in DOMAIN m.input \ {1} : FromHop(m.input[k], m.sigs[k].sig)
  BY <1>3 DEF Inv, PairsOk
<1>5. i = 1
  <2>1. \A k \in DOMAIN m.input \ {1} : m.input[k].params[2][1] = "keyid"
    BY <1>4 DEF FromHop
  <2>2. QED
    BY <1>1, <1>2, <2>1
<1>6. PICK f \in sent : FromClient(m.input[1], m.sigs[1].sig, f)
  BY DEF Inv, PairsOk
<1>7. f = e
  <2>1. f.params = e.params
    BY <1>1, <1>5, <1>6 DEF FromClient
  <2>2. f.nonce = e.nonce
    BY <1>2, <2>1
  <2>3. QED
    BY <2>2 DEF Inv, NoncesOk
<1>8. QED
  BY <1>1, <1>4, <1>5, <1>6, <1>7, HopTag

(***************************************************************************)
(* The member is found, and its signature with it.                         *)
(***************************************************************************)
LEMMA MemberChosen ==
  ASSUME NEW input, input \in Seq(Range(input)), Len(input) > 0, NEW config,
         config.wimseProfile, HasWimseTag(input[1]),
         \A k \in DOMAIN input \ {1} : ~HasWimseTag(input[k])
  PROVE  Candidates(input, config) = {1} /\ Chosen(input, config) = input[1]
<1>1. 1 \in DOMAIN input
  OBVIOUS
<1>2. Candidates(input, config) = {1}
  BY <1>1 DEF Candidates, UnderProfile
<1>3. QED
  BY <1>2 DEF Chosen

LEMMA MemberSelected ==
  ASSUME NEW input, NEW config, config.wimseProfile, DictionaryOk(input),
         Candidates(input, config) = {1}, Chosen(input, config) = input[1],
         ~Unsupported(input[1]), ParamsParse(input[1].params)
  PROVE  SelectMember(input, config) = "Ok"
  BY DEF SelectMember, UnderProfile

LEMMA SignatureFound ==
  ASSUME NEW input, NEW sigs, NEW events, PairsOk(input, sigs, events),
         DictionaryOk(input)
  PROVE  /\ ParseSignature(sigs, input[1].label) = "Ok"
         /\ SignatureLabelled(sigs, input[1].label) = sigs[1].sig
<1>1. DOMAIN sigs = DOMAIN input /\ 1 \in DOMAIN sigs /\ sigs # <<>>
  BY DEF PairsOk
<1>2. \A k \in DOMAIN sigs : sigs[k].label = input[k].label
  BY DEF PairsOk
<1>3. \A k \in DOMAIN sigs : sigs[k].label = input[1].label => k = 1
  BY <1>1, <1>2 DEF DictionaryOk
<1>4. sigs[1].label = input[1].label /\ sigs[1].sig.ok = TRUE
  BY <1>1, <1>2 DEF PairsOk, FromClient
<1>5. DictionaryOk(sigs)
  BY <1>1, <1>2 DEF DictionaryOk
<1>6. ParseSignature(sigs, input[1].label) = "Ok"
  BY <1>1, <1>3, <1>4, <1>5 DEF ParseSignature
<1>7. (CHOOSE k \in DOMAIN sigs : sigs[k].label = input[1].label) = 1
  BY <1>1, <1>3, <1>4
<1>8. QED
  BY <1>6, <1>7 DEF SignatureLabelled

(***************************************************************************)
(* What a client writes parses, and is what the profile demands.           *)
(***************************************************************************)
LEMMA ClientParams ==
  ASSUME NEW created, NEW expires, NEW nonce, NEW aud
  PROVE  LET raw == RequestParams(created, expires, nonce, aud)
             p == ParseParams(raw) IN
         /\ p["keyid"] = {} /\ p["alg"] = {} /\ p["tag"] = {WIMSE_TAG}
         /\ Bad \notin {created, expires, nonce, aud, WIMSE_TAG} => ParamsParse(raw)
<1> DEFINE raw == RequestParams(created, expires, nonce, aud)
<1>1. /\ DOMAIN raw = 1..5
      /\ raw[1] = <<"created", created>> /\ raw[2] = <<"expires", expires>>
      /\ raw[3] = <<"nonce", nonce>> /\ raw[4] = <<"tag", WIMSE_TAG>>
      /\ raw[5] = <<"wimse-aud", aud>>
  BY DEF RequestParams
<1> HIDE DEF raw
<1>2. \A n \in ParamNames :
        ParseParams(raw)[n] =
          {raw[i][2] : i \in {i \in 1..5 :
             raw[i][1] = n /\ \A j \in 1..5 : j > i => raw[j][1] # n}}
  BY <1>1 DEF ParseParams
<1>3. {i \in 1..5 : raw[i][1] = "tag"
                      /\ \A j \in 1..5 : j > i => raw[j][1] # "tag"} = {4}
  BY <1>1
<1>4. {i \in 1..5 : raw[i][1] = "keyid"
                      /\ \A j \in 1..5 : j > i => raw[j][1] # "keyid"} = {}
  BY <1>1
<1>5. {i \in 1..5 : raw[i][1] = "alg"
                      /\ \A j \in 1..5 : j > i => raw[j][1] # "alg"} = {}
  BY <1>1
<1>6. ParseParams(raw)["tag"] = {WIMSE_TAG}
  BY <1>1, <1>2, <1>3 DEF ParamNames
<1>7. ParseParams(raw)["keyid"] = {}
  BY <1>2, <1>4 DEF ParamNames
<1>8. ParseParams(raw)["alg"] = {}
  BY <1>2, <1>5 DEF ParamNames
<1>9. Bad \notin {created, expires, nonce, aud, WIMSE_TAG} => ParamsParse(raw)
  <2>1. \A i \in DOMAIN raw : raw[i][2] \in {created, expires, nonce, aud, WIMSE_TAG}
    <3>1. \A i \in 1..5 : i = 1 \/ i = 2 \/ i = 3 \/ i = 4 \/ i = 5
      OBVIOUS
    <3>2. QED
      BY <1>1, <3>1
  <2>2. QED
    BY <2>1 DEF ParamsParse
<1>10. QED
  BY <1>6, <1>7, <1>8, <1>9 DEF raw

(* Within the window of the property, leeway included, no time check fails *)
(* -- at the end of u64 either, where the sums saturate.                   *)
LEMMA TimesPass ==
  ASSUME NEW p, NEW config, NEW time \in 0..U64Max,
         config.now = {time}, config.leeway = Leeway, config.maxAge = MaxAge,
         NEW created \in Nat, p["created"] = {created},
         NEW expires \in Nat, p["expires"] = {expires},
         created <= expires, expires <= U64Max,
         created <= time + Leeway, time <= expires + Leeway,
         \A age \in MaxAge : time <= created + age
  PROVE  CheckTimes(p, config) = "Ok"
<1>1. Leeway \in Nat /\ U64Max \in Nat /\ MaxAge \subseteq Nat
  BY SessionAssumption
<1>2. ~(expires < created)
  BY <1>1
<1>3. ~PastExpiry(expires, time, Leeway)
  BY <1>1 DEF PastExpiry, SaturatingAdd
<1>4. ~(created > SaturatingAdd(time, Leeway))
  BY <1>1 DEF SaturatingAdd
<1>5. ASSUME NEW age \in MaxAge PROVE ~(SaturatingSub(time, created) > age)
  BY <1>1, <1>5 DEF SaturatingSub
<1>6. ~TooOld(p, config)
  BY <1>5 DEF TooOld
<1>7. QED
  BY <1>2, <1>3, <1>4, <1>6 DEF CheckTimes

(***************************************************************************)
(* The message as received is the message as it arrived: nothing has to be *)
(* completed, and every covered value is the one that was signed.          *)
(***************************************************************************)
LEMMA MandatoryKept ==
  ASSUME NEW r, NEW s, Essence(r) = Essence(s)
  PROVE  /\ RequestComponents(r) = RequestComponents(s)
         /\ \A n \in RequestHeaders : HasHeader(s.headers, n) =>
              /\ HasHeader(r.headers, n)
              /\ HeaderValue(r.headers, n) = HeaderValue(s.headers, n)
<1>1. /\ RequestComponents(r) = RequestComponents(s)
      /\ \A c \in RequestComponents(s) : RequestValue(r, c) = RequestValue(s, c)
  BY DEF Essence
<1>2. ASSUME NEW n \in RequestHeaders, HasHeader(s.headers, n)
      PROVE  /\ HasHeader(r.headers, n)
             /\ HeaderValue(r.headers, n) = HeaderValue(s.headers, n)
  <2>1. Component(n) \in RequestComponents(s)
    BY <1>2 DEF RequestComponents, Carried
  <2>2. HeaderValue(r.headers, n) = HeaderValue(s.headers, n)
    BY <1>1, <2>1, HeaderComponent
  <2>3. HeaderValue(s.headers, n) # {}
    BY <1>2 DEF HeaderValue
  <2>4. QED
    BY <2>2, <2>3 DEF HeaderValue
<1>3. QED
  BY <1>1, <1>2

LEMMA NothingToComplete ==
  ASSUME NEW m, NEW e, SentOk(e), m.request.body = e.request.body,
         Essence(m.request) = Essence(e.request)
  PROVE  /\ Received(m, e.wit) = m.request
         /\ HeaderValue(m.request.headers, WIT_HEADER) = {<<e.wit>>}
         /\ \A b \in m.request.body :
              HeaderValue(m.request.headers, "content-digest") = {ContentDigest(b)}
<1>1. /\ WIT_HEADER \in RequestHeaders /\ "content-digest" \in RequestHeaders
  BY DEF WIT_HEADER, RequestHeaders
<1>2. /\ HasHeader(m.request.headers, WIT_HEADER)
      /\ HeaderValue(m.request.headers, WIT_HEADER) = {<<e.wit>>}
  <2>1. HasHeader(e.request.headers, WIT_HEADER)
    BY DEF SentOk, HeaderValue
  <2>2. QED
    BY <1>1, <2>1, MandatoryKept DEF SentOk
<1>3. ASSUME NEW b \in m.request.body
      PROVE  /\ HasHeader(m.request.headers, "content-digest")
             /\ HeaderValue(m.request.headers, "content-digest") = {ContentDigest(b)}
  <2>1. HeaderValue(e.request.headers, "content-digest") = {ContentDigest(b)}
    BY <1>3 DEF SentOk
  <2>2. HasHeader(e.request.headers, "content-digest")
    BY <2>1 DEF HeaderValue
  <2>3. QED
    BY <1>1, <2>1, <2>2, MandatoryKept
<1>4. WithWit(m.request, e.wit) = m.request
  BY <1>2 DEF WithWit
<1>5. WithDigest(m.request) = m.request
  BY <1>3 DEF WithDigest
<1>6. QED
  BY <1>2, <1>3, <1>4, <1>5 DEF Received

LEMMA SameBase ==
  ASSUME NEW r, NEW s, NEW components, NEW raw,
         \A c \in components : RequestValue(r, c) = RequestValue(s, c),
         HasBase(RequestMessage(s), components, raw)
  PROVE  /\ HasBase(RequestMessage(r), components, raw)
         /\ SignatureBase(RequestMessage(r), components, raw)
              = SignatureBase(RequestMessage(s), components, raw)
<1>1. \A c \in components :
        ComponentValue(RequestMessage(r), c) = ComponentValue(RequestMessage(s), c)
  BY DEF ComponentValue, RequestMessage
<1>2. QED
  BY <1>1 DEF HasBase, SignatureBase

LEMMA ConnectKept ==
  ASSUME NEW r, NEW s, NEW components,
         Method \in components, RequestValue(r, Method) = RequestValue(s, Method),
         ConnectComponentsOk(RequestMessage(s), components)
  PROVE  ConnectComponentsOk(RequestMessage(r), components)
  BY DEF ConnectComponentsOk, ComponentValue, RequestMessage

(***************************************************************************)
(* Every check passes.                                                     *)
(***************************************************************************)
LEMMA VerifierPasses ==
  ASSUME Inv, NEW m \in net, NEW e \in sent, NEW server \in Servers,
         Intact(m, e), DictionaryOk(m.input), e.aud \in Audiences[server],
         ConnectComponentsOk(RequestMessage(e.request), e.components),
         Essence(m.request) = Essence(e.request),
         \A c \in e.components :
           RequestValue(m.request, c) = RequestValue(e.request, c),
         e.created <= now + Leeway, now <= e.created + ExpiresIn + Leeway,
         \A age \in MaxAge : now <= e.created + age
  PROVE  Verify(RequestMessage(m.request), m.input, m.sigs, WitKey[e.wit],
                RequestConfig(server, m.request)) = "Ok"
<1> DEFINE message == RequestMessage(m.request)
           config  == RequestConfig(server, m.request)
           member  == m.input[1]
           sig     == m.sigs[1].sig
           p       == ParseParams(member.params)
<1>1. /\ config.wimseProfile = TRUE /\ config.wimseResponseProfile = FALSE
      /\ config.expectedAudiences = Audiences[server]
      /\ config.requiredComponents = RequestComponents(m.request)
      /\ config.now = {now} /\ config.leeway = Leeway /\ config.maxAge = MaxAge
      /\ config.acceptedAlgorithms = {} /\ config.expectedReqNonce = {}
  BY DEF RequestConfig, DefaultConfig
<1>2. /\ SentOk(e) /\ e.nonce \in Nat
  BY DEF Inv, NoncesOk
<1>3. /\ member.components = e.components /\ member.params = e.params
      /\ sig.key = WitKey[e.wit].id /\ sig.base = SignatureOf(e)
      /\ \A k \in DOMAIN m.input \ {1} : ~HasWimseTag(m.input[k])
  BY <1>2, ClientsFirst DEF FromClient, SentOk
<1>4. /\ p["keyid"] = {} /\ p["alg"] = {} /\ p["tag"] = {WIMSE_TAG}
      /\ p["created"] = {e.created} /\ p["expires"] = {e.expires}
      /\ p["nonce"] = {e.nonce} /\ p["wimse-aud"] = {e.aud}
  BY <1>2, <1>3, ClientParams, ParamsRoundTrip DEF SentOk
<1>5. ParamsParse(member.params)
  <2>1. Bad \notin {e.created, e.expires, e.nonce, e.aud, WIMSE_TAG}
    <3>1. e.expires \in Nat
      BY <1>2, SessionAssumption DEF SentOk
    <3>2. QED
      BY <1>2, <3>1, SessionAssumption DEF SentOk
  <2>2. QED
    BY <1>2, <1>3, <2>1, ClientParams DEF SentOk
<1> HIDE DEF config
<1>6. Candidates(m.input, config) = {1} /\ Chosen(m.input, config) = member
  <2>1. HasWimseTag(member)
    BY <1>2, <1>3 DEF SentOk, RequestParams, HasWimseTag
  <2>2. m.input \in Seq(Range(m.input)) /\ Len(m.input) > 0
    BY DEF Inv, PairsOk
  <2>3. QED
    BY <1>1, <1>3, <2>1, <2>2, MemberChosen
<1>7. SelectMember(m.input, config) = "Ok"
  <2>1. ~Unsupported(member)
    BY <1>2, <1>3 DEF Unsupported, SentOk
  <2>2. QED
    BY <1>1, <1>5, <1>6, <2>1, MemberSelected
<1>8. /\ ParseSignature(m.sigs, member.label) = "Ok"
      /\ SignatureLabelled(m.sigs, member.label) = sig
  BY SignatureFound DEF Inv
<1>9. /\ HasBase(message, member.components, member.params)
      /\ sig.base = SignatureBase(message, member.components, member.params)
  BY <1>2, <1>3, SameBase DEF SentOk, SignatureOf
<1>10. CheckProfile(message, member, config) = "Ok"
  <2>1. CheckRequestProfile(p) = "Ok"
    BY <1>4 DEF CheckRequestProfile, CommonProfileError
  <2>2. ConnectComponentsOk(message, member.components)
    <3>1. Method \in e.components
      BY <1>2 DEF SentOk, RequestComponents
    <3>2. QED
      BY <1>3, <3>1, ConnectKept
  <2> HIDE DEF p, message, member
  <2>3. QED
    BY <1>1, <2>1, <2>2 DEF CheckProfile, p
<1>11. CheckBinding(member, config) = "Ok"
  <2>1. CoversRequired(member, config)
    BY <1>1, <1>2, <1>3, MandatoryKept DEF SentOk, CoversRequired
  <2>2. AudienceOk(p, config) /\ ReqNonceOk(p, config)
    BY <1>1, <1>4 DEF AudienceOk, ReqNonceOk
  <2>3. CheckTimes(p, config) = "Ok"
    <3>1. /\ now \in 0..U64Max /\ e.created \in Nat /\ e.expires \in Nat
          /\ e.created <= e.expires /\ e.expires <= U64Max
          /\ now <= e.expires + Leeway
      <4>1. {MaxTime, U64Max, ExpiresIn, Leeway} \subseteq Nat /\ MaxTime <= U64Max
        BY SessionAssumption
      <4>2. now \in 0..MaxTime
        BY DEF Inv
      <4>3. QED
        BY <1>2, <4>1, <4>2 DEF SentOk
    <3> HIDE DEF p
    <3>2. QED
      BY <1>1, <1>4, <3>1, TimesPass
  <2> HIDE DEF p
  <2>4. QED
    BY <2>1, <2>2, <2>3 DEF CheckBinding, p
<1>12. VerifyMember(message, member, sig, WitKey[e.wit], config) = "Ok"
  <2>1. p["alg"] \in {{}, {Rfc9421Alg(WitKey[e.wit].alg)}}
    BY <1>4
  <2> HIDE DEF message, member, sig, p
  <2>2. QED
    BY <1>1, <1>3, <1>9, <1>10, <1>11, <2>1 DEF VerifyMember, p
<1> HIDE DEF message, member, sig
<1>13. QED
  BY <1>6, <1>7, <1>8, <1>12 DEF Verify, config, message

(* Relabelled, rerouted in what is not signed, beside other signatures: an *)
(* intact request in its window is accepted by the recipient it is for     *)
(* (httpsig::verify and run_verify refuse nothing more than they must).    *)
THEOREM AcceptsTheIntact == Spec => []IntactRequestAccepted
<1>1. Inv => IntactRequestAccepted
  <2> SUFFICES ASSUME Inv, NEW m \in net, NEW e \in sent, NEW server \in Servers,
                      Intact(m, e), DictionaryOk(m.input),
                      e.aud \in Audiences[server],
                      ConnectComponentsOk(RequestMessage(e.request), e.components),
                      m.request.body = e.request.body,
                      Essence(m.request) = Essence(e.request),
                      \A c \in e.components :
                        RequestValue(m.request, c) = RequestValue(e.request, c),
                      e.created <= now + Leeway,
                      now <= e.created + ExpiresIn + Leeway,
                      \A age \in MaxAge : now <= e.created + age
               PROVE  RecipientVerdict(server, e.wit, m) = "Ok"
    BY DEF IntactRequestAccepted
  <2>1. /\ Received(m, e.wit) = m.request
        /\ HeaderValue(m.request.headers, WIT_HEADER) = {<<e.wit>>}
        /\ \A b \in m.request.body :
             HeaderValue(m.request.headers, "content-digest") = {ContentDigest(b)}
    BY NothingToComplete DEF Inv
  <2>2. Verify(RequestMessage(m.request), m.input, m.sigs, WitKey[e.wit],
               RequestConfig(server, m.request)) = "Ok"
    BY VerifierPasses
  <2>3. \A b \in m.request.body :
          \E digest \in HeaderValue(m.request.headers, "content-digest") :
            VerifyContentDigest(digest, b)
    BY <2>1 DEF VerifyContentDigest
  <2>4. QED
    BY <2>1, <2>2, <2>3 DEF RecipientVerdict
<1>2. QED
  BY SpecInv, <1>1, PTL
============================================================================
