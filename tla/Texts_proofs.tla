---------------------------- MODULE Texts_proofs ----------------------------
(***************************************************************************)
(* That texts and octets come through as they should, of any length and    *)
(* with anything in them.                                                  *)
(*                                                                         *)
(* Requests.  What is read off and what is written are texts again (the    *)
(* lemmas named ...Type); no value has a line break in it; and so the      *)
(* lines of a base come apart as they were put together: equal bases have  *)
(* equal values (SameValues, SameBases), and those are what was meant by   *)
(* the arguments (QueryIs, MeantIsValue, Binds).                           *)
(*                                                                         *)
(* Fields.  The members that the behaviours write have labels, names and   *)
(* parameters that the writer takes (IsFields), and keep them as they grow *)
(* (FieldsStep); what such members are written as reads back               *)
(* (StructuredFields_proofs), as their places in the dictionary do         *)
(* (OneReads, TwoRead).                                                    *)
(*                                                                         *)
(* Signatures in DER.  A number loses its leading zeros and gets them back *)
(* (PaddedKept, KeptPadded).  A tag, a length and as many octets come      *)
(* apart into what they were put together from, and nothing else comes     *)
(* apart into it (FramedReads, ReadsFramed).  From these, one INTEGER each *)
(* way (ReadWritten, WrittenRead), and a SEQUENCE of two (FromTo, ToFrom). *)
(*                                                                         *)
(* Identifiers are the matter of WorkloadIdentifier_proofs; here it is     *)
(* only left to say that their octets are numbers.                         *)
(***************************************************************************)
EXTENDS Texts, StructuredFields_proofs, WorkloadIdentifier_proofs

LEMMA LowerTextType ==
  ASSUME NEW t \in Text PROVE LowerText(t) \in Text
<1>1. Len(t) \in Nat /\ DOMAIN t = 1..Len(t) /\ \A i \in 1..Len(t) : t[i] \in Alphabet
  BY DEF Text
<1>2. \A i \in 1..Len(t) :
        (IF t[i] \in DOMAIN LowerOf THEN LowerOf[t[i]] ELSE t[i]) \in Alphabet
  BY <1>1, LowerOfAssumption DEF Alphabet
<1>3. QED
  BY <1>1, <1>2 DEF LowerText, Text

(* What is in lowercase stays as it is. *)
LEMMA LowerTwice ==
  ASSUME NEW t PROVE LowerText(LowerText(t)) = LowerText(t)
<1> DEFINE low == LowerText(t)
<1>1. DOMAIN low = DOMAIN t /\ \A i \in DOMAIN t :
        low[i] = IF t[i] \in DOMAIN LowerOf THEN LowerOf[t[i]] ELSE t[i]
  BY DEF LowerText
<1>2. low = [i \in DOMAIN t |-> low[i]]
  BY DEF LowerText
<1> HIDE DEF low
<1>3. \A i \in DOMAIN t : low[i] \notin DOMAIN LowerOf
  BY <1>1, LowerOfAssumption
<1>4. LowerText(low) = [i \in DOMAIN t |-> low[i]]
  BY <1>1, <1>3 DEF LowerText
<1>5. QED
  BY <1>2, <1>4 DEF low

LEMMA AllOfIs ==
  ASSUME NEW n \in Nat, NEW items, DOMAIN items = 1..n, NEW all \in AllOf(items)
  PROVE  /\ DOMAIN all = 1..n /\ all = [i \in 1..n |-> all[i]]
         /\ \A i \in 1..n : all[i] \in items[i]
<1>1. \A i \in 1..n : items[i] # {}
  BY DEF AllOf
<1>2. all = [i \in 1..n |-> CHOOSE item \in items[i] : TRUE]
  BY DEF AllOf
<1>3. QED
  BY <1>1, <1>2

LEMMA AllOfType ==
  ASSUME NEW n \in Nat, NEW items, DOMAIN items = 1..n, NEW all \in AllOf(items), NEW S,
         \A i \in 1..n : items[i] \in SUBSET S
  PROVE  all \in Seq(S)
<1>1. \A i \in 1..n : all[i] \in S
  BY AllOfIs
<1>2. all \in [1..n -> S]
  BY <1>1, AllOfIs
<1>3. QED
  BY <1>2

LEMMA ComponentOf == ASSUME NEW t \in Text PROVE Component(t) \in ComponentType
BY DEF Component, ComponentType

LEMMA ParseComponentType ==
  ASSUME NEW raw \in Text PROVE ParseComponent(raw) \in SUBSET ComponentType
<1>1. LowerText(Trim(raw)) \in Text
  BY TrimType, LowerTextType
<1>2. QED
  BY <1>1, ComponentOf DEF ParseComponent

LEMMA ParseComponentsType ==
  ASSUME NEW list \in Text, NEW cs \in ParseComponents(list) PROVE cs \in Seq(ComponentType)
<1> DEFINE cuts  == {i \in DOMAIN list : list[i] = Comma}
           parts == SplitAt(list, cuts)
           words == Picked(parts, {k \in DOMAIN parts : Trim(parts[k]) # <<>>})
           items == [i \in DOMAIN words |-> ParseComponent(words[i])]
<1>1. parts \in Seq(Text)
  <2> HIDE DEF cuts
  <2>1. QED
    BY SplitAtType DEF Text, Parts
<1> HIDE DEF parts
<1>2. words \in Seq(Text)
  BY <1>1, PickedType
<1>3. cs \in AllOf(items)
  BY DEF ParseComponents, parts
<1> HIDE DEF words
<1>4. PICK n \in Nat : DOMAIN words = 1..n /\ \A i \in 1..n : words[i] \in Text
  BY <1>2
<1>5. DOMAIN items = 1..n /\ \A i \in 1..n : items[i] \in SUBSET ComponentType
  BY <1>4, ParseComponentType
<1> HIDE DEF items
<1>6. QED
  BY <1>3, <1>5, AllOfType

LEMMA RequestComponentsType ==
  ASSUME NEW request PROVE RequestComponents(request) \in Seq(ComponentType)
<1> DEFINE target  == IF request.method = <<"CONNECT">> THEN <<"@method", "@authority">>
                                                        ELSE <<"@method", "@path", "@query">>
           places  == {i \in DOMAIN Carriable : Named(request, <<Carriable[i]>>) # <<>>}
           carried == Picked(Carriable, places)
           names   == target \o carried
<1>1. target \in Text
  <2>1. "@method" \in Alphabet /\ "@authority" \in Alphabet /\ "@path" \in Alphabet /\ "@query" \in Alphabet
    BY DEF Alphabet, Literals
  <2>2. <<"@method", "@authority">> \in Seq(Alphabet)
    BY <2>1
  <2>3. <<"@method", "@path", "@query">> \in Seq(Alphabet)
    BY <2>1
  <2>4. QED
    BY <2>2, <2>3 DEF Text
<1>2. carried \in Text
  <2>1. Carriable \in Seq(Alphabet)
    <3>1. /\ "content-type" \in Alphabet /\ "content-digest" \in Alphabet
          /\ "authorization" \in Alphabet /\ "txn-token" \in Alphabet
          /\ "workload-identity-token" \in Alphabet
      BY DEF Alphabet, Literals
    <3>2. QED
      BY <3>1 DEF Carriable
  <2> HIDE DEF places
  <2>2. QED
    BY <2>1, PickedType DEF Text
<1> HIDE DEF target, carried
<1>3. names \in Text
  BY <1>1, <1>2, TextConcat
<1>4. RequestComponents(request) = [i \in DOMAIN names |-> Component(<<names[i]>>)]
  BY DEF RequestComponents, target, carried
<1> HIDE DEF names
<1>5. DOMAIN names = 1..Len(names) /\ Len(names) \in Nat /\ \A i \in 1..Len(names) : names[i] \in Alphabet
  BY <1>3 DEF Text
<1>6. \A i \in 1..Len(names) : <<names[i]>> \in Text
  BY <1>5, OneItem DEF Text
<1>7. \A i \in 1..Len(names) : Component(<<names[i]>>) \in ComponentType
  BY <1>6, ComponentOf
<1>8. QED
  BY <1>4, <1>5, <1>7

LEMMA CoveredType ==
  ASSUME NEW args, args.cover \in Text, NEW request, NEW cs \in Covered(args, request)
  PROVE  cs \in Seq(ComponentType)
BY RequestComponentsType, ParseComponentsType DEF Covered

(***************************************************************************)
(* What the commands make of their arguments.                              *)
(***************************************************************************)
HeaderType == [name : Text, value : Text]

RequestType ==
  [method : Text, authority : Text, path : Text, query : Text, headers : Seq(HeaderType)]

ArgumentsType ==
  [method : Text, authority : Text, path : Text, query : Text, headers : Seq(Text), cover : Text]

LEMMA ParseHeaderType == ASSUME NEW spec \in Text PROVE ParseHeader(spec) \in SUBSET HeaderType
<1> DEFINE colons == {i \in DOMAIN spec : spec[i] = ":"}
           at == Min(colons)
           name  == SubSeq(spec, 1, at - 1)
           value == SubSeq(spec, at + 1, Len(spec))
           field == [name |-> LowerText(Trim(name)), value |-> Trim(value)]
<1>1. SUFFICES ASSUME colons # {} PROVE field \in HeaderType
  BY DEF ParseHeader
<1>2. at \in 1..Len(spec) /\ Len(spec) \in Nat /\ spec \in Seq(Alphabet)
  <2>1. Len(spec) \in Nat /\ colons \in SUBSET (1..Len(spec)) /\ spec \in Seq(Alphabet)
    BY DEF Text
  <2> HIDE DEF colons
  <2>2. colons \in SUBSET Nat
    BY <2>1
  <2>3. at \in colons
    BY <1>1, <2>2, MinIsLeast
  <2>4. QED
    BY <2>1, <2>3
<1> HIDE DEF at
<1>3. name \in Text /\ value \in Text
  <2>1. at - 1 \in 0..Len(spec) /\ at + 1 \in 1 .. Len(spec) + 1 /\ 1 \in 1 .. Len(spec) + 1
        /\ Len(spec) \in 0..Len(spec)
    BY <1>2
  <2>2. QED
    BY <1>2, <2>1, SubSeqType DEF Text
<1> HIDE DEF name, value
<1>4. LowerText(Trim(name)) \in Text /\ Trim(value) \in Text
  BY <1>3, TrimType, LowerTextType
<1>5. QED
  BY <1>4 DEF HeaderType

LEMMA CheckedQueryType == ASSUME NEW raw \in Text PROVE CheckedQuery(raw) \in Text
<1> DEFINE t == Trim(raw)
           kept == {i \in DOMAIN t : t[i] # "?"}
<1>1. t \in Seq(Alphabet) /\ Len(t) \in Nat /\ kept \in SUBSET (1..Len(t))
  BY TrimType DEF Text
<1> HIDE DEF t
<1>2. CASE kept = {}
  BY <1>2, EmptyText DEF CheckedQuery, t
<1>3. CASE kept # {}
  <2> HIDE DEF kept
  <2>1. kept \in SUBSET Nat
    BY <1>1
  <2>2. Min(kept) \in kept
    BY <1>3, <2>1, MinIsLeast
  <2>3. Min(kept) \in 1..Len(t)
    BY <1>1, <2>2
  <2>4. Min(kept) \in 1 .. Len(t) + 1 /\ Len(t) \in 0..Len(t)
    BY <1>1, <2>3
  <2>5. SubSeq(t, Min(kept), Len(t)) \in Text
    BY <1>1, <2>4, SubSeqType DEF Text
  <2>6. QED
    BY <1>3, <2>5 DEF CheckedQuery, t, kept
<1>4. QED
  BY <1>2, <1>3

LEMMA BuildRequestType ==
  ASSUME NEW args \in ArgumentsType, NEW request \in BuildRequest(args)
  PROVE  /\ request \in RequestType
         /\ request.authority = LowerText(Trim(args.authority))
         /\ request.query = CheckedQuery(args.query)
<1> DEFINE items == [i \in DOMAIN args.headers |-> ParseHeader(args.headers[i])]
<1>1. PICK method \in CheckedMethod(args.method), authority \in CheckedAuthority(args.authority),
           path \in CheckedPath(args.path), headers \in AllOf(items) :
        request = [method |-> method, authority |-> authority, path |-> path,
                   query |-> CheckedQuery(args.query), headers |-> headers]
  BY DEF BuildRequest
<1>2. method \in Text /\ path \in Text
  <2>1. method = Trim(args.method) /\ path = Trim(args.path)
    BY DEF CheckedMethod, CheckedPath, Checked
  <2>2. QED
    BY <2>1, TrimType DEF ArgumentsType
<1>3. authority = LowerText(Trim(args.authority)) /\ authority \in Text
  <2>1. authority = LowerText(Trim(args.authority))
    BY DEF CheckedAuthority, Checked
  <2>2. QED
    BY <2>1, TrimType, LowerTextType DEF ArgumentsType
<1>4. CheckedQuery(args.query) \in Text
  BY CheckedQueryType DEF ArgumentsType
<1>5. headers \in Seq(HeaderType)
  <2>1. args.headers \in Seq(Text)
    BY DEF ArgumentsType
  <2>2. PICK n \in Nat : DOMAIN args.headers = 1..n /\ \A i \in 1..n : args.headers[i] \in Text
    BY <2>1
  <2>3. DOMAIN items = 1..n /\ \A i \in 1..n : items[i] \in SUBSET HeaderType
    BY <2>2, ParseHeaderType
  <2> HIDE DEF items
  <2>4. QED
    BY <2>3, AllOfType
<1>6. QED
  BY <1>1, <1>2, <1>3, <1>4, <1>5 DEF RequestType

(***************************************************************************)
(* A line that begins alike and has one end of line, at its end, is found  *)
(* again in a text by where it begins.                                     *)
(***************************************************************************)
StandsAt(line, t, o) == \A j \in 1..Len(line) : t[o + j] = line[j]
Ended(front, value) == (front \o value) \o <<LineFeed>>

LEMMA EndedIs ==
  ASSUME NEW p \in Text, NEW v \in Text
  PROVE  /\ Ended(p, v) \in Text /\ Len(Ended(p, v)) = Len(p) + Len(v) + 1
         /\ \A j \in 1..Len(v) : Ended(p, v)[Len(p) + j] = v[j]
         /\ Ended(p, v)[Len(p) + Len(v) + 1] = LineFeed
<1>1. <<LineFeed>> \in Text /\ Len(<<LineFeed>>) = 1 /\ <<LineFeed>>[1] = LineFeed
  <2>1. LineFeed \in Alphabet
    BY Characters
  <2>2. QED
    BY <2>1, OneItem DEF Text
<1>2. /\ p \o v \in Text /\ Len(p \o v) = Len(p) + Len(v) /\ Len(p) \in Nat /\ Len(v) \in Nat
      /\ \A j \in 1..Len(v) : (p \o v)[Len(p) + j] = v[j]
  BY Concatenated DEF Text
<1>3. /\ Ended(p, v) \in Text /\ Len(Ended(p, v)) = Len(p \o v) + 1
      /\ \A j \in 1..Len(p \o v) : Ended(p, v)[j] = (p \o v)[j]
      /\ Ended(p, v)[Len(p \o v) + 1] = LineFeed
  <2> DEFINE u == p \o v
             e == <<LineFeed>>
  <2>1. u \in Text /\ e \in Text /\ Len(e) = 1 /\ e[1] = LineFeed
    BY <1>1, <1>2
  <2> HIDE DEF u, e
  <2>2. /\ u \o e \in Text /\ Len(u \o e) = Len(u) + Len(e)
        /\ \A j \in 1..Len(u) : (u \o e)[j] = u[j]
        /\ \A j \in 1..Len(e) : (u \o e)[Len(u) + j] = e[j]
    BY <2>1, TextConcat
  <2>3. (u \o e)[Len(u) + 1] = LineFeed
    BY <2>1, <2>2
  <2>4. Ended(p, v) = u \o e
    BY DEF Ended, u, e
  <2>5. QED
    BY <2>1, <2>2, <2>3, <2>4 DEF u
<1>4. QED
  BY <1>2, <1>3

LEMMA SameLine ==
  ASSUME NEW p \in Text, NEW v \in Text, NEW w \in Text, NEW t, NEW o \in Nat,
         LineFeed \notin ToSet(v), LineFeed \notin ToSet(w),
         StandsAt(Ended(p, v), t, o), StandsAt(Ended(p, w), t, o)
  PROVE  v = w
<1> DEFINE at == o + Len(p)
<1>1. Len(p) \in Nat /\ Len(v) \in Nat /\ Len(w) \in Nat /\ at \in Nat
  BY DEF Text
<1>2. ASSUME NEW u \in Text, StandsAt(Ended(p, u), t, o), LineFeed \notin ToSet(u)
      PROVE  /\ \A j \in 1..Len(u) : t[at + j] = u[j] /\ u[j] # LineFeed
             /\ t[at + Len(u) + 1] = LineFeed
  <2>1. Len(u) \in Nat
    BY DEF Text
  <2>2. \A j \in 1 .. Len(p) + Len(u) + 1 : t[o + j] = Ended(p, u)[j]
    BY <1>2, EndedIs DEF StandsAt
  <2>3. ASSUME NEW j \in 1..Len(u) PROVE t[at + j] = u[j] /\ u[j] # LineFeed
    <3>1. Len(p) + j \in 1 .. Len(p) + Len(u) + 1 /\ at + j = o + (Len(p) + j)
      BY <1>1, <2>1
    <3>2. t[at + j] = Ended(p, u)[Len(p) + j]
      BY <2>2, <3>1
    <3>3. Ended(p, u)[Len(p) + j] = u[j]
      BY EndedIs
    <3>4. u[j] \in ToSet(u)
      BY DEF ToSet, Text
    <3>5. QED
      BY <1>2, <3>2, <3>3, <3>4
  <2>4. t[at + Len(u) + 1] = LineFeed
    <3>1. Len(p) + Len(u) + 1 \in 1 .. Len(p) + Len(u) + 1 /\ at + Len(u) + 1 = o + (Len(p) + Len(u) + 1)
      BY <1>1, <2>1
    <3>2. t[at + Len(u) + 1] = Ended(p, u)[Len(p) + Len(u) + 1]
      BY <2>2, <3>1
    <3>3. QED
      BY <3>2, EndedIs
  <2>5. QED
    BY <2>3, <2>4
<1> HIDE DEF at
<1>3. Len(v) = Len(w)
  <2>1. CASE Len(v) < Len(w)
    <3>1. Len(v) + 1 \in 1..Len(w)
      BY <1>1, <2>1
    <3>2. t[at + (Len(v) + 1)] # LineFeed
      BY <1>2, <3>1
    <3>3. QED
      BY <1>1, <1>2, <3>2
  <2>2. CASE Len(w) < Len(v)
    <3>1. Len(w) + 1 \in 1..Len(v)
      BY <1>1, <2>2
    <3>2. t[at + (Len(w) + 1)] # LineFeed
      BY <1>2, <3>1
    <3>3. QED
      BY <1>1, <1>2, <3>2
  <2>3. QED
    BY <1>1, <2>1, <2>2
<1>4. \A j \in 1..Len(v) : v[j] = w[j]
  BY <1>2, <1>3
<1>5. QED
  BY <1>3, <1>4, SeqEqual DEF Text

(***************************************************************************)
(* The signature base.                                                     *)
(***************************************************************************)
LEMMA FieldTextType == ASSUME NEW fields \in Seq(HeaderType) PROVE FieldText(fields) \in Text
<1> DEFINE texts == [i \in DOMAIN fields |-> Trim(fields[i].value)]
<1>1. texts \in Seq(Text)
  <2>1. DOMAIN fields = 1..Len(fields) /\ Len(fields) \in Nat
        /\ \A i \in 1..Len(fields) : fields[i] \in HeaderType
    OBVIOUS
  <2>2. \A i \in 1..Len(fields) : Trim(fields[i].value) \in Text
    <3>1. \A field \in HeaderType : field.value \in Text
      BY DEF HeaderType
    <3>2. QED
      BY <2>1, <3>1, TrimType
  <2>3. QED
    BY <2>1, <2>2
<1> HIDE DEF texts
<1>2. <<Comma, Space>> \in Text
  BY Characters, TwoItems DEF Text
<1>3. Joined(texts, <<Comma, Space>>) \in Text
  BY <1>1, <1>2, JoinedType
<1>4. QED
  BY <1>3 DEF FieldText, texts

LEMMA ValueTextType ==
  ASSUME NEW request \in RequestType, NEW name, NEW v \in ValueText(request, name)
  PROVE  v \in Text /\ ValueText(request, name) = {v}
<1>1. request.method \in Text /\ LowerText(request.authority) \in Text /\ request.path \in Text
  BY LowerTextType DEF RequestType
<1>2. <<"?">> \o request.query \in Text
  <2>1. "?" \in Alphabet /\ request.query \in Text
    BY DEF Alphabet, Literals, RequestType
  <2>2. <<"?">> \in Text
    BY <2>1, OneItem DEF Text
  <2>3. QED
    BY <2>1, <2>2, TextConcat
<1> DEFINE fields == Named(request, name)
<1>3. FieldText(fields) \in Text
  <2>1. fields \in Seq(HeaderType)
    <3>1. request.headers \in Seq(HeaderType)
      BY DEF RequestType
    <3>2. QED
      BY <3>1, PickedType DEF Named
  <2>2. QED
    BY <2>1, FieldTextType
<1> HIDE DEF fields
<1>4. ValueText(request, name) =
        CASE name = <<"@method">>    -> {request.method}
          [] name = <<"@authority">> -> {LowerText(request.authority)}
          [] name = <<"@path">>      -> {request.path}
          [] name = <<"@query">>     -> {<<"?">> \o request.query}
          [] OTHER -> IF fields = <<>> THEN {} ELSE {FieldText(fields)}
  BY DEF ValueText, fields
<1>5. \/ ValueText(request, name) = {request.method}
      \/ ValueText(request, name) = {LowerText(request.authority)}
      \/ ValueText(request, name) = {request.path}
      \/ ValueText(request, name) = {<<"?">> \o request.query}
      \/ ValueText(request, name) = {}
      \/ ValueText(request, name) = {FieldText(fields)}
  BY <1>4
<1>6. QED
  BY <1>1, <1>2, <1>3, <1>5

ParamsFront == <<DQuote, "@signature-params", DQuote, ":", Space>>

(* The base of these values, line after line. *)
LinesOf(components, values) == [i \in DOMAIN components |-> Line(components[i], values[i])]

BaseOf(components, values, paramsValue) ==
  FlattenSeq(LinesOf(components, values)) \o ParamsFront \o paramsValue

HasValues(request, components, values) ==
  \A i \in DOMAIN components :
    ValueText(request, components[i].name) = {values[i]} /\ OneLine(values[i])

LEMMA BaseIs ==
  ASSUME NEW cs \in Seq(ComponentType), NEW request \in RequestType, NEW paramsValue,
         NEW base \in BaseText(request, cs, paramsValue)
  PROVE  \E values \in [1..Len(cs) -> Text] :
           HasValues(request, cs, values) /\ base = BaseOf(cs, values, paramsValue)
<1>1. PICK n \in Nat : n = Len(cs) /\ DOMAIN cs = 1..n
  OBVIOUS
<1> DEFINE Value(i) == {v \in ValueText(request, cs[i].name) : OneLine(v)}
           items == [i \in DOMAIN cs |-> {Line(cs[i], v) : v \in Value(i)}]
<1>2. PICK lines \in AllOf(items) : base = FlattenSeq(lines) \o ParamsFront \o paramsValue
  BY DEF BaseText, ParamsFront
<1>3. DOMAIN lines = 1..n /\ lines = [i \in 1..n |-> lines[i]] /\ \A i \in 1..n : lines[i] \in items[i]
  <2>1. DOMAIN items = 1..n
    BY <1>1
  <2> HIDE DEF items
  <2>2. QED
    BY <2>1, AllOfIs
<1>4. \A i \in 1..n : \E v \in Value(i) : lines[i] = Line(cs[i], v)
  <2> HIDE DEF Value
  <2>1. QED
    BY <1>1, <1>3
<1> DEFINE values == [i \in 1..n |-> CHOOSE v \in Value(i) : lines[i] = Line(cs[i], v)]
<1>5. \A i \in 1..n : values[i] \in Value(i) /\ lines[i] = Line(cs[i], values[i])
  <2> HIDE DEF Value
  <2>1. QED
    BY <1>4
<1>6. values = [i \in 1..n |-> values[i]]
  OBVIOUS
<1> HIDE DEF values
<1>7. \A i \in 1..n : /\ values[i] \in Text /\ OneLine(values[i])
                      /\ ValueText(request, cs[i].name) = {values[i]}
  BY <1>5, ValueTextType
<1>8. values \in [1..n -> Text] /\ HasValues(request, cs, values)
  BY <1>1, <1>6, <1>7 DEF HasValues
<1>9. lines = LinesOf(cs, values)
  BY <1>1, <1>3, <1>5 DEF LinesOf
<1>10. QED
  BY <1>1, <1>2, <1>8, <1>9 DEF BaseOf

LEMMA LineIs ==
  ASSUME NEW c \in ComponentType, NEW v \in Text
  PROVE  /\ Line(c, v) = Ended(QuotedId(c) \o <<":", Space>>, v)
         /\ QuotedId(c) \o <<":", Space>> \in Text
         /\ Line(c, v) \in Text
<1>1. QuotedId(c) \o <<":", Space>> \in Text
  <2>1. ":" \in Alphabet
    BY DEF Alphabet, Literals
  <2>2. <<":", Space>> \in Text
    BY <2>1, Characters, TwoItems DEF Text
  <2>3. QED
    BY <2>2, QuotedIdType, TextConcat
<1>2. Line(c, v) = Ended(QuotedId(c) \o <<":", Space>>, v)
  BY DEF Line, Ended
<1>3. QED
  BY <1>1, <1>2, EndedIs

(* Lines put together come apart into the values they were made of. *)
LEMMA SameValues ==
  ASSUME NEW cs \in Seq(ComponentType), NEW v \in [1..Len(cs) -> Text], NEW w \in [1..Len(cs) -> Text],
         \A i \in 1..Len(cs) : OneLine(v[i]) /\ OneLine(w[i]),
         FlattenSeq(LinesOf(cs, v)) = FlattenSeq(LinesOf(cs, w))
  PROVE  v = w
<1>1. PICK n \in Nat : n = Len(cs) /\ DOMAIN cs = 1..n /\ \A i \in 1..n : cs[i] \in ComponentType
  OBVIOUS
<1> DEFINE a == LinesOf(cs, v)
           b == LinesOf(cs, w)
           t == FlattenSeq(a)
<1>2. ASSUME NEW u \in [1..n -> Text]
      PROVE  /\ LinesOf(cs, u) \in Seq(Text) /\ Len(LinesOf(cs, u)) = n
             /\ LinesOf(cs, u) \in [1..n -> Seq(Alphabet)]
             /\ \A i \in 1..n : LinesOf(cs, u)[i] = Line(cs[i], u[i])
  <2>1. \A i \in 1..n : Line(cs[i], u[i]) \in Text
    BY <1>1, LineIs
  <2>2. LinesOf(cs, u) = [i \in 1..n |-> Line(cs[i], u[i])]
    BY <1>1 DEF LinesOf
  <2>3. LinesOf(cs, u) \in [1..n -> Text]
    BY <2>1, <2>2
  <2>4. LinesOf(cs, u) \in Seq(Text) /\ Len(LinesOf(cs, u)) = n
    BY <2>3
  <2>5. LinesOf(cs, u) \in [1..n -> Seq(Alphabet)]
    BY <2>3 DEF Text
  <2>6. QED
    BY <2>2, <2>4, <2>5
<1>3. ASSUME NEW u \in [1..n -> Text]
      PROVE  \E f \in [0..n -> Text] :
               /\ f[0] = <<>> /\ FlattenSeq(LinesOf(cs, u)) = f[n]
               /\ \A i \in 0 .. n - 1 :
                    /\ Len(f[i + 1]) = Len(f[i]) + Len(Line(cs[i + 1], u[i + 1]))
                    /\ StandsAt(Line(cs[i + 1], u[i + 1]), f[n], Len(f[i]))
  <2> DEFINE seqs == LinesOf(cs, u)
  <2>1. /\ seqs \in Seq(Seq(Alphabet)) /\ Len(seqs) = n /\ seqs \in [1..n -> Seq(Alphabet)]
        /\ \A i \in 1..n : seqs[i] = Line(cs[i], u[i])
    BY <1>2 DEF Text
  <2> HIDE DEF seqs
  <2>2. PICK f \in [0..n -> Seq(Alphabet)] : Accumulates(f, seqs, n) /\ FlattenSeq(seqs) = f[n]
    BY <2>1, Flattened
  <2>3. \A i \in 0 .. n - 1 :
          /\ Len(f[i + 1]) = Len(f[i]) + Len(seqs[i + 1])
          /\ Len(f[i + 1]) <= Len(f[n])
          /\ \A j \in 1..Len(seqs[i + 1]) : f[n][Len(f[i]) + j] = seqs[i + 1][j]
    <3>1. PartsStand(f, seqs, n)
      BY <2>1, <2>2, FlattenedParts
    <3>2. QED
      BY <3>1 DEF PartsStand
  <2>4. \A i \in 0 .. n - 1 : seqs[i + 1] = Line(cs[i + 1], u[i + 1])
    BY <2>1
  <2>5. f[0] = <<>>
    BY <2>2 DEF Accumulates
  <2>6. \A i \in 0 .. n - 1 :
          /\ Len(f[i + 1]) = Len(f[i]) + Len(Line(cs[i + 1], u[i + 1]))
          /\ StandsAt(Line(cs[i + 1], u[i + 1]), f[n], Len(f[i]))
    BY <2>3, <2>4 DEF StandsAt
  <2>7. f \in [0..n -> Text] /\ FlattenSeq(LinesOf(cs, u)) = f[n]
    BY <2>2 DEF Text, seqs
  <2>8. QED
    BY <2>5, <2>6, <2>7
<1>4. v \in [1..n -> Text] /\ w \in [1..n -> Text]
  BY <1>1
<1>5. PICK f \in [0..n -> Text] :
        /\ f[0] = <<>> /\ t = f[n]
        /\ \A i \in 0 .. n - 1 :
             /\ Len(f[i + 1]) = Len(f[i]) + Len(Line(cs[i + 1], v[i + 1]))
             /\ StandsAt(Line(cs[i + 1], v[i + 1]), f[n], Len(f[i]))
  BY <1>3, <1>4
<1>6. PICK g \in [0..n -> Text] :
        /\ g[0] = <<>> /\ t = g[n]
        /\ \A i \in 0 .. n - 1 :
             /\ Len(g[i + 1]) = Len(g[i]) + Len(Line(cs[i + 1], w[i + 1]))
             /\ StandsAt(Line(cs[i + 1], w[i + 1]), g[n], Len(g[i]))
  BY <1>3, <1>4
<1> HIDE DEF t
<1> DEFINE D == {i \in 0..n : Len(f[i]) = Len(g[i]) /\ (i > 0 => v[i] = w[i])}
<1>7. 0 \in D
  BY <1>5, <1>6
<1>8. ASSUME NEW i \in 0 .. n - 1 PROVE i \in D => i + 1 \in D
  <2> SUFFICES ASSUME i \in D PROVE i + 1 \in D
    OBVIOUS
  <2>1. PICK k \in 1..n : k = i + 1
    OBVIOUS
  <2> DEFINE front == QuotedId(cs[k]) \o <<":", Space>>
             o == Len(f[i])
  <2>2. cs[k] \in ComponentType /\ v[k] \in Text /\ w[k] \in Text
    BY <1>1, <1>4
  <2>3. /\ Line(cs[k], v[k]) = Ended(front, v[k]) /\ Line(cs[k], w[k]) = Ended(front, w[k])
        /\ front \in Text
    BY <2>2, LineIs
  <2>4. StandsAt(Line(cs[k], v[k]), t, o) /\ StandsAt(Line(cs[k], w[k]), t, o)
    BY <1>5, <1>6, <2>1
  <2>5. o \in Nat
    <3>1. f[i] \in Text
      OBVIOUS
    <3>2. QED
      BY <3>1 DEF Text
  <2>6. LineFeed \notin ToSet(v[k]) /\ LineFeed \notin ToSet(w[k])
    BY <1>1 DEF OneLine
  <2> HIDE DEF front, o
  <2>7. v[k] = w[k]
    BY <2>2, <2>3, <2>4, <2>5, <2>6, SameLine
  <2>8. Len(f[i + 1]) = Len(g[i + 1])
    BY <1>5, <1>6, <2>1, <2>7
  <2>9. QED
    BY <2>1, <2>7, <2>8
<1>9. \A i \in 0..n : i \in D
  <2> HIDE DEF D
  <2>1. QED
    BY <1>7, <1>8, InductionTo
<1>10. \A i \in 1..n : v[i] = w[i]
  BY <1>9
<1>11. QED
  BY <1>4, <1>10

(* Bases are the same just when the values are. *)
LEMMA SameBases ==
  ASSUME NEW cs \in Seq(ComponentType), NEW v \in [1..Len(cs) -> Text], NEW w \in [1..Len(cs) -> Text],
         \A i \in 1..Len(cs) : OneLine(v[i]) /\ OneLine(w[i]), NEW paramsValue \in Text
  PROVE  BaseOf(cs, v, paramsValue) = BaseOf(cs, w, paramsValue) <=> v = w
<1> DEFINE Lines(u) == FlattenSeq(LinesOf(cs, u))
<1>1. ASSUME NEW u \in [1..Len(cs) -> Text] PROVE Lines(u) \in Text
  <2> DEFINE seqs == LinesOf(cs, u)
  <2>1. PICK n \in Nat : n = Len(cs) /\ DOMAIN cs = 1..n /\ \A i \in 1..n : cs[i] \in ComponentType
    OBVIOUS
  <2>2. \A i \in 1..n : Line(cs[i], u[i]) \in Text
    BY <2>1, LineIs
  <2>3. seqs = [i \in 1..n |-> Line(cs[i], u[i])]
    BY <2>1 DEF LinesOf
  <2>4. seqs \in Seq(Text)
    BY <2>2, <2>3
  <2> HIDE DEF seqs
  <2>5. FlattenSeq(seqs) \in Text
    BY <2>4, FlattenSeqType DEF Text
  <2>6. QED
    BY <2>5 DEF seqs
<1>2. ParamsFront \in Text
  <2>1. "@signature-params" \in Alphabet /\ ":" \in Alphabet
    BY DEF Alphabet, Literals
  <2>2. QED
    BY <2>1, Characters DEF ParamsFront, Text
<1>3. Lines(v) \in Text /\ Lines(w) \in Text
  BY <1>1
<1>4. ASSUME BaseOf(cs, v, paramsValue) = BaseOf(cs, w, paramsValue) PROVE v = w
  <2> DEFINE a == Lines(v)
             b == Lines(w)
  <2>1. BaseOf(cs, v, paramsValue) = (a \o ParamsFront) \o paramsValue
        /\ BaseOf(cs, w, paramsValue) = (b \o ParamsFront) \o paramsValue
    BY DEF BaseOf
  <2> HIDE DEF a, b
  <2>2. a \in Seq(Alphabet) /\ b \in Seq(Alphabet) /\ ParamsFront \in Seq(Alphabet)
        /\ paramsValue \in Seq(Alphabet)
    BY <1>2, <1>3 DEF Text, a, b
  <2>3. a \o ParamsFront \in Seq(Alphabet) /\ b \o ParamsFront \in Seq(Alphabet)
    BY <2>2, Concatenated
  <2>4. a \o ParamsFront = b \o ParamsFront
    BY <1>4, <2>1, <2>2, <2>3, ConcatSimplifications
  <2>5. a = b
    BY <2>2, <2>4, ConcatSimplifications
  <2>6. QED
    BY <2>5, SameValues DEF a, b
<1>5. QED
  BY <1>4

(* A query without a question mark of its own is checked to what is meant. *)
LEMMA SubSeqAll == ASSUME NEW t \in Text PROVE SubSeq(t, 1, Len(t)) = t
<1>1. t \in Seq(Alphabet) /\ Len(t) \in Nat /\ \A i \in 1..Len(t) : t[i] \in Alphabet
  BY DEF Text
<1>2. /\ SubSeq(t, 1, Len(t)) \in Seq(Alphabet)
      /\ Len(SubSeq(t, 1, Len(t))) = IF 1 <= Len(t) THEN Len(t) - 1 + 1 ELSE 0
      /\ \A i \in 1 .. Len(t) - 1 + 1 : SubSeq(t, 1, Len(t))[i] = t[1 + i - 1]
  BY <1>1, SubSeqProperties
<1>3. Len(SubSeq(t, 1, Len(t))) = Len(t)
  BY <1>1, <1>2
<1>4. \A i \in 1..Len(t) : SubSeq(t, 1, Len(t))[i] = t[i]
  BY <1>1, <1>2
<1>5. QED
  BY <1>1, <1>2, <1>3, <1>4, SeqEqual

(* What follows the question marks in front of t. *)
Unmarked(t) ==
  LET kept == {i \in DOMAIN t : t[i] # "?"}
  IN  IF kept = {} THEN <<>> ELSE SubSeq(t, Min(kept), Len(t))

LEMMA UnmarkedIs ==
  ASSUME NEW t \in Text
  PROVE  /\ t = <<>> => Unmarked(t) = <<>>
         /\ t # <<>> /\ t[1] # "?" => Unmarked(t) = t
         /\ t # <<>> /\ t[1] = "?" /\ (Tail(t) = <<>> \/ Tail(t)[1] # "?") => Unmarked(t) = Tail(t)
<1> DEFINE kept == {i \in DOMAIN t : t[i] # "?"}
<1>1. t \in Seq(Alphabet) /\ Len(t) \in Nat /\ DOMAIN t = 1..Len(t)
  BY DEF Text
<1>2. kept \in SUBSET (1..Len(t)) /\ kept \in SUBSET Nat /\ \A i \in 1..Len(t) : i \in kept <=> t[i] # "?"
  BY <1>1
<1>3. Unmarked(t) = IF kept = {} THEN <<>> ELSE SubSeq(t, Min(kept), Len(t))
  BY DEF Unmarked
<1> HIDE DEF kept
<1>4. ASSUME t = <<>> PROVE Unmarked(t) = <<>>
  <2>1. Len(t) = 0
    BY <1>4
  <2>2. kept = {}
    BY <1>2, <2>1
  <2>3. QED
    BY <1>3, <2>2
<1>5. ASSUME t # <<>>, t[1] # "?" PROVE Unmarked(t) = t
  <2>1. Len(t) >= 1
    BY <1>1, <1>5, EmptySeq
  <2>2. 1 \in kept
    BY <1>2, <1>5, <2>1
  <2>3. Min(kept) = 1
    <3>1. Min(kept) \in kept /\ Min(kept) <= 1
      BY <1>2, <2>2, MinIsLeast
    <3>2. Min(kept) \in 1..Len(t)
      BY <1>2, <3>1
    <3>3. QED
      BY <3>1, <3>2
  <2>4. QED
    BY <1>3, <2>2, <2>3, SubSeqAll
<1>6. ASSUME t # <<>>, t[1] = "?", Tail(t) = <<>> \/ Tail(t)[1] # "?" PROVE Unmarked(t) = Tail(t)
  <2>1. Len(t) >= 1
    BY <1>1, <1>6, EmptySeq
  <2>2. /\ Tail(t) \in Seq(Alphabet) /\ Len(Tail(t)) = Len(t) - 1
        /\ \A i \in 1..Len(Tail(t)) : Tail(t)[i] = t[i + 1]
    BY <1>1, <1>6, HeadTailProperties
  <2>3. CASE Len(t) = 1
    <3>1. Len(Tail(t)) = 0
      BY <2>2, <2>3
    <3>2. Tail(t) = <<>>
      BY <2>2, <3>1, EmptySeq
    <3>3. kept = {}
      BY <1>2, <1>6, <2>3
    <3>4. QED
      BY <1>3, <3>2, <3>3
  <2>4. CASE Len(t) >= 2
    <3>1. Len(Tail(t)) >= 1 /\ 1 \in 1..Len(Tail(t))
      BY <1>1, <2>2, <2>4
    <3>2. Tail(t) # <<>>
      <4> DEFINE tail == Tail(t)
      <4>1. Len(tail) >= 1
        BY <3>1
      <4> HIDE DEF tail
      <4>2. tail # <<>>
        BY <4>1
      <4>3. QED
        BY <4>2 DEF tail
    <3>3. t[2] # "?"
      BY <1>6, <2>2, <3>1, <3>2
    <3>4. 2 \in kept /\ 1 \notin kept
      BY <1>1, <1>2, <1>6, <2>4, <3>3
    <3>5. Min(kept) = 2
      <4>1. Min(kept) \in kept /\ Min(kept) <= 2
        BY <1>2, <3>4, MinIsLeast
      <4>2. Min(kept) \in 1..Len(t) /\ Min(kept) # 1
        BY <1>2, <3>4, <4>1
      <4>3. QED
        BY <4>1, <4>2
    <3>6. SubSeq(t, 2, Len(t)) = Tail(t)
      <4>1. \A i \in 2..Len(t) : t[i] \in Alphabet
        BY <1>1
      <4>2. /\ SubSeq(t, 2, Len(t)) \in Seq(Alphabet)
            /\ Len(SubSeq(t, 2, Len(t))) = IF 2 <= Len(t) THEN Len(t) - 2 + 1 ELSE 0
            /\ \A i \in 1 .. Len(t) - 2 + 1 : SubSeq(t, 2, Len(t))[i] = t[2 + i - 1]
        BY <1>1, <4>1, SubSeqProperties
      <4>3. Len(SubSeq(t, 2, Len(t))) = Len(t) - 1
        BY <1>1, <2>4, <4>2
      <4>4. \A i \in 1..Len(t) - 1 : SubSeq(t, 2, Len(t))[i] = Tail(t)[i]
        <5>1. \A i \in 1..Len(t) - 1 : i \in 1 .. Len(t) - 2 + 1 /\ 2 + i - 1 = i + 1
          BY <1>1
        <5>2. QED
          BY <2>2, <4>2, <5>1
      <4>5. QED
        BY <2>2, <4>2, <4>3, <4>4, SeqEqual
    <3>7. QED
      BY <1>3, <3>4, <3>5, <3>6
  <2>5. QED
    BY <1>1, <2>1, <2>3, <2>4
<1>7. QED
  BY <1>4, <1>5, <1>6

-----------------------------------------------------------------------------
(***************************************************************************)
(* Two commands and their arguments.                                       *)
(***************************************************************************)
LEMMA QueryIs ==
  ASSUME NEW args \in ArgumentsType, ~ManyMarks(args)
  PROVE  CheckedQuery(args.query) = QueryMeant(args.query)
<1> DEFINE t == Trim(args.query)
<1>1. t \in Text
  BY TrimType DEF ArgumentsType
<1>2. CheckedQuery(args.query) = Unmarked(t)
  BY DEF CheckedQuery, Unmarked
<1>3. QueryMeant(args.query) = IF t # <<>> /\ t[1] = "?" THEN Tail(t) ELSE t
  BY DEF QueryMeant
<1> HIDE DEF t
<1>4. CASE t # <<>> /\ t[1] = "?"
  <2> DEFINE tail == Tail(t)
  <2>1. tail \in Text
    BY <1>1, <1>4, HeadTailProperties DEF Text
  <2>2. QueryMeant(args.query) = tail
    BY <1>3, <1>4
  <2> HIDE DEF tail
  <2>3. tail = <<>> \/ tail[1] # "?"
    <3>1. tail # <<>> => Len(tail) > 0
      <4>1. tail # <<>> => Len(tail) \in Nat \ {0}
        BY <2>1, EmptySeq DEF Text
      <4>2. QED
        BY <4>1
    <3>2. QED
      BY <2>2, <3>1 DEF ManyMarks
  <2>4. Unmarked(t) = tail
    BY <1>1, <1>4, <2>3, UnmarkedIs DEF tail
  <2>5. QED
    BY <1>2, <2>2, <2>4
<1>5. CASE t # <<>> /\ t[1] # "?"
  BY <1>1, <1>2, <1>3, <1>5, UnmarkedIs
<1>6. CASE t = <<>>
  BY <1>1, <1>2, <1>3, <1>6, UnmarkedIs
<1>7. QED
  BY <1>4, <1>5, <1>6

(* Of a part of the request, its value in the base tells what was meant.   *)
LEMMA MeantIsValue ==
  ASSUME NEW s \in ArgumentsType, NEW v \in ArgumentsType, ~ManyMarks(s), ~ManyMarks(v),
         NEW signed \in BuildRequest(s), NEW received \in BuildRequest(v), NEW name
  PROVE  Meant(s, signed, name) = Meant(v, received, name)
           <=> ValueText(signed, name) = ValueText(received, name)
<1>1. /\ signed \in RequestType /\ received \in RequestType
      /\ signed.authority = LowerText(Trim(s.authority))
      /\ received.authority = LowerText(Trim(v.authority))
      /\ signed.query = CheckedQuery(s.query) /\ received.query = CheckedQuery(v.query)
  BY BuildRequestType
<1>2. CASE name = <<"@authority">>
  <2>1. /\ Meant(s, signed, name) = {LowerText(Trim(s.authority))}
        /\ Meant(v, received, name) = {LowerText(Trim(v.authority))}
    BY <1>2 DEF Meant
  <2>2. /\ ValueText(signed, name) = {LowerText(signed.authority)}
        /\ ValueText(received, name) = {LowerText(received.authority)}
    BY <1>2 DEF ValueText
  <2>3. /\ LowerText(signed.authority) = LowerText(Trim(s.authority))
        /\ LowerText(received.authority) = LowerText(Trim(v.authority))
    BY <1>1, LowerTwice
  <2>4. QED
    BY <2>1, <2>2, <2>3
<1>3. CASE name = <<"@query">>
  <2>1. Meant(s, signed, name) = {QueryMeant(s.query)} /\ Meant(v, received, name) = {QueryMeant(v.query)}
    BY <1>3 DEF Meant
  <2>2. QueryMeant(s.query) = signed.query /\ QueryMeant(v.query) = received.query
    BY <1>1, QueryIs
  <2>3. /\ ValueText(signed, name) = {<<"?">> \o signed.query}
        /\ ValueText(received, name) = {<<"?">> \o received.query}
    BY <1>3 DEF ValueText
  <2>4. ASSUME <<"?">> \o signed.query = <<"?">> \o received.query
        PROVE  signed.query = received.query
    <3>1. "?" \in Alphabet
      BY DEF Alphabet, Literals
    <3> DEFINE mark == <<"?">>
    <3>2. mark \in Seq(Alphabet)
      BY <3>1, OneItem
    <3> HIDE DEF mark
    <3>3. signed.query \in Seq(Alphabet) /\ received.query \in Seq(Alphabet)
      BY <1>1 DEF RequestType, Text
    <3>4. mark \o signed.query = mark \o received.query
      BY <2>4 DEF mark
    <3>5. QED
      BY <3>2, <3>3, <3>4, ConcatSimplifications
  <2>5. QED
    BY <2>1, <2>2, <2>3, <2>4
<1>4. CASE name # <<"@authority">> /\ name # <<"@query">>
  <2>1. Meant(s, signed, name) = ValueText(signed, name) /\ Meant(v, received, name) = ValueText(received, name)
    BY <1>4 DEF Meant
  <2>2. QED
    BY <2>1
<1>5. QED
  BY <1>2, <1>3, <1>4

(* The parameters that both commands write. *)
SignedParams == Params({"5"}, <<>>, <<WimseTag>>, {})

LEMMA SignedParamsType == ParamsType(SignedParams)
<1> SUFFICES ASSUME NEW i \in DOMAIN Order, NEW v \in SignedParams[Order[i]]
             PROVE  /\ Order[i] \in StringParams => v \in Text
                    /\ Order[i] \in IntegerParams => v \in Alphabet
  BY DEF ParamsType
<1> DEFINE n == Order[i]
<1>1. n \in ToSet(Order)
  BY OrderType
<1> HIDE DEF n
<1>2. SignedParams[n] = CASE n = "created"    -> {"5"}
                          [] n = "nonce"      -> {<<>>}
                          [] n = "tag"        -> {<<WimseTag>>}
                          [] n = SignResponse -> {}
                          [] OTHER            -> {}
  BY <1>1 DEF SignedParams, Params
<1>3. v \in SignedParams[n]
  BY DEF n
<1>4. CASE n = "created"
  <2>1. v = "5"
    BY <1>2, <1>3, <1>4
  <2>2. QED
    BY <1>4, <2>1 DEF n, StringParams, Alphabet, Literals
<1>5. CASE n = "nonce"
  <2>1. v = <<>>
    BY <1>2, <1>3, <1>5
  <2>2. QED
    BY <1>5, <2>1, EmptyText DEF n, IntegerParams
<1>6. CASE n = "tag"
  <2>1. v = <<WimseTag>>
    BY <1>2, <1>3, <1>6
  <2>2. WimseTag \in Alphabet
    BY DEF WimseTag, Alphabet, Literals
  <2>3. v \in Text
    BY <2>1, <2>2, OneItem DEF Text
  <2>4. QED
    BY <1>6, <2>3 DEF n, IntegerParams
<1>7. CASE n \notin {"created", "nonce", "tag"}
  <2>1. SignedParams[n] = {}
    BY <1>2, <1>7 DEF SignResponse
  <2>2. QED
    BY <1>3, <2>1
<1>8. QED
  BY <1>4, <1>5, <1>6, <1>7

LEMMA Binds ==
  ASSUME NEW s \in ArgumentsType, NEW v \in ArgumentsType, ~ManyMarks(s), ~ManyMarks(v),
         NEW signed \in BuildRequest(s), NEW received \in BuildRequest(v),
         NEW cs \in Covered(s, signed),
         NEW b1 \in BaseText(signed, cs, SerializeParamsValue(cs, SignedParams)),
         NEW b2 \in BaseText(received, cs, SerializeParamsValue(cs, SignedParams))
  PROVE  b1 = b2 <=>
           \A i \in DOMAIN cs : Meant(s, signed, cs[i].name) = Meant(v, received, cs[i].name)
<1> DEFINE params == SerializeParamsValue(cs, SignedParams)
<1>1. cs \in Seq(ComponentType)
  <2>1. s.cover \in Text
    BY DEF ArgumentsType
  <2>2. QED
    BY <2>1, CoveredType
<1>2. params \in Text
  BY <1>1, SignedParamsType, SerializeType
<1>3. signed \in RequestType /\ received \in RequestType
  BY BuildRequestType
<1>3a. b1 \in BaseText(signed, cs, params) /\ b2 \in BaseText(received, cs, params)
  OBVIOUS
<1> HIDE DEF params
<1>4. PICK x \in [1..Len(cs) -> Text] : HasValues(signed, cs, x) /\ b1 = BaseOf(cs, x, params)
  BY <1>1, <1>3, <1>3a, BaseIs
<1>5. PICK y \in [1..Len(cs) -> Text] : HasValues(received, cs, y) /\ b2 = BaseOf(cs, y, params)
  BY <1>1, <1>3, <1>3a, BaseIs
<1>6. DOMAIN cs = 1..Len(cs)
  BY <1>1
<1>7. \A i \in 1..Len(cs) : OneLine(x[i]) /\ OneLine(y[i])
  BY <1>4, <1>5, <1>6 DEF HasValues
<1>8. b1 = b2 <=> x = y
  BY <1>1, <1>2, <1>4, <1>5, <1>7, SameBases
<1>9. x = y <=> \A i \in 1..Len(cs) : x[i] = y[i]
  OBVIOUS
<1>10. \A i \in 1..Len(cs) :
         x[i] = y[i] <=> ValueText(signed, cs[i].name) = ValueText(received, cs[i].name)
  BY <1>4, <1>5, <1>6 DEF HasValues
<1>11. \A i \in 1..Len(cs) :
         Meant(s, signed, cs[i].name) = Meant(v, received, cs[i].name)
           <=> ValueText(signed, cs[i].name) = ValueText(received, cs[i].name)
  BY MeantIsValue
<1>12. QED
  BY <1>6, <1>8, <1>9, <1>10, <1>11

-----------------------------------------------------------------------------
(***************************************************************************)
(* DER integers.                                                           *)
(***************************************************************************)
(* Where the first octet that counts stands, and what is kept from it on. *)
First(value) == Min({i \in DOMAIN value : value[i] # 0} \cup {Len(value)})
Kept(value)  == SubSeq(value, First(value), Len(value))

(* No leading zero, unless the number is zero itself. *)
Shortest(value) == Len(value) = 1 \/ value[1] # 0

LEMMA FirstCounts ==
  ASSUME NEW value \in Seq(Nat), Len(value) >= 1
  PROVE  /\ First(value) \in 1..Len(value)
         /\ \A i \in 1..Len(value) : i < First(value) => value[i] = 0
         /\ First(value) = Len(value) \/ value[First(value)] # 0
<1> DEFINE S == {i \in DOMAIN value : value[i] # 0} \cup {Len(value)}
<1>1. DOMAIN value = 1..Len(value) /\ Len(value) \in Nat
  OBVIOUS
<1>2. S \in SUBSET (1..Len(value)) /\ Len(value) \in S
  BY <1>1
<1>3. First(value) \in S /\ \A y \in S : First(value) <= y
  <2> HIDE DEF S
  <2>1. S \in SUBSET Nat /\ S # {}
    BY <1>1, <1>2
  <2>2. First(value) = Min(S)
    BY DEF First, S
  <2>3. QED
    BY <2>1, <2>2, MinIsLeast
<1>4. QED
  BY <1>1, <1>2, <1>3

LEMMA KeptIs ==
  ASSUME NEW value \in Seq(Nat), Len(value) >= 1
  PROVE  /\ Kept(value) \in Seq(Nat)
         /\ Len(Kept(value)) = Len(value) - First(value) + 1
         /\ Len(Kept(value)) \in 1..Len(value)
         /\ \A i \in 1..Len(Kept(value)) : Kept(value)[i] = value[First(value) + i - 1]
         /\ Shortest(Kept(value))
<1> DEFINE n == Len(value)
           f == First(value)
<1>1. n \in Nat /\ f \in 1..n /\ (f = n \/ value[f] # 0)
  BY FirstCounts
<1>2. \A i \in f..n : value[i] \in Nat
  BY <1>1
<1> HIDE DEF n, f
<1>3. /\ SubSeq(value, f, n) \in Seq(Nat) /\ Len(SubSeq(value, f, n)) = n - f + 1
      /\ \A i \in 1..n - f + 1 : SubSeq(value, f, n)[i] = value[f + i - 1]
  BY <1>1, <1>2, SubSeqProperties
<1>4. Kept(value) = SubSeq(value, f, n)
  BY DEF Kept, n, f
<1>5. Shortest(Kept(value))
  BY <1>1, <1>3, <1>4 DEF Shortest
<1>6. QED
  BY <1>1, <1>3, <1>4, <1>5 DEF n, f

(* How a number of fewer octets fills its field. *)
LEMMA PaddedIs ==
  ASSUME NEW value \in Seq(Nat), Len(value) \in 1..Half
  PROVE  /\ ZeroPadded(value) \in Seq(Nat) /\ Len(ZeroPadded(value)) = Half
         /\ \A i \in 1..Half : ZeroPadded(value)[i] =
              IF i <= Half - Len(value) THEN 0 ELSE value[i - (Half - Len(value))]
<1> DEFINE n     == Half - Len(value)
           zeros == [i \in 1..n |-> 0]
<1>1. n \in Nat /\ Half \in Nat /\ Len(value) \in Nat
  BY HalfAssumption
<1>2. zeros \in Seq(Nat) /\ Len(zeros) = n /\ \A i \in 1..n : zeros[i] = 0
  <2> HIDE DEF n
  <2>1. zeros \in [1..n -> Nat]
    OBVIOUS
  <2>2. QED
    BY <1>1, <2>1
<1>3. ZeroPadded(value) = zeros \o value
  BY DEF ZeroPadded
<1> HIDE DEF zeros
<1>4. QED
  BY <1>1, <1>2, <1>3, ConcatProperties, SMTT(30)

(* Dropping the zeros and putting them back are inverse to each other. *)
LEMMA PaddedKept ==
  ASSUME NEW value \in Seq(Nat), Len(value) = Half
  PROVE  ZeroPadded(Kept(value)) = value
<1>1. Half \in Nat /\ Half >= 1
  BY HalfAssumption
<1>2. /\ Kept(value) \in Seq(Nat) /\ Len(Kept(value)) = Half - First(value) + 1
      /\ Len(Kept(value)) \in 1..Half
      /\ \A i \in 1..Len(Kept(value)) : Kept(value)[i] = value[First(value) + i - 1]
  BY <1>1, KeptIs
<1>3. /\ First(value) \in 1..Half
      /\ \A i \in 1..Half : i < First(value) => value[i] = 0
  BY <1>1, FirstCounts
<1>4. /\ ZeroPadded(Kept(value)) \in Seq(Nat) /\ Len(ZeroPadded(Kept(value))) = Half
      /\ \A i \in 1..Half : ZeroPadded(Kept(value))[i] =
           IF i <= First(value) - 1 THEN 0 ELSE Kept(value)[i - (First(value) - 1)]
  <2>1. Half - Len(Kept(value)) = First(value) - 1
    BY <1>1, <1>2, <1>3
  <2>2. /\ ZeroPadded(Kept(value)) \in Seq(Nat) /\ Len(ZeroPadded(Kept(value))) = Half
        /\ \A i \in 1..Half : ZeroPadded(Kept(value))[i] =
             IF i <= Half - Len(Kept(value)) THEN 0
             ELSE Kept(value)[i - (Half - Len(Kept(value)))]
    <3> DEFINE kept == Kept(value)
    <3>1. kept \in Seq(Nat) /\ Len(kept) \in 1..Half
      BY <1>2
    <3> HIDE DEF kept
    <3>2. QED
      BY <3>1, PaddedIs DEF kept
  <2>3. QED
    BY <2>1, <2>2
<1>5. ASSUME NEW i \in 1..Half PROVE ZeroPadded(Kept(value))[i] = value[i]
  <2>1. CASE i <= First(value) - 1
    BY <1>1, <1>3, <1>4, <2>1
  <2>2. CASE i > First(value) - 1
    <3>1. PICK j \in 1..Len(Kept(value)) : j = i - (First(value) - 1)
      BY <1>1, <1>2, <1>3, <2>2
    <3>2. First(value) + j - 1 = i /\ ~(i <= First(value) - 1)
      BY <1>1, <1>2, <1>3, <2>2, <3>1
    <3>3. QED
      BY <1>2, <1>4, <3>1, <3>2
  <2>3. QED
    BY <1>1, <1>3, <2>1, <2>2
<1>6. QED
  BY <1>4, <1>5, SeqEqual

LEMMA KeptPadded ==
  ASSUME NEW value \in Seq(Nat), Len(value) \in 1..Half, Shortest(value)
  PROVE  Kept(ZeroPadded(value)) = value
<1> DEFINE p == ZeroPadded(value)
           n == Half - Len(value)
<1>1. Half \in Nat /\ Half >= 1 /\ n \in Nat /\ n < Half /\ Len(value) \in Nat
  BY HalfAssumption
<1>2. /\ p \in Seq(Nat) /\ Len(p) = Half
      /\ \A i \in 1..Half : p[i] = IF i <= n THEN 0 ELSE value[i - n]
  BY PaddedIs
<1> HIDE DEF p
<1>3. /\ First(p) \in 1..Half
      /\ \A i \in 1..Half : i < First(p) => p[i] = 0
      /\ First(p) = Half \/ p[First(p)] # 0
  BY <1>1, <1>2, FirstCounts
<1>4. First(p) = n + 1
  <2>1. First(p) > n
    BY <1>1, <1>2, <1>3
  <2>2. First(p) <= n + 1
    <3>1. CASE Len(value) = 1
      BY <1>1, <1>3, <3>1
    <3>2. CASE value[1] # 0
      <4>1. n + 1 \in 1..Half /\ ~(n + 1 <= n) /\ (n + 1) - n = 1
        BY <1>1
      <4>2. p[n + 1] = value[1]
        BY <1>2, <4>1
      <4>3. QED
        BY <1>1, <1>3, <3>2, <4>1, <4>2
    <3>3. QED
      BY <3>1, <3>2 DEF Shortest
  <2>3. QED
    BY <1>1, <1>3, <2>1, <2>2
<1>5. /\ Kept(p) \in Seq(Nat) /\ Len(Kept(p)) = Half - (n + 1) + 1
      /\ \A i \in 1..Len(Kept(p)) : Kept(p)[i] = p[(n + 1) + i - 1]
  BY <1>1, <1>2, <1>4, KeptIs, ZenonT(40)
<1>6. Len(Kept(p)) = Len(value)
  BY <1>1, <1>5
<1>6a. ASSUME NEW i \in 1..Len(value) PROVE Kept(p)[i] = value[i]
  <2>1. (n + 1) + i - 1 = n + i
    BY <1>1
  <2>2. n + i \in 1..Half /\ ~(n + i <= n) /\ (n + i) - n = i
    BY <1>1
  <2>3. QED
    BY <1>2, <1>5, <1>6, <2>1, <2>2
<1>7. QED
  BY <1>5, <1>6, <1>6a, SeqEqual DEF p

(* What Integer writes after its tag and its length. *)
Content(value) == IF TopBit(Kept(value)[1]) THEN <<0>> \o Kept(value) ELSE Kept(value)

(* A tag, a length and that many octets, with others after them. *)
Framed(tag, content, rest) == (<<tag, Len(content)>> \o content) \o rest

(***************************************************************************)
(* Sequences.                                                              *)
(***************************************************************************)
LEMMA PutTogether ==
  ASSUME NEW s \in Seq(Nat), NEW t \in Seq(Nat)
  PROVE  /\ s \o t \in Seq(Nat) /\ Len(s \o t) = Len(s) + Len(t)
         /\ \A i \in 1..Len(s) : (s \o t)[i] = s[i]
         /\ \A i \in 1..Len(t) : (s \o t)[Len(s) + i] = t[i]
<1> DEFINE c == s \o t
           n == Len(s)
           m == Len(t)
<1>1. n \in Nat /\ m \in Nat
  OBVIOUS
<1>2. /\ c \in Seq(Nat) /\ Len(c) = n + m
      /\ \A i \in 1..n + m : c[i] = IF i <= n THEN s[i] ELSE t[i - n]
  BY ConcatProperties
<1> HIDE DEF c, n, m
<1>3. ASSUME NEW i \in 1..n PROVE c[i] = s[i]
  BY <1>1, <1>2
<1>4. ASSUME NEW i \in 1..m PROVE c[n + i] = t[i]
  <2>1. n + i \in 1..n + m /\ ~(n + i <= n) /\ (n + i) - n = i
    BY <1>1
  <2>2. QED
    BY <1>2, <2>1
<1>5. QED
  BY <1>2, <1>3, <1>4 DEF c, n, m

(* Two sequences as long as each other with the same elements. *)
LEMMA SameElements ==
  ASSUME NEW s \in Seq(Nat), NEW t \in Seq(Nat), Len(s) = Len(t),
         \A i \in 1..Len(s) : s[i] = t[i]
  PROVE  s = t
BY SeqEqual

LEMMA OnePut ==
  ASSUME NEW a \in Nat, NEW s \in Seq(Nat)
  PROVE  /\ <<a>> \o s \in Seq(Nat) /\ Len(<<a>> \o s) = Len(s) + 1
         /\ (<<a>> \o s)[1] = a
         /\ \A i \in 1..Len(s) : (<<a>> \o s)[i + 1] = s[i]
         /\ Tail(<<a>> \o s) = s
<1>1. <<a>> \in Seq(Nat) /\ Len(<<a>>) = 1 /\ <<a>>[1] = a /\ Len(s) \in Nat
  OBVIOUS
<1> DEFINE t == <<a>>
           c == t \o s
<1> HIDE DEF t
<1>2. /\ c \in Seq(Nat) /\ Len(c) = 1 + Len(s)
      /\ \A i \in 1..1 + Len(s) : c[i] = IF i <= 1 THEN t[i] ELSE s[i - 1]
  BY <1>1, ConcatProperties DEF t
<1>3. c[1] = a
  BY <1>1, <1>2 DEF t
<1>4. ASSUME NEW i \in 1..Len(s) PROVE c[i + 1] = s[i]
  BY <1>1, <1>2
<1> HIDE DEF c
<1>5. c # <<>>
  BY <1>1, <1>2
<1>6. /\ Tail(c) \in Seq(Nat) /\ Len(Tail(c)) = Len(s)
      /\ \A i \in 1..Len(Tail(c)) : Tail(c)[i] = c[i + 1]
  BY <1>1, <1>2, <1>5, HeadTailProperties
<1>7. Tail(c) = s
  BY <1>4, <1>6, SeqEqual
<1>8. QED
  BY <1>1, <1>2, <1>3, <1>4, <1>7 DEF c, t

IsFrame(f, tag, content, rest) ==
  /\ f \in Seq(Nat) /\ Len(f) = 2 + Len(content) + Len(rest)
  /\ f[1] = tag /\ f[2] = Len(content)
  /\ \A i \in 1..Len(content) : f[2 + i] = content[i]
  /\ \A i \in 1..Len(rest) : f[2 + Len(content) + i] = rest[i]

(* A frame is its tag, its length, its content and what follows, in place. *)
LEMMA FramedIs ==
  ASSUME NEW tag \in Nat, NEW content \in Seq(Nat), NEW rest \in Seq(Nat)
  PROVE  IsFrame(Framed(tag, content, rest), tag, content, rest)
<1> DEFINE n == Len(content)
           h == <<tag, n>>
           c == h \o content
           f == c \o rest
<1>1. n \in Nat /\ h \in Seq(Nat) /\ Len(h) = 2 /\ h[1] = tag /\ h[2] = n /\ Len(rest) \in Nat
  OBVIOUS
<1> HIDE DEF h
<1>2. /\ c \in Seq(Nat) /\ Len(c) = 2 + n
      /\ \A i \in 1..2 : c[i] = h[i]
      /\ \A i \in 1..n : c[2 + i] = content[i]
  <2>1. /\ c \in Seq(Nat) /\ Len(c) = Len(h) + Len(content)
        /\ \A i \in 1..Len(h) : c[i] = h[i]
        /\ \A i \in 1..Len(content) : c[Len(h) + i] = content[i]
    BY <1>1, PutTogether
  <2> HIDE DEF c
  <2>2. QED
    BY <1>1, <2>1
<1> HIDE DEF c
<1>3. /\ f \in Seq(Nat) /\ Len(f) = (2 + n) + Len(rest)
      /\ \A i \in 1..2 + n : f[i] = c[i]
      /\ \A i \in 1..Len(rest) : f[(2 + n) + i] = rest[i]
  <2>1. /\ f \in Seq(Nat) /\ Len(f) = Len(c) + Len(rest)
        /\ \A i \in 1..Len(c) : f[i] = c[i]
        /\ \A i \in 1..Len(rest) : f[Len(c) + i] = rest[i]
    BY <1>2, PutTogether
  <2> HIDE DEF f
  <2>2. QED
    BY <1>2, <2>1
<1>4. f[1] = tag /\ f[2] = n
  BY <1>1, <1>2, <1>3
<1>5. ASSUME NEW i \in 1..n PROVE f[2 + i] = content[i]
  <2>1. 2 + i \in 1..2 + n
    BY <1>1
  <2>2. QED
    BY <1>2, <1>3, <2>1
<1>6. \A i \in 1..Len(rest) : f[2 + n + i] = rest[i]
  BY <1>3
<1>7. f = Framed(tag, content, rest)
  BY DEF f, c, h, Framed
<1> HIDE DEF f
<1>8. QED
  BY <1>1, <1>3, <1>4, <1>5, <1>6, <1>7 DEF n, IsFrame

(* A frame comes apart into what was put into it. *)
LEMMA FramedReads ==
  ASSUME NEW tag \in Nat, NEW content \in Seq(Nat), NEW rest \in Seq(Nat)
  PROVE  /\ SubSeq(Framed(tag, content, rest), 3, 2 + Len(content)) = content
         /\ SubSeq(Framed(tag, content, rest), 3 + Len(content),
                   Len(Framed(tag, content, rest))) = rest
<1> DEFINE f == Framed(tag, content, rest)
           n == Len(content)
           r == Len(rest)
<1>1. /\ f \in Seq(Nat) /\ Len(f) = 2 + n + r
      /\ \A i \in 1..n : f[2 + i] = content[i]
      /\ \A i \in 1..r : f[2 + n + i] = rest[i]
      /\ n \in Nat /\ r \in Nat
  <2>1. n \in Nat /\ r \in Nat
    OBVIOUS
  <2>2. IsFrame(f, tag, content, rest)
    BY FramedIs
  <2> HIDE DEF f
  <2>3. QED
    BY <2>1, <2>2 DEF IsFrame
<1> HIDE DEF f
<1>2. SubSeq(f, 3, 2 + n) = content
  <2>1. \A i \in 3..2 + n : f[i] \in Nat
    BY <1>1
  <2>2. /\ SubSeq(f, 3, 2 + n) \in Seq(Nat) /\ Len(SubSeq(f, 3, 2 + n)) = n
        /\ \A i \in 1..n : SubSeq(f, 3, 2 + n)[i] = f[3 + i - 1]
    BY <1>1, <2>1, SubSeqProperties
  <2>3. \A i \in 1..n : 3 + i - 1 = 2 + i
    BY <1>1
  <2>4. QED
    <3> DEFINE g == SubSeq(f, 3, 2 + n)
    <3>1. g \in Seq(Nat) /\ Len(g) = Len(content) /\ \A i \in 1..Len(g) : g[i] = content[i]
      BY <1>1, <2>2, <2>3
    <3> HIDE DEF g
    <3>2. QED
      BY <3>1, SameElements DEF g
<1>3. SubSeq(f, 3 + n, Len(f)) = rest
  <2>1. \A i \in 3 + n..2 + n + r : f[i] \in Nat
    BY <1>1
  <2>2. /\ SubSeq(f, 3 + n, 2 + n + r) \in Seq(Nat) /\ Len(SubSeq(f, 3 + n, 2 + n + r)) = r
        /\ \A i \in 1..r : SubSeq(f, 3 + n, 2 + n + r)[i] = f[(3 + n) + i - 1]
    BY <1>1, <2>1, SubSeqProperties
  <2>3. \A i \in 1..r : (3 + n) + i - 1 = 2 + n + i
    BY <1>1
  <2>4. QED
    <3> DEFINE g == SubSeq(f, 3 + n, 2 + n + r)
    <3>1. g \in Seq(Nat) /\ Len(g) = Len(rest) /\ \A i \in 1..Len(g) : g[i] = rest[i]
      BY <1>1, <2>2, <2>3
    <3> HIDE DEF g
    <3>2. g = rest
      BY <3>1, SameElements
    <3>3. QED
      BY <1>1, <3>2 DEF g
<1>4. QED
  BY <1>2, <1>3 DEF f, n

(* And what it comes apart into makes it up. *)
LEMMA ReadsFramed ==
  ASSUME NEW input \in Seq(Nat), Len(input) >= 2, 2 + input[2] <= Len(input)
  PROVE  /\ SubSeq(input, 3, 2 + input[2]) \in Seq(Nat)
         /\ Len(SubSeq(input, 3, 2 + input[2])) = input[2]
         /\ \A i \in 1..input[2] : SubSeq(input, 3, 2 + input[2])[i] = input[2 + i]
         /\ SubSeq(input, 3 + input[2], Len(input)) \in Seq(Nat)
         /\ Len(SubSeq(input, 3 + input[2], Len(input))) = Len(input) - (2 + input[2])
         /\ \A i \in 1..Len(input) - (2 + input[2]) :
              SubSeq(input, 3 + input[2], Len(input))[i] = input[2 + input[2] + i]
         /\ Framed(input[1], SubSeq(input, 3, 2 + input[2]),
                   SubSeq(input, 3 + input[2], Len(input))) = input
<1> DEFINE n == input[2]
           m == Len(input)
           c == SubSeq(input, 3, 2 + n)
           r == SubSeq(input, 3 + n, m)
           f == Framed(input[1], c, r)
<1>1. m \in Nat /\ n \in Nat /\ input[1] \in Nat /\ m >= 2 + n /\ \A i \in 1..m : input[i] \in Nat
  OBVIOUS
<1> HIDE DEF n, m
<1>2. /\ c \in Seq(Nat) /\ Len(c) = n /\ \A i \in 1..n : c[i] = input[3 + i - 1]
  <2>1. \A i \in 3..2 + n : input[i] \in Nat
    BY <1>1
  <2>2. QED
    BY <1>1, <2>1, SubSeqProperties
<1>3. \A i \in 1..n : c[i] = input[2 + i]
  <2>1. \A i \in 1..n : 3 + i - 1 = 2 + i
    BY <1>1
  <2>2. QED
    BY <1>2, <2>1
<1>4. /\ r \in Seq(Nat) /\ Len(r) = m - (2 + n)
      /\ \A i \in 1..m - (2 + n) : r[i] = input[(3 + n) + i - 1]
  <2>1. \A i \in 3 + n..m : input[i] \in Nat
    BY <1>1
  <2>2. QED
    BY <1>1, <2>1, SubSeqProperties
<1>5. \A i \in 1..m - (2 + n) : r[i] = input[2 + n + i]
  <2>1. \A i \in 1..m - (2 + n) : (3 + n) + i - 1 = 2 + n + i
    BY <1>1
  <2>2. QED
    BY <1>4, <2>1
<1> HIDE DEF c, r
<1>6. /\ f \in Seq(Nat) /\ Len(f) = 2 + n + (m - (2 + n))
      /\ f[1] = input[1] /\ f[2] = n
      /\ \A i \in 1..n : f[2 + i] = c[i]
      /\ \A i \in 1..m - (2 + n) : f[2 + n + i] = r[i]
  <2>1. input[1] \in Nat /\ c \in Seq(Nat) /\ r \in Seq(Nat)
    BY <1>1, <1>2, <1>4
  <2>2. IsFrame(f, input[1], c, r)
    BY <2>1, FramedIs
  <2> HIDE DEF f
  <2>3. QED
    BY <1>2, <1>4, <2>2 DEF IsFrame
<1>7. f = input
  <2> HIDE DEF f
  <2>1. ASSUME NEW i \in 1..m PROVE f[i] = input[i]
    <3>1. CASE i <= 2
      <4>1. i = 1 \/ i = 2
        BY <3>1
      <4>2. QED
        BY <1>6, <4>1 DEF n
    <3>2. CASE i > 2 /\ i <= 2 + n
      <4>1. PICK j \in 1..n : i = 2 + j
        BY <1>1, <3>2
      <4>2. QED
        BY <1>3, <1>6, <4>1
    <3>3. CASE i > 2 + n
      <4>1. PICK j \in 1..m - (2 + n) : i = 2 + n + j
        BY <1>1, <3>3
      <4>2. QED
        BY <1>5, <1>6, <4>1
    <3>4. QED
      BY <1>1, <3>1, <3>2, <3>3
  <2>2. Len(f) = m
    BY <1>1, <1>6
  <2>3. QED
    BY <1>6, <2>1, <2>2, SeqEqual DEF m
<1>8. QED
  BY <1>2, <1>3, <1>4, <1>5, <1>7 DEF n, m, c, r, f

(* What is read off a number written, and what is written of it. *)
LEMMA ContentIs ==
  ASSUME NEW value \in Seq(Nat), Len(value) = Half
  PROVE  /\ Content(value) \in Seq(Nat) /\ Len(Content(value)) >= 1
         /\ Unpadded(Content(value)) = {Kept(value)}
         /\ Integer(value) = <<IntegerTag, Len(Content(value))>> \o Content(value)
<1> DEFINE k == Kept(value)
<1>1. Half \in Nat /\ Half >= 1
  BY HalfAssumption
<1>2. k \in Seq(Nat) /\ Len(k) \in 1..Half /\ Shortest(k)
  BY <1>1, KeptIs
<1>3. Integer(value) = IF TopBit(k[1]) THEN <<IntegerTag, Len(k) + 1, 0>> \o k
                       ELSE <<IntegerTag, Len(k)>> \o k
  BY DEF Integer, Kept, First
<1>4. Content(value) = IF TopBit(k[1]) THEN <<0>> \o k ELSE k
  BY DEF Content
<1>4a. k = Kept(value)
  OBVIOUS
<1> HIDE DEF k
<1>5. CASE TopBit(k[1])
  <2> DEFINE c == <<0>> \o k
  <2>1. /\ c \in Seq(Nat) /\ Len(c) = Len(k) + 1 /\ c[1] = 0
        /\ \A i \in 1..Len(k) : c[i + 1] = k[i]
    BY <1>2, OnePut
  <2>1a. Tail(c) = k
    BY <1>2, OnePut
  <2>2. <<IntegerTag, Len(k) + 1, 0>> \o k = <<IntegerTag, Len(k) + 1>> \o c
    <3> DEFINE h == <<IntegerTag, Len(k) + 1>>
               z == <<0>>
    <3>1. h \in Seq(Nat) /\ z \in Seq(Nat) /\ <<IntegerTag, Len(k) + 1, 0>> = h \o z
      BY <1>2 DEF IntegerTag
    <3>2. c = z \o k
      OBVIOUS
    <3> HIDE DEF h, z, c
    <3>3. (h \o z) \o k = h \o (z \o k)
      BY <1>2, <3>1, Associative
    <3>4. QED
      BY <3>1, <3>2, <3>3 DEF h
  <2> HIDE DEF c
  <2>3. Content(value) = c /\ Integer(value) = <<IntegerTag, Len(c)>> \o c
    BY <1>3, <1>4, <1>5, <2>1, <2>2 DEF c
  <2>4. c[2] = k[1] /\ ~(Len(c) <= 1)
    <3>1. 1 \in 1..Len(k) /\ 1 + 1 = 2
      BY <1>2
    <3>2. QED
      BY <1>2, <2>1, <3>1
  <2>5. Unpadded(c) = {k}
    BY <1>5, <2>1, <2>1a, <2>4 DEF Unpadded
  <2>6. QED
    BY <1>2, <1>4a, <2>1, <2>3, <2>5, SMTT(30)
<1>6. CASE ~TopBit(k[1])
  <2>1. Unpadded(k) = {k}
    BY <1>2 DEF Unpadded, Shortest
  <2>2. QED
    BY <1>2, <1>3, <1>4, <1>6, <2>1 DEF k
<1>7. QED
  BY <1>5, <1>6

(* An INTEGER that was written reads as the number, up to the same end. *)
LEMMA ReadWritten ==
  ASSUME NEW value \in Seq(Nat), Len(value) = Half, NEW rest \in Seq(Nat)
  PROVE  /\ Integer(value) \o rest \in Seq(Nat)
         /\ ReadInteger(Integer(value) \o rest) = {[value |-> Kept(value), rest |-> rest]}
<1> DEFINE c == Content(value)
           f == Framed(IntegerTag, c, rest)
<1>1. /\ c \in Seq(Nat) /\ Len(c) >= 1 /\ Unpadded(c) = {Kept(value)}
      /\ Integer(value) = <<IntegerTag, Len(c)>> \o c
  BY ContentIs
<1>2. IntegerTag \in Nat /\ Len(c) \in Nat /\ Len(rest) \in Nat
  BY <1>1 DEF IntegerTag
<1>3. Len(Kept(value)) \in 1..Half
  BY HalfAssumption, KeptIs
<1> HIDE DEF c
<1>4. Integer(value) \o rest = f
  BY <1>1 DEF Framed
<1>5. IsFrame(f, IntegerTag, c, rest)
  BY <1>1, <1>2, FramedIs
<1>6. SubSeq(f, 3, 2 + Len(c)) = c /\ SubSeq(f, 3 + Len(c), Len(f)) = rest
  BY <1>1, <1>2, FramedReads
<1> HIDE DEF f
<1>7. /\ f \in Seq(Nat) /\ ~(Len(f) < 2) /\ f[1] = IntegerTag /\ f[2] = Len(c)
      /\ ~(Len(f) < 2 + Len(c))
  BY <1>2, <1>5 DEF IsFrame
<1>8. ReadInteger(f) = {[value |-> v, rest |-> rest] : v \in {v \in Unpadded(c) : Len(v) \in 1..Half}}
  BY <1>6, <1>7 DEF ReadInteger
<1>9. QED
  BY <1>1, <1>3, <1>4, <1>7, <1>8

(* One that was read, and does not read as negative, was written so. *)
LEMMA WrittenRead ==
  ASSUME NEW input \in Seq(Nat), NEW q \in ReadInteger(input), input[3] < 128
  PROVE  /\ Len(input) >= 3
         /\ q.value \in Seq(Nat) /\ Len(q.value) \in 1..Half
         /\ q.rest \in Seq(Nat)
         /\ Integer(ZeroPadded(q.value)) \o q.rest = input
<1> DEFINE n == input[2]
           c == SubSeq(input, 3, 2 + n)
           r == SubSeq(input, 3 + n, Len(input))
<1>1. /\ Len(input) >= 2 /\ input[1] = IntegerTag /\ 2 + n <= Len(input) /\ n \in Nat
      /\ \E v \in {v \in Unpadded(c) : Len(v) \in 1..Half} : q = [value |-> v, rest |-> r]
  <2>1. ~(Len(input) < 2 \/ input[1] # IntegerTag \/ Len(input) < 2 + n)
    BY DEF ReadInteger
  <2>2. Len(input) >= 2 /\ input[1] = IntegerTag
    BY <2>1
  <2>3. n \in Nat
    BY <2>2
  <2>4. q \in {[value |-> v, rest |-> r] : v \in {v \in Unpadded(c) : Len(v) \in 1..Half}}
    BY <2>1 DEF ReadInteger
  <2> HIDE DEF c, r, n
  <2>5. QED
    BY <2>1, <2>2, <2>3, <2>4
<1>2. PICK v \in Unpadded(c) : Len(v) \in 1..Half /\ q = [value |-> v, rest |-> r]
  BY <1>1
<1>3. /\ c \in Seq(Nat) /\ Len(c) = n /\ \A i \in 1..n : c[i] = input[2 + i]
      /\ r \in Seq(Nat)
      /\ Framed(input[1], c, r) = input
  BY <1>1, ReadsFramed
<1> HIDE DEF c, r
<1>4. /\ v \in Seq(Nat) /\ Shortest(v) /\ Len(c) >= 1
      /\ c = IF TopBit(v[1]) THEN <<0>> \o v ELSE v
  <2>1. CASE Len(c) <= 1 \/ c[1] # 0
    <3>1. v = c
      BY <1>2, <2>1 DEF Unpadded
    <3>2. Len(c) >= 1
      BY <1>2, <3>1, HalfAssumption
    <3>3. c[1] = input[3]
      BY <1>1, <1>3, <3>2
    <3>4. QED
      BY <1>3, <2>1, <3>1, <3>2, <3>3, SMTT(30) DEF Shortest, TopBit
  <2>2. CASE ~(Len(c) <= 1 \/ c[1] # 0)
    <3>0. Unpadded(c) = IF TopBit(c[2]) THEN {Tail(c)} ELSE {}
      BY <2>2 DEF Unpadded
    <3>1. v = Tail(c) /\ TopBit(c[2]) /\ c[1] = 0 /\ Len(c) > 1
      <4>1. v = Tail(c) /\ TopBit(c[2])
        BY <1>2, <3>0
      <4>2. c[1] = 0 /\ Len(c) > 1
        BY <1>3, <2>2
      <4>3. QED
        BY <4>1, <4>2
    <3>2. c # <<>>
      BY <1>3, <3>1
    <3>3. /\ v \in Seq(Nat) /\ Len(v) = Len(c) - 1
          /\ \A i \in 1..Len(v) : v[i] = c[i + 1]
      BY <1>3, <3>1, <3>2, HeadTailProperties
    <3>4. v[1] = c[2]
      <4>1. 1 \in 1..Len(v) /\ 1 + 1 = 2
        BY <1>1, <1>3, <3>1, <3>3
      <4>2. QED
        BY <3>3, <4>1
    <3>5. <<0>> \o v = c
      <4> DEFINE d == <<0>> \o v
      <4>1. /\ d \in Seq(Nat) /\ Len(d) = Len(v) + 1 /\ d[1] = 0
            /\ \A i \in 1..Len(v) : d[i + 1] = v[i]
        BY <3>3, OnePut
      <4> HIDE DEF d
      <4>2. ASSUME NEW i \in 1..Len(d) PROVE d[i] = c[i]
        <5>1. CASE i = 1
          BY <3>1, <4>1, <5>1
        <5>2. CASE i # 1
          <6>1. PICK j \in 1..Len(v) : i = j + 1
            <7>1. Len(v) \in Nat /\ i \in 1..Len(v) + 1
              BY <3>3, <4>1
            <7>2. i - 1 \in 1..Len(v) /\ i = (i - 1) + 1
              BY <5>2, <7>1
            <7>3. QED
              BY <7>2
          <6>2. QED
            BY <3>3, <4>1, <6>1
        <5>3. QED
          BY <5>1, <5>2
      <4>3. Len(d) = Len(c)
        BY <1>1, <1>3, <3>3, <4>1
      <4>4. d = c
        BY <1>3, <4>1, <4>2, <4>3, SameElements
      <4>5. QED
        BY <4>4 DEF d
    <3>6. TopBit(v[1])
      BY <3>1, <3>4
    <3>7. v[1] # 0
      <4>1. v[1] >= 128
        BY <3>6 DEF TopBit
      <4>2. Len(v) >= 1
        BY <1>2, HalfAssumption
      <4>3. v[1] \in Nat
        BY <3>3, <4>2
      <4>4. QED
        BY <4>1, <4>3
    <3>8. QED
      BY <3>1, <3>3, <3>5, <3>6, <3>7 DEF Shortest
  <2>3. QED
    BY <2>1, <2>2
<1>5. Kept(ZeroPadded(v)) = v /\ ZeroPadded(v) \in Seq(Nat) /\ Len(ZeroPadded(v)) = Half
  BY <1>2, <1>4, KeptPadded, PaddedIs
<1>6. Content(ZeroPadded(v)) = c
  BY <1>4, <1>5 DEF Content
<1>7. Integer(ZeroPadded(v)) = <<IntegerTag, Len(c)>> \o c
  BY <1>5, <1>6, ContentIs
<1>8. Integer(ZeroPadded(v)) \o r = input
  BY <1>1, <1>3, <1>7 DEF Framed
<1>9. Len(input) >= 3
  BY <1>1, <1>3, <1>4
<1>10. q.value = v /\ q.rest = r
  BY <1>2
<1>11. QED
  BY <1>2, <1>3, <1>4, <1>8, <1>9, <1>10

(* The two numbers of a signature, taken apart and put together. *)
LEMMA Halves ==
  ASSUME NEW raw \in Seq(Nat), Len(raw) = 2 * Half
  PROVE  /\ SubSeq(raw, 1, Half) \in Seq(Nat) /\ Len(SubSeq(raw, 1, Half)) = Half
         /\ SubSeq(raw, Half + 1, 2 * Half) \in Seq(Nat)
         /\ Len(SubSeq(raw, Half + 1, 2 * Half)) = Half
         /\ SubSeq(raw, 1, Half) \o SubSeq(raw, Half + 1, 2 * Half) = raw
<1> DEFINE h == Half
           r == SubSeq(raw, 1, h)
           s == SubSeq(raw, h + 1, 2 * h)
           c == r \o s
<1>1. h \in Nat /\ h >= 1 /\ Len(raw) = 2 * h
  BY HalfAssumption
<1>2. \A i \in 1..2 * h : raw[i] \in Nat
  BY <1>1
<1> HIDE DEF h
<1>3. r \in Seq(Nat) /\ Len(r) = h /\ \A i \in 1..h : r[i] = raw[i]
  <2>1. \A i \in 1..h : raw[i] \in Nat
    BY <1>1, <1>2
  <2>2. r \in Seq(Nat) /\ Len(r) = (IF 1 <= h THEN h - 1 + 1 ELSE 0)
        /\ \A i \in 1..h - 1 + 1 : r[i] = raw[1 + i - 1]
    BY <1>1, <2>1, SubSeqProperties
  <2> HIDE DEF r
  <2>3. \A i \in 1..h : 1 + i - 1 = i
    BY <1>1
  <2>4. QED
    BY <1>1, <2>2, <2>3
<1>4. s \in Seq(Nat) /\ Len(s) = h /\ \A i \in 1..h : s[i] = raw[h + i]
  <2>1. \A i \in h + 1..2 * h : raw[i] \in Nat
    BY <1>1, <1>2
  <2>2. s \in Seq(Nat) /\ Len(s) = (IF h + 1 <= 2 * h THEN 2 * h - (h + 1) + 1 ELSE 0)
        /\ \A i \in 1..2 * h - (h + 1) + 1 : s[i] = raw[(h + 1) + i - 1]
    BY <1>1, <2>1, SubSeqProperties
  <2> HIDE DEF s
  <2>3. \A i \in 1..h : (h + 1) + i - 1 = h + i
    BY <1>1
  <2>4. QED
    BY <1>1, <2>2, <2>3
<1> HIDE DEF r, s
<1>5. c = raw
  <2>1. /\ c \in Seq(Nat) /\ Len(c) = Len(r) + Len(s)
        /\ \A i \in 1..Len(r) : c[i] = r[i]
        /\ \A i \in 1..Len(s) : c[Len(r) + i] = s[i]
    BY <1>3, <1>4, PutTogether
  <2> HIDE DEF c
  <2>2. ASSUME NEW i \in 1..2 * h PROVE c[i] = raw[i]
    <3>1. CASE i <= h
      BY <1>1, <1>3, <2>1, <3>1, SMTT(30)
    <3>2. CASE i > h
      <4>1. PICK j \in 1..h : i = h + j
        BY <1>1, <3>2
      <4>2. QED
        BY <1>3, <1>4, <2>1, <4>1
    <3>3. QED
      BY <1>1, <3>1, <3>2
  <2>3. Len(c) = Len(raw)
    <3>1. Len(c) = h + h
      BY <1>3, <1>4, <2>1
    <3>2. h + h = 2 * h
      BY <1>1
    <3>3. QED
      BY <1>1, <3>1, <3>2
  <2>4. QED
    BY <1>1, <2>1, <2>2, <2>3, SameElements
<1>6. QED
  BY <1>3, <1>4, <1>5 DEF c, r, s, h

LEMMA HalvesOf ==
  ASSUME NEW p \in Seq(Nat), NEW q \in Seq(Nat), Len(p) = Half, Len(q) = Half
  PROVE  SubSeq(p \o q, 1, Half) = p /\ SubSeq(p \o q, Half + 1, 2 * Half) = q
<1> DEFINE c == p \o q
<1>1. /\ c \in Seq(Nat) /\ Len(c) = Len(p) + Len(q)
      /\ \A i \in 1..Len(p) : c[i] = p[i]
      /\ \A i \in 1..Len(q) : c[Len(p) + i] = q[i]
  BY PutTogether
<1> DEFINE h == Half
           r == SubSeq(c, 1, h)
           s == SubSeq(c, h + 1, 2 * h)
<1>2. h \in Nat /\ h >= 1 /\ Len(p) = h /\ Len(q) = h
  BY HalfAssumption
<1> HIDE DEF c, h
<1>3. /\ Len(c) = 2 * h
      /\ \A i \in 1..h : c[i] = p[i]
      /\ \A i \in 1..h : c[h + i] = q[i]
  BY <1>1, <1>2
<1>4. \A i \in 1..2 * h : c[i] \in Nat
  BY <1>1, <1>2, <1>3
<1>5. r = p
  <2>1. \A i \in 1..h : c[i] \in Nat
    BY <1>2, <1>4
  <2>2. r \in Seq(Nat) /\ Len(r) = (IF 1 <= h THEN h - 1 + 1 ELSE 0)
        /\ \A i \in 1..h - 1 + 1 : r[i] = c[1 + i - 1]
    BY <1>2, <2>1, SubSeqProperties
  <2> HIDE DEF r
  <2>3. \A i \in 1..h : 1 + i - 1 = i
    BY <1>2
  <2>4. Len(r) = Len(p) /\ \A i \in 1..Len(r) : r[i] = p[i]
    BY <1>2, <1>3, <2>2, <2>3
  <2>5. QED
    BY <2>2, <2>4, SameElements
<1>6. s = q
  <2>1. \A i \in h + 1..2 * h : c[i] \in Nat
    BY <1>2, <1>4
  <2>2. s \in Seq(Nat) /\ Len(s) = (IF h + 1 <= 2 * h THEN 2 * h - (h + 1) + 1 ELSE 0)
        /\ \A i \in 1..2 * h - (h + 1) + 1 : s[i] = c[(h + 1) + i - 1]
    BY <1>2, <2>1, SubSeqProperties
  <2> HIDE DEF s
  <2>3. \A i \in 1..h : (h + 1) + i - 1 = h + i
    BY <1>2
  <2>4. Len(s) = Len(q) /\ \A i \in 1..Len(s) : s[i] = q[i]
    BY <1>2, <1>3, <2>2, <2>3
  <2>5. QED
    BY <2>2, <2>4, SameElements
<1>7. QED
  BY <1>5, <1>6 DEF c, h, r, s

(* A SEQUENCE of octets is a frame with nothing after it. *)
LEMMA SequenceReads ==
  ASSUME NEW body \in Seq(Nat)
  PROVE  LET der == <<SequenceTag, Len(body)>> \o body
         IN  /\ der \in Seq(Nat) /\ Len(der) = 2 + Len(body)
             /\ der[1] = SequenceTag /\ der[2] = Len(body)
             /\ SubSeq(der, 3, Len(der)) = body
<1> DEFINE der == <<SequenceTag, Len(body)>> \o body
           f   == Framed(SequenceTag, body, <<>>)
<1>1. SequenceTag \in Nat /\ <<>> \in Seq(Nat) /\ Len(<<>>) = 0 /\ Len(body) \in Nat
  BY DEF SequenceTag
<1>2. IsFrame(f, SequenceTag, body, <<>>)
  BY <1>1, FramedIs
<1>3. SubSeq(f, 3, 2 + Len(body)) = body
  <2> DEFINE none == <<>>
  <2>1. none \in Seq(Nat) /\ SequenceTag \in Nat
    BY <1>1
  <2> HIDE DEF none
  <2>2. SubSeq(Framed(SequenceTag, body, none), 3, 2 + Len(body)) = body
    BY <2>1, FramedReads
  <2>3. QED
    BY <2>2 DEF none
<1>4. der = f
  <2>1. <<SequenceTag, Len(body)>> \in Seq(Nat)
    BY <1>1
  <2>2. der \in Seq(Nat)
    BY <2>1, PutTogether
  <2>3. der \o <<>> = der
    BY <2>2, ConcatEmptySeq
  <2>4. QED
    BY <2>3 DEF Framed
<1> HIDE DEF f, der
<1>5. QED
  BY <1>1, <1>2, <1>3, <1>4 DEF IsFrame, der

(* A signature survives the way into a certificate and back. *)
LEMMA FromTo ==
  ASSUME NEW raw \in Seq(Nat), Len(raw) = 2 * Half
  PROVE  FromDer(ToDer(raw)) = {raw} /\ ToDer(raw) \in Seq(Nat)
<1> DEFINE r    == SubSeq(raw, 1, Half)
           s    == SubSeq(raw, Half + 1, 2 * Half)
           body == Integer(r) \o Integer(s)
           der  == <<SequenceTag, Len(body)>> \o body
<1>1. /\ r \in Seq(Nat) /\ Len(r) = Half /\ s \in Seq(Nat) /\ Len(s) = Half
      /\ r \o s = raw
  BY Halves
<1>2. ToDer(raw) = der
  BY DEF ToDer
<1> HIDE DEF r, s
<1>3. Integer(s) \in Seq(Nat) /\ ReadInteger(Integer(s)) = {[value |-> Kept(s), rest |-> <<>>]}
  <2>1. <<>> \in Seq(Nat)
    OBVIOUS
  <2>2. /\ Integer(s) \o <<>> \in Seq(Nat)
        /\ ReadInteger(Integer(s) \o <<>>) = {[value |-> Kept(s), rest |-> <<>>]}
    BY <1>1, <2>1, ReadWritten
  <2>3. Integer(s) \o <<>> = Integer(s)
    <3> DEFINE c == Content(s)
    <3>1. c \in Seq(Nat) /\ Integer(s) = <<IntegerTag, Len(c)>> \o c
      BY <1>1, ContentIs
    <3> HIDE DEF c
    <3>2. <<IntegerTag, Len(c)>> \in Seq(Nat)
      BY <3>1 DEF IntegerTag
    <3>3. Integer(s) \in Seq(Nat)
      BY <3>1, <3>2, PutTogether
    <3>4. QED
      BY <3>3, ConcatEmptySeq
  <2>4. QED
    BY <2>2, <2>3
<1>4. body \in Seq(Nat) /\ ReadInteger(body) = {[value |-> Kept(r), rest |-> Integer(s)]}
  BY <1>1, <1>3, ReadWritten
<1> HIDE DEF body
<1>5. /\ der \in Seq(Nat) /\ Len(der) = 2 + Len(body)
      /\ der[1] = SequenceTag /\ der[2] = Len(body)
      /\ SubSeq(der, 3, Len(der)) = body
  BY <1>4, SequenceReads
<1> HIDE DEF der
<1>6. ~(Len(der) < 2 \/ der[1] # SequenceTag \/ Len(der) # 2 + der[2])
  BY <1>4, <1>5
<1>7. FromDer(der) =
        UNION {{ZeroPadded(a.value) \o ZeroPadded(b.value) :
                  b \in {b \in ReadInteger(a.rest) : b.rest = <<>>}} : a \in ReadInteger(body)}
  BY <1>5, <1>6 DEF FromDer
<1>8. FromDer(der) = {ZeroPadded(Kept(r)) \o ZeroPadded(Kept(s))}
  <2>1. {b \in ReadInteger(Integer(s)) : b.rest = <<>>} = {[value |-> Kept(s), rest |-> <<>>]}
    BY <1>3
  <2> DEFINE a == [value |-> Kept(r), rest |-> Integer(s)]
             b == [value |-> Kept(s), rest |-> <<>>]
  <2>2. a.value = Kept(r) /\ a.rest = Integer(s) /\ b.value = Kept(s)
    OBVIOUS
  <2>3. ReadInteger(body) = {a} /\ {x \in ReadInteger(a.rest) : x.rest = <<>>} = {b}
    BY <1>4, <2>1, <2>2
  <2> HIDE DEF a, b
  <2>4. FromDer(der) = {ZeroPadded(a.value) \o ZeroPadded(b.value)}
    <3> DEFINE Found(x) == {ZeroPadded(x.value) \o ZeroPadded(y.value) :
                             y \in {y \in ReadInteger(x.rest) : y.rest = <<>>}}
    <3>1. Found(a) = {ZeroPadded(a.value) \o ZeroPadded(b.value)}
      BY <2>3
    <3>2. FromDer(der) = UNION {Found(x) : x \in ReadInteger(body)}
      BY <1>7
    <3> HIDE DEF Found
    <3>3. QED
      BY <2>3, <3>1, <3>2
  <2>5. QED
    BY <2>2, <2>4
<1>9. ZeroPadded(Kept(r)) = r /\ ZeroPadded(Kept(s)) = s
  BY <1>1, PaddedKept
<1>10. QED
  BY <1>1, <1>2, <1>5, <1>8, <1>9

(* No INTEGER takes fewer than three octets. *)
LEMMA ReadsThree ==
  ASSUME NEW input \in Seq(Nat), NEW q \in ReadInteger(input)
  PROVE  Len(input) >= 3
<1> DEFINE n == input[2]
           c == SubSeq(input, 3, 2 + n)
<1>1. ~(Len(input) < 2 \/ input[1] # IntegerTag \/ Len(input) < 2 + n)
  BY DEF ReadInteger
<1>2. Len(input) >= 2 /\ 2 + n <= Len(input) /\ n \in Nat
  BY <1>1
<1>3. PICK v \in Unpadded(c) : Len(v) \in 1..Half
  BY <1>1 DEF ReadInteger
<1> HIDE DEF n
<1>4. SUFFICES ASSUME ~(Len(input) >= 3) PROVE FALSE
  OBVIOUS
<1>5. n = 0
  BY <1>2, <1>4
<1>6. c = <<>>
  BY <1>5, SubSeqEmpty
<1> HIDE DEF c
<1>7. v = <<>>
  <2>1. Len(c) <= 1
    BY <1>6
  <2>2. Unpadded(c) = {c}
    BY <2>1 DEF Unpadded
  <2>3. QED
    BY <1>3, <1>6, <2>2
<1>8. QED
  BY <1>3, <1>7, HalfAssumption

(* And what comes back is the encoding of what is found in it. *)
LEMMA ToFrom ==
  ASSUME NEW octets \in Seq(Nat), NEW raw \in FromDer(octets),
         ~Negative(octets)
  PROVE  ToDer(raw) = octets
<1> DEFINE n    == octets[2]
           body == SubSeq(octets, 3, Len(octets))
<1>1. ~(Len(octets) < 2 \/ octets[1] # SequenceTag \/ Len(octets) # 2 + n)
  BY DEF FromDer
<1>2. /\ Len(octets) >= 2 /\ octets[1] = SequenceTag /\ Len(octets) = 2 + n
      /\ n \in Nat
  BY <1>1
<1>3. raw \in UNION {{ZeroPadded(a.value) \o ZeroPadded(b.value) :
                        b \in {b \in ReadInteger(a.rest) : b.rest = <<>>}} :
                     a \in ReadInteger(body)}
  BY <1>1 DEF FromDer
<1> HIDE DEF n, body
<1>4a. PICK a \in ReadInteger(body) :
         raw \in {ZeroPadded(a.value) \o ZeroPadded(b.value) :
                    b \in {b \in ReadInteger(a.rest) : b.rest = <<>>}}
  BY <1>3
<1>4. PICK b \in ReadInteger(a.rest) :
        b.rest = <<>> /\ raw = ZeroPadded(a.value) \o ZeroPadded(b.value)
  BY <1>4a
<1>5. /\ body \in Seq(Nat) /\ Len(body) = n /\ \A i \in 1..n : body[i] = octets[2 + i]
      /\ octets = <<SequenceTag, Len(body)>> \o body
  <2>1. /\ SubSeq(octets, 3, 2 + n) = body
        /\ 2 + n <= Len(octets)
    BY <1>2 DEF body
  <2>2. /\ body \in Seq(Nat) /\ Len(body) = n /\ \A i \in 1..n : body[i] = octets[2 + i]
    BY <1>2, <2>1, ReadsFramed DEF n
  <2> DEFINE none == SubSeq(octets, 3 + n, Len(octets))
  <2>3. /\ none \in Seq(Nat) /\ Len(none) = Len(octets) - (2 + n)
        /\ Framed(octets[1], body, none) = octets
    BY <1>2, <2>1, ReadsFramed DEF n
  <2> HIDE DEF none
  <2>4. none = <<>>
    BY <1>2, <2>3
  <2>5. <<SequenceTag, Len(body)>> \o body \in Seq(Nat)
    <3>1. <<SequenceTag, Len(body)>> \in Seq(Nat)
      BY <1>2, <2>2 DEF SequenceTag
    <3>2. QED
      BY <2>2, <3>1, PutTogether
  <2>6. (<<SequenceTag, Len(body)>> \o body) \o <<>> = <<SequenceTag, Len(body)>> \o body
    BY <2>5, ConcatEmptySeq
  <2>7. QED
    BY <1>2, <2>2, <2>3, <2>4, <2>6 DEF Framed
<1>5a. \A r \in ReadInteger(body) :
         ~(octets[5] >= 128) /\ ~(Len(r.rest) >= 3 /\ r.rest[3] >= 128)
  BY DEF Negative, body
<1>6. body[3] < 128
  <2>1. Len(body) >= 3
    BY <1>4a, <1>5, ReadsThree
  <2>2. body[3] = octets[5] /\ body[3] \in Nat
    BY <1>2, <1>5, <2>1
  <2>3. QED
    BY <1>4a, <1>5a, <2>2
<1>7. /\ a.value \in Seq(Nat) /\ Len(a.value) \in 1..Half /\ a.rest \in Seq(Nat)
      /\ Integer(ZeroPadded(a.value)) \o a.rest = body
  BY <1>4a, <1>5, <1>6, WrittenRead
<1>8. a.rest[3] < 128
  <2>1. Len(a.rest) >= 3
    BY <1>4, <1>7, ReadsThree
  <2>2. a.rest[3] \in Nat
    BY <1>7, <2>1
  <2>3. QED
    BY <1>4a, <1>5a, <2>1, <2>2
<1>9. /\ b.value \in Seq(Nat) /\ Len(b.value) \in 1..Half
      /\ Integer(ZeroPadded(b.value)) \o b.rest = a.rest
  BY <1>4, <1>7, <1>8, WrittenRead
<1> DEFINE p == ZeroPadded(a.value)
           q == ZeroPadded(b.value)
<1>10. p \in Seq(Nat) /\ q \in Seq(Nat) /\ Len(p) = Half /\ Len(q) = Half
  BY <1>7, <1>9, PaddedIs
<1>11. Integer(q) = a.rest
  <2>1. Integer(q) \in Seq(Nat)
    <3> HIDE DEF q
    <3> DEFINE c == Content(q)
    <3>1. c \in Seq(Nat) /\ Integer(q) = <<IntegerTag, Len(c)>> \o c
      BY <1>10, ContentIs
    <3> HIDE DEF c
    <3>2. <<IntegerTag, Len(c)>> \in Seq(Nat)
      BY <3>1 DEF IntegerTag
    <3>3. QED
      BY <3>1, <3>2, PutTogether
  <2>2. Integer(q) \o <<>> = Integer(q)
    BY <2>1, ConcatEmptySeq
  <2>3. QED
    BY <1>4, <1>9, <2>2
<1> HIDE DEF p, q
<1>12. SubSeq(raw, 1, Half) = p /\ SubSeq(raw, Half + 1, 2 * Half) = q
  BY <1>4, <1>10, HalvesOf DEF p, q
<1>13. Integer(p) \o Integer(q) = body
  BY <1>7, <1>11 DEF p
<1>14. QED
  BY <1>5, <1>12, <1>13 DEF ToDer

-----------------------------------------------------------------------------
(***************************************************************************)
(* The members that the behaviours of Texts write.                         *)
(***************************************************************************)
(* A member with this label, this third component and these parameters. *)
Signed(label, name, v, w, sr) ==
  [label |-> label,
   components |-> <<[name |-> <<"@method">>, req |-> FALSE], [name |-> <<"@path">>, req |-> TRUE],
                    [name |-> name, req |-> FALSE]>>,
   params |-> Params({"5"}, v, w, sr)]

GivenMember(m, label, name, v, w, sr) ==
  /\ m = Signed(label, name, v, w, sr)
  /\ label \in Text /\ CheckedLabel(label) /\ name \in Text /\ IsValidHeaderName(name)
  /\ v \in Text /\ w \in Text /\ sr \in {{}, {TRUE}, {FALSE}}

WrittenMember(m) == \E label, name, v, w, sr : GivenMember(m, label, name, v, w, sr)

LEMMA ParamsAre ==
  ASSUME NEW v, NEW w, NEW sr, NEW p, p = Params({"5"}, v, w, sr)
  PROVE  /\ p = [n \in ToSet(Order) |-> p[n]]
         /\ p["created"] = {"5"} /\ p["nonce"] = {v} /\ p["tag"] = {w} /\ p[SignResponse] = sr
         /\ \A n \in ToSet(Order) \ {"created", "nonce", "tag", SignResponse} : p[n] = {}
<1>1. SignResponse \notin {"created", "nonce", "tag"}
  BY DEF SignResponse
<1>2. QED
  BY <1>1, OrderNames DEF Params

LEMMA FiveIs == "5" \in Numbers /\ "5" \in Quiet /\ "5" \notin Blanks
BY TokensAssumption, LabelCharacters

LEMMA NameReadable ==
  ASSUME NEW name \in Text, IsValidHeaderName(name)
  PROVE  Readable(name)
<1>1. PICK n \in Nat : n = Len(name) /\ DOMAIN name = 1..n
  BY DEF Text
<1>2. ToSet(name) = {name[i] : i \in 1..n}
  BY <1>1 DEF ToSet
<1>3. \A c \in Marks \cup {Hash} : c \notin {DQuote, Backslash, Space} /\ c \notin AtNames
  BY DEF Marks, Hash, DQuote, Backslash, Space, AtNames, DerivedNames
<1>4. \A c \in LowerWords \cup Numbers : c \notin {DQuote, Backslash, Space} /\ c \notin AtNames
  BY WordsAssumption
<1>5. \A c \in ToSet(name) : c \notin {DQuote, Backslash, Space} /\ c \notin AtNames
  BY <1>3, <1>4 DEF IsValidHeaderName
<1>6. \A i \in 1..Len(name) : name[i] \notin {DQuote, Backslash, Space}
  BY <1>1, <1>2, <1>5
<1>7. ToSet(name) \cap AtNames = {}
  BY <1>5
<1>8. QED
  BY <1>6, <1>7 DEF Readable

LEMMA DerivedReadable ==
  ASSUME NEW d \in {"@method", "@path"}
  PROVE  Readable(<<d>>)
<1>1. d \in Alphabet /\ d \in DerivedNames /\ d \notin {DQuote, Backslash, Space}
  BY DEF Alphabet, Literals, DerivedNames, DQuote, Backslash, Space
<1>2. PICK t \in Text : t = <<d>> /\ Len(t) = 1 /\ t[1] = d
  BY <1>1, OneChar
<1>3. \A i \in 1..Len(t) : t[i] \notin {DQuote, Backslash, Space}
  BY <1>1, <1>2
<1>4. t \in {<<derived>> : derived \in DerivedNames}
  BY <1>1, <1>2
<1>5. QED
  BY <1>2, <1>3, <1>4 DEF Readable

LEMMA WrittenMade ==
  ASSUME NEW m, WrittenMember(m)
  PROVE  MemberMade(m)
<1>1. PICK label, name, v, w, sr : GivenMember(m, label, name, v, w, sr)
  BY DEF WrittenMember
<1>2. PICK a, b, c, p : /\ a = [name |-> <<"@method">>, req |-> FALSE]
                        /\ b = [name |-> <<"@path">>, req |-> TRUE]
                        /\ c = [name |-> name, req |-> FALSE]
                        /\ p = Params({"5"}, v, w, sr)
  OBVIOUS
<1>3. m = [label |-> label, components |-> <<a, b, c>>, params |-> p]
  BY <1>1, <1>2 DEF GivenMember, Signed
<1>4. m.label \in Text /\ CheckedLabel(m.label)
  BY <1>1, <1>3 DEF GivenMember
<1>5. Readable(a.name) /\ Readable(b.name) /\ Readable(c.name)
  <2>1. Readable(<<"@method">>) /\ Readable(<<"@path">>)
    BY DerivedReadable
  <2>2. Readable(name)
    BY <1>1, NameReadable DEF GivenMember
  <2>3. QED
    BY <1>2, <2>1, <2>2
<1>6. a \in ComponentType /\ b \in ComponentType /\ c \in ComponentType
  BY <1>2, <1>5 DEF ComponentType, Readable
<1>7. PICK cs : cs = <<a, b, c>>
  OBVIOUS
<1>8. cs \in [1..3 -> ComponentType] /\ \A i \in 1..3 : Readable(cs[i].name)
  <2>1. cs[1] = a /\ cs[2] = b /\ cs[3] = c /\ cs = [i \in 1..3 |-> cs[i]]
    BY <1>7
  <2>2. QED
    BY <1>5, <1>6, <2>1
<1>9. Given(p, "5", v, w, sr)
  <2>1. /\ p = [n \in ToSet(Order) |-> p[n]]
        /\ p["created"] = {"5"} /\ p["nonce"] = {v} /\ p["tag"] = {w} /\ p[SignResponse] = sr
        /\ \A n \in ToSet(Order) \ {"created", "nonce", "tag", SignResponse} : p[n] = {}
    BY <1>2, ParamsAre
  <2>2. v \in Text /\ w \in Text /\ sr \in {{}, {TRUE}, {FALSE}}
    BY <1>1 DEF GivenMember
  <2>3. QED
    BY <2>1, <2>2, FiveIs DEF Given
<1>10. m.components = cs /\ m.params = p
  BY <1>3, <1>7
<1>11. QED
  BY <1>4, <1>8, <1>9, <1>10 DEF MemberMade

(***************************************************************************)
(* What they are in the abstract model.                                    *)
(***************************************************************************)
Jointly(all, a, b, c, last) == all = ((<<a>> \o <<b>>) \o <<c>>) \o last

LEMMA Joints ==
  ASSUME NEW S, NEW a \in S, NEW b \in S, NEW c \in S, NEW last \in Seq(S),
         NEW all, Jointly(all, a, b, c, last)
  PROVE  all \in Seq(S) /\ ToSet(all) = {a, b, c} \cup ToSet(last)
<1>1. PICK p \in Seq(S), r \in Seq(S) : p = <<a, b>> /\ r = <<c>>
  BY OneItem, TwoItems
<1>2. p = <<a>> \o <<b>> /\ Len(p) = 2 /\ p[1] = a /\ p[2] = b
  <2>1. Append(<<a>>, b) = <<a, b>> /\ <<a>> \o <<b>> = <<a, b>>
    BY PairIs
  <2>2. QED
    BY <1>1, <2>1
<1>3. Len(r) = 1 /\ r[1] = c
  BY <1>1
<1>4. PICK t : t = p \o r
  OBVIOUS
<1>5. t \in Seq(S) /\ Len(t) = 3 /\ t[1] = a /\ t[2] = b /\ t[3] = c
  <2>1. /\ p \o r \in Seq(S) /\ Len(p \o r) = Len(p) + Len(r)
        /\ \A i \in 1..Len(p) : (p \o r)[i] = p[i]
        /\ \A i \in 1..Len(r) : (p \o r)[Len(p) + i] = r[i]
    BY Concatenated
  <2>2. 1 \in 1..2 /\ 2 \in 1..2 /\ 1 \in 1..1 /\ 2 + 1 = 3
    OBVIOUS
  <2>3. QED
    BY <1>2, <1>3, <1>4, <2>1, <2>2
<1>6. PICK k \in Nat : k = Len(last) /\ DOMAIN last = 1..k
  OBVIOUS
<1>7. all = t \o last
  BY <1>1, <1>2, <1>4 DEF Jointly
<1>8. /\ all \in Seq(S) /\ Len(all) = 3 + k
      /\ \A i \in 1..3 : all[i] = t[i]
      /\ \A i \in 1..k : all[3 + i] = last[i]
  <2>1. PICK u \in Seq(S) : u = t
    BY <1>5
  <2>2. /\ u \o last \in Seq(S) /\ Len(u \o last) = Len(u) + Len(last)
        /\ \A i \in 1..Len(u) : (u \o last)[i] = u[i]
        /\ \A i \in 1..Len(last) : (u \o last)[Len(u) + i] = last[i]
    BY Concatenated
  <2>3. QED
    BY <1>5, <1>6, <1>7, <2>1, <2>2
<1>9. DOMAIN all = 1 .. 3 + k
  BY <1>8
<1>10. ASSUME NEW x PROVE x \in ToSet(all) <=> x \in {a, b, c} \cup ToSet(last)
  <2>1. ASSUME x \in ToSet(all) PROVE x \in {a, b, c} \cup ToSet(last)
    <3>1. PICK i \in 1 .. 3 + k : x = all[i]
      BY <1>9, <2>1 DEF ToSet
    <3>2. CASE i <= 3
      BY <1>5, <1>8, <3>1, <3>2
    <3>3. CASE i > 3
      <4>1. i - 3 \in 1..k /\ 3 + (i - 3) = i
        BY <3>3
      <4>2. x = last[i - 3]
        BY <1>8, <3>1, <4>1
      <4>3. QED
        BY <1>6, <4>1, <4>2 DEF ToSet
    <3>4. QED
      BY <3>2, <3>3
  <2>2. ASSUME x \in ToSet(last) PROVE x \in ToSet(all)
    <3>1. PICK i \in 1..k : x = last[i]
      BY <1>6, <2>2 DEF ToSet
    <3>2. 3 + i \in 1 .. 3 + k
      OBVIOUS
    <3>3. QED
      BY <1>8, <1>9, <3>1, <3>2 DEF ToSet
  <2>3. a \in ToSet(all) /\ b \in ToSet(all) /\ c \in ToSet(all)
    <3>1. 1 \in 1 .. 3 + k /\ 2 \in 1 .. 3 + k /\ 3 \in 1 .. 3 + k
      OBVIOUS
    <3>2. all[1] = a /\ all[2] = b /\ all[3] = c
      BY <1>5, <1>8
    <3>3. QED
      BY <1>9, <3>1, <3>2 DEF ToSet
  <2>4. QED
    BY <2>1, <2>2, <2>3
<1>11. QED
  BY <1>8, <1>10

(* The value of a tag in the abstract model. *)
AbstractTag(w) == IF w = <<WimseTag>> THEN H!WIMSE_TAG ELSE "another"

LEMMA OnePair ==
  ASSUME NEW name, name # "tag", NEW v
  PROVE  Pairs(name, {v}) = <<<<name, v>>>>
<1>1. (CHOOSE x \in {v} : TRUE) = v /\ {v} # {}
  OBVIOUS
<1>2. QED
  BY <1>1, Zenon DEF Pairs

LEMMA TagPair ==
  ASSUME NEW v
  PROVE  Pairs("tag", {v}) = <<<<"tag", AbstractTag(v)>>>>
<1>1. (CHOOSE x \in {v} : TRUE) = v /\ {v} # {}
  OBVIOUS
<1>2. QED
  BY <1>1, Zenon DEF Pairs, AbstractTag

(* The pairs of a member, in any order. *)
LEMMA PairsOf ==
  ASSUME NEW p, NEW x, NEW v, NEW w, NEW sr, Given(p, x, v, w, sr),
         NEW all, all = FlattenSeq([i \in DOMAIN Order |-> Pairs(Order[i], p[Order[i]])])
  PROVE  /\ DOMAIN all = 1..Len(all) /\ Len(all) \in Nat
         /\ ToSet(all) = {<<"created", x>>, <<"nonce", v>>, <<"tag", AbstractTag(w)>>}
                          \cup ToSet(Pairs(SignResponse, sr))
<1>1. PICK seqs : seqs = [i \in DOMAIN Order |-> Pairs(Order[i], p[Order[i]])]
  OBVIOUS
<1>2. PICK a, b, c : a = <<"created", x>> /\ b = <<"nonce", v>> /\ c = <<"tag", AbstractTag(w)>>
  OBVIOUS
<1>3. PICK last : last = Pairs(SignResponse, sr)
  OBVIOUS
<1>4. PICK S : S = {a, b, c} \cup {<<SignResponse, TRUE>>, <<SignResponse, FALSE>>}
  OBVIOUS
<1>5. last \in Seq(S)
  <2>1. CASE sr = {}
    BY <1>3, <2>1 DEF Pairs
  <2>2. CASE sr # {}
    <3>1. PICK r \in BOOLEAN : sr = {r}
      BY <2>2 DEF Given
    <3>2. last = <<<<SignResponse, r>>>>
      <4>1. SignResponse # "tag"
        BY DEF SignResponse
      <4>2. QED
        BY <1>3, <3>1, <4>1, OnePair
    <3>3. <<SignResponse, r>> \in S
      BY <1>4
    <3>4. QED
      BY <3>2, <3>3, OneItem
  <2>3. QED
    BY <2>1, <2>2
<1>6. DOMAIN seqs = 1..9 /\ \A i \in 1..9 : seqs[i] = Pairs(Order[i], p[Order[i]])
  BY <1>1, OrderType
<1>7. /\ Order[1] = "created" /\ Order[2] = "expires" /\ Order[3] = "keyid" /\ Order[4] = "alg"
      /\ Order[5] = "nonce" /\ Order[6] = "tag" /\ Order[7] = "wimse-aud"
      /\ Order[8] = SignResponse /\ Order[9] = "wimse-req-nonce"
  BY DEF Order
<1>8. /\ p["created"] = {x} /\ p["nonce"] = {v} /\ p["tag"] = {w} /\ p[SignResponse] = sr
      /\ \A n \in ToSet(Order) \ {"created", "nonce", "tag", SignResponse} : p[n] = {}
  BY DEF Given
<1>9. ASSUME NEW i \in {2, 3, 4, 7, 9} PROVE seqs[i] = <<>>
  <2>1. i \in 1..9 /\ Order[i] \notin {"created", "nonce", "tag", SignResponse}
    BY <1>7 DEF SignResponse
  <2>2. p[Order[i]] = {}
    BY <1>8, <2>1, OrderType
  <2>3. QED
    BY <1>6, <2>1, <2>2 DEF Pairs
<1>10. seqs[1] = <<a>> /\ seqs[5] = <<b>> /\ seqs[6] = <<c>> /\ seqs[8] = last
  <2>1. 1 \in 1..9 /\ 5 \in 1..9 /\ 6 \in 1..9 /\ 8 \in 1..9
    OBVIOUS
  <2>2. Pairs("created", {x}) = <<a>> /\ Pairs("nonce", {v}) = <<b>> /\ Pairs("tag", {w}) = <<c>>
    <3>1. "created" # "tag" /\ "nonce" # "tag"
      OBVIOUS
    <3>2. Pairs("created", {x}) = <<<<"created", x>>>>
      BY <3>1, OnePair, Zenon
    <3>3. Pairs("nonce", {v}) = <<<<"nonce", v>>>>
      BY <3>1, OnePair, Zenon
    <3>4. Pairs("tag", {w}) = <<<<"tag", AbstractTag(w)>>>>
      BY TagPair, Zenon
    <3>5. QED
      BY <1>2, <3>2, <3>3, <3>4
  <2>3. /\ seqs[1] = Pairs("created", {x}) /\ seqs[5] = Pairs("nonce", {v})
        /\ seqs[6] = Pairs("tag", {w}) /\ seqs[8] = Pairs(SignResponse, sr)
    <3>1. /\ seqs[1] = Pairs(Order[1], p[Order[1]]) /\ seqs[5] = Pairs(Order[5], p[Order[5]])
          /\ seqs[6] = Pairs(Order[6], p[Order[6]]) /\ seqs[8] = Pairs(Order[8], p[Order[8]])
      BY <1>6, <2>1
    <3>2. QED
      BY <1>7, <1>8, <3>1
  <2>4. QED
    BY <1>3, <2>2, <2>3
<1>11. a \in S /\ b \in S /\ c \in S
  BY <1>4
<1>12. seqs \in [1..9 -> Seq(S)]
  <2>1. <<a>> \in Seq(S) /\ <<b>> \in Seq(S) /\ <<c>> \in Seq(S) /\ <<>> \in Seq(S)
    BY <1>11
  <2>2. \A i \in 1..9 : i \in {2, 3, 4, 7, 9} \/ i = 1 \/ i = 5 \/ i = 6 \/ i = 8
    OBVIOUS
  <2>3. \A i \in 1..9 : seqs[i] \in Seq(S)
    BY <1>5, <1>9, <1>10, <2>1, <2>2
  <2>4. seqs = [i \in 1..9 |-> seqs[i]]
    BY <1>1, <1>6
  <2>5. QED
    BY <2>3, <2>4
<1>13. FlattenSeq(seqs) = ((seqs[1] \o seqs[5]) \o seqs[6]) \o seqs[8]
  BY <1>9, <1>12, FlattenedNine
<1>14. Jointly(all, a, b, c, last)
  BY <1>1, <1>10, <1>13 DEF Jointly
<1>15. all \in Seq(S) /\ ToSet(all) = {a, b, c} \cup ToSet(last)
  BY <1>5, <1>11, <1>14, Joints
<1>16. QED
  BY <1>2, <1>3, <1>15

LEMMA TagIs ==
  ASSUME NEW m, WrittenMember(m)
  PROVE  H!HasWimseTag(Abstract(m)) <=> m.params["tag"] = {<<WimseTag>>}
<1>1. PICK x, v, w, sr : Given(m.params, x, v, w, sr)
  BY WrittenMade DEF MemberMade
<1>2. PICK p : p = m.params
  OBVIOUS
<1>3. PICK all : all = FlattenSeq([i \in DOMAIN Order |-> Pairs(Order[i], p[Order[i]])])
  OBVIOUS
<1>4. Abstract(m).params = all
  BY <1>2, <1>3 DEF Abstract
<1>5. /\ DOMAIN all = 1..Len(all) /\ Len(all) \in Nat
      /\ ToSet(all) = {<<"created", x>>, <<"nonce", v>>, <<"tag", AbstractTag(w)>>}
                        \cup ToSet(Pairs(SignResponse, sr))
  BY <1>1, <1>2, <1>3, PairsOf
<1>6. \A pair \in ToSet(Pairs(SignResponse, sr)) : pair[1] # "tag"
  <2>1. SignResponse # "tag"
    BY DEF SignResponse
  <2>2. CASE sr = {}
    BY <2>2 DEF Pairs, ToSet
  <2>3. CASE sr # {}
    <3>1. PICK r \in BOOLEAN : sr = {r}
      BY <1>1, <2>3 DEF Given
    <3>2. PICK pair : pair = <<SignResponse, r>>
      OBVIOUS
    <3>3. Pairs(SignResponse, sr) = <<pair>>
      BY <2>1, <3>1, <3>2, OnePair
    <3>4. ToSet(<<pair>>) = {pair}
      BY DEF ToSet
    <3>5. QED
      BY <2>1, <3>2, <3>3, <3>4
  <2>4. QED
    BY <2>2, <2>3
<1>7. H!HasWimseTag(Abstract(m)) <=> \E pair \in ToSet(all) : pair[1] = "tag" /\ pair[2] = H!WIMSE_TAG
  BY <1>4 DEF H!HasWimseTag, ToSet
<1>8. (\E pair \in ToSet(all) : pair[1] = "tag" /\ pair[2] = H!WIMSE_TAG) <=> AbstractTag(w) = H!WIMSE_TAG
  <2>1. PICK a, b, c : a = <<"created", x>> /\ b = <<"nonce", v>> /\ c = <<"tag", AbstractTag(w)>>
    OBVIOUS
  <2>2. a[1] # "tag" /\ b[1] # "tag" /\ c[1] = "tag" /\ c[2] = AbstractTag(w)
    BY <2>1
  <2>3. ToSet(all) = {a, b, c} \cup ToSet(Pairs(SignResponse, sr))
    BY <1>5, <2>1
  <2>4. QED
    BY <1>6, <2>2, <2>3
<1>9. AbstractTag(w) = H!WIMSE_TAG <=> w = <<WimseTag>>
  <2>1. H!WIMSE_TAG # "another"
    BY DEF H!WIMSE_TAG
  <2>2. QED
    BY <2>1 DEF AbstractTag
<1>10. m.params["tag"] = {w}
  BY <1>1 DEF Given
<1>11. QED
  BY <1>7, <1>8, <1>9, <1>10

(***************************************************************************)
(* One or two of them read back.                                           *)
(***************************************************************************)
InputTexts(ms) ==
  [i \in DOMAIN ms |-> SignatureInput(ms[i].label, ms[i].components, ms[i].params)]
SignatureTexts(ms) == [i \in DOMAIN ms |-> Signature(ms[i].label, Base64[i])]
Abstracts(ms) == [i \in DOMAIN ms |-> Abstract(ms[i])]

EntryOf(m) == <<m.label, SerializeParamsValue(m.components, m.params)>>

EntryReads(entry, m, sigs, b) ==
  /\ entry[1] = m.label
  /\ ParseInputMember(entry[1], entry[2]) =
       {[label |-> m.label, components |-> m.components, params |-> m.params,
         paramsValue |-> SerializeParamsValue(m.components, m.params)]}
  /\ CarriesWimseTag(entry[2]) = H!HasWimseTag(Abstract(m))
  /\ ParseSignatureText(sigs, m.label) = {b}

AllRead(ms) ==
  LET sigs  == Joined(SignatureTexts(ms), <<Comma, Space>>)
      dicts == SplitDictionary(Joined(InputTexts(ms), <<Comma, Space>>))
  IN  /\ (dicts # {}) = H!DictionaryOk(Abstracts(ms))
      /\ \A dict \in dicts :
           /\ Len(dict) = Len(ms)
           /\ \A i \in DOMAIN ms : EntryReads(dict[i], ms[i], sigs, Base64[i])

LEMMA EntryBack ==
  ASSUME NEW m, WrittenMember(m), NEW e, e = EntryOf(m),
         NEW sigs, NEW b, ParseSignatureText(sigs, m.label) = {b}
  PROVE  EntryReads(e, m, sigs, b)
<1>1. MemberReads(m)
  BY WrittenMade, MadeReads
<1>2. PICK pv : pv = SerializeParamsValue(m.components, m.params)
  OBVIOUS
<1>3. e[1] = m.label /\ e[2] = pv
  BY <1>2 DEF EntryOf
<1>4. /\ ParseInputMember(m.label, pv) =
           {[label |-> m.label, paramsValue |-> pv, params |-> m.params, components |-> m.components]}
      /\ CarriesWimseTag(pv) <=> m.params["tag"] = {<<WimseTag>>}
  BY <1>1, <1>2 DEF MemberReads
<1>5. [label |-> m.label, paramsValue |-> pv, params |-> m.params, components |-> m.components] =
        [label |-> m.label, components |-> m.components, params |-> m.params, paramsValue |-> pv]
  OBVIOUS
<1>6. CarriesWimseTag(pv) <=> H!HasWimseTag(Abstract(m))
  BY <1>4, TagIs
<1>7. CarriesWimseTag(pv) \in BOOLEAN /\ H!HasWimseTag(Abstract(m)) \in BOOLEAN
  BY DEF CarriesWimseTag, H!HasWimseTag
<1>8. QED
  BY <1>2, <1>3, <1>4, <1>5, <1>6, <1>7 DEF EntryReads

LEMMA Signed64 == Base64[1] \in Plain /\ Base64[2] \in Plain
BY DEF Base64, Plain, Alphabet, Literals, DQuote, Comma, Open, Close

LEMMA InputHolds ==
  ASSUME NEW m, WrittenMember(m)
  PROVE  /\ Holds(SignatureInput(m.label, m.components, m.params), m.label,
                  SerializeParamsValue(m.components, m.params))
         /\ m.label \in Text /\ CheckedLabel(m.label)
BY WrittenMade, MadeReads DEF MemberReads, MemberMade

LEMMA OneReads ==
  ASSUME NEW m, WrittenMember(m)
  PROVE  AllRead(<<m>>)
<1>1. PICK ms : ms = <<m>>
  OBVIOUS
<1>2. DOMAIN ms = {1} /\ Len(ms) = 1 /\ ms[1] = m
  BY <1>1
<1>3. PICK inputs, sigs : inputs = InputTexts(ms) /\ sigs = SignatureTexts(ms)
  OBVIOUS
<1>4. Len(inputs) = 1 /\ Len(sigs) = 1
  <2>1. InputTexts(<<m>>) = <<SignatureInput(m.label, m.components, m.params)>>
    BY <1>1, <1>2 DEF InputTexts
  <2>2. SignatureTexts(<<m>>) = <<Signature(m.label, Base64[1])>>
    BY <1>1, <1>2 DEF SignatureTexts
  <2>3. QED
    BY <1>1, <1>3, <2>1, <2>2
<1>5. /\ inputs[1] = SignatureInput(m.label, m.components, m.params)
      /\ sigs[1] = Signature(m.label, Base64[1])
  BY <1>2, <1>3 DEF InputTexts, SignatureTexts
<1>6. PICK l, pv, b, v : /\ l = m.label /\ pv = SerializeParamsValue(m.components, m.params)
                         /\ b = Base64[1] /\ v = Wrapped(b)
  OBVIOUS
<1>7. Holds(inputs[1], l, pv)
  BY <1>5, <1>6, InputHolds
<1>8. Holds(sigs[1], l, v)
  BY <1>5, <1>6, InputHolds, Signed64, SignatureHolds
<1>9. PICK separator, field, signatures :
        separator = <<Comma, Space>> /\ field = Joined(inputs, separator) /\ signatures = Joined(sigs, separator)
  OBVIOUS
<1>10. SplitDictionary(field) = {<<<<l, pv>>>>}
  BY <1>4, <1>7, <1>9, HoldsOne
<1>11. SplitDictionary(signatures) = {<<<<l, v>>>>}
  BY <1>4, <1>8, <1>9, HoldsOne
<1>12. ParseSignatureText(signatures, l) = {b}
  <2>1. PICK d : d = <<<<l, v>>>>
    OBVIOUS
  <2>2. FoundMember(d, l) = {b}
    BY <1>6, <2>1, FoundOne
  <2>3. ParseSignatureText(signatures, l) = FoundMember(d, l)
    BY <1>11, <2>1, FoundIn
  <2>4. QED
    BY <2>2, <2>3
<1>13. PICK e : e = <<l, pv>>
  OBVIOUS
<1>14. EntryReads(e, m, signatures, b)
  BY <1>6, <1>12, <1>13, EntryBack DEF EntryOf
<1>h. PICK d : d = <<e>>
  OBVIOUS
<1>15. Len(d) = 1 /\ d[1] = e
  BY <1>h
<1>16. SplitDictionary(field) = {d}
  BY <1>10, <1>13, <1>h
<1>17. H!DictionaryOk(Abstracts(ms))
  <2>1. DOMAIN Abstracts(ms) = {1}
    BY <1>2 DEF Abstracts
  <2>2. Abstracts(ms) # <<>>
    BY <2>1
  <2>3. QED
    BY <2>1, <2>2 DEF H!DictionaryOk
<1>18. (SplitDictionary(field) # {}) = H!DictionaryOk(Abstracts(ms))
  BY <1>16, <1>17 DEF H!DictionaryOk
<1>19. AllRead(ms)
  BY <1>2, <1>3, <1>6, <1>9, <1>14, <1>15, <1>16, <1>18 DEF AllRead
<1>20. QED
  BY <1>1, <1>19

LEMMA TwoRead ==
  ASSUME NEW m, WrittenMember(m), NEW n, WrittenMember(n)
  PROVE  AllRead(<<m, n>>)
<1>1. PICK ms : ms = <<m, n>>
  OBVIOUS
<1>2. DOMAIN ms = {1, 2} /\ Len(ms) = 2 /\ ms[1] = m /\ ms[2] = n
  BY <1>1
<1>3. PICK inputs, sigs : inputs = InputTexts(ms) /\ sigs = SignatureTexts(ms)
  OBVIOUS
<1>4. Len(inputs) = 2 /\ Len(sigs) = 2
  <2>1. PICK a, c, d, f : /\ a = SignatureInput(m.label, m.components, m.params)
                          /\ c = SignatureInput(n.label, n.components, n.params)
                          /\ d = Signature(m.label, Base64[1]) /\ f = Signature(n.label, Base64[2])
    OBVIOUS
  <2>2. inputs = <<a, c>>
    <3>1. inputs = [i \in 1..2 |-> IF i = 1 THEN a ELSE c]
      BY <1>2, <1>3, <2>1 DEF InputTexts
    <3>2. QED
      BY <3>1
  <2>3. sigs = <<d, f>>
    <3>1. sigs = [i \in 1..2 |-> IF i = 1 THEN d ELSE f]
      BY <1>2, <1>3, <2>1 DEF SignatureTexts
    <3>2. QED
      BY <3>1
  <2>4. QED
    BY <2>2, <2>3
<1>5. /\ inputs[1] = SignatureInput(m.label, m.components, m.params)
      /\ inputs[2] = SignatureInput(n.label, n.components, n.params)
      /\ sigs[1] = Signature(m.label, Base64[1]) /\ sigs[2] = Signature(n.label, Base64[2])
  BY <1>2, <1>3 DEF InputTexts, SignatureTexts
<1>6. PICK l, pv, b, v : /\ l = m.label /\ pv = SerializeParamsValue(m.components, m.params)
                         /\ b = Base64[1] /\ v = Wrapped(b)
  OBVIOUS
<1>7. PICK k, pw, c, w : /\ k = n.label /\ pw = SerializeParamsValue(n.components, n.params)
                         /\ c = Base64[2] /\ w = Wrapped(c)
  OBVIOUS
<1>8. Holds(inputs[1], l, pv) /\ Holds(inputs[2], k, pw)
  BY <1>5, <1>6, <1>7, InputHolds
<1>9. Holds(sigs[1], l, v) /\ Holds(sigs[2], k, w)
  <2>1. Holds(sigs[1], l, v)
    BY <1>5, <1>6, InputHolds, Signed64, SignatureHolds
  <2>2. Holds(sigs[2], k, w)
    BY <1>5, <1>7, InputHolds, Signed64, SignatureHolds
  <2>3. QED
    BY <2>1, <2>2
<1>10. PICK field, signatures : /\ field = Joined(inputs, <<Comma, Space>>)
                                /\ signatures = Joined(sigs, <<Comma, Space>>)
  OBVIOUS
<1>11. ReadsAsTwo(field, l, pv, k, pw) /\ ReadsAsTwo(signatures, l, v, k, w)
  <2>1. ReadsAsTwo(field, l, pv, k, pw)
    BY <1>4, <1>8, <1>10, HoldsTwo
  <2>2. ReadsAsTwo(signatures, l, v, k, w)
    BY <1>4, <1>9, <1>10, HoldsTwo
  <2>3. QED
    BY <2>1, <2>2
<1>12. PICK e, f : e = <<l, pv>> /\ f = <<k, pw>>
  OBVIOUS
<1>13. PICK d : d = <<e, f>>
  OBVIOUS
<1>14. Len(d) = 2 /\ d[1] = e /\ d[2] = f
  BY <1>13
<1>15. SplitDictionary(field) = IF l = k THEN {} ELSE {d}
  BY <1>11, <1>12, <1>13 DEF ReadsAsTwo
<1>16. H!DictionaryOk(Abstracts(ms)) <=> l # k
  <2>1. PICK as : as = Abstracts(ms)
    OBVIOUS
  <2>2. DOMAIN as = {1, 2} /\ as[1].label = l /\ as[2].label = k
    BY <1>2, <1>6, <1>7, <2>1 DEF Abstracts, Abstract
  <2>3. as # <<>>
    <3>1. 1 \in DOMAIN as
      BY <2>2
    <3>2. 1 \notin DOMAIN <<>>
      OBVIOUS
    <3>3. QED
      BY <3>1, <3>2
  <2>4. QED
    BY <2>1, <2>2, <2>3 DEF H!DictionaryOk
<1>17. (SplitDictionary(field) # {}) = H!DictionaryOk(Abstracts(ms))
  BY <1>15, <1>16 DEF H!DictionaryOk
<1>18. ASSUME l # k PROVE EntryReads(e, m, signatures, b) /\ EntryReads(f, n, signatures, c)
  <2>1. PICK g : g = <<<<l, v>>, <<k, w>>>>
    OBVIOUS
  <2>2. SplitDictionary(signatures) = {g}
    BY <1>11, <1>18, <2>1 DEF ReadsAsTwo
  <2>3. FoundMember(g, l) = {b} /\ FoundMember(g, k) = {c}
    BY <1>6, <1>7, <1>18, <2>1, FoundTwo
  <2>4. ParseSignatureText(signatures, l) = {b}
    BY <2>2, <2>3, FoundIn
  <2>5. ParseSignatureText(signatures, k) = {c}
    BY <2>2, <2>3, FoundIn
  <2>6. EntryReads(e, m, signatures, b)
    BY <1>6, <1>12, <2>4, EntryBack DEF EntryOf
  <2>7. EntryReads(f, n, signatures, c)
    BY <1>7, <1>12, <2>5, EntryBack DEF EntryOf
  <2>8. QED
    BY <2>6, <2>7
<1>19. AllRead(ms)
  <2>1. ASSUME NEW dict \in SplitDictionary(field)
        PROVE  Len(dict) = Len(ms) /\ \A i \in DOMAIN ms : EntryReads(dict[i], ms[i], signatures, Base64[i])
    <3>1. dict = d /\ l # k
      BY <1>15, <2>1
    <3>2. EntryReads(dict[1], ms[1], signatures, Base64[1])
      BY <1>2, <1>6, <1>14, <1>18, <3>1
    <3>3. EntryReads(dict[2], ms[2], signatures, Base64[2])
      BY <1>2, <1>7, <1>14, <1>18, <3>1
    <3>4. QED
      BY <1>2, <1>14, <3>1, <3>2, <3>3
  <2>2. QED
    BY <1>3, <1>10, <1>17, <2>1 DEF AllRead
<1>20. QED
  BY <1>1, <1>19

(***************************************************************************)
(* And the behaviours write no others.                                     *)
(***************************************************************************)
IsFields(t) ==
  \/ \E m : WrittenMember(m) /\ t = [kind |-> "fields", members |-> <<m>>]
  \/ \E m, n : /\ WrittenMember(m) /\ WrittenMember(n)
               /\ t = [kind |-> "fields", members |-> <<m, n>>]

LEMMA FieldsRead ==
  ASSUME NEW t, IsFields(t)
  PROVE  AllRead(t.members)
<1>1. CASE \E m : WrittenMember(m) /\ t = [kind |-> "fields", members |-> <<m>>]
  BY <1>1, OneReads
<1>2. CASE \E m, n : /\ WrittenMember(m) /\ WrittenMember(n)
                   /\ t = [kind |-> "fields", members |-> <<m, n>>]
  BY <1>2, TwoRead
<1>3. QED
  BY <1>1, <1>2 DEF IsFields

LEMMA InvReads ==
  ASSUME text.kind = "fields" => IsFields(text)
  PROVE  FieldReadsBack
<1>1. FieldReadsBack <=> (text.kind = "fields" => AllRead(text.members))
  BY DEF FieldReadsBack, AllRead, InputTexts, SignatureTexts, Abstracts, EntryReads
<1>2. QED
  BY <1>1, FieldsRead

(* A token makes a value longer, a label or a name. *)
LEMMA TokenWritten ==
  ASSUME NEW s \in Text, NEW token \in Tokens
  PROVE  Append(s, token) \in Text
<1>1. token \in Alphabet
  BY TokensAssumption DEF Alphabet
<1>2. QED
  BY <1>1, AppendType DEF Text

(* The last member is replaced by another, or followed by one. *)
LEMMA FieldsGo ==
  ASSUME NEW t, IsFields(t), NEW m, WrittenMember(m)
  PROVE  /\ t.kind = "fields" /\ WrittenMember(Last(t.members))
         /\ IsFields([t EXCEPT !.members[Len(t.members)] = m])
         /\ Len(t.members) = 1 => IsFields([t EXCEPT !.members = Append(@, m)])
<1>1. ASSUME NEW a, WrittenMember(a), t = [kind |-> "fields", members |-> <<a>>]
      PROVE  /\ t.kind = "fields" /\ WrittenMember(Last(t.members))
             /\ IsFields([t EXCEPT !.members[Len(t.members)] = m])
             /\ Len(t.members) = 1 => IsFields([t EXCEPT !.members = Append(@, m)])
  <2>0. PICK ms : ms = <<a>>
    OBVIOUS
  <2>1. ms = <<a>> /\ Len(ms) = 1
    BY <2>0
  <2>2. t = [kind |-> "fields", members |-> ms]
    BY <1>1, <2>1
  <2>3. Last(ms) = a
    BY <2>1 DEF Last
  <2>4. [ms EXCEPT ![1] = m] = <<m>>
    BY <2>1
  <2>5. [t EXCEPT !.members[Len(t.members)] = m] = [kind |-> "fields", members |-> <<m>>]
    BY <2>1, <2>2, <2>4
  <2>6. Append(ms, m) = <<a, m>>
    <3>1. PICK S : S = {a, m}
      OBVIOUS
    <3>2. a \in S /\ m \in S
      BY <3>1
    <3>3. Append(<<a>>, m) = <<a, m>>
      BY <3>2, PairIs
    <3>4. QED
      BY <2>1, <3>3
  <2>7. [t EXCEPT !.members = Append(@, m)] = [kind |-> "fields", members |-> <<a, m>>]
    <3>1. [t EXCEPT !.members = Append(@, m)] = [kind |-> "fields", members |-> Append(ms, m)]
      BY <2>2
    <3>2. QED
      BY <2>6, <3>1
  <2>8. IsFields([kind |-> "fields", members |-> <<m>>])
    BY DEF IsFields
  <2>9. IsFields([kind |-> "fields", members |-> <<a, m>>])
    BY <1>1 DEF IsFields
  <2>10. QED
    BY <1>1, <2>2, <2>3, <2>5, <2>7, <2>8, <2>9
<1>2. ASSUME NEW a, WrittenMember(a), NEW b, WrittenMember(b),
             t = [kind |-> "fields", members |-> <<a, b>>]
      PROVE  /\ t.kind = "fields" /\ WrittenMember(Last(t.members))
             /\ IsFields([t EXCEPT !.members[Len(t.members)] = m])
             /\ Len(t.members) # 1
  <2>0. PICK ms : ms = <<a, b>>
    OBVIOUS
  <2>1. ms = <<a, b>> /\ Len(ms) = 2
    BY <2>0
  <2>2. t = [kind |-> "fields", members |-> ms]
    BY <1>2, <2>1
  <2>3. Last(ms) = b
    BY <2>1 DEF Last
  <2>4. [ms EXCEPT ![2] = m] = <<a, m>>
    BY <2>1
  <2>5. [t EXCEPT !.members[Len(t.members)] = m] = [kind |-> "fields", members |-> <<a, m>>]
    BY <2>1, <2>2, <2>4
  <2>6. IsFields([kind |-> "fields", members |-> <<a, m>>])
    BY <1>2 DEF IsFields
  <2>7. QED
    BY <1>2, <2>1, <2>2, <2>3, <2>5, <2>6
<1>3. QED
  BY <1>1, <1>2 DEF IsFields

LEMMA ValueGrown ==
  ASSUME NEW m, WrittenMember(m), NEW token \in Tokens, NEW n \in {"nonce", "tag"}
  PROVE  WrittenMember([m EXCEPT !.params[n] = {Append(v, token) : v \in @}])
<1>1. PICK label, name, v, w, sr : GivenMember(m, label, name, v, w, sr)
  BY DEF WrittenMember
<1>c. PICK cs, p : /\ cs = <<[name |-> <<"@method">>, req |-> FALSE], [name |-> <<"@path">>, req |-> TRUE],
                         [name |-> name, req |-> FALSE]>>
                  /\ p = Params({"5"}, v, w, sr)
  OBVIOUS
<1>2. m = [label |-> label, components |-> cs, params |-> p] /\ p = Params({"5"}, v, w, sr)
  BY <1>1, <1>c DEF GivenMember, Signed
<1>3. PICK x, y : x = (IF n = "nonce" THEN Append(v, token) ELSE v) /\ y = (IF n = "tag" THEN Append(w, token) ELSE w)
  OBVIOUS
<1>4. x \in Text /\ y \in Text
  <2>1. v \in Text /\ w \in Text
    BY <1>1 DEF GivenMember
  <2>2. Append(v, token) \in Text /\ Append(w, token) \in Text
    BY <2>1, TokenWritten
  <2>3. QED
    BY <1>3, <2>1, <2>2
<1>5. PICK q : q = Params({"5"}, x, y, sr)
  OBVIOUS
<1>6. PICK values : values = {Append(u, token) : u \in p[n]}
  OBVIOUS
<1>7. [p EXCEPT ![n] = values] = q
  <2>1. /\ p = [i \in ToSet(Order) |-> p[i]]
        /\ p["created"] = {"5"} /\ p["nonce"] = {v} /\ p["tag"] = {w} /\ p[SignResponse] = sr
        /\ \A i \in ToSet(Order) \ {"created", "nonce", "tag", SignResponse} : p[i] = {}
    BY <1>2, ParamsAre
  <2>2. /\ q = [i \in ToSet(Order) |-> q[i]]
        /\ q["created"] = {"5"} /\ q["nonce"] = {x} /\ q["tag"] = {y} /\ q[SignResponse] = sr
        /\ \A i \in ToSet(Order) \ {"created", "nonce", "tag", SignResponse} : q[i] = {}
    BY <1>5, ParamsAre
  <2>3. values = q[n]
    <3>1. CASE n = "nonce"
      <4>1. values = {Append(u, token) : u \in {v}}
        BY <1>6, <2>1, <3>1
      <4>2. {Append(u, token) : u \in {v}} = {Append(v, token)}
        OBVIOUS
      <4>3. QED
        BY <1>3, <2>2, <3>1, <4>1, <4>2
    <3>2. CASE n = "tag"
      <4>1. values = {Append(u, token) : u \in {w}}
        BY <1>6, <2>1, <3>2
      <4>2. {Append(u, token) : u \in {w}} = {Append(w, token)}
        OBVIOUS
      <4>3. QED
        BY <1>3, <2>2, <3>2, <4>1, <4>2
    <3>3. QED
      BY <3>1, <3>2
  <2>4. ASSUME NEW i \in ToSet(Order), i # n PROVE p[i] = q[i]
    <3>1. CASE i = "nonce"
      BY <1>3, <2>1, <2>2, <2>4, <3>1
    <3>2. CASE i = "tag"
      BY <1>3, <2>1, <2>2, <2>4, <3>2
    <3>3. CASE i \notin {"nonce", "tag"}
      BY <2>1, <2>2, <3>3
    <3>4. QED
      BY <3>1, <3>2, <3>3
  <2>5. \A i \in ToSet(Order) : [p EXCEPT ![n] = values][i] = q[i]
    BY <2>1, <2>3, <2>4
  <2>6. [p EXCEPT ![n] = values] = [i \in ToSet(Order) |-> [p EXCEPT ![n] = values][i]]
    BY <2>1
  <2>7. QED
    BY <2>2, <2>5, <2>6
<1>8. [m EXCEPT !.params[n] = {Append(u, token) : u \in @}] =
        [label |-> label, components |-> cs, params |-> [p EXCEPT ![n] = values]]
  <2>1. m.params = p
    BY <1>2
  <2>2. {Append(u, token) : u \in m.params[n]} = values
    BY <1>6, <2>1
  <2>3. [m EXCEPT !.params[n] = {Append(u, token) : u \in @}] = [m EXCEPT !.params[n] = values]
    BY <2>2
  <2>4. [m EXCEPT !.params[n] = values] =
          [label |-> label, components |-> cs, params |-> [p EXCEPT ![n] = values]]
    BY <1>2
  <2>5. QED
    BY <2>3, <2>4
<1>9. [label |-> label, components |-> cs, params |-> q] = Signed(label, name, x, y, sr)
  BY <1>c, <1>5 DEF Signed
<1>10. GivenMember([m EXCEPT !.params[n] = {Append(u, token) : u \in @}], label, name, x, y, sr)
  BY <1>1, <1>4, <1>7, <1>8, <1>9 DEF GivenMember
<1>11. QED
  BY <1>10 DEF WrittenMember

LEMMA LabelGrown ==
  ASSUME NEW m, WrittenMember(m), NEW token \in Tokens, CheckedLabel(Append(m.label, token))
  PROVE  WrittenMember([m EXCEPT !.label = Append(@, token)])
<1>1. PICK label, name, v, w, sr : GivenMember(m, label, name, v, w, sr)
  BY DEF WrittenMember
<1>c. PICK cs, p : /\ cs = <<[name |-> <<"@method">>, req |-> FALSE], [name |-> <<"@path">>, req |-> TRUE],
                         [name |-> name, req |-> FALSE]>>
                  /\ p = Params({"5"}, v, w, sr)
  OBVIOUS
<1>2. m = [label |-> label, components |-> cs, params |-> p]
  BY <1>1, <1>c DEF GivenMember, Signed
<1>3. PICK longer : longer = Append(label, token)
  OBVIOUS
<1>4. longer \in Text /\ CheckedLabel(longer)
  <2>1. label \in Text
    BY <1>1 DEF GivenMember
  <2>2. m.label = label
    BY <1>2
  <2>3. QED
    BY <1>3, <2>1, <2>2, TokenWritten
<1>5. [m EXCEPT !.label = Append(@, token)] = [label |-> longer, components |-> cs, params |-> p]
  <2>1. Append(m.label, token) = longer
    BY <1>2, <1>3
  <2>2. [m EXCEPT !.label = Append(@, token)] = [m EXCEPT !.label = longer]
    BY <2>1
  <2>3. [m EXCEPT !.label = longer] = [label |-> longer, components |-> cs, params |-> p]
    BY <1>2
  <2>4. QED
    BY <2>2, <2>3
<1>6. [label |-> longer, components |-> cs, params |-> p] = Signed(longer, name, v, w, sr)
  BY <1>c DEF Signed
<1>7. GivenMember([m EXCEPT !.label = Append(@, token)], longer, name, v, w, sr)
  BY <1>1, <1>4, <1>5, <1>6 DEF GivenMember
<1>8. QED
  BY <1>7 DEF WrittenMember

LEMMA NameGrown ==
  ASSUME NEW m, WrittenMember(m), NEW token \in Tokens,
         IsValidHeaderName(Append(m.components[3].name, token))
  PROVE  WrittenMember([m EXCEPT !.components[3].name = Append(@, token)])
<1>1. PICK label, name, v, w, sr : GivenMember(m, label, name, v, w, sr)
  BY DEF WrittenMember
<1>2. PICK a, b, c : /\ a = [name |-> <<"@method">>, req |-> FALSE]
                     /\ b = [name |-> <<"@path">>, req |-> TRUE]
                     /\ c = [name |-> name, req |-> FALSE]
  OBVIOUS
<1>3. PICK p, cs : p = Params({"5"}, v, w, sr) /\ cs = <<a, b, c>>
  OBVIOUS
<1>4. m = [label |-> label, components |-> cs, params |-> p]
  BY <1>1, <1>2, <1>3 DEF GivenMember, Signed
<1>5. PICK longer, d : longer = Append(name, token) /\ d = [name |-> longer, req |-> FALSE]
  OBVIOUS
<1>6. m.components[3].name = name
  BY <1>2, <1>3, <1>4
<1>7. longer \in Text /\ IsValidHeaderName(longer)
  <2>1. name \in Text
    BY <1>1 DEF GivenMember
  <2>2. QED
    BY <1>5, <1>6, <2>1, TokenWritten
<1>8. [m EXCEPT !.components[3].name = Append(@, token)] = [m EXCEPT !.components[3].name = longer]
  BY <1>5, <1>6
<1>9. [m EXCEPT !.components[3].name = longer] =
        [label |-> label, components |-> <<a, b, d>>, params |-> p]
  <2>1. [c EXCEPT !.name = longer] = d
    <3>1. PICK r : r = FALSE
      OBVIOUS
    <3>2. c = [name |-> name, req |-> r] /\ d = [name |-> longer, req |-> r]
      BY <1>2, <1>5, <3>1
    <3>3. QED
      BY <3>2
  <2>2. [cs EXCEPT ![3] = d] = <<a, b, d>> /\ cs[3] = c
    BY <1>3
  <2>3. [cs EXCEPT ![3].name = longer] = <<a, b, d>>
    BY <2>1, <2>2
  <2>4. [m EXCEPT !.components[3].name = longer] =
          [label |-> label, components |-> [cs EXCEPT ![3].name = longer], params |-> p]
    BY <1>4
  <2>5. QED
    BY <2>3, <2>4
<1>10. [label |-> label, components |-> <<a, b, d>>, params |-> p] = Signed(label, longer, v, w, sr)
  BY <1>2, <1>3, <1>5 DEF Signed
<1>11. GivenMember([m EXCEPT !.components[3].name = Append(@, token)], label, longer, v, w, sr)
  BY <1>1, <1>7, <1>8, <1>9, <1>10 DEF GivenMember
<1>12. QED
  BY <1>11 DEF WrittenMember

LEMMA MemberFresh ==
  ASSUME NEW label \in {"a", "*"}, NEW sr \in {{}, {TRUE}, {FALSE}}
  PROVE  WrittenMember(Member(label, sr))
<1>1. PICK l, name, v : l = <<label>> /\ name = <<"a">> /\ v = <<>>
  OBVIOUS
<1>2. Member(label, sr) = Signed(l, name, v, v, sr)
  BY <1>1 DEF Member, Signed, Name
<1>3. "a" \in Alphabet /\ "*" \in Alphabet
  BY DEF Alphabet, Literals, Marks
<1>4. l \in Text /\ name \in Text /\ v \in Text
  BY <1>1, <1>3, OneChar, EmptyText
<1>5. ToSet(l) = {label} /\ ToSet(name) = {"a"} /\ l[1] = label /\ l # <<>> /\ name # <<>>
  BY <1>1 DEF ToSet
<1>6. label \in LowerWords \cup {"*"} /\ "*" \in Marks /\ "a" \in LowerWords
  BY TokensAssumption DEF Marks
<1>7. CheckedLabel(l) /\ IsValidHeaderName(name)
  BY <1>5, <1>6 DEF CheckedLabel, IsValidHeaderName
<1>8. GivenMember(Member(label, sr), l, name, v, v, sr)
  BY <1>2, <1>4, <1>7 DEF GivenMember
<1>9. QED
  BY <1>8 DEF WrittenMember

(* What is written when a behaviour begins, and with each of its steps. *)
LEMMA FieldsBegin ==
  ASSUME NEW sr \in {{TRUE}, {FALSE}}, NEW t, t = [kind |-> "fields", members |-> <<Member("a", sr)>>]
  PROVE  t.kind = "fields" /\ IsFields(t)
<1>1. WrittenMember(Member("a", sr))
  BY MemberFresh
<1>2. QED
  BY <1>1 DEF IsFields

LEMMA FieldsStep ==
  ASSUME IsFields(text), AppendToValue \/ AppendToLabel \/ AppendToName \/ SecondMember
  PROVE  IsFields(text')
<1>1. PICK t : t = text /\ IsFields(t)
  OBVIOUS
<1>2. WrittenMember(Last(t.members))
  <2>1. PICK m : WrittenMember(m)
    BY <1>1 DEF IsFields
  <2>2. QED
    BY <1>1, <2>1, FieldsGo
<1>3. PICK m : m = Last(t.members) /\ WrittenMember(m)
  BY <1>2
<1>4. ASSUME NEW edited, WrittenMember(edited), Writing(edited) PROVE IsFields(text')
  BY <1>1, <1>4, FieldsGo DEF Writing, Grow
<1>5. CASE AppendToValue
  <2>1. PICK token \in Tokens, n \in {"nonce", "tag"} :
          Writing([m EXCEPT !.params[n] = {Append(v, token) : v \in @}])
    BY <1>1, <1>3, <1>5 DEF AppendToValue
  <2>2. QED
    BY <1>3, <1>4, <2>1, ValueGrown
<1>6. CASE AppendToLabel
  <2>1. PICK token \in Tokens :
          CheckedLabel(Append(m.label, token)) /\ Writing([m EXCEPT !.label = Append(@, token)])
    BY <1>1, <1>3, <1>6 DEF AppendToLabel
  <2>2. QED
    BY <1>3, <1>4, <2>1, LabelGrown
<1>7. CASE AppendToName
  <2>1. PICK token \in Tokens :
          /\ IsValidHeaderName(Append(m.components[3].name, token))
          /\ Writing([m EXCEPT !.components[3].name = Append(@, token)])
    BY <1>1, <1>3, <1>7 DEF AppendToName
  <2>2. QED
    BY <1>3, <1>4, <2>1, NameGrown
<1>8. CASE SecondMember
  <2>1. PICK label \in {"a", "*"} : text' = [text EXCEPT !.members = Append(@, Member(label, {}))]
    BY <1>8 DEF SecondMember
  <2>2. Len(t.members) = 1
    BY <1>1, <1>8 DEF SecondMember
  <2>3. WrittenMember(Member(label, {}))
    BY MemberFresh
  <2>4. QED
    BY <1>1, <2>1, <2>2, <2>3, FieldsGo
<1>9. QED
  BY <1>5, <1>6, <1>7, <1>8

-----------------------------------------------------------------------------
(***************************************************************************)
(* The behaviours of Texts.                                                *)
(***************************************************************************)
(* A signature and octets, the ones it is written in until they are edited. *)
IsDer(t, n) ==
  /\ t = [kind |-> "der", raw |-> t.raw, octets |-> t.octets]
  /\ t.raw \in Seq(Nat) /\ Len(t.raw) = 2 * Half
  /\ t.octets \in Seq(Nat)
  /\ n \in 0..MaxEdits
  /\ n = MaxEdits => t.octets = ToDer(t.raw)

(* What each of the two commands was told. *)
IsTold(t) ==
  t = [kind |-> "request", sides |-> t.sides] /\ t.sides \in [{Signer, Verifier} -> ArgumentsType]

Inv ==
  /\ "kind" \in DOMAIN text
  /\ text.kind = "identifier" => "octets" \in DOMAIN text /\ text.octets \in Octs
  /\ text.kind = "der" => IsDer(text, left)
  /\ text.kind = "request" => IsTold(text)
  /\ text.kind = "fields" => IsFields(text)

LEMMA FiveItems ==
  ASSUME NEW S, NEW a \in S, NEW b \in S, NEW c \in S, NEW d \in S, NEW e \in S
  PROVE  <<a, b, c, d, e>> \in Seq(S)
OBVIOUS

LEMMA ArgumentsOf ==
  ASSUME NEW method \in {"a", "CONNECT"}, NEW query \in {<<>>, <<"a">>},
         NEW cover \in {<<>>, OtherOrder}
  PROVE  Arguments(method, query, cover) \in ArgumentsType
<1>1. /\ "a" \in Alphabet /\ "CONNECT" \in Alphabet /\ "/" \in Alphabet /\ ":" \in Alphabet
      /\ "content-type" \in Alphabet /\ "," \in Alphabet /\ "@METHOD" \in Alphabet
      /\ "@query" \in Alphabet /\ "@path" \in Alphabet /\ "@authority" \in Alphabet
  BY DEF Alphabet, Literals
<1>2. <<method>> \in Text /\ <<"a">> \in Text /\ <<"/">> \in Text /\ query \in Text
  BY <1>1, OneItem, EmptyText DEF Text
<1>3. <<<<"content-type", ":">>>> \in Seq(Text)
  <2> DEFINE field == <<"content-type", ":">>
  <2>1. field \in Text
    BY <1>1, TwoItems DEF Text
  <2> HIDE DEF field
  <2>2. <<field>> \in Seq(Text)
    BY <2>1, OneItem
  <2>3. QED
    BY <2>2 DEF field
<1>4. cover \in Text
  <2>1. OtherOrder \in Text
    <3>1. Space \in Alphabet
      BY Characters
    <3>2. <<"@METHOD", ",", "@query", ",", Space>> \in Seq(Alphabet)
      BY <1>1, <3>1, FiveItems
    <3>3. <<"@path", ",", "@authority", ",", "content-type">> \in Seq(Alphabet)
      BY <1>1, FiveItems
    <3>4. QED
      BY <3>2, <3>3, TextConcat DEF OtherOrder, Text
  <2>2. QED
    BY <2>1, EmptyText
<1>5. QED
  BY <1>2, <1>3, <1>4 DEF Arguments, ArgumentsType

LEMMA RawAreNumbers == \A o \in RawOctets : o \in Nat
BY TextsAssumption

LEMMA Written == Init => Inv
<1> SUFFICES ASSUME Init PROVE Inv
  OBVIOUS
<1>1. ASSUME NEW scheme \in ToSet(Schemes),
             text = [kind |-> "identifier", octets |-> PrefixOf[scheme]]
      PROVE  Inv
  <2>1. PrefixOf[scheme] \in Octs
    BY PrefixType
  <2>2. /\ text.octets \in Octs /\ text.kind = "identifier"
        /\ "kind" \in DOMAIN text /\ "octets" \in DOMAIN text
    BY <1>1, <2>1
  <2>3. QED
    BY <2>2 DEF Inv
<1>2. ASSUME NEW signResponse \in {{TRUE}, {FALSE}},
             text = [kind |-> "fields", members |-> <<Member("a", signResponse)>>]
      PROVE  Inv
  <2>1. text.kind = "fields" /\ IsFields(text)
    BY <1>2, FieldsBegin
  <2>2. "kind" \in DOMAIN text
    BY <1>2
  <2>3. QED
    BY <2>1, <2>2 DEF Inv
<1>3. ASSUME NEW method \in {"a", "CONNECT"}, NEW query \in {<<>>, <<"a">>},
             NEW cover \in {<<>>, OtherOrder},
             text = [kind |-> "request",
                     sides |-> <<Arguments(method, query, cover), Arguments(method, query, <<>>)>>]
      PROVE  Inv
  <2> DEFINE a == Arguments(method, query, cover)
             b == Arguments(method, query, <<>>)
  <2>1. a \in ArgumentsType /\ b \in ArgumentsType
    BY ArgumentsOf
  <2>1a. text = [kind |-> "request", sides |-> <<a, b>>]
    BY <1>3
  <2> HIDE DEF a, b
  <2>2. <<a, b>> \in [{Signer, Verifier} -> ArgumentsType]
    BY <2>1 DEF Signer, Verifier
  <2> DEFINE sides == <<a, b>>
  <2>3. text = [kind |-> "request", sides |-> sides] /\ sides \in [{Signer, Verifier} -> ArgumentsType]
    BY <2>1a, <2>2
  <2> HIDE DEF sides
  <2>4. text.kind = "request" /\ text.sides = sides /\ "kind" \in DOMAIN text
    BY <2>3
  <2>5. QED
    BY <2>3, <2>4 DEF Inv, IsTold
<1>4. ASSUME NEW raw \in [1..2 * Half -> RawOctets],
             text = [kind |-> "der", raw |-> raw, octets |-> ToDer(raw)], left = MaxEdits
      PROVE  Inv
  <2>1. raw \in Seq(Nat) /\ Len(raw) = 2 * Half
    <3>1. \A o \in RawOctets : o \in Nat
      BY RawAreNumbers, Zenon
    <3> DEFINE k == 2 * Half
    <3>2. k \in Nat
      BY HalfAssumption
    <3> HIDE DEF k
    <3>3. raw \in [1..k -> RawOctets]
      BY DEF k
    <3>4. raw \in [1..k -> Nat]
      BY <3>1, <3>3
    <3>5. raw \in Seq(Nat) /\ Len(raw) = k
      BY <3>2, <3>4
    <3>6. QED
      BY <3>5 DEF k
  <2>2. ToDer(raw) \in Seq(Nat)
    BY <2>1, FromTo
  <2>3. MaxEdits \in 0..MaxEdits
    BY TextsAssumption
  <2>4. QED
    BY <1>4, <2>1, <2>2, <2>3 DEF Inv, IsDer
<1>5. QED
  BY <1>1, <1>2, <1>3, <1>4 DEF Init

(* Octets stay octets when one is replaced, put in or taken out. *)
LEMMA Edited ==
  ASSUME NEW s \in Seq(Nat), NEW i \in DOMAIN s, NEW o \in Nat
  PROVE  /\ [s EXCEPT ![i] = o] \in Seq(Nat)
         /\ InsertAt(s, i, o) \in Seq(Nat)
         /\ RemoveAt(s, i) \in Seq(Nat)
<1>1. i \in 1..Len(s) /\ i \in Int /\ Len(s) \in Nat /\ \A j \in 1..Len(s) : s[j] \in Nat
  OBVIOUS
<1>2. [s EXCEPT ![i] = o] \in Seq(Nat)
  OBVIOUS
<1>3. SubSeq(s, 1, i - 1) \in Seq(Nat)
  <2>1. \A j \in 1..i - 1 : s[j] \in Nat
    BY <1>1
  <2>2. QED
    BY <1>1, <2>1, SubSeqProperties
<1>4. SubSeq(s, i, Len(s)) \in Seq(Nat)
  <2>1. \A j \in i..Len(s) : s[j] \in Nat
    BY <1>1
  <2>2. QED
    BY <1>1, <2>1, SubSeqProperties
<1>5. SubSeq(s, i + 1, Len(s)) \in Seq(Nat)
  <2>1. \A j \in i + 1..Len(s) : s[j] \in Nat
    BY <1>1
  <2>2. QED
    BY <1>1, <2>1, SubSeqProperties
<1>6. <<o>> \in Seq(Nat)
  OBVIOUS
<1>7. SubSeq(s, 1, i - 1) \o <<o>> \in Seq(Nat)
  BY <1>3, <1>6, PutTogether
<1>8. InsertAt(s, i, o) \in Seq(Nat)
  BY <1>4, <1>7, PutTogether DEF InsertAt
<1>9. RemoveAt(s, i) \in Seq(Nat)
  BY <1>3, <1>5, PutTogether DEF RemoveAt
<1>10. QED
  BY <1>2, <1>8, <1>9

LEMMA PiecesAreTexts == \A piece \in ArgumentPieces : piece \in Text
<1>1. \A s \in Seq(STRING) : s \in Seq(Alphabet)
  <2> SUFFICES ASSUME NEW s \in Seq(STRING) PROVE s \in Seq(Alphabet)
    OBVIOUS
  <2>1. s \in [1..Len(s) -> STRING] /\ Len(s) \in Nat
    OBVIOUS
  <2>2. s \in [1..Len(s) -> Alphabet]
    BY <2>1 DEF Alphabet
  <2>3. QED
    BY <2>1, <2>2, AsSequence
<1>2. QED
  BY <1>1, ArgumentsAssumption DEF Text

LEMMA PiecesAreOctets == \A piece \in Pieces : piece \in Octs
<1>1. ASSUME NEW S, S \subseteq Nat, NEW piece \in Seq(S) PROVE piece \in Seq(Nat)
  <2>1. piece \in [1..Len(piece) -> S] /\ Len(piece) \in Nat
    OBVIOUS
  <2>2. piece \in [1..Len(piece) -> Nat]
    BY <1>1, <2>1
  <2>3. QED
    BY <2>1, <2>2, AsSequence
<1>2. 0..255 \subseteq Nat
  OBVIOUS
<1>3. QED
  BY <1>1, <1>2, PiecesAssumption DEF Octs

LEMMA KeptByEdits == Inv /\ [Next]_textVars => Inv'
<1> SUFFICES ASSUME Inv, [Next]_textVars PROVE Inv'
  OBVIOUS
<1>1. CASE UNCHANGED textVars
  BY <1>1 DEF textVars, Inv, IsDer, IsTold
<1>2. ASSUME text.kind = "fields", AppendToValue \/ AppendToLabel \/ AppendToName \/ SecondMember
      PROVE  Inv'
  <2>1. IsFields(text)
    BY <1>2 DEF Inv
  <2>2. PICK t : t = text' /\ IsFields(t)
    BY <1>2, <2>1, FieldsStep
  <2>3. t.kind = "fields" /\ "kind" \in DOMAIN t
    BY <2>2 DEF IsFields
  <2>4. QED
    BY <2>2, <2>3 DEF Inv
<1>2a. ASSUME text.kind = "request", NEW side \in {Signer, Verifier}, NEW told \in ArgumentsType,
              text' = [text EXCEPT !.sides[side] = told]
       PROVE  Inv'
  <2>1. PICK sides \in [{Signer, Verifier} -> ArgumentsType] : text = [kind |-> "request", sides |-> sides]
    BY <1>2a DEF Inv, IsTold
  <2>2. text' = [kind |-> "request", sides |-> [sides EXCEPT ![side] = told]]
    BY <1>2a, <2>1
  <2>3. [sides EXCEPT ![side] = told] \in [{Signer, Verifier} -> ArgumentsType]
    BY <1>2a
  <2>4. QED
    BY <2>2, <2>3 DEF Inv, IsTold
<1>3. CASE AppendPiece
  <2>1. PICK piece \in Pieces : text' = [text EXCEPT !.octets = @ \o piece]
    BY <1>3 DEF AppendPiece, Grow
  <2>2. text.octets \in Octs /\ text.kind = "identifier" /\ "octets" \in DOMAIN text
    BY <1>3 DEF AppendPiece, Inv
  <2>3. piece \in Octs
    BY PiecesAreOctets
  <2>4. text.octets \o piece \in Octs
    BY <2>2, <2>3, Concatenated DEF Octs
  <2>5. "kind" \in DOMAIN text' /\ "octets" \in DOMAIN text' /\ text'.kind = "identifier"
    BY <2>1, <2>2 DEF Inv
  <2>6. text'.octets \in Octs
    BY <2>1, <2>2, <2>4
  <2>7. QED
    BY <2>5, <2>6 DEF Inv
<1>4. CASE AppendToValue
  BY <1>2, <1>4 DEF AppendToValue
<1>5. CASE AppendToLabel
  BY <1>2, <1>5 DEF AppendToLabel
<1>6. CASE AppendToName
  BY <1>2, <1>6 DEF AppendToName
<1>7. CASE SecondMember
  BY <1>2, <1>7 DEF SecondMember
<1>8. CASE AppendToArgument
  <2>1. PICK side \in {Signer, Verifier}, n \in {"method", "authority", "path", "query"},
             piece \in ArgumentPieces : text' = [text EXCEPT !.sides[side][n] = @ \o piece]
    BY <1>8 DEF AppendToArgument, Grow
  <2>2. text.kind = "request" /\ IsTold(text)
    BY <1>8 DEF AppendToArgument, Inv
  <2> DEFINE told == text.sides[side]
  <2>3. told \in ArgumentsType
    BY <2>2 DEF IsTold
  <2>4. [told EXCEPT ![n] = @ \o piece] \in ArgumentsType
    <3> HIDE DEF told
    <3>1. piece \in Text
      BY PiecesAreTexts
    <3>2. told[n] \in Text
      BY <2>3 DEF ArgumentsType
    <3>3. told[n] \o piece \in Text
      BY <3>1, <3>2, TextConcat
    <3>4. QED
      BY <2>3, <3>3 DEF ArgumentsType
  <2>5. text' = [text EXCEPT !.sides[side] = [told EXCEPT ![n] = @ \o piece]]
    BY <2>1, <2>2 DEF IsTold
  <2> HIDE DEF told
  <2>6. QED
    BY <1>2a, <2>2, <2>4, <2>5
<1>9. CASE AppendToHeader
  <2>1. PICK side \in {Signer, Verifier}, piece \in ArgumentPieces :
          text' = [text EXCEPT !.sides[side].headers[Len(text.sides[side].headers)] = @ \o piece]
    BY <1>9 DEF AppendToHeader, Grow
  <2>2. text.kind = "request" /\ IsTold(text)
    BY <1>9 DEF AppendToHeader, Inv
  <2> DEFINE told == text.sides[side]
             fields == told.headers
             more == [fields EXCEPT ![Len(fields)] = @ \o piece]
  <2>3. told \in ArgumentsType
    BY <2>2 DEF IsTold
  <2>4. more \in Seq(Text)
    <3>1. fields \in Seq(Text) /\ piece \in Text
      BY <2>3, PiecesAreTexts DEF ArgumentsType
    <3> HIDE DEF fields
    <3>2. Len(fields) \in DOMAIN fields => fields[Len(fields)] \o piece \in Text
      <4>1. Len(fields) \in DOMAIN fields => fields[Len(fields)] \in Text
        BY <3>1
      <4>2. QED
        BY <3>1, <4>1, TextConcat
    <3> DEFINE longer == fields[Len(fields)] \o piece
    <3>3. more = [fields EXCEPT ![Len(fields)] = longer]
      OBVIOUS
    <3> HIDE DEF longer, more
    <3>4. [fields EXCEPT ![Len(fields)] = longer] \in Seq(Text)
      BY <3>1, <3>2, ExceptType DEF longer
    <3>5. QED
      BY <3>3, <3>4
  <2>5. text' = [text EXCEPT !.sides[side] = [told EXCEPT !.headers = more]]
    BY <2>1, <2>2 DEF IsTold
  <2>6. [told EXCEPT !.headers = more] \in ArgumentsType
    <3> HIDE DEF told, more
    <3>1. QED
      BY <2>3, <2>4 DEF ArgumentsType
  <2> HIDE DEF told, more
  <2>7. QED
    BY <1>2a, <2>2, <2>5, <2>6
<1>10. CASE RepeatHeader
  <2> DEFINE field == <<"Content-Type", Space, ":">>
  <2>1. PICK side \in {Signer, Verifier} :
          text' = [text EXCEPT !.sides[side].headers = Append(@, field)]
    BY <1>10 DEF RepeatHeader, Grow
  <2>2. text.kind = "request" /\ IsTold(text)
    BY <1>10 DEF RepeatHeader, Inv
  <2> DEFINE told == text.sides[side]
             fields == told.headers
             more == Append(fields, field)
  <2>3. told \in ArgumentsType
    BY <2>2 DEF IsTold
  <2>4. field \in Text
    <3>1. "Content-Type" \in Alphabet /\ ":" \in Alphabet
      BY DEF Alphabet, Literals
    <3>2. QED
      BY <3>1, Characters DEF Text
  <2> HIDE DEF field
  <2>5. more \in Seq(Text)
    <3>1. fields \in Seq(Text)
      BY <2>3 DEF ArgumentsType
    <3> HIDE DEF fields
    <3>2. QED
      BY <2>4, <3>1, AppendType
  <2>6. text' = [text EXCEPT !.sides[side] = [told EXCEPT !.headers = more]]
    BY <2>1, <2>2 DEF IsTold
  <2>7. [told EXCEPT !.headers = more] \in ArgumentsType
    <3> HIDE DEF told, more
    <3>1. QED
      BY <2>3, <2>5 DEF ArgumentsType
  <2> HIDE DEF told, more
  <2>8. QED
    BY <1>2a, <2>2, <2>6, <2>7
<1>11. CASE EditOctet
  <2>1. IsDer(text, left)
    BY <1>11 DEF EditOctet, Inv
  <2>2. PICK i \in DOMAIN text.octets, o \in DerOctets :
          \/ Grow([text EXCEPT !.octets[i] = o])
          \/ Grow([text EXCEPT !.octets = InsertAt(@, i, o)])
          \/ Grow([text EXCEPT !.octets = RemoveAt(@, i)])
    BY <1>11 DEF EditOctet
  <2>3. o \in Nat
    BY TextsAssumption
  <2>4. PICK next \in Seq(Nat) : text' = [text EXCEPT !.octets = next] /\ left > 0 /\ left' = left - 1
    <3> DEFINE s == text.octets
    <3>1. /\ [s EXCEPT ![i] = o] \in Seq(Nat)
          /\ InsertAt(s, i, o) \in Seq(Nat)
          /\ RemoveAt(s, i) \in Seq(Nat)
      BY <2>1, <2>3, Edited DEF IsDer
    <3>2. CASE Grow([text EXCEPT !.octets[i] = o])
      BY <3>1, <3>2 DEF Grow
    <3>3. CASE Grow([text EXCEPT !.octets = InsertAt(@, i, o)])
      BY <3>1, <3>3 DEF Grow
    <3>4. CASE Grow([text EXCEPT !.octets = RemoveAt(@, i)])
      BY <3>1, <3>4 DEF Grow
    <3>5. QED
      BY <2>2, <3>2, <3>3, <3>4
  <2>5. text' = [kind |-> "der", raw |-> text.raw, octets |-> next]
    <3>1. PICK raw, old : text = [kind |-> "der", raw |-> raw, octets |-> old]
      BY <2>1 DEF IsDer
    <3>2. text' = [kind |-> "der", raw |-> raw, octets |-> next]
      BY <2>4, <3>1
    <3>3. text.raw = raw
      BY <3>1
    <3>4. QED
      BY <3>2, <3>3
  <2>6. left' \in 0..MaxEdits /\ left' # MaxEdits
    BY <2>1, <2>4, TextsAssumption DEF IsDer
  <2>7. text'.kind = "der" /\ "kind" \in DOMAIN text' /\ text'.raw = text.raw /\ text'.octets = next
    BY <2>5
  <2>8. IsDer(text, left)'
    BY <2>1, <2>5, <2>6, <2>7 DEF IsDer
  <2>9. QED
    BY <2>7, <2>8 DEF Inv
<1>12. QED
  BY <1>1, <1>3, <1>4, <1>5, <1>6, <1>7, <1>8, <1>9, <1>10, <1>11 DEF Next

LEMMA InvBinds == Inv => TextBindsRequest
<1> SUFFICES ASSUME Inv, text.kind = "request" PROVE TextBindsRequest
  BY DEF TextBindsRequest
<1> DEFINE s == text.sides[Signer]
           v == text.sides[Verifier]
<1>1. s \in ArgumentsType /\ v \in ArgumentsType
  BY DEF Inv, IsTold
<1>2. TextBindsRequest <=>
        (~ManyMarks(s) /\ ~ManyMarks(v) =>
         \A signed \in BuildRequest(s), received \in BuildRequest(v) :
           \A cs \in Covered(s, signed) :
             \A b1 \in BaseText(signed, cs, SerializeParamsValue(cs, SignedParams)),
                b2 \in BaseText(received, cs, SerializeParamsValue(cs, SignedParams)) :
               b1 = b2 <=>
                 \A i \in DOMAIN cs : Meant(s, signed, cs[i].name) = Meant(v, received, cs[i].name))
  BY DEF TextBindsRequest, SignedParams
<1> HIDE DEF s, v
<1>3. QED
  BY <1>1, <1>2, Binds

LEMMA InvReadsBack == Inv => DerReadsBack
<1> SUFFICES ASSUME Inv, text.kind = "der" PROVE DerReadsBack
  BY DEF DerReadsBack
<1>1. IsDer(text, left)
  BY DEF Inv
<1>2. ASSUME left = MaxEdits PROVE FromDer(text.octets) = {text.raw}
  BY <1>1, <1>2, FromTo DEF IsDer
<1>3. ASSUME NEW raw \in FromDer(text.octets), ~Negative(text.octets)
      PROVE  ToDer(raw) = text.octets
  BY <1>1, <1>3, ToFrom DEF IsDer
<1>4. QED
  BY <1>2, <1>3 DEF DerReadsBack

LEMMA InvNormal == Inv => AcceptedIsNormal /\ NormalIsAccepted
<1> SUFFICES ASSUME Inv, IsIdentifier PROVE AcceptedIsNormal /\ NormalIsAccepted
  BY DEF AcceptedIsNormal, NormalIsAccepted
<1>1. text.octets \in Octs /\ SchemeOf(text.octets) # {}
  BY DEF Inv, IsIdentifier
<1> DEFINE octets == text.octets
           id     == Identified(octets)
<1>2. Parse(octets) = "Ok" =>
        Normalize(id) = octets /\ InGrammar(id) /\ Origin(id) \o PathOf(id) = octets
  BY <1>1, AcceptedIs
<1>3. InGrammar(id) /\ Normalize(id) = octets => Parse(octets) = "Ok"
  BY <1>1, AcceptedIf
<1>4. QED
  BY <1>2, <1>3 DEF AcceptedIsNormal, NormalIsAccepted

(* However the one or two members of the two fields have grown, with labels,*)
(* component names, nonces and tags of any length made of any tokens that the*)
(* signer takes: read back, the fields have the same labels, components,   *)
(* parameters and signatures in the same order, and carry the WIMSE tag when*)
(* the members do (split_dictionary, parse_input_member, has_wimse_tag,    *)
(* parse_signature).                                                       *)
THEOREM FieldsReadBack == Spec => []FieldReadsBack
<1>1. Init => Inv
  BY Written
<1>2. Inv /\ [Next]_textVars => Inv'
  BY KeptByEdits
<1>3. Inv => FieldReadsBack
  BY InvReads DEF Inv
<1>4. QED
  BY <1>1, <1>2, <1>3, PTL DEF Spec

(* However wide the numbers of a signature are, whatever their octets and  *)
(* however the octets of its encoding were edited: unedited they read back *)
(* as it, and what is accepted is what is written, unless a number in it   *)
(* reads as negative (ecdsa_signature_to_der, ecdsa_signature_from_der).   *)
THEOREM ReadsDerBack == Spec => []DerReadsBack
<1>1. Init => Inv
  BY Written
<1>2. Inv /\ [Next]_textVars => Inv'
  BY KeptByEdits
<1>3. Inv => DerReadsBack
  BY InvReadsBack
<1>4. QED
  BY <1>1, <1>2, <1>3, PTL DEF Spec

(* Whatever two commands were told, with parts of any length and any       *)
(* letters in them: the texts that they sign and verify are the same just  *)
(* when the parts of the request that the signature covers were meant to   *)
(* be the same, but for a query with a question mark of its own            *)
(* (build_request, signature_base_from_params_str).                        *)
THEOREM SignsOneRequest == Spec => []TextBindsRequest
<1>1. Init => Inv
  BY Written
<1>2. Inv /\ [Next]_textVars => Inv'
  BY KeptByEdits
<1>3. Inv => TextBindsRequest
  BY InvBinds
<1>4. QED
  BY <1>1, <1>2, <1>3, PTL DEF Spec

(* However an identifier goes on behind the name of its scheme, and        *)
(* whatever the limits on its length: what parse accepts, normalization    *)
(* would not rewrite (validate_pchar_segment, validate_path).              *)
THEOREM OneSpelling == Spec => []AcceptedIsNormal
<1>1. Init => Inv
  BY Written
<1>2. Inv /\ [Next]_textVars => Inv'
  BY KeptByEdits
<1>3. Inv => AcceptedIsNormal
  BY InvNormal
<1>4. QED
  BY <1>1, <1>2, <1>3, PTL DEF Spec

(* And no identifier that the grammar generates and normalization leaves   *)
(* alone is turned away; the accessors take an accepted one apart into     *)
(* itself (parse_inner).                                                   *)
THEOREM NoneTurnedAway == Spec => []NormalIsAccepted
<1>1. Init => Inv
  BY Written
<1>2. Inv /\ [Next]_textVars => Inv'
  BY KeptByEdits
<1>3. Inv => NormalIsAccepted
  BY InvNormal
<1>4. QED
  BY <1>1, <1>2, <1>3, PTL DEF Spec
=============================================================================
