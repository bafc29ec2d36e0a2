---------------------------- MODULE RequestText ----------------------------
(***************************************************************************)
(* The text that is signed: what `wimsey httpsig` makes of its arguments,  *)
(* and the signature base that wimsey-httpsig builds of the request, line  *)
(* after line.  Elsewhere equal bases have equal parts by definition; here *)
(* a base is a text, in which one part could pass for another.             *)
(***************************************************************************)
EXTENDS StructuredFields

CONSTANT LowerOf  \* LowerOf[w]: the word w, which has capitals, in lowercase

(* What is in lowercase has no capitals left. *)
ASSUME LowerOfAssumption ==
  \A w \in DOMAIN LowerOf : LowerOf[w] \in STRING /\ LowerOf[w] \notin DOMAIN LowerOf

LowerText(text) ==
  [i \in DOMAIN text |-> IF text[i] \in DOMAIN LowerOf THEN LowerOf[text[i]] ELSE text[i]]

(***************************************************************************)
(* The arguments.  What may be refused yields a set of at most one result. *)
(***************************************************************************)
Checked(raw, banned) == {t \in {Trim(raw)} : t # <<>> /\ ToSet(t) \cap banned = {}}

CheckedMethod(raw) == {t \in {Trim(raw)} : IsValidHeaderName(LowerText(t))}

CheckedAuthority(raw) ==
  {LowerText(t) : t \in Checked(raw, {"/", "?", Hash, Space, LineFeed})}

CheckedPath(raw) == {t \in Checked(raw, {"?", Hash}) : t[1] = "/"}

(* Every question mark in front is taken off. *)
CheckedQuery(raw) ==
  LET t    == Trim(raw)
      kept == {i \in DOMAIN t : t[i] # "?"}
  IN  IF kept = {} THEN <<>> ELSE SubSeq(t, Min(kept), Len(t))

ParseHeader(spec) ==
  LET colons == {i \in DOMAIN spec : spec[i] = ":"}
      Field(at) == [name  |-> LowerText(Trim(SubSeq(spec, 1, at - 1))),
                    value |-> Trim(SubSeq(spec, at + 1, Len(spec)))]
  IN  IF colons = {} THEN {}
      ELSE {h \in {Field(Min(colons))} :
              IsValidHeaderName(h.name) /\ LineFeed \notin ToSet(h.value)}

Component(text) == [name |-> text, req |-> FALSE]

Selectable == {<<"@method">>, <<"@authority">>, <<"@path">>, <<"@query">>}

ParseComponent(raw) ==
  {Component(t) : t \in {t \in {LowerText(Trim(raw))} :
                           t \in Selectable \/ IsValidHeaderName(t)}}

(* The items of a list, if each could be read. *)
AllOf(items) ==
  IF \E i \in DOMAIN items : items[i] = {} THEN {}
  ELSE {[i \in DOMAIN items |-> CHOOSE item \in items[i] : TRUE]}

ParseComponents(list) ==
  LET parts == SplitAt(list, {i \in DOMAIN list : list[i] = Comma})
      words == Picked(parts, {k \in DOMAIN parts : Trim(parts[k]) # <<>>})
  IN  {cs \in AllOf([i \in DOMAIN words |-> ParseComponent(words[i])]) : cs # <<>>}

BuildRequest(args) ==
  {[method |-> method, authority |-> authority, path |-> path,
    query |-> CheckedQuery(args.query), headers |-> headers] :
     method \in CheckedMethod(args.method), authority \in CheckedAuthority(args.authority),
     path \in CheckedPath(args.path),
     headers \in AllOf([i \in DOMAIN args.headers |-> ParseHeader(args.headers[i])])}

(***************************************************************************)
(* The signature base.                                                     *)
(***************************************************************************)
Named(request, name) ==
  Picked(request.headers, {i \in DOMAIN request.headers : request.headers[i].name = name})

(* What has to be covered if the request carries it. *)
Carriable == <<"content-type", "content-digest", "authorization",
               "txn-token", "workload-identity-token">>

RequestComponents(request) ==
  LET target  == IF request.method = <<"CONNECT">> THEN <<"@method", "@authority">>
                                                   ELSE <<"@method", "@path", "@query">>
      carried == Picked(Carriable, {i \in DOMAIN Carriable : Named(request, <<Carriable[i]>>) # <<>>})
  IN  [i \in DOMAIN (target \o carried) |-> Component(<<(target \o carried)[i]>>)]

(* run_sign covers what it is told to, which must include what it has to. *)
Covered(args, request) ==
  IF args.cover = <<>> THEN {RequestComponents(request)}
  ELSE {cs \in ParseComponents(args.cover) : ToSet(RequestComponents(request)) \subseteq ToSet(cs)}

FieldText(fields) ==
  Joined([i \in DOMAIN fields |-> Trim(fields[i].value)], <<Comma, Space>>)

ValueText(request, name) ==
  CASE name = <<"@method">>    -> {request.method}
    [] name = <<"@authority">> -> {LowerText(request.authority)}
    [] name = <<"@path">>      -> {request.path}
    [] name = <<"@query">>     -> {<<"?">> \o request.query}
    [] OTHER -> LET fields == Named(request, name)
                IN  IF fields = <<>> THEN {} ELSE {FieldText(fields)}

(* Mutant: only the end is looked at. *)
OneLineAtItsEnd(text) == text = <<>> \/ Last(text) # LineFeed

(* A line break in a value would forge further lines. *)
OneLine(text) == LineFeed \notin ToSet(text)

Line(component, value) == QuotedId(component) \o <<":", Space>> \o value \o <<LineFeed>>

BaseText(request, components, paramsValue) ==
  {FlattenSeq(lines) \o <<DQuote, "@signature-params", DQuote, ":", Space>> \o paramsValue :
     lines \in {lines \in AllOf([i \in DOMAIN components |->
                  {Line(components[i], v) :
                     v \in {v \in ValueText(request, components[i].name) : OneLine(v)}}]) :
                OneLine(paramsValue)}}
=============================================================================
