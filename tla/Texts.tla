------------------------------- MODULE Texts -------------------------------
(***************************************************************************)
(* Texts and octets on their way in and out: an identifier that somebody   *)
(* writes, the header fields that signers write and a verifier reads, the  *)
(* request that a signer and a verifier spell out to their commands, and   *)
(* the signature of a certificate, varied octet by octet as the fuzz       *)
(* targets vary their inputs.  Each behaviour grows one of the four, left  *)
(* steps further at most.                                                  *)
(***************************************************************************)
EXTENDS WorkloadIdentifier, RequestText, EcdsaDer

CONSTANTS
  Pieces, MaxPieces,     \* the pieces that follow an identifier's prefix
  Tokens, MaxTokens,     \* the tokens of values, labels and names
  ArgumentPieces, MaxArgumentPieces,  \* what the arguments of commands grow by
  RawOctets, DerOctets,  \* the octets of signatures, and those put into DER
  MaxEdits

ASSUME TextsAssumption == RawOctets \cup DerOctets \subseteq 0..255 /\ MaxEdits \in Nat
ASSUME PiecesAssumption == Pieces \subseteq Seq(0..255)
ASSUME TokensAssumption == Tokens \subseteq STRING /\ "a" \in LowerWords /\ "5" \in Numbers
ASSUME ArgumentsAssumption == ArgumentPieces \subseteq Seq(STRING)

VARIABLES text, left

textVars == <<text, left>>

(* What the abstract model of wimsey-httpsig makes of a member. *)
H == INSTANCE HttpSig WITH LineBreaks <- {}, Bad <- <<>>, U64Max <- 0

Params(created, nonce, tag, signResponse) ==
  [n \in ToSet(Order) |->
     CASE n = "created"    -> created
       [] n = "nonce"      -> {nonce}
       [] n = "tag"        -> {tag}
       [] n = SignResponse -> signResponse
       [] OTHER            -> {}]

Name(word) == [name |-> <<word>>, req |-> FALSE]

Member(label, signResponse) ==
  [label |-> <<label>>,
   components |-> <<Name("@method"), [name |-> <<"@path">>, req |-> TRUE], Name("a")>>,
   params |-> Params({"5"}, <<>>, <<>>, signResponse)]

Grow(next) == left > 0 /\ text' = next /\ left' = left - 1

AppendPiece ==
  /\ text.kind = "identifier"
  /\ \E piece \in Pieces : Grow([text EXCEPT !.octets = @ \o piece])

(* The last member is the one that is being written. *)
Writing(edited) == Grow([text EXCEPT !.members[Len(text.members)] = edited])

AppendToValue ==
  /\ text.kind = "fields"
  /\ \E token \in Tokens, n \in {"nonce", "tag"} :
       LET m == Last(text.members) IN
       Writing([m EXCEPT !.params[n] = {Append(v, token) : v \in @}])

AppendToLabel ==
  /\ text.kind = "fields"
  /\ \E token \in Tokens :
       LET m == Last(text.members) IN
       /\ CheckedLabel(Append(m.label, token))
       /\ Writing([m EXCEPT !.label = Append(@, token)])

AppendToName ==
  /\ text.kind = "fields"
  /\ \E token \in Tokens :
       LET m == Last(text.members) IN
       /\ IsValidHeaderName(Append(m.components[3].name, token))
       /\ Writing([m EXCEPT !.components[3].name = Append(@, token)])

(* A second hop signs, under the first one's label or another. *)
SecondMember ==
  /\ text.kind = "fields" /\ Len(text.members) = 1
  /\ \E label \in {"a", "*"} : text' = [text EXCEPT !.members = Append(@, Member(label, {}))]
  /\ UNCHANGED left

Signer == 1
Verifier == 2

Arguments(method, query, cover) ==
  [method |-> <<method>>, authority |-> <<"a">>, path |-> <<"/">>, query |-> query,
   headers |-> <<<<"content-type", ":">>>>, cover |-> cover]

OtherOrder == <<"@METHOD", ",", "@query", ",", Space>> \o
                <<"@path", ",", "@authority", ",", "content-type">>

AppendToArgument ==
  /\ text.kind = "request"
  /\ \E side \in {Signer, Verifier}, n \in {"method", "authority", "path", "query"},
        piece \in ArgumentPieces : Grow([text EXCEPT !.sides[side][n] = @ \o piece])

AppendToHeader ==
  /\ text.kind = "request"
  /\ \E side \in {Signer, Verifier}, piece \in ArgumentPieces :
       Grow([text EXCEPT !.sides[side].headers[Len(text.sides[side].headers)] = @ \o piece])

(* A field of that name once more. *)
RepeatHeader ==
  /\ text.kind = "request"
  /\ \E side \in {Signer, Verifier} :
       Grow([text EXCEPT !.sides[side].headers = Append(@, <<"Content-Type", Space, ":">>)])

EditOctet ==
  /\ text.kind = "der"
  /\ \E i \in DOMAIN text.octets, o \in DerOctets :
       \/ Grow([text EXCEPT !.octets[i] = o])
       \/ Grow([text EXCEPT !.octets = InsertAt(@, i, o)])
       \/ Grow([text EXCEPT !.octets = RemoveAt(@, i)])

Init ==
  \/ \E scheme \in ToSet(Schemes) :
       text = [kind |-> "identifier", octets |-> PrefixOf[scheme]] /\ left = MaxPieces
  \/ \E signResponse \in {{TRUE}, {FALSE}} :
       /\ text = [kind |-> "fields", members |-> <<Member("a", signResponse)>>]
       /\ left = MaxTokens
  \/ \E method \in {"a", "CONNECT"}, query \in {<<>>, <<"a">>}, cover \in {<<>>, OtherOrder} :
       /\ text = [kind |-> "request",
                  sides |-> <<Arguments(method, query, cover), Arguments(method, query, <<>>)>>]
       /\ left = MaxArgumentPieces
  \/ \E raw \in [1 .. 2 * Half -> RawOctets] :
       text = [kind |-> "der", raw |-> raw, octets |-> ToDer(raw)] /\ left = MaxEdits

Next ==
  \/ AppendPiece
  \/ AppendToValue \/ AppendToLabel \/ AppendToName \/ SecondMember
  \/ AppendToArgument \/ AppendToHeader \/ RepeatHeader
  \/ EditOctet

Spec == Init /\ [][Next]_textVars

-----------------------------------------------------------------------------
(***************************************************************************)
(* Properties.                                                             *)
(***************************************************************************)
IsIdentifier == text.kind = "identifier" /\ SchemeOf(text.octets) # {}

(* Identifiers are compared as whole URIs, which is sound only if each has *)
(* one spelling: what parse accepts, normalization (RFC 3986, 6.2.2) would *)
(* not rewrite (validate_pchar_segment, validate_path).                    *)
AcceptedIsNormal ==
  IsIdentifier /\ Parse(text.octets) = "Ok" => Normalize(Identified(text.octets)) = text.octets

(* And nothing else is turned away: a normal identifier that the grammar   *)
(* of its scheme generates is accepted, and its origin and its path put    *)
(* together are it (fuzz/fuzz_targets/identifier_parse.rs).                *)
NormalIsAccepted ==
  IsIdentifier =>
    LET id == Identified(text.octets) IN
    /\ InGrammar(id) /\ Normalize(id) = text.octets => Parse(text.octets) = "Ok"
    /\ Parse(text.octets) = "Ok" => InGrammar(id) /\ Origin(id) \o PathOf(id) = text.octets

(* What a member says to the abstract model: its parameters as pairs, in   *)
(* which a tag is the one of the profile or another.                       *)
Pairs(name, values) ==
  IF values = {} THEN <<>>
  ELSE LET v == CHOOSE v \in values : TRUE
       IN  <<<<name, IF name # "tag" THEN v
                     ELSE IF v = <<WimseTag>> THEN H!WIMSE_TAG ELSE "another">>>>

Abstract(m) ==
  [label |-> m.label,
   components |-> {[name |-> m.components[i].name, req |-> m.components[i].req] :
                     i \in DOMAIN m.components},
   params |-> FlattenSeq([i \in DOMAIN Order |-> Pairs(Order[i], m.params[Order[i]])])]

(* The text of the signature that the first or the second member is with. *)
Base64 == <<"base64-1", "base64-2">>

(* Whatever values, labels and names the signers of a message chose, its   *)
(* Signature-Input reads back as their members and no others: each with    *)
(* the parameters it was given, and in the text that was signed; and the   *)
(* selection by tag finds just the members that have the WIMSE tag.  The   *)
(* Signature field gives each label the signature written under it         *)
(* (split_dictionary, parse_input_member, has_wimse_tag, parse_signature). *)
FieldReadsBack ==
  text.kind = "fields" =>
    LET ms       == text.members
        field    == Joined([i \in DOMAIN ms |->
                      SignatureInput(ms[i].label, ms[i].components, ms[i].params)],
                      <<Comma, Space>>)
        sigs     == Joined([i \in DOMAIN ms |-> Signature(ms[i].label, Base64[i])],
                           <<Comma, Space>>)
        abstract == [i \in DOMAIN ms |-> Abstract(ms[i])]
        dicts    == SplitDictionary(field)
    IN  /\ (dicts # {}) = H!DictionaryOk(abstract)
        /\ \A dict \in dicts :
             /\ Len(dict) = Len(ms)
             /\ \A i \in DOMAIN ms :
                  /\ dict[i][1] = ms[i].label
                  /\ ParseInputMember(dict[i][1], dict[i][2]) =
                       {[label |-> ms[i].label, components |-> ms[i].components,
                         params |-> ms[i].params,
                         paramsValue |-> SerializeParamsValue(ms[i].components, ms[i].params)]}
                  /\ CarriesWimseTag(dict[i][2]) = H!HasWimseTag(abstract[i])
                  /\ ParseSignatureText(sigs, ms[i].label) = {Base64[i]}

(* What somebody means by an argument: letters of an authority have no     *)
(* case, and a question mark in front of a query is not part of it.        *)
QueryMeant(raw) ==
  LET t == Trim(raw) IN IF t # <<>> /\ t[1] = "?" THEN Tail(t) ELSE t

Meant(args, request, name) ==
  CASE name = <<"@authority">> -> {LowerText(Trim(args.authority))}
    [] name = <<"@query">>     -> {QueryMeant(args.query)}
    [] OTHER                   -> ValueText(request, name)

ManyMarks(args) == Len(QueryMeant(args.query)) > 0 /\ QueryMeant(args.query)[1] = "?"

(* Two commands sign and verify the same text just when they were told of  *)
(* the same request, as far as the signature covers it, however it was     *)
(* spelled and whatever its parts hold: no part can pass for another.  An  *)
(* exception is a query that begins with a question mark of its own, which *)
(* is taken off like the delimiter (build_request, sign, verify).          *)
TextBindsRequest ==
  text.kind = "request" =>
    LET s == text.sides[Signer]
        v == text.sides[Verifier]
    IN  ~ManyMarks(s) /\ ~ManyMarks(v) =>
        \A signed \in BuildRequest(s), received \in BuildRequest(v) :
          \A cs \in Covered(s, signed) :
            LET params == SerializeParamsValue(cs, Params({"5"}, <<>>, <<WimseTag>>, {})) IN
            \A b1 \in BaseText(signed, cs, params), b2 \in BaseText(received, cs, params) :
              b1 = b2 <=>
                \A i \in DOMAIN cs :
                  Meant(s, signed, cs[i].name) = Meant(v, received, cs[i].name)

(* The octets hold a number without the zero that keeps it positive. *)
Negative(octets) ==
  \E r \in ReadInteger(SubSeq(octets, 3, Len(octets))) :
    \/ octets[5] >= 128
    \/ Len(r.rest) >= 3 /\ r.rest[3] >= 128

(* A signature survives the way into a certificate and back; and whatever  *)
(* was done to the octets, an encoding that is accepted is the one that is *)
(* written, unless a number in it reads as negative                        *)
(* (ecdsa_signature_to_der, ecdsa_signature_from_der).                     *)
DerReadsBack ==
  text.kind = "der" =>
    /\ left = MaxEdits => FromDer(text.octets) = {text.raw}
    /\ \A raw \in FromDer(text.octets) :
         ~Negative(text.octets) => ToDer(raw) = text.octets
=============================================================================
