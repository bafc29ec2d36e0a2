-------------------------- MODULE StructuredFields --------------------------
(***************************************************************************)
(* wimsey-httpsig: the text of Signature-Input and Signature, the part of  *)
(* RFC 8941 that the crate writes and reads by hand.  A text is a sequence *)
(* of tokens: the characters that the readers look for, and words, in      *)
(* which none of those occurs.  An operation that may fail yields a set of *)
(* at most one result.                                                     *)
(***************************************************************************)
EXTENDS Naturals, Sequences, SequencesExt, FiniteSetsExt

CONSTANTS
  LowerWords,  \* words of lowercase letters and hyphens
  Numbers      \* words that are a u64 in decimal

(* What has become of start after n steps, step i of which reads item i. *)
Run(read(_, _), start, n) ==
  LET After[i \in 0..n] ==
        IF i = 0 THEN start
        ELSE LET before == After[i - 1] IN read(before, i)
  IN  After[n]

(* The items at these places. *)
Picked(items, places) ==
  Run(LAMBDA picked, i : IF i \in places THEN Append(picked, items[i]) ELSE picked,
      <<>>, Len(items))

DQuote == "dquote"
Backslash == "backslash"
Space == " "
LineFeed == "lf"
Comma == ","
Semicolon == ";"
Equals == "="
Open == "("
Close == ")"

WimseTag == "wimse-workload-to-workload"

StringParams  == {"keyid", "alg", "nonce", "tag", "wimse-aud", "wimse-req-nonce"}
IntegerParams == {"created", "expires"}
SignResponse  == "wimse-sign-response"

(***************************************************************************)
(* Writing.                                                                *)
(***************************************************************************)
Escaped(c) == IF c \in {Backslash, DQuote} THEN <<Backslash, c>> ELSE <<c>>

SfString(value) ==
  <<DQuote>> \o FlattenSeq([i \in DOMAIN value |-> Escaped(value[i])]) \o <<DQuote>>

(* Component::quoted_id: name is a text, and req stands outside the quotes. *)
QuotedId(c) ==
  <<DQuote>> \o c.name \o <<DQuote>> \o (IF c.req THEN <<Semicolon, "req">> ELSE <<>>)

Joined(texts, separator) ==
  Run(LAMBDA joined, i : IF i = 1 THEN texts[1] ELSE joined \o separator \o texts[i],
      <<>>, Len(texts))

(* The parameters in the order in which they are written. *)
Order == <<"created", "expires", "keyid", "alg", "nonce", "tag", "wimse-aud",
           SignResponse, "wimse-req-nonce">>

WrittenParam(name, value) ==
  <<Semicolon, name>> \o
    (IF name \in StringParams THEN <<Equals>> \o SfString(value)
     ELSE IF name \in IntegerParams THEN <<Equals, value>>
     ELSE IF value THEN <<>> ELSE <<Equals, "?0">>)

WrittenIfAny(name, values) ==
  IF values = {} THEN <<>> ELSE WrittenParam(name, CHOOSE v \in values : TRUE)

(* params[n] is the value of parameter n, if it has one. *)
SerializeParamsValue(components, params) ==
  <<Open>> \o Joined([i \in DOMAIN components |-> QuotedId(components[i])], <<Space>>)
    \o <<Close>>
    \o FlattenSeq([i \in DOMAIN Order |-> WrittenIfAny(Order[i], params[Order[i]])])

SignatureInput(label, components, params) ==
  label \o <<Equals>> \o SerializeParamsValue(components, params)
Signature(label, base64) == label \o <<Equals, ":", base64, Equals, ":">>

(***************************************************************************)
(* Reading.                                                                *)
(***************************************************************************)
Trim(text) ==
  LET words == {i \in DOMAIN text : text[i] \notin {Space, LineFeed}}
  IN  IF words = {} THEN <<>> ELSE SubSeq(text, Min(words), Max(words))

(* The scanner, shared by all who look for a delimiter: its state before   *)
(* each token.                                                             *)
(* Mutant: the scanner that knows quotes and no escapes. *)
UnescapedMode(mode, c) ==
  IF c = DQuote THEN (IF mode = "quoted" THEN "plain" ELSE "quoted") ELSE mode

NextMode(mode, c) ==
  IF mode = "escaped" THEN "quoted"
  ELSE IF mode = "quoted" /\ c = Backslash THEN "escaped"
  ELSE IF c = DQuote THEN (IF mode = "quoted" THEN "plain" ELSE "quoted")
  ELSE mode

Modes(text) ==
  Run(LAMBDA modes, i : Append(modes, NextMode(Last(modes), text[i])),
      <<"plain">>, Len(text))

Unquoted(text) ==
  LET modes == Modes(text)
  IN  {i \in DOMAIN text : modes[i] = "plain" /\ text[i] # DQuote}

FindUnquoted(text, target) ==
  LET found == {i \in Unquoted(text) : text[i] = target}
  IN  IF found = {} THEN {} ELSE {Min(found)}

SplitAt(text, cuts) ==
  Run(LAMBDA parts, i : IF i \in cuts THEN Append(parts, <<>>)
                        ELSE [parts EXCEPT ![Len(parts)] = Append(@, text[i])],
      <<<<>>>>, Len(text))

(* How deep in inner lists the text is before each token. *)
Depths(text) ==
  LET plain == Unquoted(text)
  IN  Run(LAMBDA depths, i :
                 Append(depths,
                        IF i \notin plain THEN Last(depths)
                        ELSE IF text[i] = Open THEN Last(depths) + 1
                        ELSE IF text[i] = Close /\ Last(depths) > 0 THEN Last(depths) - 1
                        ELSE Last(depths)),
               <<0>>, Len(text))

(* The first "=" ends the label. *)
SplitOnce(text) ==
  LET eq == {i \in DOMAIN text : text[i] = Equals}
  IN  IF eq = {} THEN {}
      ELSE {<<Trim(SubSeq(text, 1, Min(eq) - 1)), SubSeq(text, Min(eq) + 1, Len(text))>>}

SplitMember(text) == {m \in SplitOnce(Trim(text)) : m[1] # <<>>}

(* Members <<label, rest>>: none where one has no label or two share one. *)
SplitDictionary(text) ==
  LET depths  == Depths(text)
      parts   == SplitAt(text, {i \in Unquoted(text) : text[i] = Comma /\ depths[i] = 0})
      members == [k \in DOMAIN parts |-> SplitMember(parts[k])]
  IN  IF \E k \in DOMAIN members : members[k] = {} THEN {}
      ELSE LET dict == [k \in DOMAIN members |-> CHOOSE m \in members[k] : TRUE]
           IN  IF \E j, k \in DOMAIN dict : j < k /\ dict[j][1] = dict[k][1] THEN {}
               ELSE {dict}

Quoted(text) ==
  Len(text) >= 2 /\ text[1] = DQuote /\ text[Len(text)] = DQuote

(* A backslash stands before a backslash or a quote, and is dropped. *)
ParseSfString(text) ==
  LET inner == SubSeq(text, 2, Len(text) - 1)
      read  == Run(LAMBDA r, i :
                 IF r.pending THEN [r EXCEPT !.pending = FALSE, !.out = Append(@, inner[i]),
                                             !.ok = @ /\ inner[i] \in {Backslash, DQuote}]
                 ELSE IF inner[i] = Backslash THEN [r EXCEPT !.pending = TRUE]
                 ELSE [r EXCEPT !.out = Append(@, inner[i])],
                 [out |-> <<>>, pending |-> FALSE, ok |-> TRUE], Len(inner))
  IN  IF Quoted(text) /\ read.ok /\ ~read.pending THEN {read.out} ELSE {}

ParseSfBoolean(text) == {b \in BOOLEAN : text = <<IF b THEN "?1" ELSE "?0">>}
ParseInt(text)       == {n \in Numbers : text = <<n>>}

ParamValue(name, text) ==
  IF name \in StringParams THEN ParseSfString(text)
  ELSE IF name \in IntegerParams THEN ParseInt(text)
  ELSE ParseSfBoolean(text)

Semicolons(text) == SplitAt(text, {i \in Unquoted(text) : text[i] = Semicolon})

(* One parameter: a bare name is only something to wimse-sign-response,    *)
(* and an unknown name is nothing.                                         *)
ReadParam(params, part) ==
  IF SplitOnce(part) = {}
    THEN {IF Trim(part) = <<SignResponse>> THEN [params EXCEPT ![SignResponse] = {TRUE}]
          ELSE params}
  ELSE LET pair == CHOOSE p \in SplitOnce(part) : TRUE
           name == pair[1]
       IN  IF Len(name) = 1 /\ name[1] \in ToSet(Order)
             THEN {[params EXCEPT ![name[1]] = {v}] : v \in ParamValue(name[1], Trim(pair[2]))}
             ELSE {params}

NoParams == [n \in ToSet(Order) |-> {}]

ReadParams(text) ==
  LET parts == Semicolons(text)
  IN  Run(LAMBDA read, i : UNION {ReadParam(params, parts[i]) : params \in read},
          {NoParams}, Len(parts))

DerivedNames == {"@method", "@authority", "@path", "@query", "@request-target", "@status"}
AtNames      == DerivedNames \cup {"@unsupported"}

(* Component::from_quoted_id, for one `;req` at most. *)
FromQuotedId(text) ==
  LET req  == Len(text) >= 2 /\ SubSeq(text, Len(text) - 1, Len(text)) = <<Semicolon, "req">>
      base == IF req THEN SubSeq(text, 1, Len(text) - 2) ELSE text
      name == SubSeq(base, 2, Len(base) - 1)
  IN  IF /\ Quoted(base)
         /\ ToSet(name) \cap AtNames # {} => name \in {<<derived>> : derived \in DerivedNames}
        THEN {[name |-> name, req |-> req]} ELSE {}

Words(text) ==
  LET parts == SplitAt(text, {i \in DOMAIN text : text[i] = Space})
  IN  Picked(parts, {k \in DOMAIN parts : parts[k] # <<>>})

(* parse_input_member: the inner list and its parameters, which are kept   *)
(* as received for the signature base.                                     *)
ParseInputMember(label, rest) ==
  LET text == Trim(rest) IN
  IF text = <<>> \/ text[1] # Open THEN {}
  ELSE UNION {
    LET words == Words(SubSeq(text, 2, close - 1)) IN
    IF \E k \in DOMAIN words : FromQuotedId(words[k]) = {} THEN {}
    ELSE {[label |-> label, paramsValue |-> text, params |-> params,
           components |-> [k \in DOMAIN words |-> CHOOSE c \in FromQuotedId(words[k]) : TRUE]] :
          params \in ReadParams(SubSeq(text, close + 1, Len(text)))} :
    close \in FindUnquoted(text, Close)}

(* has_wimse_tag: any tag parameter of the raw member. *)
CarriesWimseTag(rest) ==
  LET text == Trim(rest) IN
  \E close \in FindUnquoted(text, Close) :
    \E part \in ToSet(Semicolons(SubSeq(text, close + 1, Len(text)))) :
      \E pair \in SplitOnce(part) :
        pair[1] = <<"tag">> /\ ParseSfString(Trim(pair[2])) = {<<WimseTag>>}

(* parse_signature: the padded base64 between the colons. *)
ParseSignatureText(text, label) ==
  {m[2][2] : m \in {m \in UNION {ToSet(dict) : dict \in SplitDictionary(text)} :
     /\ m[1] = label
     /\ Len(m[2]) = 4 /\ m[2][1] = ":" /\ m[2][3] = Equals /\ m[2][4] = ":"}}

(***************************************************************************)
(* What the command line lets through as a label or a header name, in      *)
(* lowercase.  Marks are the other characters of a label; a name may hold  *)
(* further ones that no reader looks for.                                  *)
(***************************************************************************)
Marks == {"*", "_", "-", "."}
Hash  == "#"

(* A word is neither a delimiter nor the name of a derived component. *)
ASSUME WordsAssumption ==
  /\ LowerWords \cup Numbers \subseteq STRING
  /\ (LowerWords \cup Numbers) \cap AtNames = {}
  /\ (LowerWords \cup Numbers) \cap
       {DQuote, Backslash, Space, LineFeed, Comma, Semicolon, Equals, Open, Close} = {}

CheckedLabel(label) ==
  /\ label # <<>>
  /\ label[1] \in LowerWords \cup {"*"}
  /\ ToSet(label) \subseteq LowerWords \cup Numbers \cup Marks

IsValidHeaderName(name) ==
  name # <<>> /\ ToSet(name) \subseteq LowerWords \cup Numbers \cup Marks \cup {Hash}
=============================================================================
