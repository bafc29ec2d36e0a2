------------------------------- MODULE Suite -------------------------------
(***************************************************************************)
(* The conformance suite as a whole: its vectors, what each of them holds, *)
(* and what an implementation makes of every case.  A vector is named by   *)
(* its path <<suite, algorithm>>; the identifiers' has no algorithm.  The  *)
(* httpsig vectors have two parts, the request and the response.           *)
(*                                                                         *)
(* An implementation is [format, part, ignores]: in the verification of    *)
(* that part, it looks past something.                                     *)
(***************************************************************************)
EXTENDS HttpSigVectors, MtlsVectors, IdentifierVectors

CONSTANT Vectors  \* the paths of the vectors generated

Suites     == <<"identifier", "wit", "wpt", "httpsig", "mtls">>
VectorAlgs == <<"", "EdDSA", "ES256">>

PartsOf(suite) == IF suite = "httpsig" THEN {"request", "response"} ELSE {suite}

Generatable(paths) == SelectSeq(paths, LAMBDA p : p \in Vectors)

(* The manifest goes by suite, the generator by algorithm. *)
ManifestEntries ==
  LET paths == Generatable(FlattenSeq([i \in DOMAIN Suites |->
                 [j \in DOMAIN VectorAlgs |-> <<Suites[i], VectorAlgs[j]>>]]))
  IN  [k \in DOMAIN paths |-> [suite |-> paths[k][1], path |-> paths[k]]]
WriteOrder ==
  Generatable(FlattenSeq([j \in DOMAIN VectorAlgs |->
    [i \in DOMAIN Suites |-> <<Suites[i], VectorAlgs[j]>>]]))

Positive(part, alg) ==
  CASE part = "wit"      -> WitVector(alg)
    [] part = "wpt"      -> WptVector(alg)
    [] part = "request"  -> HttpSigVector(alg)
    [] part = "response" -> ResponseVector(alg)
    [] part = "mtls"     -> MtlsVector(alg)

Negatives(part, alg) ==
  CASE part = "identifier" -> IdentifierRejects
    [] part = "wit"        -> WitNegatives(alg)
    [] part = "wpt"        -> WptNegatives(alg)
    [] part = "request"    -> HttpSigNegatives(alg)
    [] part = "response"   -> ResponseNegatives(alg)
    [] part = "mtls"       -> MtlsNegatives(alg)

Accepts(part, alg) ==
  CASE part = "identifier" -> IdentifierAccepts
    [] part = "request"    -> HttpSigAccepted(alg)
    [] OTHER               -> {}

(***************************************************************************)
(* What an implementation makes of a case.                                 *)
(***************************************************************************)
VerdictOn(part, alg, expect, c) ==
  CASE part = "wit"      -> WitVerdict(c)
    [] part = "wpt"      -> WptVerdict(alg, c)
    [] part = "request"  -> HttpSigVerdict(alg, expect, c)
    [] part = "response" -> ResponseVerdict(alg, c)
    [] part = "mtls"     -> MtlsVerdict(c)

(* An argument is ignored when the positive case's is used in its place;   *)
(* "tag", when the label decides between several signatures.               *)
Seen(impl, part, alg, c) ==
  IF impl.part # part THEN c
  ELSE IF impl.ignores \in DOMAIN c
    THEN [c EXCEPT ![impl.ignores] = Positive(part, alg)[impl.ignores]]
  ELSE IF impl.ignores = "signature"
    THEN [c EXCEPT !.input = Positive(part, alg).input, !.sigs = Positive(part, alg).sigs]
  ELSE IF impl.ignores = "tag" /\ Len(c.input) > 1
    THEN [c EXCEPT !.input = SelectSeq(@, LAMBDA m : m.label = "wimse")]
  ELSE c

(* "selection": every member of the field is parsed, not only the one      *)
(* selected.  "type": the algorithm is compared before the type.           *)
Answer(impl, part, alg, case) ==
  LET c == Seen(impl, part, alg, Input(Positive(part, alg), case)) IN
  IF /\ impl.part = part /\ impl.ignores = "selection"
     /\ \E i \in DOMAIN c.input : Unsupported(c.input[i])
    THEN "UnsupportedComponent"
  ELSE IF /\ impl.part = part /\ impl.ignores = "type"
          /\ c.proof.header.alg # alg
    THEN TokenCode("AlgorithmMismatch")
  ELSE VerdictOn(part, alg, case.expect, c)

VerdictOf(impl, part, alg, case) ==
  IF part = "identifier" THEN IdentifierVerdict(case) ELSE Answer(impl, part, alg, case)

(* The positive cases, each as its suite's flow goes. *)
PositiveVerdict(suite, alg) ==
  LET verdicts ==
        CASE suite = "identifier" -> {"Ok"}
          [] suite = "wpt"        -> {WptFlow(alg, WptVector(alg))}
          [] suite = "httpsig"    -> {DigestVerdict(HttpSigVector(alg)),
                                      HttpSigVerdict(alg, "Ok", HttpSigVector(alg)),
                                      ResponseVerdict(alg, ResponseVector(alg))}
          [] OTHER                -> {VerdictOn(suite, alg, "Ok", Positive(suite, alg))}
  IN  IF verdicts = {"Ok"} THEN "Ok" ELSE "Rejected"

(***************************************************************************)
(* What the files say of it: inputs are named, not spelled out.            *)
(***************************************************************************)
InputName(p, part, id) == [path |-> p, part |-> part, id |-> id]
PositiveName(p)        == InputName(p, "", "positive")

NegativesAt(p) ==
  UNION {{[input |-> InputName(p, part, case.id), expect |-> case.expect] :
            case \in Negatives(part, p[2])} : part \in PartsOf(p[1])}
AcceptedAt(p) ==
  UNION {{InputName(p, part, case.id) : case \in Accepts(part, p[2])} :
            part \in PartsOf(p[1])}

VerdictAt(impl, input) ==
  IF input.part = "" THEN PositiveVerdict(input.path[1], input.path[2])
  ELSE VerdictOf(impl, input.part, input.path[2],
         CHOOSE case \in Negatives(input.part, input.path[2])
                           \cup Accepts(input.part, input.path[2]) : case.id = input.id)

InputsAt(p) == {case.input : case \in NegativesAt(p)} \cup AcceptedAt(p) \cup {PositiveName(p)}
=============================================================================
