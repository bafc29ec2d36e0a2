------------------------- MODULE WorkloadIdentifier -------------------------
(***************************************************************************)
(* wimsey-identifier: the WIMSE workload identifier.  A text is the        *)
(* sequence of its octets; what is accepted is that text unchanged,        *)
(* together with its scheme and the length of its trust domain.            *)
(***************************************************************************)
EXTENDS Integers, Sequences, SequencesExt, FiniteSetsExt

CONSTANTS
  MaxIdLen,          \* octets in an identifier
  MaxTrustDomainLen  \* octets in the trust domain of a spiffe identifier

ASSUME LimitsAssumption == MaxIdLen \in Nat /\ MaxTrustDomainLen \in Nat

(* The octets of a literal that keeps to these characters. *)
Lows  == "abcdefghijklmnopqrstuvwxyz"
Signs == "#$%&'()*+,-./0123456789:;<=>?@ABCDEFGHIJKLMNOPQRSTUVWXYZ"

At(table, c) == {i \in 1..Len(table) : SubSeq(table, i, i) = c}
Octet(c) ==
  CHOOSE o \in {96 + i : i \in At(Lows, c)} \cup {34 + i : i \in At(Signs, c)} : TRUE
Octets(literal) == [i \in 1..Len(literal) |-> Octet(SubSeq(literal, i, i))]

QuestionMark == 63
NumberSign   == 35
AtSign       == 64
Colon        == 58
Slash        == 47
Percent      == 37
Dot          == <<46>>
DotDot       == <<46, 46>>

Upper   == 65..90
Lower   == 97..122
Digits  == 48..57
HexLower == 97..102
HexDigits == Digits \cup 65..70 \cup HexLower

(* Letters, digits and "-._~"; and then "!$", "&'()*+,", ":;=@". *)
Unreserved == Upper \cup Lower \cup Digits \cup {45, 46, 95, 126}
PChar      == Unreserved \cup {33, 36} \cup 38..44 \cup {58, 59, 61, 64}

TrustDomainChars   == Unreserved \ (Upper \cup {126})
SpiffeSegmentChars == Unreserved \ {126}

Schemes == <<"spiffe", "wimse">>
PrefixOf ==
  LET Delimiter == <<58, 47, 47>> IN
  [spiffe |-> <<115, 112, 105>> \o <<102, 102, 101>> \o Delimiter,
   wimse  |-> <<119, 105, 109>> \o <<115, 101>> \o Delimiter]

SchemeOf(text) == {scheme \in ToSet(Schemes) : IsPrefix(PrefixOf[scheme], text)}

(* Where the first slash behind octet i is, or would be. *)
NextSlash(text, i) ==
  Min({j \in i + 1 .. Len(text) : text[j] = Slash} \cup {Len(text) + 1})

(* What follows the prefix, cut before its first slash. *)
Rest(text, scheme)   == SubSeq(text, Len(PrefixOf[scheme]) + 1, Len(text))
TrustDomainLen(rest) == NextSlash(rest, 0) - 1

ValidateTrustDomain(scheme, td) ==
  IF td = <<>> THEN "EmptyTrustDomain"
  ELSE IF scheme = "spiffe" /\ Len(td) > MaxTrustDomainLen THEN "TrustDomainTooLong"
  ELSE IF ~(ToSet(td) \subseteq TrustDomainChars) THEN "InvalidTrustDomainChar"
  ELSE "Ok"

DecodeHex(o) == IF o \in Digits THEN o - 48 ELSE o - 65 + 10

(* Mutant: the escapes of letters and digits are not told apart. *)
EscapeErrorLenient(hex) ==
  IF Len(hex) < 2 \/ ~(ToSet(hex) \subseteq HexDigits) THEN "BadPercentEncoding"
  ELSE IF ToSet(hex) \cap HexLower # {} THEN "NonNormalizedPercentEncoding"
  ELSE "Ok"

(* The two octets after a percent sign, fewer at the end of the segment. *)
EscapeError(hex) ==
  IF Len(hex) < 2 \/ ~(ToSet(hex) \subseteq HexDigits) THEN "BadPercentEncoding"
  ELSE IF \/ ToSet(hex) \cap HexLower # {}
          \/ 16 * DecodeHex(hex[1]) + DecodeHex(hex[2]) \in Unreserved
    THEN "NonNormalizedPercentEncoding"
  ELSE "Ok"

OctetError(segment, i) ==
  IF segment[i] = Percent
  THEN EscapeError(SubSeq(segment, i + 1, IF i + 2 <= Len(segment) THEN i + 2 ELSE i))
  ELSE IF segment[i] \notin PChar THEN "InvalidPathChar"
  ELSE "Ok"

(* The first thing wrong.  An escape is stepped over whole; its digits are *)
(* allowed by themselves, so that looking at them finds nothing more.      *)
ValidatePcharSegment(segment) ==
  LET wrong == {i \in DOMAIN segment : OctetError(segment, i) # "Ok"}
  IN  IF wrong = {} THEN "Ok" ELSE OctetError(segment, Min(wrong))

ValidateSpiffeSegment(segment) ==
  IF ToSet(segment) \subseteq SpiffeSegmentChars THEN "Ok" ELSE "InvalidPathChar"

DotSegments == {Dot, DotDot}

ValidateSegment(scheme, segment) ==
  IF segment = <<>> THEN "EmptyPathSegment"
  ELSE IF segment \in DotSegments THEN "DotSegment"
  ELSE IF scheme = "spiffe" THEN ValidateSpiffeSegment(segment)
  ELSE ValidatePcharSegment(segment)

(* The segments of a path: one after each slash. *)
Slashes(path)         == {i \in DOMAIN path : path[i] = Slash}
SegmentAfter(path, i) == SubSeq(path, i + 1, NextSlash(path, i) - 1)

(* The first segment with an error decides. *)
ValidatePath(scheme, path) ==
  LET Error(i) == ValidateSegment(scheme, SegmentAfter(path, i))
      wrong    == {i \in Slashes(path) : Error(i) # "Ok"}
  IN  IF wrong = {} THEN "Ok" ELSE Error(Min(wrong))

(* Mutant: a colon in the path is taken for a port. *)
ParseRestColons(scheme, rest) ==
  LET td == SubSeq(rest, 1, TrustDomainLen(rest)) IN
  IF {QuestionMark, NumberSign} \cap ToSet(rest) # {} THEN "HasQuery"
  ELSE IF AtSign \in ToSet(td) THEN "HasUserInfo"
  ELSE IF Colon \in ToSet(rest) THEN "HasPort"
  ELSE IF ValidateTrustDomain(scheme, td) # "Ok" THEN ValidateTrustDomain(scheme, td)
  ELSE ValidatePath(scheme, SubSeq(rest, Len(td) + 1, Len(rest)))

ParseRest(scheme, rest) ==
  LET td == SubSeq(rest, 1, TrustDomainLen(rest)) IN
  IF QuestionMark \in ToSet(rest) THEN "HasQuery"
  ELSE IF NumberSign \in ToSet(rest) THEN "HasFragment"
  ELSE IF AtSign \in ToSet(td) THEN "HasUserInfo"
  ELSE IF Colon \in ToSet(td) THEN "HasPort"
  ELSE IF ValidateTrustDomain(scheme, td) # "Ok" THEN ValidateTrustDomain(scheme, td)
  ELSE ValidatePath(scheme, SubSeq(rest, Len(td) + 1, Len(rest)))

Parse(text) ==
  IF Len(text) > MaxIdLen THEN "TooLong"
  ELSE IF SchemeOf(text) = {} THEN "UnsupportedScheme"
  ELSE LET scheme == CHOOSE s \in SchemeOf(text) : TRUE
       IN  ParseRest(scheme, Rest(text, scheme))

(***************************************************************************)
(* An accepted identifier, and its accessors, which slice the text by the  *)
(* lengths of the prefix and the trust domain.                             *)
(***************************************************************************)
Identified(text) ==
  LET scheme == CHOOSE s \in SchemeOf(text) : TRUE
  IN  [uri |-> text, scheme |-> scheme,
       trustDomainLen |-> TrustDomainLen(Rest(text, scheme))]

OriginLen(id)   == Len(PrefixOf[id.scheme]) + id.trustDomainLen
TrustDomain(id) == SubSeq(id.uri, Len(PrefixOf[id.scheme]) + 1, OriginLen(id))
PathOf(id)      == SubSeq(id.uri, OriginLen(id) + 1, Len(id.uri))
Origin(id)      == SubSeq(id.uri, 1, OriginLen(id))

-----------------------------------------------------------------------------
(***************************************************************************)
(* Reference: the normal form of a URI with an authority and a path.       *)
(***************************************************************************)
ToUpper(o) == IF o \in HexLower THEN o - 32 ELSE o
ToLower(o) == IF o \in Upper THEN o + 32 ELSE o

Escapes(text) ==
  {i \in 1 .. Len(text) - 2 :
     text[i] = Percent /\ text[i + 1] \in HexDigits /\ text[i + 2] \in HexDigits}

Decoded(text, i) == 16 * DecodeHex(ToUpper(text[i + 1])) + DecodeHex(ToUpper(text[i + 2]))

(* What becomes of octet i: an escape of an unreserved character is that   *)
(* character, the others are capitalized.                                  *)
NormalOctet(text, i) ==
  LET of     == {e \in Escapes(text) : i \in e .. e + 2}
      escape == CHOOSE e \in of : TRUE
  IN  IF of = {} THEN <<text[i]>>
      ELSE IF Decoded(text, escape) \notin Unreserved THEN <<ToUpper(text[i])>>
      ELSE IF i = escape THEN <<Decoded(text, escape)>>
      ELSE <<>>

NormalEscapes(text) == FlattenSeq([i \in DOMAIN text |-> NormalOctet(text, i)])

(* remove_dot_segments.  What it has kept ends before the first slash      *)
(* behind octet i.                                                         *)
WithoutLast(kept) == SubSeq(kept, 1, Max({1} \cup Slashes(kept)) - 1)

RemoveDots(path) ==
  LET Kept[i \in 0 .. Len(path)] ==
        IF i = 0 THEN <<>>
        ELSE IF i \notin Slashes(path) \/ SegmentAfter(path, i) = Dot THEN Kept[i - 1]
        ELSE IF SegmentAfter(path, i) = DotDot THEN WithoutLast(Kept[i - 1])
        ELSE Kept[i - 1] \o <<Slash>> \o SegmentAfter(path, i)
  IN  Kept[Len(path)]

Normalize(id) ==
  PrefixOf[id.scheme]
    \o [i \in 1..id.trustDomainLen |-> ToLower(TrustDomain(id)[i])]
    \o RemoveDots(NormalEscapes(PathOf(id)))

(***************************************************************************)
(* Reference: the grammar of RFC 3986 and of the two schemes.              *)
(***************************************************************************)
IsSegment(scheme, segment) ==
  IF scheme = "spiffe" THEN ToSet(segment) \subseteq SpiffeSegmentChars
  ELSE \A i \in DOMAIN segment : segment[i] \in PChar \/ i \in Escapes(segment)

InGrammar(id) ==
  /\ Len(id.uri) <= MaxIdLen
  /\ id.trustDomainLen > 0
  /\ id.scheme = "spiffe" => id.trustDomainLen <= MaxTrustDomainLen
  /\ ToSet(TrustDomain(id)) \subseteq TrustDomainChars
  /\ \A i \in Slashes(PathOf(id)) :
       LET segment == SegmentAfter(PathOf(id), i)
       IN  segment # <<>> /\ IsSegment(id.scheme, segment)
=============================================================================
