----------------------- MODULE WorkloadIdentifier_proofs -----------------------
(***************************************************************************)
(* That parse accepts the identifiers that the grammar generates and       *)
(* normalization leaves alone, and those only (AcceptedIs, AcceptedIf),    *)
(* for any octets and any limits on their number.                          *)
(*                                                                         *)
(* Normalizing escapes never lengthens a path, and removing dot segments   *)
(* neither (NormalEscapesIs, RemoveDotsShorter).  So a path that both      *)
(* together leave alone has kept its length at each, and then its escapes  *)
(* are normal ones, octet by octet, and it has no dot segments: it is      *)
(* valid (NormalIsValid).  The other way round there is nothing to         *)
(* decode, to capitalize or to remove in a valid path (ValidIsNormal).     *)
(***************************************************************************)
EXTENDS WorkloadIdentifier, StructuredFields_proofs

Octs == Seq(Nat)

(***************************************************************************)
(* Slashes and what lies between them.                                     *)
(***************************************************************************)
LEMMA NextSlashIs ==
  ASSUME NEW text \in Octs, NEW i \in 0..Len(text)
  PROVE  /\ NextSlash(text, i) \in i + 1 .. Len(text) + 1
         /\ NextSlash(text, i) <= Len(text) => text[NextSlash(text, i)] = Slash
         /\ \A j \in i + 1 .. NextSlash(text, i) - 1 : text[j] # Slash
<1> DEFINE S == {j \in i + 1 .. Len(text) : text[j] = Slash} \cup {Len(text) + 1}
<1>1. Len(text) \in Nat /\ S \in SUBSET Nat /\ S # {} /\ S \subseteq i + 1 .. Len(text) + 1
  BY DEF Octs
<1>2. NextSlash(text, i) = Min(S)
  BY DEF NextSlash
<1>3. Min(S) \in S /\ \A y \in S : Min(S) <= y
  <2> HIDE DEF S
  <2>1. QED
    BY <1>1, MinIsLeast
<1>4. PICK m : m = NextSlash(text, i)
  OBVIOUS
<1>5. m \in S /\ \A y \in S : m <= y
  BY <1>2, <1>3, <1>4
<1>6. m \in i + 1 .. Len(text) + 1 /\ (m <= Len(text) => text[m] = Slash)
  BY <1>1, <1>5
<1>7. ASSUME NEW j \in i + 1 .. m - 1 PROVE text[j] # Slash
  <2>1. j \in i + 1 .. Len(text) /\ j < m
    BY <1>1, <1>6
  <2>2. j \notin S
    BY <1>5, <1>6, <2>1
  <2>3. QED
    BY <2>1, <2>2
<1>8. QED
  BY <1>4, <1>6, <1>7

(* The slash ends what is in front of it, and a segment has none. *)
LEMMA SegmentIs ==
  ASSUME NEW path \in Octs, NEW i \in Slashes(path)
  PROVE  /\ i \in 1..Len(path)
         /\ SegmentAfter(path, i) \in Octs
         /\ Len(SegmentAfter(path, i)) = NextSlash(path, i) - 1 - i
         /\ \A k \in 1..Len(SegmentAfter(path, i)) :
              i + k \in 1..Len(path) /\ SegmentAfter(path, i)[k] = path[i + k]
<1>1. Len(path) \in Nat /\ DOMAIN path = 1..Len(path)
  BY DEF Octs
<1>2. i \in 1..Len(path)
  BY <1>1 DEF Slashes
<1>3. NextSlash(path, i) \in i + 1 .. Len(path) + 1
  BY <1>1, <1>2, NextSlashIs
<1> DEFINE m == NextSlash(path, i) - 1
<1>4. m \in i..Len(path) /\ SegmentAfter(path, i) = SubSeq(path, i + 1, m)
  BY <1>1, <1>2, <1>3 DEF SegmentAfter
<1> HIDE DEF m
<1>5. /\ SubSeq(path, i + 1, m) \in Octs
      /\ Len(SubSeq(path, i + 1, m)) = m - i
      /\ \A k \in 1 .. m - i : SubSeq(path, i + 1, m)[k] = path[i + k]
  <2>1. path \in Seq(Nat) /\ i \in 0..Len(path) /\ m \in i..Len(path)
    BY <1>1, <1>2, <1>4 DEF Octs
  <2>2. QED
    BY <2>1, CutIs DEF Octs
<1>6. QED
  BY <1>1, <1>2, <1>4, <1>5 DEF m

(* Every octet but a slash is in a segment. *)
LEMMA InSegment ==
  ASSUME NEW path \in Octs, path[1] = Slash, NEW e \in 1..Len(path), path[e] # Slash
  PROVE  \E j \in Slashes(path) : \E k \in 1..Len(SegmentAfter(path, j)) : e = j + k
<1> DEFINE S == {j \in Slashes(path) : j < e}
<1>1. Len(path) \in Nat /\ DOMAIN path = 1..Len(path) /\ S \in SUBSET (0..Len(path)) /\ 1 \in S
  BY DEF Octs, Slashes
<1>2. PICK j \in S : \A y \in S : y <= j
  <2> HIDE DEF S
  <2>1. QED
    BY <1>1, MaxIsGreatest
<1>3. j \in Slashes(path) /\ j < e /\ j \in 1..Len(path)
  BY <1>1 DEF Slashes
<1>4. PICK m : m = NextSlash(path, j)
  OBVIOUS
<1>5. m \in j + 1 .. Len(path) + 1 /\ (m <= Len(path) => path[m] = Slash)
  BY <1>1, <1>3, <1>4, NextSlashIs
<1>6. m > e
  <2>1. SUFFICES ASSUME m <= e PROVE FALSE
    BY <1>1, <1>5
  <2>2. m # e /\ m \in 1..Len(path)
    BY <1>3, <1>5, <2>1
  <2>3. m \in S
    BY <1>1, <1>5, <2>1, <2>2 DEF Slashes
  <2>4. QED
    BY <1>2, <1>5, <2>3, <1>3
<1>7. Len(SegmentAfter(path, j)) = m - 1 - j
  BY <1>3, <1>4, SegmentIs
<1>8. e - j \in 1..Len(SegmentAfter(path, j)) /\ e = j + (e - j)
  BY <1>3, <1>5, <1>6, <1>7
<1>9. QED
  BY <1>3, <1>8

(***************************************************************************)
(* Escapes.                                                                *)
(***************************************************************************)
LEMMA Associative ==
  ASSUME NEW s \in Seq(Nat), NEW t \in Seq(Nat), NEW u \in Seq(Nat)
  PROVE  (s \o t) \o u = s \o (t \o u)
BY ConcatAssociative, SMTT(30)

LEMMA EscapesIn ==
  ASSUME NEW text \in Octs, NEW e \in Escapes(text)
  PROVE  /\ e \in 1..Len(text) /\ e + 1 \in 1..Len(text) /\ e + 2 \in 1..Len(text)
         /\ text[e] = Percent /\ text[e + 1] \in HexDigits /\ text[e + 2] \in HexDigits
BY DEF Escapes, Octs

LEMMA HexAreChars ==
  /\ HexDigits \subseteq PChar /\ Percent \notin PChar /\ Percent \notin HexDigits
  /\ Slash \notin HexDigits /\ Slash \notin PChar /\ Slash # Percent
  /\ PChar \subseteq Nat
BY DEF HexDigits, HexLower, Digits, PChar, Unreserved, Upper, Lower, Percent, Slash

(* Escapes do not overlap. *)
LEMMA OneEscape ==
  ASSUME NEW text \in Octs, NEW e \in Escapes(text), NEW f \in Escapes(text),
         NEW i \in e .. e + 2, i \in f .. f + 2
  PROVE  e = f
<1>0. /\ e \in 1..Len(text) /\ f \in 1..Len(text)
      /\ text[e] = Percent /\ text[e + 1] # Percent /\ text[e + 2] # Percent
      /\ text[f] = Percent /\ text[f + 1] # Percent /\ text[f + 2] # Percent
  BY EscapesIn, HexAreChars
<1>1. e \in Nat /\ f \in Nat
  BY <1>0
<1>2. e # f + 1 /\ e # f + 2 /\ f # e + 1 /\ f # e + 2
  BY <1>0
<1>3. QED
  BY <1>1, <1>2

LEMMA NormalOctetIs ==
  ASSUME NEW text \in Octs, NEW i \in 1..Len(text)
  PROVE  /\ \A e \in Escapes(text) :
              i \in e .. e + 2 =>
                NormalOctet(text, i) =
                  IF Decoded(text, e) \notin Unreserved THEN <<ToUpper(text[i])>>
                  ELSE IF i = e THEN <<Decoded(text, e)>>
                  ELSE <<>>
         /\ (\A e \in Escapes(text) : i \notin e .. e + 2) => NormalOctet(text, i) = <<text[i]>>
         /\ NormalOctet(text, i) \in Octs
         /\ Len(NormalOctet(text, i)) <= 1
<1>1. ASSUME NEW e \in Escapes(text), i \in e .. e + 2
      PROVE  NormalOctet(text, i) =
                  IF Decoded(text, e) \notin Unreserved THEN <<ToUpper(text[i])>>
                  ELSE IF i = e THEN <<Decoded(text, e)>>
                  ELSE <<>>
  <2> DEFINE of == {x \in Escapes(text) : i \in x .. x + 2}
             escape == CHOOSE x \in of : TRUE
  <2>1. e \in of
    BY <1>1
  <2>2. escape \in of
    BY <2>1
  <2>3. escape = e
    BY <1>1, <2>2, OneEscape
  <2>4. NormalOctet(text, i) =
          IF of = {} THEN <<text[i]>>
          ELSE IF Decoded(text, escape) \notin Unreserved THEN <<ToUpper(text[i])>>
          ELSE IF i = escape THEN <<Decoded(text, escape)>>
          ELSE <<>>
    BY DEF NormalOctet
  <2> HIDE DEF of, escape
  <2>5. QED
    BY <2>1, <2>3, <2>4
<1>2. ASSUME \A e \in Escapes(text) : i \notin e .. e + 2
      PROVE  NormalOctet(text, i) = <<text[i]>>
  BY <1>2 DEF NormalOctet
<1>3. text[i] \in Nat /\ ToUpper(text[i]) \in Nat
  BY DEF Octs, ToUpper, HexLower
<1>4. Unreserved \subseteq Nat
  BY DEF Unreserved, Upper, Lower, Digits
<1>5. \A o \in Nat : <<o>> \in Octs /\ Len(<<o>>) = 1
  BY DEF Octs
<1>6. <<>> \in Octs /\ Len(<<>>) = 0
  BY DEF Octs
<1>7. CASE \A e \in Escapes(text) : i \notin e .. e + 2
  <2>1. NormalOctet(text, i) = <<text[i]>>
    BY <1>2, <1>7
  <2>2. QED
    BY <1>2, <1>3, <1>5, <1>7, <2>1
<1>8. CASE ~ \A e \in Escapes(text) : i \notin e .. e + 2
  <2>1. PICK e \in Escapes(text) : i \in e .. e + 2
    BY <1>8
  <2>2. CASE Decoded(text, e) \notin Unreserved
    <3>1. NormalOctet(text, i) = <<ToUpper(text[i])>>
      BY <1>1, <2>1, <2>2
    <3>2. NormalOctet(text, i) \in Octs /\ Len(NormalOctet(text, i)) <= 1
      BY <1>3, <1>5, <3>1
    <3>3. QED
      BY <1>1, <1>8, <3>2
  <2>3. CASE Decoded(text, e) \in Unreserved /\ i = e
    <3>1. NormalOctet(text, i) = <<Decoded(text, e)>>
      BY <1>1, <2>1, <2>3
    <3>2. NormalOctet(text, i) \in Octs /\ Len(NormalOctet(text, i)) <= 1
      <4>1. PICK o \in Nat : o = Decoded(text, e)
        BY <1>4, <2>3
      <4>2. QED
        BY <1>5, <3>1, <4>1
    <3>3. QED
      BY <1>1, <1>8, <3>2
  <2>4. CASE Decoded(text, e) \in Unreserved /\ i # e
    <3>1. NormalOctet(text, i) = <<>>
      BY <1>1, <2>1, <2>4
    <3>2. NormalOctet(text, i) \in Octs /\ Len(NormalOctet(text, i)) <= 1
      BY <1>6, <3>1
    <3>3. QED
      BY <1>1, <1>8, <3>2
  <2>5. QED
    BY <2>2, <2>3, <2>4
<1>9. QED
  BY <1>7, <1>8

(* Normalization never makes a text longer, and one that it leaves alone   *)
(* it leaves alone octet by octet.                                         *)
LEMMA NormalEscapesIs ==
  ASSUME NEW text \in Octs
  PROVE  /\ NormalEscapes(text) \in Octs
         /\ Len(NormalEscapes(text)) <= Len(text)
         /\ (\A i \in 1..Len(text) : NormalOctet(text, i) = <<text[i]>>) => NormalEscapes(text) = text
         /\ NormalEscapes(text) = text => \A i \in 1..Len(text) : NormalOctet(text, i) = <<text[i]>>
<1>1. PICK n \in Nat : n = Len(text) /\ DOMAIN text = 1..n /\ \A i \in 1..n : text[i] \in Nat
  BY DEF Octs
<1> DEFINE parts == [i \in 1..n |-> NormalOctet(text, i)]
<1>2. parts \in [1..n -> Octs] /\ NormalEscapes(text) = FlattenSeq(parts)
  BY <1>1, NormalOctetIs DEF NormalEscapes
<1>3. \A i \in 1..n : parts[i] = NormalOctet(text, i) /\ Len(parts[i]) <= 1 /\ Len(parts[i]) \in Nat
  BY <1>1, NormalOctetIs DEF Octs
<1> HIDE DEF parts
<1>4. parts \in Seq(Seq(Nat)) /\ Len(parts) = n
  BY <1>2, AsSequence DEF Octs
<1>5. PICK f \in [0..n -> Octs] : Accumulates(f, parts, n) /\ NormalEscapes(text) = f[n]
  <2>1. \E f \in [0..Len(parts) -> Seq(Nat)] :
           Accumulates(f, parts, Len(parts)) /\ FlattenSeq(parts) = f[Len(parts)]
    BY <1>4, Flattened
  <2>2. QED
    BY <1>2, <1>4, <2>1 DEF Octs
<1>6. PartsStand(f, parts, n)
  <2>1. parts \in [1..n -> Seq(Nat)] /\ f \in [0..n -> Seq(Nat)] /\ Accumulates(f, parts, n)
    BY <1>2, <1>5 DEF Octs
  <2>2. QED
    BY <2>1, FlattenedParts
<1>7. \A i \in 0..n : f[i] \in Octs /\ Len(f[i]) \in Nat
  BY <1>5 DEF Octs
<1>8. \A i \in 0 .. n - 1 : /\ i \in 0..n /\ i + 1 \in 0..n /\ i + 1 \in 1..n
                            /\ Len(f[i + 1]) = Len(f[i]) + Len(parts[i + 1])
  BY <1>6 DEF PartsStand
<1>9. Len(f[0]) = 0
  BY <1>5 DEF Accumulates
<1>10. \A i \in 0..n : Len(f[i]) <= i
  <2> DEFINE T == {i \in 0..n : Len(f[i]) <= i}
  <2>1. 0 \in T
    BY <1>9
  <2>2. ASSUME NEW i \in 0 .. n - 1, i \in T PROVE i + 1 \in T
    <3>1. PICK a \in Nat, b \in Nat, c \in Nat :
            a = Len(f[i]) /\ b = Len(parts[i + 1]) /\ c = Len(f[i + 1])
      BY <1>3, <1>7, <1>8
    <3>2. c = a + b /\ b <= 1 /\ a <= i
      BY <1>3, <1>8, <2>2, <3>1
    <3>3. i + 1 \in 0..n /\ Len(f[i + 1]) <= i + 1
      BY <1>8, <3>1, <3>2
    <3>4. QED
      BY <3>3
  <2> HIDE DEF T
  <2>3. \A i \in 0..n : i \in T
    BY <2>1, <2>2, InductionTo
  <2>4. QED
    BY <2>3 DEF T
<1>11. n \in 0..n
  OBVIOUS
<1>12. ASSUME \A i \in 1..n : parts[i] = <<text[i]>>
       PROVE  f[n] = text
  <2> DEFINE T == {i \in 0..n : Len(f[i]) = i}
  <2>1. 0 \in T
    BY <1>9
  <2>2. ASSUME NEW i \in 0 .. n - 1, i \in T PROVE i + 1 \in T
    <3>1. Len(parts[i + 1]) = 1
      BY <1>8, <1>12
    <3>2. QED
      BY <1>7, <1>8, <2>2, <3>1
  <2> HIDE DEF T
  <2>3. \A i \in 0..n : i \in T
    BY <2>1, <2>2, InductionTo
  <2>4. \A i \in 0..n : Len(f[i]) = i
    BY <2>3 DEF T
  <2>5. ASSUME NEW i \in 1..n PROVE f[n][i] = text[i]
    <3>1. i - 1 \in 0 .. n - 1 /\ (i - 1) + 1 = i /\ i - 1 \in 0..n
      OBVIOUS
    <3>2. parts[i] = <<text[i]>> /\ Len(<<text[i]>>) = 1 /\ <<text[i]>>[1] = text[i] /\ 1 \in 1..1
      BY <1>12
    <3>3. f[n][Len(f[i - 1]) + 1] = parts[i][1]
      <4>1. \A j \in 1..Len(parts[(i - 1) + 1]) : f[n][Len(f[i - 1]) + j] = parts[(i - 1) + 1][j]
        BY <1>6, <3>1 DEF PartsStand
      <4>2. QED
        BY <3>1, <3>2, <4>1
    <3>4. Len(f[i - 1]) + 1 = i
      BY <2>4, <3>1
    <3>5. QED
      BY <3>2, <3>3, <3>4
  <2>6. f[n] \in Octs /\ Len(f[n]) = n
    BY <1>7, <1>11, <2>4
  <2>7. f[n] \in Seq(Nat) /\ text \in Seq(Nat) /\ Len(f[n]) = Len(text)
    BY <1>1, <2>6 DEF Octs
  <2>8. \A i \in 1..Len(text) : f[n][i] = text[i]
    BY <1>1, <2>5
  <2>9. QED
    BY <2>7, <2>8, SameItems
<1>13. ASSUME f[n] = text, NEW k \in 1..n
       PROVE  parts[k] = <<text[k]>>
  <2>1. ASSUME NEW i \in 0 .. n - 1, Len(f[i + 1]) = i + 1
        PROVE  Len(f[i]) = i
    <3>1. PICK a \in Nat, b \in Nat : a = Len(f[i]) /\ b = Len(parts[i + 1])
      BY <1>3, <1>7, <1>8
    <3>2. i + 1 = a + b /\ b <= 1 /\ a <= i
      BY <1>3, <1>8, <1>10, <2>1, <3>1
    <3>3. a = i
      BY <3>2
    <3>4. QED
      BY <3>1, <3>3
  <2> DEFINE T == {d \in 0..n : Len(f[n - d]) = n - d}
  <2>2. 0 \in T
    BY <1>1, <1>13
  <2>3. ASSUME NEW d \in 0 .. n - 1, d \in T PROVE d + 1 \in T
    <3>1. n - (d + 1) \in 0 .. n - 1 /\ (n - (d + 1)) + 1 = n - d
      OBVIOUS
    <3>2. Len(f[n - d]) = n - d
      BY <2>3
    <3>3. Len(f[n - (d + 1)]) = n - (d + 1)
      BY <2>1, <3>1, <3>2
    <3>4. QED
      BY <3>3
  <2> HIDE DEF T
  <2>4. \A d \in 0..n : d \in T
    BY <2>2, <2>3, InductionTo
  <2>5. \A d \in 0..n : Len(f[n - d]) = n - d
    BY <2>4 DEF T
  <2>6. \A i \in 0..n : Len(f[i]) = i
    <3>1. ASSUME NEW i \in 0..n PROVE Len(f[i]) = i
      <4>1. n - i \in 0..n /\ n - (n - i) = i
        OBVIOUS
      <4>2. QED
        BY <2>5, <4>1
    <3>2. QED
      BY <3>1
  <2>7. k - 1 \in 0 .. n - 1 /\ (k - 1) + 1 = k /\ k - 1 \in 0..n /\ k \in 0..n
    OBVIOUS
  <2>8. Len(parts[k]) = 1
    <3>1. Len(f[(k - 1) + 1]) = Len(f[k - 1]) + Len(parts[(k - 1) + 1])
      BY <1>8, <2>7
    <3>2. Len(f[k]) = k /\ Len(f[k - 1]) = k - 1 /\ Len(parts[k]) \in Nat
      BY <1>3, <2>6, <2>7
    <3>3. PICK b \in Nat : b = Len(parts[k])
      BY <3>2
    <3>4. k = (k - 1) + b /\ k \in Nat
      BY <2>7, <3>1, <3>2, <3>3
    <3>5. b = 1
      BY <3>4
    <3>6. QED
      BY <3>3, <3>5
  <2>9. f[n][Len(f[k - 1]) + 1] = parts[k][1]
    <3>1. \A j \in 1..Len(parts[(k - 1) + 1]) : f[n][Len(f[k - 1]) + j] = parts[(k - 1) + 1][j]
      BY <1>6, <2>7 DEF PartsStand
    <3>2. QED
      BY <2>7, <2>8, <3>1
  <2>10. Len(f[k - 1]) + 1 = k
    BY <2>6, <2>7
  <2>11. parts[k][1] = text[k]
    BY <1>13, <2>9, <2>10
  <2>12. parts[k] \in Octs
    BY <1>2
  <2>13. QED
    BY <2>8, <2>11, <2>12 DEF Octs
<1>14. /\ f[n] \in Octs /\ Len(f[n]) <= n
  BY <1>7, <1>10, <1>11
<1>15. QED
  BY <1>1, <1>3, <1>5, <1>12, <1>13, <1>14

(***************************************************************************)
(* Dot segments.                                                           *)
(***************************************************************************)
(* What is kept after octet i. *)
DotStep(path, i, kept) ==
  IF i \notin Slashes(path) \/ SegmentAfter(path, i) = Dot THEN kept
  ELSE IF SegmentAfter(path, i) = DotDot THEN WithoutLast(kept)
  ELSE kept \o <<Slash>> \o SegmentAfter(path, i)

LEMMA WithoutLastIs ==
  ASSUME NEW kept \in Octs
  PROVE  WithoutLast(kept) \in Octs /\ Len(WithoutLast(kept)) <= Len(kept)
<1> DEFINE S == {1} \cup Slashes(kept)
<1>1. Len(kept) \in Nat /\ Len(kept) + 1 \in Nat /\ S # {} /\ S \in SUBSET (0 .. Len(kept) + 1) /\ S \subseteq 1 .. Len(kept) + 1
  BY DEF Octs, Slashes
<1>2. Max(S) \in S
  <2> HIDE DEF S
  <2>1. QED
    BY <1>1, MaxIsGreatest
<1>3. PICK m : m = Max(S)
  OBVIOUS
<1>4. m - 1 \in 0..Len(kept)
  <2>1. m \in S
    BY <1>2, <1>3
  <2>2. QED
    BY <1>1, <2>1
<1>5. WithoutLast(kept) = SubSeq(kept, 0 + 1, m - 1)
  BY <1>3 DEF WithoutLast
<1>6. SubSeq(kept, 0 + 1, m - 1) \in Octs /\ Len(SubSeq(kept, 0 + 1, m - 1)) = (m - 1) - 0
  BY <1>1, <1>4, CutIs DEF Octs
<1>7. QED
  BY <1>1, <1>4, <1>5, <1>6

LEMMA DotStepType ==
  ASSUME NEW path \in Octs, NEW i, NEW kept \in Octs
  PROVE  DotStep(path, i, kept) \in Octs
<1>1. CASE i \notin Slashes(path)
  BY <1>1 DEF DotStep
<1>2. CASE i \in Slashes(path)
  <2>1. SegmentAfter(path, i) \in Octs /\ <<Slash>> \in Octs
    BY <1>2, SegmentIs DEF Octs, Slash
  <2>2. kept \o <<Slash>> \in Octs
    BY <2>1, Concatenated DEF Octs
  <2>3. (kept \o <<Slash>>) \o SegmentAfter(path, i) \in Octs
    BY <2>1, <2>2, Concatenated DEF Octs
  <2>4. WithoutLast(kept) \in Octs
    BY WithoutLastIs
  <2>5. QED
    BY <2>3, <2>4 DEF DotStep
<1>3. QED
  BY <1>1, <1>2

LEMMA RemoveDotsIs ==
  ASSUME NEW path \in Octs
  PROVE  \E f \in [0..Len(path) -> Octs] :
           /\ f[0] = <<>>
           /\ \A i \in 0 .. Len(path) - 1 : f[i + 1] = DotStep(path, i + 1, f[i])
           /\ RemoveDots(path) = f[Len(path)]
<1>1. PICK n \in Nat : n = Len(path)
  BY DEF Octs
<1> DEFINE step == [i \in 0 .. n - 1 |-> [kept \in Octs |-> DotStep(path, i + 1, kept)]]
<1>2. step \in [0 .. n - 1 -> [Octs -> Octs]]
  BY DotStepType
<1>3. <<>> \in Octs
  BY DEF Octs
<1>4. PICK f \in [0..n -> Octs] : Steps(f, <<>>, step, n)
  <2> HIDE DEF step
  <2>1. QED
    BY <1>2, <1>3, Iterated
<1>5. ASSUME NEW i \in 0 .. n - 1 PROVE f[i] \in Octs /\ step[i][f[i]] = DotStep(path, i + 1, f[i])
  <2>1. f[i] \in Octs
    OBVIOUS
  <2>2. QED
    BY <2>1
<1> HIDE DEF step
<1>6. f[0] = <<>> /\ \A i \in 0 .. n - 1 : f[i + 1] = DotStep(path, i + 1, f[i])
  BY <1>4, <1>5 DEF Steps
<1> DEFINE Body(h) == [i \in 0..n |->
             IF i = 0 THEN <<>>
             ELSE IF i \notin Slashes(path) \/ SegmentAfter(path, i) = Dot THEN h[i - 1]
             ELSE IF SegmentAfter(path, i) = DotDot THEN WithoutLast(h[i - 1])
             ELSE h[i - 1] \o <<Slash>> \o SegmentAfter(path, i)]
           Kept == CHOOSE h : h = Body(h)
<1>7. ASSUME NEW h, NEW i \in 0..n
      PROVE  Body(h)[i] = IF i = 0 THEN <<>> ELSE DotStep(path, i, h[i - 1])
  BY DEF DotStep
<1>8. DOMAIN Body(f) = 0..n /\ \A h : Body(h) = [i \in 0..n |-> Body(h)[i]]
  OBVIOUS
<1>9. f = Body(f)
  <2>1. ASSUME NEW i \in 0..n PROVE f[i] = Body(f)[i]
    <3>1. CASE i = 0
      <4>1. Body(f)[i] = <<>>
        BY <3>1
      <4>2. QED
        BY <1>6, <3>1, <4>1
    <3>2. CASE i # 0
      <4>1. i - 1 \in 0 .. n - 1 /\ (i - 1) + 1 = i
        BY <3>2
      <4>2. Body(f)[i] = DotStep(path, i, f[i - 1])
        BY <1>7, <3>2
      <4>3. f[(i - 1) + 1] = DotStep(path, (i - 1) + 1, f[i - 1])
        BY <1>6, <4>1
      <4>4. QED
        BY <4>1, <4>2, <4>3
    <3>3. QED
      BY <3>1, <3>2
  <2> HIDE DEF Body
  <2>2. f = [i \in 0..n |-> f[i]]
    OBVIOUS
  <2>3. QED
    BY <1>8, <2>1, <2>2
<1>10. RemoveDots(path) = Kept[n]
  BY <1>1 DEF RemoveDots
<1>11. Kept = Body(Kept)
  <2> HIDE DEF Body
  <2>1. QED
    BY <1>9
<1> HIDE DEF Body, Kept
<1>12. Kept[0] = f[0] /\ \A i \in 0 .. n - 1 : Kept[i] = f[i] => Kept[i + 1] = f[i + 1]
  <2>1. 0 \in 0..n
    OBVIOUS
  <2>2. Kept[0] = <<>>
    BY <1>7, <1>11, <2>1
  <2>3. ASSUME NEW i \in 0 .. n - 1, Kept[i] = f[i] PROVE Kept[i + 1] = f[i + 1]
    <3>1. i + 1 \in 0..n /\ i + 1 # 0 /\ (i + 1) - 1 = i
      OBVIOUS
    <3>2. Kept[i + 1] = DotStep(path, i + 1, Kept[i])
      BY <1>7, <1>11, <3>1
    <3>3. QED
      BY <1>6, <2>3, <3>2
  <2>4. QED
    BY <1>6, <2>2, <2>3
<1>13. \A i \in 0..n : Kept[i] = f[i]
  <2>1. Follows(Kept, f, n)
    BY <1>12 DEF Follows
  <2>2. Equal(Kept, f, n)
    BY <2>1, Agrees
  <2>3. QED
    BY <2>2 DEF Equal
<1>14. n \in 0..n
  OBVIOUS
<1>15. QED
  BY <1>1, <1>6, <1>10, <1>13, <1>14

(* Without dot segments, what is kept after octet i ends in front of the   *)
(* next slash; with one, something is gone.                                *)
HasDots(path) == \E i \in Slashes(path) : SegmentAfter(path, i) \in DotSegments

LEMMA NextIs ==
  ASSUME NEW path \in Octs, NEW i \in 0 .. Len(path) - 1
  PROVE  /\ i + 1 \notin Slashes(path) => NextSlash(path, i + 1) = NextSlash(path, i)
         /\ i + 1 \in Slashes(path) => NextSlash(path, i) = i + 1
<1>1. PICK n \in Nat : n = Len(path) /\ DOMAIN path = 1..n
  BY DEF Octs
<1>2. PICK a, b : a = NextSlash(path, i) /\ b = NextSlash(path, i + 1)
  OBVIOUS
<1>3. /\ a \in i + 1 .. n + 1
      /\ a <= n => path[a] = Slash
      /\ \A j \in i + 1 .. a - 1 : path[j] # Slash
  <2>1. i \in 0..Len(path)
    BY <1>1
  <2>2. QED
    BY <1>1, <1>2, <2>1, NextSlashIs
<1>4. /\ b \in i + 2 .. n + 1
      /\ b <= n => path[b] = Slash
      /\ \A j \in i + 2 .. b - 1 : path[j] # Slash
  <2>1. i + 1 \in 0..Len(path) /\ (i + 1) + 1 = i + 2
    BY <1>1
  <2>2. QED
    BY <1>1, <1>2, <2>1, NextSlashIs
<1>5. CASE i + 1 \in Slashes(path)
  <2>1. path[i + 1] = Slash
    BY <1>5 DEF Slashes
  <2>2. ~(i + 1 \in i + 1 .. a - 1)
    BY <1>3, <2>1
  <2>3. a = i + 1
    BY <1>3, <2>2
  <2>4. QED
    BY <1>2, <1>5, <2>3
<1>6. CASE i + 1 \notin Slashes(path)
  <2>1. i + 1 \in 1..n /\ path[i + 1] # Slash
    BY <1>1, <1>6 DEF Slashes
  <2>2. a # i + 1
    BY <1>3, <2>1
  <2>3. ~(a < b)
    BY <1>3, <1>4, <2>2
  <2>4. ~(b < a)
    BY <1>3, <1>4
  <2>5. a = b
    BY <1>3, <1>4, <2>3, <2>4
  <2>6. QED
    BY <1>2, <1>6, <2>5
<1>7. QED
  BY <1>5, <1>6

DotsUpTo(path, i) == \E j \in Slashes(path) : j <= i /\ SegmentAfter(path, j) \in DotSegments

LEMMA RemoveDotsShorter ==
  ASSUME NEW path \in Octs
  PROVE  /\ RemoveDots(path) \in Octs
         /\ Len(RemoveDots(path)) <= Len(path)
         /\ Len(RemoveDots(path)) = Len(path) => ~HasDots(path) /\ NextSlash(path, 0) = 1
<1>1. PICK n \in Nat : n = Len(path) /\ DOMAIN path = 1..n
  BY DEF Octs
<1>2. PICK f \in [0..n -> Octs] :
        /\ f[0] = <<>>
        /\ \A i \in 0 .. n - 1 : f[i + 1] = DotStep(path, i + 1, f[i])
        /\ RemoveDots(path) = f[n]
  BY <1>1, RemoveDotsIs
<1>3. PICK z \in 1 .. n + 1 : z = NextSlash(path, 0)
  BY <1>1, NextSlashIs
<1> DEFINE Short(i) == Len(f[i]) + z <= NextSlash(path, i)
                         /\ (DotsUpTo(path, i) => Len(f[i]) + z < NextSlash(path, i))
           T == {i \in 0..n : Short(i)}
<1>4. 0 \in T
  <2>1. Len(f[0]) = 0
    BY <1>2
  <2>2. ~DotsUpTo(path, 0)
    BY <1>1 DEF DotsUpTo, Slashes
  <2>3. QED
    BY <1>3, <2>1, <2>2
<1>5. ASSUME NEW i \in 0 .. n - 1, i \in T PROVE i + 1 \in T
  <2>1. i \in 0..n /\ i + 1 \in 0..n /\ i \in 0..Len(path) /\ i + 1 \in 0..Len(path) /\ i \in 0 .. Len(path) - 1
    BY <1>1
  <2>2. f[i] \in Octs /\ f[i + 1] \in Octs /\ f[i + 1] = DotStep(path, i + 1, f[i])
    BY <1>2, <2>1
  <2>3. PICK a \in Nat, b \in Nat, k \in Nat, l \in Nat :
          /\ a = NextSlash(path, i) /\ b = NextSlash(path, i + 1)
          /\ k = Len(f[i]) /\ l = Len(f[i + 1])
    <3>1. NextSlash(path, i) \in Nat /\ NextSlash(path, i + 1) \in Nat
      <4>1. NextSlash(path, i) \in i + 1 .. Len(path) + 1
        BY <2>1, NextSlashIs
      <4>2. NextSlash(path, i + 1) \in (i + 1) + 1 .. Len(path) + 1
        BY <2>1, NextSlashIs
      <4>3. QED
        BY <1>1, <4>1, <4>2
    <3>2. QED
      BY <2>2, <3>1 DEF Octs
  <2>4. k + z <= a /\ (DotsUpTo(path, i) => k + z < a)
    BY <1>5, <2>3
  <2>5. SUFFICES l + z <= b /\ (DotsUpTo(path, i + 1) => l + z < b)
    BY <2>1, <2>3
  <2>6. CASE i + 1 \notin Slashes(path)
    <3>1. a = b
      BY <2>1, <2>3, <2>6, NextIs
    <3>2. f[i + 1] = f[i]
      BY <2>2, <2>6 DEF DotStep
    <3>3. DotsUpTo(path, i + 1) => DotsUpTo(path, i)
      BY <1>1, <2>6 DEF DotsUpTo, Slashes
    <3>4. QED
      BY <2>3, <2>4, <3>1, <3>2, <3>3
  <2>7. CASE i + 1 \in Slashes(path)
    <3>1. a = i + 1
      BY <2>1, <2>3, <2>7, NextIs
    <3>2. b > i + 1
      <4>1. NextSlash(path, i + 1) \in (i + 1) + 1 .. Len(path) + 1
        BY <2>1, NextSlashIs
      <4>2. QED
        BY <1>1, <2>3, <4>1
    <3> DEFINE seg == SegmentAfter(path, i + 1)
    <3>3. seg \in Octs /\ Len(seg) = b - 1 - (i + 1)
      BY <2>3, <2>7, SegmentIs
    <3>4. CASE seg = Dot
      <4>1. l = k
        BY <2>2, <2>3, <3>4 DEF DotStep
      <4>2. QED
        BY <2>4, <3>1, <3>2, <4>1
    <3>5. CASE seg # Dot /\ seg = DotDot
      <4>1. f[i + 1] = WithoutLast(f[i])
        BY <2>2, <2>7, <3>5 DEF DotStep
      <4>2. l <= k
        BY <2>2, <2>3, <4>1, WithoutLastIs
      <4>3. QED
        BY <2>4, <3>1, <3>2, <4>2
    <3>6. CASE seg # Dot /\ seg # DotDot
      <4>1. f[i + 1] = (f[i] \o <<Slash>>) \o seg
        BY <2>2, <2>7, <3>6 DEF DotStep
      <4>2. f[i] \o <<Slash>> \in Octs /\ Len(f[i] \o <<Slash>>) = k + 1
        <5>1. <<Slash>> \in Octs /\ Len(<<Slash>>) = 1
          BY DEF Octs, Slash
        <5>2. QED
          BY <2>2, <2>3, <5>1, Concatenated DEF Octs
      <4>3. l = (k + 1) + Len(seg)
        BY <2>3, <3>3, <4>1, <4>2, Concatenated DEF Octs
      <4>4. l = k + b - (i + 1)
        BY <3>3, <4>3
      <4>5. DotsUpTo(path, i + 1) => DotsUpTo(path, i)
        <5>1. SUFFICES ASSUME NEW j \in Slashes(path), j <= i + 1, SegmentAfter(path, j) \in DotSegments
                       PROVE  j <= i
          BY DEF DotsUpTo
        <5>2. j # i + 1
          BY <3>6, <5>1 DEF DotSegments
        <5>3. QED
          BY <1>1, <5>1, <5>2 DEF Slashes
      <4>6. QED
        BY <2>4, <3>1, <4>4, <4>5
    <3>7. QED
      BY <3>4, <3>5, <3>6
  <2>8. QED
    BY <2>6, <2>7
<1> HIDE DEF T
<1>6. n \in T
  BY <1>4, <1>5, InductionTo
<1>7. Short(n)
  BY <1>6 DEF T
<1>8. NextSlash(path, n) = n + 1
  <2>1. n \in 0..Len(path)
    BY <1>1
  <2>2. NextSlash(path, n) \in n + 1 .. Len(path) + 1
    BY <2>1, NextSlashIs
  <2>3. QED
    BY <1>1, <2>2
<1>9. PICK k \in Nat : k = Len(f[n])
  BY <1>2 DEF Octs
<1>10. k + z <= n + 1 /\ (DotsUpTo(path, n) => k + z < n + 1)
  BY <1>7, <1>8, <1>9
<1>11. HasDots(path) => DotsUpTo(path, n)
  BY <1>1 DEF HasDots, DotsUpTo, Slashes
<1>12. k <= n /\ (k = n => ~HasDots(path) /\ z = 1)
  BY <1>10, <1>11
<1>13. f[n] \in Octs
  BY <1>2
<1>14. QED
  BY <1>1, <1>2, <1>3, <1>9, <1>12, <1>13

LEMMA NothingRemoved ==
  ASSUME NEW path \in Octs, ~HasDots(path), NextSlash(path, 0) = 1
  PROVE  RemoveDots(path) = path
<1>1. PICK n \in Nat : n = Len(path) /\ DOMAIN path = 1..n
  BY DEF Octs
<1>2. PICK f \in [0..n -> Octs] :
        /\ f[0] = <<>>
        /\ \A i \in 0 .. n - 1 : f[i + 1] = DotStep(path, i + 1, f[i])
        /\ RemoveDots(path) = f[n]
  BY <1>1, RemoveDotsIs
<1> DEFINE Same(i) == Len(f[i]) = NextSlash(path, i) - 1 /\ \A m \in 1..Len(f[i]) : f[i][m] = path[m]
           T == {i \in 0..n : Same(i)}
<1>3. 0 \in T
  BY <1>2
<1>4. ASSUME NEW i \in 0 .. n - 1, i \in T PROVE i + 1 \in T
  <2>1. i \in 0..n /\ i + 1 \in 0..n /\ i \in 0..Len(path) /\ i + 1 \in 0..Len(path) /\ i \in 0 .. Len(path) - 1
    BY <1>1
  <2>2. f[i] \in Octs /\ f[i + 1] \in Octs /\ f[i + 1] = DotStep(path, i + 1, f[i])
    BY <1>2, <2>1
  <2>3. Same(i)
    BY <1>4
  <2>4. CASE i + 1 \notin Slashes(path)
    <3>1. NextSlash(path, i + 1) = NextSlash(path, i)
      BY <2>1, <2>4, NextIs
    <3>2. f[i + 1] = f[i]
      BY <2>2, <2>4 DEF DotStep
    <3>3. QED
      BY <2>1, <2>3, <3>1, <3>2
  <2>5. CASE i + 1 \in Slashes(path)
    <3> DEFINE seg == SegmentAfter(path, i + 1)
    <3>1. seg # Dot /\ seg # DotDot
      BY <2>5 DEF HasDots, DotSegments
    <3>2. f[i + 1] = (f[i] \o <<Slash>>) \o seg
      BY <2>2, <2>5, <3>1 DEF DotStep
    <3>3. Len(f[i]) = i /\ \A m \in 1..i : f[i][m] = path[m]
      <4>1. NextSlash(path, i) = i + 1
        BY <2>1, <2>5, NextIs
      <4>2. QED
        BY <2>3, <4>1
    <3>4. PICK b \in Nat : b = NextSlash(path, i + 1) /\ b > i + 1
      <4>1. NextSlash(path, i + 1) \in (i + 1) + 1 .. Len(path) + 1
        BY <2>1, NextSlashIs
      <4>2. QED
        BY <1>1, <4>1
    <3>5. /\ seg \in Octs /\ Len(seg) = b - 1 - (i + 1)
          /\ \A m \in 1..Len(seg) : seg[m] = path[(i + 1) + m]
      BY <2>5, <3>4, SegmentIs
    <3> DEFINE front == f[i] \o <<Slash>>
    <3>6. /\ front \in Octs /\ Len(front) = i + 1
          /\ \A m \in 1 .. i + 1 : front[m] = path[m]
      <4>1. <<Slash>> \in Octs /\ Len(<<Slash>>) = 1 /\ <<Slash>>[1] = Slash
        BY DEF Octs, Slash
      <4>2. /\ front \in Octs /\ Len(front) = i + 1
            /\ \A m \in 1..i : front[m] = f[i][m]
            /\ \A m \in 1..1 : front[i + m] = <<Slash>>[m]
        <5>1. f[i] \in Seq(Nat) /\ <<Slash>> \in Seq(Nat)
          BY <2>2, <4>1 DEF Octs
        <5>2. /\ f[i] \o <<Slash>> \in Seq(Nat)
              /\ Len(f[i] \o <<Slash>>) = Len(f[i]) + Len(<<Slash>>)
              /\ \A m \in 1..Len(f[i]) : (f[i] \o <<Slash>>)[m] = f[i][m]
              /\ \A m \in 1..Len(<<Slash>>) : (f[i] \o <<Slash>>)[Len(f[i]) + m] = <<Slash>>[m]
          BY <5>1, Concatenated
        <5> HIDE DEF front
        <5>3. front = f[i] \o <<Slash>>
          BY DEF front
        <5>4. QED
          BY <3>3, <4>1, <5>2, <5>3 DEF Octs
      <4>3. front[i + 1] = path[i + 1]
        BY <2>5, <4>1, <4>2 DEF Slashes
      <4>4. \A m \in 1 .. i + 1 : m \in 1..i \/ m = i + 1
        OBVIOUS
      <4> HIDE DEF front
      <4>5. QED
        BY <3>3, <4>2, <4>3, <4>4
    <3> HIDE DEF front, seg
    <3>7. /\ Len(front \o seg) = (i + 1) + Len(seg)
          /\ \A m \in 1 .. i + 1 : (front \o seg)[m] = front[m]
          /\ \A m \in 1..Len(seg) : (front \o seg)[(i + 1) + m] = seg[m]
      <4>1. /\ Len(front \o seg) = Len(front) + Len(seg)
            /\ \A m \in 1..Len(front) : (front \o seg)[m] = front[m]
            /\ \A m \in 1..Len(seg) : (front \o seg)[Len(front) + m] = seg[m]
        <5>1. front \in Seq(Nat) /\ seg \in Seq(Nat)
          BY <3>5, <3>6 DEF Octs
        <5>2. QED
          BY <5>1, Concatenated
      <4>2. Len(front) = i + 1
        BY <3>6
      <4>3. QED
        BY <4>1, <4>2
    <3>8. f[i + 1] = front \o seg
      BY <3>2 DEF front, seg
    <3>9. Len(f[i + 1]) = b - 1
      BY <3>4, <3>5, <3>7, <3>8
    <3>10. ASSUME NEW m \in 1..Len(f[i + 1]) PROVE f[i + 1][m] = path[m]
      <4>1. m \in 1 .. b - 1
        BY <3>9
      <4>2. CASE m <= i + 1
        <5>1. m \in 1 .. i + 1
          BY <4>1, <4>2
        <5>2. QED
          BY <3>6, <3>7, <3>8, <5>1
      <4>3. CASE m > i + 1
        <5>1. PICK q \in 1..Len(seg) : m = (i + 1) + q
          <6>1. m - (i + 1) \in 1..Len(seg) /\ m = (i + 1) + (m - (i + 1))
            BY <3>5, <4>1, <4>3
          <6>2. QED
            BY <6>1
        <5>2. (front \o seg)[(i + 1) + q] = path[(i + 1) + q]
          BY <3>5, <3>7, <5>1
        <5>3. QED
          BY <3>8, <5>1, <5>2
      <4>4. QED
        BY <4>1, <4>2, <4>3
    <3>11. QED
      BY <2>1, <3>4, <3>9, <3>10
  <2>6. QED
    BY <2>4, <2>5
<1> HIDE DEF T
<1>5. n \in T
  BY <1>3, <1>4, InductionTo
<1>6. Same(n)
  BY <1>5 DEF T
<1>7. NextSlash(path, n) = n + 1
  <2>1. n \in 0..Len(path)
    BY <1>1
  <2>2. NextSlash(path, n) \in n + 1 .. Len(path) + 1
    BY <2>1, NextSlashIs
  <2>3. QED
    BY <1>1, <2>2
<1>8. Len(f[n]) = n /\ (\A m \in 1..n : f[n][m] = path[m]) /\ f[n] \in Seq(Nat)
  BY <1>2, <1>6, <1>7 DEF Octs
<1>9. QED
  BY <1>1, <1>2, <1>8, SameItems DEF Octs

(***************************************************************************)
(* What parse checks.                                                      *)
(***************************************************************************)
GoodEscape(text, e) ==
  /\ e \in Escapes(text)
  /\ text[e + 1] \notin HexLower /\ text[e + 2] \notin HexLower
  /\ Decoded(text, e) \notin Unreserved

LEMMA OctetOk ==
  ASSUME NEW segment \in Octs, NEW i \in 1..Len(segment)
  PROVE  OctetError(segment, i) = "Ok" <=>
           segment[i] \in PChar \/ (segment[i] = Percent /\ GoodEscape(segment, i))
<1>1. PICK n \in Nat : n = Len(segment) /\ DOMAIN segment = 1..n /\ i \in 1..n
  BY DEF Octs
<1>2. CASE segment[i] # Percent
  BY <1>2, HexAreChars DEF OctetError
<1>3. CASE segment[i] = Percent /\ i + 2 > n
  <2>1. i \notin Escapes(segment)
    BY <1>1, <1>3 DEF Escapes
  <2>2. PICK hex : hex = SubSeq(segment, i + 1, i)
    OBVIOUS
  <2>3. OctetError(segment, i) = EscapeError(hex)
    BY <1>1, <1>3, <2>2 DEF OctetError
  <2>4. Len(hex) = i - i
    BY <1>1, <2>2, CutIs DEF Octs
  <2>5. EscapeError(hex) = "BadPercentEncoding"
    BY <1>1, <2>4 DEF EscapeError
  <2>6. segment[i] \notin PChar
    BY <1>3, HexAreChars
  <2>7. QED
    BY <2>1, <2>3, <2>5, <2>6 DEF GoodEscape
<1>4. CASE segment[i] = Percent /\ i + 2 <= n
  <2>1. PICK hex : hex = SubSeq(segment, i + 1, i + 2)
    OBVIOUS
  <2>2. OctetError(segment, i) = EscapeError(hex)
    BY <1>1, <1>4, <2>1 DEF OctetError
  <2>3. hex \in Octs /\ Len(hex) = 2 /\ hex[1] = segment[i + 1] /\ hex[2] = segment[i + 2]
    <3>1. i + 2 \in i..n /\ i \in 0..n /\ (i + 2) - i = 2 /\ 1 \in 1..2 /\ 2 \in 1..2
      BY <1>1, <1>4
    <3>2. /\ hex \in Seq(Nat) /\ Len(hex) = (i + 2) - i
          /\ \A k \in 1 .. (i + 2) - i : hex[k] = segment[i + k]
      <4>1. PICK s \in Seq(Nat), to \in Nat : s = segment /\ to = i + 2 /\ to \in i..Len(s) /\ i \in 0..Len(s)
        BY <1>1, <3>1 DEF Octs
      <4>2. /\ SubSeq(s, i + 1, to) \in Seq(Nat) /\ Len(SubSeq(s, i + 1, to)) = to - i
            /\ \A k \in 1 .. to - i : SubSeq(s, i + 1, to)[k] = s[i + k]
        BY <4>1, CutIs
      <4>3. QED
        BY <2>1, <4>1, <4>2
    <3>3. Len(hex) = 2 /\ \A k \in 1..2 : hex[k] = segment[i + k]
      BY <3>1, <3>2
    <3>4. hex[1] = segment[i + 1] /\ hex[2] = segment[i + 2]
      BY <3>1, <3>3
    <3>5. QED
      BY <3>2, <3>3, <3>4 DEF Octs
  <2>4. ToSet(hex) = {segment[i + 1], segment[i + 2]}
    BY <2>3 DEF ToSet, Octs
  <2>5. i \in Escapes(segment) <=> ToSet(hex) \subseteq HexDigits
    <3>1. i \in 1 .. Len(segment) - 2
      BY <1>1, <1>4
    <3>2. QED
      BY <1>4, <2>4, <3>1 DEF Escapes
  <2>6. ToSet(hex) \cap HexLower # {} <=>
          segment[i + 1] \in HexLower \/ segment[i + 2] \in HexLower
    BY <2>4
  <2>7. segment[i + 1] \notin HexLower /\ segment[i + 2] \notin HexLower =>
          Decoded(segment, i) = 16 * DecodeHex(hex[1]) + DecodeHex(hex[2])
    BY <2>3 DEF Decoded, ToUpper
  <2>8. EscapeError(hex) = "Ok" <=>
          /\ ToSet(hex) \subseteq HexDigits
          /\ ToSet(hex) \cap HexLower = {}
          /\ 16 * DecodeHex(hex[1]) + DecodeHex(hex[2]) \notin Unreserved
    BY <2>3 DEF EscapeError
  <2>9. EscapeError(hex) = "Ok" <=> GoodEscape(segment, i)
    BY <2>5, <2>6, <2>7, <2>8 DEF GoodEscape
  <2>10. QED
    BY <1>4, <2>2, <2>9, HexAreChars
<1>5. QED
  BY <1>1, <1>2, <1>3, <1>4

LEMMA PcharSegmentOk ==
  ASSUME NEW segment \in Octs
  PROVE  ValidatePcharSegment(segment) = "Ok" <=>
           \A i \in 1..Len(segment) : OctetError(segment, i) = "Ok"
<1> DEFINE wrong == {i \in DOMAIN segment : OctetError(segment, i) # "Ok"}
<1>1. DOMAIN segment = 1..Len(segment) /\ wrong \in SUBSET Nat
  BY DEF Octs
<1>2. ValidatePcharSegment(segment) =
        IF wrong = {} THEN "Ok" ELSE OctetError(segment, Min(wrong))
  BY DEF ValidatePcharSegment
<1>3. CASE wrong = {}
  BY <1>1, <1>2, <1>3
<1>4. CASE wrong # {}
  <2>1. Min(wrong) \in wrong
    <3> HIDE DEF wrong
    <3>1. QED
      BY <1>1, <1>4, MinIsLeast
  <2>2. PICK m : m = Min(wrong)
    OBVIOUS
  <2>3. m \in 1..Len(segment) /\ OctetError(segment, m) # "Ok"
    BY <1>1, <2>1, <2>2
  <2>4. ValidatePcharSegment(segment) = OctetError(segment, m)
    BY <1>2, <1>4, <2>2
  <2>5. QED
    BY <2>3, <2>4
<1>5. QED
  BY <1>3, <1>4

LEMMA SegmentOk ==
  ASSUME NEW segment \in Octs, NEW scheme
  PROVE  ValidateSegment(scheme, segment) = "Ok" <=>
           /\ segment # <<>> /\ segment \notin DotSegments
           /\ scheme = "spiffe" => ToSet(segment) \subseteq SpiffeSegmentChars
           /\ scheme # "spiffe" => \A i \in 1..Len(segment) : OctetError(segment, i) = "Ok"
BY PcharSegmentOk DEF ValidateSegment, ValidateSpiffeSegment

LEMMA PathOk ==
  ASSUME NEW path \in Octs, NEW scheme
  PROVE  ValidatePath(scheme, path) = "Ok" <=>
           \A i \in Slashes(path) : ValidateSegment(scheme, SegmentAfter(path, i)) = "Ok"
<1> DEFINE Error(i) == ValidateSegment(scheme, SegmentAfter(path, i))
           wrong == {i \in Slashes(path) : Error(i) # "Ok"}
<1>1. wrong \in SUBSET Nat
  BY DEF Octs, Slashes
<1>2. ValidatePath(scheme, path) = IF wrong = {} THEN "Ok" ELSE Error(Min(wrong))
  BY DEF ValidatePath
<1>3. CASE wrong = {}
  BY <1>2, <1>3
<1>4. CASE wrong # {}
  <2>1. Min(wrong) \in wrong
    <3> HIDE DEF wrong
    <3>1. QED
      BY <1>1, <1>4, MinIsLeast
  <2>2. PICK m : m = Min(wrong)
    OBVIOUS
  <2>3. m \in Slashes(path) /\ Error(m) # "Ok"
    BY <2>1, <2>2
  <2>4. ValidatePath(scheme, path) = Error(m)
    BY <1>2, <1>4, <2>2
  <2>5. QED
    BY <2>3, <2>4
<1>5. QED
  BY <1>3, <1>4

(* An escape in a segment is one in the path. *)
LEMMA EscapeInSegment ==
  ASSUME NEW path \in Octs, NEW j \in Slashes(path),
         NEW k \in 1..Len(SegmentAfter(path, j))
  PROVE  /\ k \in Escapes(SegmentAfter(path, j)) <=> j + k \in Escapes(path)
         /\ GoodEscape(SegmentAfter(path, j), k) <=> GoodEscape(path, j + k)
<1> DEFINE segment == SegmentAfter(path, j)
<1>1. PICK n \in Nat, m \in Nat :
        /\ n = Len(path) /\ m = NextSlash(path, j) /\ j \in 1..n /\ m \in j + 1 .. n + 1
        /\ m <= n => path[m] = Slash
  <2>1. j \in 1..Len(path) /\ Len(path) \in Nat
    BY DEF Octs, Slashes
  <2>2. NextSlash(path, j) \in j + 1 .. Len(path) + 1
    BY <2>1, NextSlashIs
  <2>3. NextSlash(path, j) <= Len(path) => path[NextSlash(path, j)] = Slash
    BY <2>1, NextSlashIs
  <2>4. QED
    BY <2>1, <2>2, <2>3
<1>2. /\ segment \in Octs /\ Len(segment) = m - 1 - j
      /\ \A i \in 1..Len(segment) : segment[i] = path[j + i]
  BY <1>1, SegmentIs
<1>3. k \in 1 .. m - 1 - j
  BY <1>2
<1> HIDE DEF segment
<1>4. ASSUME k \in Escapes(segment)
      PROVE  /\ j + k \in Escapes(path)
             /\ segment[k + 1] = path[(j + k) + 1] /\ segment[k + 2] = path[(j + k) + 2]
  <2>1. k \in 1 .. (m - 1 - j) - 2
    BY <1>2, <1>4 DEF Escapes
  <2>2. k + 1 \in 1 .. m - 1 - j /\ k + 2 \in 1 .. m - 1 - j
    BY <1>1, <2>1
  <2>3. /\ segment[k] = path[j + k] /\ segment[k + 1] = path[j + (k + 1)]
        /\ segment[k + 2] = path[j + (k + 2)]
    BY <1>2, <1>3, <2>2
  <2>4. j + (k + 1) = (j + k) + 1 /\ j + (k + 2) = (j + k) + 2
    BY <1>1, <1>3
  <2>5. j + k \in 1 .. Len(path) - 2
    BY <1>1, <2>1
  <2>6. QED
    BY <1>4, <2>3, <2>4, <2>5 DEF Escapes
<1>5. ASSUME j + k \in Escapes(path)
      PROVE  k \in Escapes(segment)
  <2>1. /\ path[j + k] = Percent /\ path[(j + k) + 1] \in HexDigits
        /\ path[(j + k) + 2] \in HexDigits /\ j + k \in 1 .. n - 2
    BY <1>1, <1>5 DEF Escapes
  <2>2. m # (j + k) + 1 /\ m # (j + k) + 2
    BY <1>1, <2>1, HexAreChars
  <2>3. m > (j + k) + 2
    <3>1. j \in Nat /\ k \in Nat /\ m \in Nat /\ k >= 1 /\ k <= m - 1 - j
      BY <1>1, <1>3
    <3>2. QED
      BY <2>2, <3>1
  <2>4. k \in 1 .. (m - 1 - j) - 2 /\ k + 1 \in 1 .. m - 1 - j /\ k + 2 \in 1 .. m - 1 - j
    BY <1>1, <1>3, <2>3
  <2>5. /\ segment[k] = path[j + k] /\ segment[k + 1] = path[j + (k + 1)]
        /\ segment[k + 2] = path[j + (k + 2)]
    BY <1>2, <1>3, <2>4
  <2>6. j + (k + 1) = (j + k) + 1 /\ j + (k + 2) = (j + k) + 2
    BY <1>1, <1>3
  <2>7. k \in 1 .. Len(segment) - 2
    BY <1>2, <2>4
  <2>8. QED
    BY <2>1, <2>5, <2>6, <2>7 DEF Escapes
<1>6. k \in Escapes(segment) => Decoded(segment, k) = Decoded(path, j + k)
  BY <1>4 DEF Decoded
<1>7. GoodEscape(segment, k) <=> GoodEscape(path, j + k)
  BY <1>4, <1>5, <1>6 DEF GoodEscape
<1>8. QED
  BY <1>4, <1>5, <1>7 DEF segment

(* A path that begins with a slash, or none. *)
IsPath(path) == path \in Octs /\ (Len(path) > 0 => path[1] = Slash)

SegmentsOk(scheme, path) ==
  \A j \in Slashes(path) : ValidateSegment(scheme, SegmentAfter(path, j)) = "Ok"

LEMMA SpiffeAreChars == SpiffeSegmentChars \subseteq PChar
BY DEF SpiffeSegmentChars, PChar

(* What the octets of a valid path are. *)
LEMMA ValidOctets ==
  ASSUME NEW scheme, NEW path, IsPath(path), SegmentsOk(scheme, path),
         NEW i \in 1..Len(path)
  PROVE  path[i] = Slash \/ path[i] \in PChar \/ (path[i] = Percent /\ GoodEscape(path, i))
<1>1. path \in Octs /\ Len(path) \in Nat /\ path[1] = Slash
  BY DEF IsPath, Octs
<1>2. SUFFICES ASSUME path[i] # Slash
               PROVE  path[i] \in PChar \/ (path[i] = Percent /\ GoodEscape(path, i))
  OBVIOUS
<1>3. PICK j \in Slashes(path) : \E k \in 1..Len(SegmentAfter(path, j)) : i = j + k
  BY <1>1, <1>2, InSegment
<1>4. PICK k \in 1..Len(SegmentAfter(path, j)) : i = j + k
  BY <1>3
<1>5. PICK segment \in Octs :
        /\ segment = SegmentAfter(path, j) /\ k \in 1..Len(segment)
        /\ segment[k] = path[i]
  BY <1>1, <1>4, SegmentIs
<1>6. ValidateSegment(scheme, segment) = "Ok"
  BY <1>5 DEF SegmentsOk
<1>7. CASE scheme = "spiffe"
  <2>1. segment[k] \in SpiffeSegmentChars
    BY <1>5, <1>6, <1>7, SegmentOk DEF ToSet, Octs
  <2>2. QED
    BY <1>5, <2>1, SpiffeAreChars
<1>8. CASE scheme # "spiffe"
  <2>1. OctetError(segment, k) = "Ok"
    BY <1>5, <1>6, <1>8, SegmentOk
  <2>2. segment[k] \in PChar \/ (segment[k] = Percent /\ GoodEscape(segment, k))
    BY <1>5, <2>1, OctetOk
  <2>3. GoodEscape(segment, k) <=> GoodEscape(path, j + k)
    BY <1>1, <1>5, EscapeInSegment
  <2>4. QED
    BY <1>4, <1>5, <2>2, <2>3
<1>9. QED
  BY <1>7, <1>8

LEMMA NotLowered ==
  ASSUME NEW o, o \notin HexLower PROVE ToUpper(o) = o
BY DEF ToUpper

(* Normalization leaves a valid path alone. *)
LEMMA ValidIsNormal ==
  ASSUME NEW scheme, NEW path, IsPath(path), SegmentsOk(scheme, path)
  PROVE  RemoveDots(NormalEscapes(path)) = path
<1>1. path \in Octs /\ Len(path) \in Nat
  BY DEF IsPath, Octs
<1>2. ASSUME NEW i \in 1..Len(path) PROVE NormalOctet(path, i) = <<path[i]>>
  <2>1. CASE \A e \in Escapes(path) : i \notin e .. e + 2
    BY <1>1, <2>1, NormalOctetIs
  <2>2. CASE ~ \A e \in Escapes(path) : i \notin e .. e + 2
    <3>1. PICK e \in Escapes(path) : i \in e .. e + 2
      BY <2>2
    <3>2. e \in 1..Len(path) /\ path[e] = Percent
      BY <1>1, <3>1, EscapesIn
    <3>3. GoodEscape(path, e)
      BY <3>2, ValidOctets, HexAreChars
    <3>4. i = e \/ i = e + 1 \/ i = e + 2
      BY <3>1, <3>2
    <3>5. path[i] \notin HexLower
      BY <3>2, <3>3, <3>4, HexAreChars DEF GoodEscape, HexDigits
    <3>6. NormalOctet(path, i) = <<ToUpper(path[i])>>
      BY <1>1, <3>1, <3>3, NormalOctetIs DEF GoodEscape
    <3>7. QED
      BY <3>5, <3>6, NotLowered
  <2>3. QED
    BY <2>1, <2>2
<1>3. NormalEscapes(path) = path
  BY <1>1, <1>2, NormalEscapesIs
<1>4. ~HasDots(path)
  <2>1. ASSUME NEW j \in Slashes(path) PROVE SegmentAfter(path, j) \notin DotSegments
    <3>1. SegmentAfter(path, j) \in Octs
      BY <1>1, SegmentIs
    <3>2. QED
      BY <3>1, SegmentOk DEF SegmentsOk
  <2>2. QED
    BY <2>1 DEF HasDots
<1>5. CASE Len(path) = 0
  <2>1. RemoveDots(path) \in Octs /\ Len(RemoveDots(path)) <= 0
    BY <1>1, <1>5, RemoveDotsShorter
  <2>2. RemoveDots(path) = <<>> /\ path = <<>>
    BY <1>1, <1>5, <2>1 DEF Octs
  <2>3. QED
    BY <1>3, <2>2
<1>6. CASE Len(path) > 0
  <2>1. 0 + 1 \in Slashes(path) /\ 0 \in 0 .. Len(path) - 1
    BY <1>1, <1>6 DEF IsPath, Slashes, Octs
  <2>2. NextSlash(path, 0) = 1
    BY <1>1, <2>1, NextIs
  <2>3. QED
    BY <1>1, <1>3, <1>4, <2>2, NothingRemoved
<1>7. QED
  BY <1>1, <1>5, <1>6

SegmentsAre(scheme, path) ==
  \A j \in Slashes(path) :
    LET segment == SegmentAfter(path, j) IN segment # <<>> /\ IsSegment(scheme, segment)

(* And it is valid if normalization leaves it alone and it is made of the  *)
(* characters that the grammar allows.                                     *)
LEMMA NormalIsValid ==
  ASSUME NEW scheme, NEW path \in Octs, SegmentsAre(scheme, path),
         RemoveDots(NormalEscapes(path)) = path
  PROVE  SegmentsOk(scheme, path)
<1> DEFINE normal == NormalEscapes(path)
<1>1. normal \in Octs /\ Len(normal) <= Len(path)
  BY NormalEscapesIs
<1>2. Len(RemoveDots(normal)) <= Len(normal)
  BY <1>1, RemoveDotsShorter
<1> HIDE DEF normal
<1>3. RemoveDots(normal) = path
  BY DEF normal
<1>4. Len(normal) \in Nat /\ Len(path) \in Nat
  BY <1>1 DEF Octs
<1>5. Len(RemoveDots(normal)) = Len(normal)
  BY <1>1, <1>2, <1>3, <1>4
<1>6. ~HasDots(normal) /\ NextSlash(normal, 0) = 1
  BY <1>1, <1>5, RemoveDotsShorter
<1>7. normal = path
  BY <1>1, <1>3, <1>6, NothingRemoved
<1>8. ~HasDots(path)
  BY <1>6, <1>7
<1>9. \A i \in 1..Len(path) : NormalOctet(path, i) = <<path[i]>>
  BY <1>7, NormalEscapesIs DEF normal
<1>10. ASSUME NEW e \in Escapes(path) PROVE GoodEscape(path, e)
  <2>1. /\ e \in 1..Len(path) /\ e + 1 \in 1..Len(path) /\ e + 2 \in 1..Len(path)
        /\ e + 1 \in e .. e + 2 /\ e + 2 \in e .. e + 2 /\ e + 1 # e
    BY EscapesIn
  <2>2. Decoded(path, e) \notin Unreserved
    <3>1. SUFFICES ASSUME Decoded(path, e) \in Unreserved PROVE FALSE
      OBVIOUS
    <3>2. NormalOctet(path, e + 1) = <<>>
      BY <2>1, <3>1, NormalOctetIs
    <3>3. NormalOctet(path, e + 1) = <<path[e + 1]>>
      BY <1>9, <2>1
    <3>4. QED
      BY <3>2, <3>3
  <2>3. ASSUME NEW i \in {e + 1, e + 2} PROVE path[i] \notin HexLower
    <3>1. i \in 1..Len(path) /\ i \in e .. e + 2
      BY <2>1
    <3>2. NormalOctet(path, i) = <<ToUpper(path[i])>>
      BY <2>2, <3>1, NormalOctetIs
    <3>3. NormalOctet(path, i) = <<path[i]>>
      BY <1>9, <3>1
    <3>4. ToUpper(path[i]) = path[i]
      BY <3>2, <3>3
    <3>5. path[i] \in Nat
      BY <3>1 DEF Octs
    <3>6. QED
      BY <3>4, <3>5 DEF ToUpper
  <2>4. QED
    BY <2>2, <2>3 DEF GoodEscape
<1>11. ASSUME NEW j \in Slashes(path)
       PROVE  ValidateSegment(scheme, SegmentAfter(path, j)) = "Ok"
  <2>1. PICK segment \in Octs : segment = SegmentAfter(path, j)
    BY SegmentIs
  <2>2. segment # <<>> /\ IsSegment(scheme, segment)
    BY <2>1 DEF SegmentsAre
  <2>3. segment \notin DotSegments
    BY <1>8, <2>1 DEF HasDots
  <2>4. scheme = "spiffe" => ToSet(segment) \subseteq SpiffeSegmentChars
    BY <2>2 DEF IsSegment
  <2>5. ASSUME scheme # "spiffe", NEW k \in 1..Len(segment)
        PROVE  OctetError(segment, k) = "Ok"
    <3>1. segment[k] \in PChar \/ k \in Escapes(segment)
      BY <2>2, <2>5 DEF IsSegment, Octs
    <3>2. CASE k \in Escapes(segment)
      <4>1. j + k \in Escapes(path)
        BY <2>1, <3>2, EscapeInSegment
      <4>2. GoodEscape(segment, k)
        BY <1>10, <2>1, <4>1, EscapeInSegment
      <4>3. segment[k] = Percent
        BY <3>2 DEF Escapes
      <4>4. QED
        BY <4>2, <4>3, OctetOk
    <3>3. QED
      BY <3>1, <3>2, OctetOk
  <2>6. QED
    BY <2>1, <2>2, <2>3, <2>4, <2>5, SegmentOk
<1>12. QED
  BY <1>11 DEF SegmentsOk

(***************************************************************************)
(* The parts of an identifier.                                             *)
(***************************************************************************)
LEMMA PrefixType ==
  ASSUME NEW scheme \in ToSet(Schemes) PROVE PrefixOf[scheme] \in Octs
<1>1. scheme \in {"spiffe", "wimse"}
  BY DEF ToSet, Schemes
<1>2. <<58, 47, 47>> \in Octs /\ <<115, 112, 105>> \in Octs /\ <<102, 102, 101>> \in Octs
      /\ <<119, 105, 109>> \in Octs /\ <<115, 101>> \in Octs
  BY DEF Octs
<1>3. \A a, b \in Octs : a \o b \in Octs
  BY Concatenated DEF Octs
<1> DEFINE a == <<115, 112, 105>>
           b == <<102, 102, 101>>
           c == <<119, 105, 109>>
           d == <<115, 101>>
           e == <<58, 47, 47>>
           spiffe == (a \o b) \o e
           wimse  == (c \o d) \o e
<1>4. PrefixOf = [spiffe |-> spiffe, wimse |-> wimse]
  BY DEF PrefixOf
<1>5. a \in Octs /\ b \in Octs /\ c \in Octs /\ d \in Octs /\ e \in Octs
  BY <1>2
<1> HIDE DEF a, b, c, d, e
<1>6. a \o b \in Octs /\ c \o d \in Octs
  BY <1>3, <1>5
<1>7. spiffe \in Octs /\ wimse \in Octs
  BY <1>3, <1>5, <1>6
<1> HIDE DEF spiffe, wimse
<1>8. PrefixOf["spiffe"] = spiffe /\ PrefixOf["wimse"] = wimse
  BY <1>4
<1>9. QED
  BY <1>1, <1>7, <1>8

LEMMA Rejoined ==
  ASSUME NEW S, NEW s \in Seq(S), NEW m \in 0..Len(s)
  PROVE  SubSeq(s, 1, m) \o SubSeq(s, m + 1, Len(s)) = s
<1>1. PICK n \in Nat : n = Len(s) /\ m \in 0..n
  OBVIOUS
<1>2. PICK a, b : a = SubSeq(s, 0 + 1, m) /\ b = SubSeq(s, m + 1, Len(s))
  OBVIOUS
<1>3. /\ a \in Seq(S) /\ b \in Seq(S)
      /\ Len(a) = m /\ Len(b) = n - m
      /\ \A k \in 1..m : a[k] = s[k]
      /\ \A k \in 1 .. n - m : b[k] = s[m + k]
  <2>1. /\ a \in Seq(S) /\ Len(a) = m - 0
        /\ \A k \in 1 .. m - 0 : a[k] = s[0 + k]
    BY <1>1, <1>2, CutIs
  <2>2. /\ b \in Seq(S) /\ Len(b) = Len(s) - m
        /\ \A k \in 1 .. Len(s) - m : b[k] = s[m + k]
    BY <1>1, <1>2, CutIs
  <2>3. m - 0 = m /\ \A k \in 1..m : 0 + k = k
    BY <1>1
  <2>4. QED
    BY <1>1, <2>1, <2>2, <2>3
<1>4. /\ a \o b \in Seq(S) /\ Len(a \o b) = m + (n - m)
      /\ \A k \in 1..m : (a \o b)[k] = a[k]
      /\ \A k \in 1 .. n - m : (a \o b)[m + k] = b[k]
  <2>1. /\ a \o b \in Seq(S) /\ Len(a \o b) = Len(a) + Len(b)
        /\ \A k \in 1..Len(a) : (a \o b)[k] = a[k]
        /\ \A k \in 1..Len(b) : (a \o b)[Len(a) + k] = b[k]
    <3>1. a \in Seq(S) /\ b \in Seq(S)
      BY <1>3
    <3>2. QED
      BY <3>1, Concatenated
  <2>2. QED
    BY <1>3, <2>1
<1>5. ASSUME NEW i \in 1..n PROVE (a \o b)[i] = s[i]
  <2>1. CASE i <= m
    <3>1. i \in 1..m
      BY <1>1, <2>1
    <3>2. QED
      BY <1>3, <1>4, <3>1
  <2>2. CASE i > m
    <3>1. PICK k \in 1 .. n - m : i = m + k
      <4>1. i - m \in 1 .. n - m /\ i = m + (i - m)
        BY <1>1, <2>2
      <4>2. QED
        BY <4>1
    <3>2. QED
      BY <1>3, <1>4, <3>1
  <2>3. i <= m \/ i > m
    BY <1>1
  <2>4. QED
    BY <2>1, <2>2, <2>3
<1>6. Len(a \o b) = Len(s)
  BY <1>1, <1>4
<1>7. a \o b = s
  BY <1>1, <1>4, <1>5, <1>6, SameItems
<1>8. 0 + 1 = 1
  OBVIOUS
<1>9. QED
  BY <1>2, <1>7, <1>8

(* A cut of a cut. *)
LEMMA CutTwice ==
  ASSUME NEW S, NEW s \in Seq(S), NEW a \in Nat, NEW d \in Nat, a + d <= Len(s),
         NEW t, t = SubSeq(s, a + 1, Len(s))
  PROVE  /\ SubSeq(t, 1, d) = SubSeq(s, a + 1, a + d)
         /\ SubSeq(t, d + 1, Len(t)) = SubSeq(s, (a + d) + 1, Len(s))
<1>1. PICK n \in Nat : n = Len(s) /\ a \in 0..n /\ a + d \in 0..n /\ d \in 0 .. n - a
  OBVIOUS
<1>2. t \in Seq(S) /\ Len(t) = n - a /\ \A k \in 1 .. n - a : t[k] = s[a + k]
  <2>1. a \in 0..Len(s) /\ Len(s) \in a..Len(s)
    BY <1>1
  <2>2. t \in Seq(S) /\ Len(t) = Len(s) - a /\ \A k \in 1 .. Len(s) - a : t[k] = s[a + k]
    BY <2>1, CutIs
  <2>3. QED
    BY <1>1, <2>2
<1>3. SubSeq(t, 1, d) = SubSeq(s, a + 1, a + d)
  <2>1. PICK u, v : u = SubSeq(t, 0 + 1, d) /\ v = SubSeq(s, a + 1, a + d)
    OBVIOUS
  <2>2. /\ 0 \in 0..Len(t) /\ d \in 0..Len(t) /\ a \in 0..Len(s) /\ a + d \in a..Len(s)
        /\ 0 + 1 = 1 /\ d - 0 = d /\ (a + d) - a = d
    BY <1>1, <1>2
  <2>3. u \in Seq(S) /\ Len(u) = d - 0 /\ \A k \in 1 .. d - 0 : u[k] = t[0 + k]
    BY <1>2, <2>1, <2>2, CutIs
  <2>4. v \in Seq(S) /\ Len(v) = (a + d) - a /\ \A k \in 1 .. (a + d) - a : v[k] = s[a + k]
    BY <2>1, <2>2, CutIs
  <2>5. \A k \in 1..d : 0 + k = k /\ k \in 1 .. n - a
    BY <1>1
  <2>6. \A k \in 1..d : u[k] = v[k]
    BY <1>2, <2>2, <2>3, <2>4, <2>5
  <2>7. Len(u) = d /\ Len(v) = d
    BY <2>2, <2>3, <2>4
  <2>8. u = v
    BY <2>3, <2>4, <2>6, <2>7, SameItems
  <2>9. QED
    BY <2>1, <2>2, <2>8
<1>4. SubSeq(t, d + 1, Len(t)) = SubSeq(s, (a + d) + 1, Len(s))
  <2>1. PICK u, v : u = SubSeq(t, d + 1, Len(t)) /\ v = SubSeq(s, (a + d) + 1, Len(s))
    OBVIOUS
  <2>2. d \in 0..Len(t) /\ Len(t) \in d..Len(t) /\ a + d \in 0..Len(s) /\ Len(s) \in a + d .. Len(s)
    BY <1>1, <1>2
  <2>3. u \in Seq(S) /\ Len(u) = Len(t) - d /\ \A k \in 1 .. Len(t) - d : u[k] = t[d + k]
    <3>1. t \in Seq(S)
      BY <1>2
    <3>2. PICK l : l = Len(t)
      OBVIOUS
    <3>3. d \in 0..Len(t) /\ l \in d..Len(t) /\ u = SubSeq(t, d + 1, l)
      BY <2>1, <2>2, <3>2
    <3>4. u \in Seq(S) /\ Len(u) = l - d /\ \A k \in 1 .. l - d : u[k] = t[d + k]
      BY <3>1, <3>3, CutIs
    <3>5. QED
      BY <3>2, <3>4
  <2>4. v \in Seq(S) /\ Len(v) = Len(s) - (a + d) /\ \A k \in 1 .. Len(s) - (a + d) : v[k] = s[(a + d) + k]
    BY <2>1, <2>2, CutIs
  <2>5. PICK q \in Nat : q = Len(t) - d /\ q = Len(s) - (a + d)
    <3>1. n - (a + d) \in Nat /\ n - (a + d) = (n - a) - d
      BY <1>1
    <3>2. QED
      BY <1>1, <1>2, <3>1
  <2>6. \A k \in 1..q : d + k \in 1 .. n - a /\ a + (d + k) = (a + d) + k
    BY <1>1, <1>2, <2>5
  <2>7. ASSUME NEW k \in 1..q PROVE u[k] = v[k]
    <3>1. u[k] = t[d + k]
      BY <2>3, <2>5
    <3>2. t[d + k] = s[a + (d + k)]
      BY <1>2, <2>6
    <3>3. v[k] = s[(a + d) + k]
      BY <2>4, <2>5
    <3>4. QED
      BY <2>6, <3>1, <3>2, <3>3
  <2>8. Len(u) = q /\ Len(v) = q
    BY <2>3, <2>4, <2>5
  <2>9. u = v
    BY <2>3, <2>4, <2>7, <2>8, SameItems
  <2>10. QED
    BY <2>1, <2>9
<1>5. QED
  BY <1>3, <1>4

(* The scheme's prefix, the trust domain and the path. *)
PartsOf(text, scheme, prefix, td, path) ==
  /\ prefix = PrefixOf[scheme] /\ prefix \in Octs
  /\ td \in Octs /\ IsPath(path)
  /\ Rest(text, scheme) = td \o path
  /\ text = (prefix \o td) \o path
  /\ td = SubSeq(Rest(text, scheme), 1, TrustDomainLen(Rest(text, scheme)))
  /\ path = SubSeq(Rest(text, scheme), Len(td) + 1, Len(Rest(text, scheme)))
  /\ td = TrustDomain(Identified(text)) /\ path = PathOf(Identified(text))
  /\ prefix \o td = Origin(Identified(text))
  /\ Identified(text) = [uri |-> text, scheme |-> scheme, trustDomainLen |-> Len(td)]

LEMMA PartsAre ==
  ASSUME NEW text \in Octs, SchemeOf(text) # {}, NEW scheme,
         scheme = CHOOSE s \in SchemeOf(text) : TRUE
  PROVE  \E prefix, td, path : PartsOf(text, scheme, prefix, td, path)
<1>1. scheme \in ToSet(Schemes) /\ IsPrefix(PrefixOf[scheme], text)
  BY DEF SchemeOf
<1>2. PICK prefix : prefix = PrefixOf[scheme]
  OBVIOUS
<1>3. prefix \in Octs
  BY <1>1, <1>2, PrefixType
<1>4. PICK p \in Nat, n \in Nat : p = Len(prefix) /\ n = Len(text)
  BY <1>3 DEF Octs
<1>5. p <= n /\ SubSeq(prefix, 1, p) = SubSeq(text, 1, p)
  BY <1>1, <1>2, <1>4 DEF IsPrefix
<1>6. PICK rest : rest = Rest(text, scheme)
  OBVIOUS
<1>7. rest = SubSeq(text, p + 1, Len(text))
  BY <1>2, <1>4, <1>6 DEF Rest
<1>8. rest \in Octs /\ Len(rest) = n - p
  BY <1>4, <1>5, <1>7, CutIs DEF Octs
<1>9. PICK t \in Nat : t = TrustDomainLen(rest) /\ t <= n - p
                        /\ (t < n - p => rest[t + 1] = Slash)
  <2>1. 0 \in 0..Len(rest)
    BY <1>4, <1>5, <1>8
  <2>2. PICK m : m = NextSlash(rest, 0)
    OBVIOUS
  <2>3. m \in 0 + 1 .. Len(rest) + 1 /\ (m <= Len(rest) => rest[m] = Slash)
    BY <1>8, <2>1, <2>2, NextSlashIs
  <2>4. m - 1 \in Nat /\ m - 1 <= n - p /\ (m - 1) + 1 = m /\ (m - 1 < n - p => m <= Len(rest))
    BY <1>4, <1>5, <1>8, <2>3
  <2>5. QED
    BY <2>2, <2>3, <2>4 DEF TrustDomainLen
<1>10. PICK td, path : td = SubSeq(rest, 1, t) /\ path = SubSeq(rest, t + 1, Len(rest))
  OBVIOUS
<1>11. td \in Octs /\ Len(td) = t
  <2>1. 0 \in 0..Len(rest) /\ t \in 0..Len(rest) /\ t - 0 = t /\ 0 + 1 = 1
    BY <1>4, <1>5, <1>8, <1>9
  <2>2. SubSeq(rest, 0 + 1, t) \in Seq(Nat) /\ Len(SubSeq(rest, 0 + 1, t)) = t - 0
    BY <1>8, <2>1, CutIs DEF Octs
  <2>3. QED
    BY <1>10, <2>1, <2>2 DEF Octs
<1>12. IsPath(path)
  <2>1. t \in 0..Len(rest) /\ Len(rest) \in t..Len(rest)
    BY <1>4, <1>5, <1>8, <1>9
  <2>2. /\ path \in Seq(Nat) /\ Len(path) = Len(rest) - t
        /\ \A k \in 1 .. Len(rest) - t : path[k] = rest[t + k]
    BY <1>8, <1>10, <2>1, CutIs DEF Octs
  <2>3. ASSUME Len(path) > 0 PROVE path[1] = Slash
    <3>1. 1 \in 1 .. Len(rest) - t /\ t < n - p
      BY <1>4, <1>5, <1>8, <1>9, <2>2, <2>3
    <3>2. QED
      BY <1>9, <2>2, <3>1
  <2>4. QED
    BY <2>2, <2>3 DEF IsPath, Octs
<1>13. rest = td \o path
  <2>1. t \in 0..Len(rest)
    BY <1>4, <1>5, <1>8, <1>9
  <2>2. QED
    BY <1>8, <1>10, <2>1, Rejoined DEF Octs
<1>14. td = SubSeq(text, p + 1, p + t) /\ path = SubSeq(text, (p + t) + 1, Len(text))
  <2>1. p + t <= Len(text)
    BY <1>4, <1>5, <1>9
  <2>2. /\ SubSeq(rest, 1, t) = SubSeq(text, p + 1, p + t)
        /\ SubSeq(rest, t + 1, Len(rest)) = SubSeq(text, (p + t) + 1, Len(text))
    BY <1>7, <2>1, CutTwice DEF Octs
  <2>3. QED
    BY <1>10, <2>2
<1>15. prefix = SubSeq(text, 1, p)
  <2>1. p \in 0..Len(prefix) /\ SubSeq(prefix, p + 1, Len(prefix)) = <<>>
    BY <1>3, <1>4 DEF Octs
  <2>2. SubSeq(prefix, 1, p) \o SubSeq(prefix, p + 1, Len(prefix)) = prefix
    BY <1>3, <2>1, Rejoined DEF Octs
  <2>3. SubSeq(prefix, 1, p) \in Seq(Nat)
    BY <1>3, <1>4, SubSeqType DEF Octs
  <2>4. QED
    BY <1>5, <2>1, <2>2, <2>3, ConcatEmptySeq
<1>16. text = prefix \o rest
  <2>1. p \in 0..Len(text)
    BY <1>4, <1>5
  <2>2. QED
    BY <1>7, <1>15, <2>1, Rejoined DEF Octs
<1>17. path \in Octs
  BY <1>12 DEF IsPath
<1>18. text = (prefix \o td) \o path
  <2>1. prefix \in Seq(Nat) /\ td \in Seq(Nat) /\ path \in Seq(Nat)
    BY <1>3, <1>11, <1>17 DEF Octs
  <2>2. (prefix \o td) \o path = prefix \o (td \o path)
    BY <2>1, Associative
  <2>3. QED
    BY <1>13, <1>16, <2>2
<1>19. Identified(text) = [uri |-> text, scheme |-> scheme, trustDomainLen |-> t]
  BY <1>6, <1>9 DEF Identified
<1> DEFINE id == Identified(text)
<1>20. /\ id.uri = text /\ Len(PrefixOf[id.scheme]) = p /\ OriginLen(id) = p + t
  <2>1. id.uri = text /\ id.scheme = scheme /\ id.trustDomainLen = t
    BY <1>19
  <2> HIDE DEF id
  <2>2. QED
    BY <1>2, <1>4, <2>1 DEF OriginLen
<1>21. td = TrustDomain(id) /\ path = PathOf(id) /\ Origin(id) = SubSeq(text, 1, p + t)
  <2> HIDE DEF id
  <2>1. TrustDomain(id) = SubSeq(text, p + 1, p + t)
    BY <1>20 DEF TrustDomain
  <2>2. PathOf(id) = SubSeq(text, (p + t) + 1, Len(text))
    BY <1>20 DEF PathOf
  <2>3. Origin(id) = SubSeq(text, 1, p + t)
    BY <1>20 DEF Origin
  <2>4. QED
    BY <1>14, <2>1, <2>2, <2>3
<1>22. prefix \o td = Origin(Identified(text))
  <2>1. PICK origin : origin = SubSeq(text, 1, p + t)
    OBVIOUS
  <2>2. p + t \in 0..Len(text)
    BY <1>4, <1>5, <1>9
  <2>3. origin \in Seq(Nat) /\ origin \o path = text
    <3>1. 1 \in 1 .. Len(text) + 1
      BY <1>4
    <3>2. text \in Seq(Nat)
      BY DEF Octs
    <3>3. origin \in Seq(Nat)
      BY <2>1, <2>2, <3>1, <3>2, SubSeqType
    <3>4. origin \o path = text
      BY <1>14, <2>1, <2>2, <3>2, Rejoined
    <3>5. QED
      BY <3>3, <3>4
  <2>4. prefix \o td \in Seq(Nat)
    BY <1>3, <1>11, Concatenated DEF Octs
  <2>5. origin \o path = (prefix \o td) \o path
    BY <1>18, <2>3
  <2>6. origin = prefix \o td
    BY <1>17, <2>3, <2>4, <2>5, ConcatSimplifications DEF Octs
  <2>7. QED
    BY <1>21, <2>1, <2>6
<1>23. QED
  BY <1>2, <1>3, <1>6, <1>9, <1>10, <1>11, <1>12, <1>13, <1>18, <1>19, <1>21, <1>22 DEF PartsOf

(***************************************************************************)
(* What parse accepts.                                                     *)
(***************************************************************************)
LEMMA TrustDomainOk ==
  ASSUME NEW scheme, NEW td \in Octs
  PROVE  ValidateTrustDomain(scheme, td) = "Ok" <=>
           /\ Len(td) > 0
           /\ scheme = "spiffe" => ~(Len(td) > MaxTrustDomainLen)
           /\ ToSet(td) \subseteq TrustDomainChars
<1>1. td = <<>> <=> ~(Len(td) > 0)
  BY DEF Octs
<1>2. QED
  BY <1>1 DEF ValidateTrustDomain

LEMMA ParseIs ==
  ASSUME NEW text \in Octs, SchemeOf(text) # {}, NEW scheme,
         scheme = CHOOSE s \in SchemeOf(text) : TRUE,
         NEW prefix, NEW td, NEW path, PartsOf(text, scheme, prefix, td, path)
  PROVE  Parse(text) = "Ok" <=>
           /\ ~(Len(text) > MaxIdLen)
           /\ QuestionMark \notin ToSet(td \o path) /\ NumberSign \notin ToSet(td \o path)
           /\ AtSign \notin ToSet(td) /\ Colon \notin ToSet(td)
           /\ ValidateTrustDomain(scheme, td) = "Ok"
           /\ ValidatePath(scheme, path) = "Ok"
<1>1. PICK rest : rest = Rest(text, scheme)
  OBVIOUS
<1>2. /\ rest = td \o path /\ td = SubSeq(rest, 1, TrustDomainLen(rest))
      /\ path = SubSeq(rest, Len(td) + 1, Len(rest))
  BY <1>1 DEF PartsOf
<1>3. ParseRest(scheme, rest) =
        IF QuestionMark \in ToSet(rest) THEN "HasQuery"
        ELSE IF NumberSign \in ToSet(rest) THEN "HasFragment"
        ELSE IF AtSign \in ToSet(td) THEN "HasUserInfo"
        ELSE IF Colon \in ToSet(td) THEN "HasPort"
        ELSE IF ValidateTrustDomain(scheme, td) # "Ok" THEN ValidateTrustDomain(scheme, td)
        ELSE ValidatePath(scheme, path)
  BY <1>2 DEF ParseRest
<1>4. Parse(text) = IF Len(text) > MaxIdLen THEN "TooLong" ELSE ParseRest(scheme, rest)
  BY <1>1 DEF Parse
<1>5. ToSet(rest) = ToSet(td \o path)
  BY <1>2
<1>6. ParseRest(scheme, rest) = "Ok" <=>
        /\ QuestionMark \notin ToSet(rest) /\ NumberSign \notin ToSet(rest)
        /\ AtSign \notin ToSet(td) /\ Colon \notin ToSet(td)
        /\ ValidateTrustDomain(scheme, td) = "Ok"
        /\ ValidatePath(scheme, path) = "Ok"
  BY <1>3
<1>7. CASE Len(text) > MaxIdLen
  BY <1>4, <1>7
<1>8. CASE ~(Len(text) > MaxIdLen)
  BY <1>4, <1>5, <1>6, <1>8
<1>9. QED
  BY <1>7, <1>8

(* Lowercasing leaves a valid trust domain alone. *)
LEMMA AlreadyLower ==
  ASSUME NEW td \in Octs, ToSet(td) \subseteq TrustDomainChars
  PROVE  [i \in 1..Len(td) |-> ToLower(td[i])] = td
<1>1. ASSUME NEW i \in 1..Len(td) PROVE ToLower(td[i]) = td[i]
  <2>1. td[i] \in TrustDomainChars
    BY DEF Octs, ToSet
  <2>2. td[i] \notin Upper
    BY <2>1 DEF TrustDomainChars
  <2>3. QED
    BY <2>2 DEF ToLower
<1>2. td = [i \in 1..Len(td) |-> td[i]]
  BY DEF Octs
<1>3. QED
  BY <1>1, <1>2

LEMMA NormalForm ==
  ASSUME NEW text \in Octs, NEW scheme, NEW prefix, NEW td, NEW path,
         PartsOf(text, scheme, prefix, td, path), ToSet(td) \subseteq TrustDomainChars
  PROVE  /\ Normalize(Identified(text)) = (prefix \o td) \o RemoveDots(NormalEscapes(path))
         /\ Normalize(Identified(text)) = text <=> RemoveDots(NormalEscapes(path)) = path
<1>1. PICK id : id = Identified(text)
  OBVIOUS
<1>2. /\ PrefixOf[id.scheme] = prefix /\ id.trustDomainLen = Len(td)
      /\ TrustDomain(id) = td /\ PathOf(id) = path
      /\ td \in Octs /\ prefix \in Octs /\ path \in Octs
      /\ text = (prefix \o td) \o path
  <2>1. /\ PrefixOf[scheme] = prefix
        /\ id = [uri |-> text, scheme |-> scheme, trustDomainLen |-> Len(td)]
        /\ TrustDomain(id) = td /\ PathOf(id) = path
    BY <1>1 DEF PartsOf
  <2>2. td \in Octs /\ prefix \in Octs /\ path \in Octs /\ text = (prefix \o td) \o path
    BY DEF PartsOf, IsPath
  <2>3. id.scheme = scheme /\ id.trustDomainLen = Len(td)
    BY <2>1
  <2>4. QED
    BY <2>1, <2>2, <2>3
<1>3. [i \in 1..id.trustDomainLen |-> ToLower(TrustDomain(id)[i])] = td
  BY <1>2, AlreadyLower
<1>4. PICK short : short = RemoveDots(NormalEscapes(path))
  OBVIOUS
<1>5. short \in Octs
  BY <1>2, <1>4, NormalEscapesIs, RemoveDotsShorter
<1>6. Normalize(id) = (prefix \o td) \o short
  BY <1>2, <1>3, <1>4 DEF Normalize
<1>7. prefix \o td \in Seq(Nat) /\ short \in Seq(Nat) /\ path \in Seq(Nat)
  BY <1>2, <1>5, Concatenated DEF Octs
<1>8. (prefix \o td) \o short = (prefix \o td) \o path => short = path
  BY <1>7, ConcatSimplifications
<1>9. QED
  BY <1>1, <1>2, <1>4, <1>6, <1>8

LEMMA GrammarIs ==
  ASSUME NEW text \in Octs, NEW scheme, NEW prefix, NEW td, NEW path,
         PartsOf(text, scheme, prefix, td, path)
  PROVE  InGrammar(Identified(text)) <=>
           /\ Len(text) <= MaxIdLen /\ Len(td) > 0
           /\ scheme = "spiffe" => Len(td) <= MaxTrustDomainLen
           /\ ToSet(td) \subseteq TrustDomainChars
           /\ SegmentsAre(scheme, path)
<1>1. PICK id : id = Identified(text)
  OBVIOUS
<1>2. /\ id.uri = text /\ id.scheme = scheme /\ id.trustDomainLen = Len(td)
      /\ TrustDomain(id) = td /\ PathOf(id) = path
  <2>1. /\ id = [uri |-> text, scheme |-> scheme, trustDomainLen |-> Len(td)]
        /\ TrustDomain(id) = td /\ PathOf(id) = path
    BY <1>1 DEF PartsOf
  <2>2. id.uri = text /\ id.scheme = scheme /\ id.trustDomainLen = Len(td)
    BY <2>1
  <2>3. QED
    BY <2>1, <2>2
<1>3. InGrammar(id) <=>
        /\ Len(text) <= MaxIdLen /\ Len(td) > 0
        /\ scheme = "spiffe" => Len(td) <= MaxTrustDomainLen
        /\ ToSet(td) \subseteq TrustDomainChars
        /\ SegmentsAre(scheme, path)
  BY <1>2 DEF InGrammar, SegmentsAre
<1>4. QED
  BY <1>1, <1>3

LEMMA AcceptedIs ==
  ASSUME NEW text \in Octs, SchemeOf(text) # {}, Parse(text) = "Ok"
  PROVE  /\ Normalize(Identified(text)) = text
         /\ InGrammar(Identified(text))
         /\ Origin(Identified(text)) \o PathOf(Identified(text)) = text
<1>1. PICK scheme : scheme = CHOOSE s \in SchemeOf(text) : TRUE
  OBVIOUS
<1>2. PICK prefix, td, path : PartsOf(text, scheme, prefix, td, path)
  BY <1>1, PartsAre
<1>3. td \in Octs /\ IsPath(path) /\ path \in Octs
  BY <1>2 DEF PartsOf, IsPath
<1>4. /\ ~(Len(text) > MaxIdLen)
      /\ ValidateTrustDomain(scheme, td) = "Ok" /\ ValidatePath(scheme, path) = "Ok"
  BY <1>1, <1>2, ParseIs
<1>5. /\ Len(td) > 0
      /\ scheme = "spiffe" => ~(Len(td) > MaxTrustDomainLen)
      /\ ToSet(td) \subseteq TrustDomainChars
  BY <1>3, <1>4, TrustDomainOk
<1>6. SegmentsOk(scheme, path)
  BY <1>3, <1>4, PathOk DEF SegmentsOk
<1>7. Normalize(Identified(text)) = text
  BY <1>2, <1>3, <1>5, <1>6, ValidIsNormal, NormalForm
<1>8. SegmentsAre(scheme, path)
  <2>1. ASSUME NEW j \in Slashes(path)
        PROVE  SegmentAfter(path, j) # <<>> /\ IsSegment(scheme, SegmentAfter(path, j))
    <3>1. PICK segment \in Octs : segment = SegmentAfter(path, j)
      BY <1>3, SegmentIs
    <3>2. ValidateSegment(scheme, segment) = "Ok"
      BY <1>6, <3>1 DEF SegmentsOk
    <3>3. CASE scheme = "spiffe"
      BY <3>1, <3>2, <3>3, SegmentOk DEF IsSegment
    <3>4. CASE scheme # "spiffe"
      <4>1. ASSUME NEW k \in DOMAIN segment PROVE segment[k] \in PChar \/ k \in Escapes(segment)
        <5>1. k \in 1..Len(segment)
          BY DEF Octs
        <5>2. OctetError(segment, k) = "Ok"
          BY <3>2, <3>4, <5>1, SegmentOk
        <5>3. QED
          BY <5>1, <5>2, OctetOk DEF GoodEscape
      <4>2. segment # <<>>
        BY <3>2, SegmentOk
      <4>3. QED
        BY <3>1, <3>4, <4>1, <4>2 DEF IsSegment
    <3>5. QED
      BY <3>3, <3>4
  <2>2. QED
    BY <2>1 DEF SegmentsAre
<1>9. InGrammar(Identified(text))
  <2>1. Len(text) <= MaxIdLen /\ (scheme = "spiffe" => Len(td) <= MaxTrustDomainLen)
    BY <1>3, <1>4, <1>5, LimitsAssumption DEF Octs
  <2>2. QED
    BY <1>2, <1>5, <1>8, <2>1, GrammarIs
<1>10. QED
  BY <1>2, <1>7, <1>9 DEF PartsOf

LEMMA AllowedOctets ==
  /\ QuestionMark \notin TrustDomainChars \cup PChar \cup {Slash, Percent}
  /\ NumberSign \notin TrustDomainChars \cup PChar \cup {Slash, Percent}
  /\ AtSign \notin TrustDomainChars /\ Colon \notin TrustDomainChars
BY DEF QuestionMark, NumberSign, AtSign, Colon, TrustDomainChars, PChar, Unreserved,
       Upper, Lower, Digits, Slash, Percent

LEMMA AcceptedIf ==
  ASSUME NEW text \in Octs, SchemeOf(text) # {}, InGrammar(Identified(text)),
         Normalize(Identified(text)) = text
  PROVE  Parse(text) = "Ok"
<1>1. PICK scheme : scheme = CHOOSE s \in SchemeOf(text) : TRUE
  OBVIOUS
<1>2. PICK prefix, td, path : PartsOf(text, scheme, prefix, td, path)
  BY <1>1, PartsAre
<1>3. td \in Octs /\ IsPath(path) /\ path \in Octs
  BY <1>2 DEF PartsOf, IsPath
<1>4. /\ Len(text) <= MaxIdLen /\ Len(td) > 0
      /\ scheme = "spiffe" => Len(td) <= MaxTrustDomainLen
      /\ ToSet(td) \subseteq TrustDomainChars
      /\ SegmentsAre(scheme, path)
  BY <1>2, GrammarIs
<1>5. RemoveDots(NormalEscapes(path)) = path
  BY <1>2, <1>4, NormalForm
<1>6. SegmentsOk(scheme, path)
  BY <1>3, <1>4, <1>5, NormalIsValid
<1>7. ValidatePath(scheme, path) = "Ok"
  BY <1>3, <1>6, PathOk DEF SegmentsOk
<1>8. ~(Len(text) > MaxIdLen) /\ (scheme = "spiffe" => ~(Len(td) > MaxTrustDomainLen))
  BY <1>3, <1>4, LimitsAssumption DEF Octs
<1>9. ValidateTrustDomain(scheme, td) = "Ok"
  BY <1>3, <1>4, <1>8, TrustDomainOk
<1>10. ToSet(td \o path) \subseteq TrustDomainChars \cup PChar \cup {Slash, Percent}
  <2>1. PICK a \in Nat, b \in Nat : a = Len(td) /\ b = Len(path)
    BY <1>3 DEF Octs
  <2>2. /\ td \o path \in Seq(Nat) /\ Len(td \o path) = Len(td) + Len(path)
        /\ \A i \in 1..Len(td) : (td \o path)[i] = td[i]
        /\ \A i \in 1..Len(path) : (td \o path)[Len(td) + i] = path[i]
    BY <1>3, Concatenated DEF Octs
  <2>3. PICK rest : rest = td \o path
    OBVIOUS
  <2>4. /\ rest \in Seq(Nat) /\ Len(rest) = a + b
        /\ \A i \in 1..a : rest[i] = td[i]
        /\ \A i \in 1..b : rest[a + i] = path[i]
    BY <2>1, <2>2, <2>3
  <2>5. ASSUME NEW i \in 1..Len(rest)
        PROVE  rest[i] \in TrustDomainChars \cup PChar \cup {Slash, Percent}
    <3>1. i \in 1 .. a + b
      BY <2>4
    <3>2. CASE i <= a
      <4>1. i \in 1..a
        BY <3>1, <3>2
      <4>2. rest[i] = td[i] /\ i \in 1..Len(td)
        BY <2>1, <2>4, <4>1
      <4>3. td[i] \in ToSet(td)
        BY <1>3, <4>2 DEF ToSet, Octs
      <4>4. QED
        BY <1>4, <4>2, <4>3
    <3>3. CASE i > a
      <4>1. PICK k \in 1..b : i = a + k
        <5>1. i - a \in 1..b /\ i = a + (i - a)
          BY <3>1, <3>3
        <5>2. QED
          BY <5>1
      <4>2. rest[i] = path[k] /\ k \in 1..Len(path)
        BY <2>1, <2>4, <4>1
      <4>3. path[k] = Slash \/ path[k] \in PChar \/ path[k] = Percent
        BY <1>3, <1>6, <4>2, ValidOctets
      <4>4. QED
        BY <4>2, <4>3
    <3>4. QED
      BY <3>1, <3>2, <3>3
  <2>6. ToSet(rest) = {rest[i] : i \in 1..Len(rest)}
    <3>1. DOMAIN rest = 1..Len(rest)
      BY <2>4
    <3>2. QED
      BY <3>1 DEF ToSet
  <2>7. QED
    BY <2>3, <2>5, <2>6
<1>11. /\ QuestionMark \notin ToSet(td \o path) /\ NumberSign \notin ToSet(td \o path)
       /\ AtSign \notin ToSet(td) /\ Colon \notin ToSet(td)
  BY <1>4, <1>10, AllowedOctets
<1>12. QED
  BY <1>1, <1>2, <1>7, <1>8, <1>9, <1>11, ParseIs
=============================================================================
