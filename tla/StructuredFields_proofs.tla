----------------------- MODULE StructuredFields_proofs -----------------------
(***************************************************************************)
(* That the texts of Signature-Input and Signature read back as what was   *)
(* written, whatever is in them.                                           *)
(*                                                                         *)
(* Recursion.  That the natural numbers are well founded gives induction   *)
(* (Induction) and the existence of what a recursive function describes    *)
(* (Iterated); each use of Run and of FlattenSeq is then characterized by  *)
(* the steps it takes, for texts of any length.                            *)
(*                                                                         *)
(* Reading.  The scanner goes on behind a text as if nothing had been in   *)
(* front of it, if that text leaves no string open (ScanOn); no delimiter  *)
(* is found in a string (SfStringTidy), and it reads back (StringReadsBack).*)
(* So a delimiter is found just where one was written (FindOne, CutOn),    *)
(* parameter by parameter (SpellMore, GivenRead), identifier by identifier *)
(* (QuotedIdRead, ThreeWords) and member by member (OneEntry, TwoEntries), *)
(* and a member reads back as a whole (MadeReads), and its signature       *)
(* (SignatureHolds, FoundOne, FoundTwo).                                   *)
(***************************************************************************)
EXTENDS StructuredFields, Integers, SequenceTheorems, WellFoundedInduction, TLAPS

(***************************************************************************)
(* Induction and recursion.                                                *)
(***************************************************************************)
LEMMA Induction ==
  ASSUME NEW S \in SUBSET Nat, 0 \in S, \A n \in S : n + 1 \in S
  PROVE  \A n \in Nat : n \in S
<1> DEFINE T == Nat \ S
<1>1. SUFFICES ASSUME T # {} PROVE FALSE
  OBVIOUS
<1>2. PICK x \in T : \A y \in T : ~(<<y, x>> \in OpToRel(<, Nat))
  BY <1>1, NatLessThanWellFounded, WFMin
<1>3. x # 0 /\ x \in Nat /\ x - 1 \in Nat
  OBVIOUS
<1>4. x - 1 \in T
  BY <1>3
<1>5. <<x - 1, x>> \in OpToRel(<, Nat)
  <2>1. x - 1 < x
    BY <1>3
  <2>2. QED
    BY <1>3, <2>1 DEF OpToRel
<1>6. QED
  BY <1>2, <1>4, <1>5

LEMMA MinIsLeast ==
  ASSUME NEW S \in SUBSET Nat, S # {}
  PROVE  Min(S) \in S /\ \A y \in S : Min(S) <= y
<1>1. PICK x \in S : \A y \in S : ~(<<y, x>> \in OpToRel(<, Nat))
  BY NatLessThanWellFounded, WFMin
<1>2. ASSUME NEW y \in S PROVE x <= y
  <2>1. ~(<<y, x>> \in {ss \in Nat \X Nat : ss[1] < ss[2]})
    BY <1>1 DEF OpToRel
  <2>2. x \in Nat /\ y \in Nat /\ <<y, x>>[1] = y /\ <<y, x>>[2] = x
    OBVIOUS
  <2>3. ~(y < x)
    BY <2>1, <2>2
  <2>4. QED
    BY <2>2, <2>3
<1>3. QED
  BY <1>2 DEF Min

LEMMA MaxIsGreatest ==
  ASSUME NEW n \in Nat, NEW S \in SUBSET (0..n), S # {}
  PROVE  Max(S) \in S /\ \A y \in S : y <= Max(S)
<1> DEFINE T == {n - y : y \in S}
<1>1. T \in SUBSET Nat /\ T # {}
  <2>1. \A y \in S : n - y \in Nat
    OBVIOUS
  <2>2. QED
    BY <2>1
<1>2. Min(T) \in T /\ \A y \in T : Min(T) <= y
  <2> HIDE DEF T
  <2>1. QED
    BY <1>1, MinIsLeast
<1>3. PICK x \in S : Min(T) = n - x
  BY <1>2
<1>4. \A y \in S : y <= x
  BY <1>2, <1>3
<1>5. \A y \in S : x >= y
  BY <1>4
<1>6. QED
  BY <1>4, <1>5 DEF Max

(* Up to a bound. *)
LEMMA InductionTo ==
  ASSUME NEW n \in Nat, NEW S, 0 \in S, \A i \in 0 .. n - 1 : i \in S => i + 1 \in S
  PROVE  n \in S /\ \A i \in 0..n : i \in S
<1> DEFINE D == {i \in Nat : i <= n => i \in S}
<1>1. 0 \in D
  OBVIOUS
<1>2. \A i \in D : i + 1 \in D
  OBVIOUS
<1>3. \A i \in Nat : i \in D
  <2> HIDE DEF D
  <2>1. D \in SUBSET Nat
    BY DEF D
  <2>2. QED
    BY <1>1, <1>2, <2>1, Induction
<1>4. QED
  BY <1>3

(* f[i] is what there is after i steps. *)
Steps(f, start, step, n) ==
  f[0] = start /\ \A i \in 0 .. n - 1 : f[i + 1] = step[i][f[i]]

LEMMA Iterated ==
  ASSUME NEW S, NEW start \in S, NEW n \in Nat, NEW step \in [0 .. n - 1 -> [S -> S]]
  PROVE  \E f \in [0..n -> S] : Steps(f, start, step, n)
<1> DEFINE Goes(f, m) == f[0] = start /\ \A i \in 0 .. m - 1 : f[i + 1] = step[i][f[i]]
           D == {m \in Nat : \E f \in [0..m -> S] : Goes(f, m)}
<1>1. 0 \in D
  <2>1. [i \in 0..0 |-> start] \in [0..0 -> S] /\ Goes([i \in 0..0 |-> start], 0)
    OBVIOUS
  <2>2. QED
    BY <2>1
<1>2. ASSUME NEW m \in 0 .. n - 1, m \in D PROVE m + 1 \in D
  <2>1. PICK f \in [0..m -> S] : Goes(f, m)
    BY <1>2
  <2> DEFINE g == [i \in 0 .. m + 1 |-> IF i = m + 1 THEN step[m][f[m]] ELSE f[i]]
  <2>2. step[m][f[m]] \in S /\ m \in Nat
    OBVIOUS
  <2>3. g \in [0 .. m + 1 -> S]
    BY <2>2
  <2>4. g[0] = start
    BY <2>1, <2>2
  <2>5. ASSUME NEW i \in 0 .. (m + 1) - 1 PROVE g[i + 1] = step[i][g[i]]
    <3>1. i \in 0..m /\ g[i] = f[i]
      BY <2>2
    <3>2. CASE i = m
      BY <2>2, <3>1, <3>2
    <3>3. CASE i \in 0 .. m - 1
      <4>1. g[i + 1] = f[i + 1]
        BY <2>2, <3>3
      <4>2. QED
        BY <2>1, <3>1, <3>3, <4>1
    <3>4. QED
      BY <2>2, <3>1, <3>2, <3>3
  <2>6. QED
    <3> HIDE DEF g
    <3>1. Goes(g, m + 1) /\ m + 1 \in Nat
      BY <2>2, <2>4, <2>5
    <3> HIDE DEF Goes
    <3>2. QED
      BY <2>3, <3>1
<1>3. n \in D
  <2> HIDE DEF D
  <2>1. \A m \in 0 .. n - 1 : m \in D => m + 1 \in D
    BY <1>2
  <2>2. QED
    BY <1>1, <2>1, InductionTo
<1>4. QED
  BY <1>3 DEF Steps

(***************************************************************************)
(* Sequences.                                                              *)
(***************************************************************************)
LEMMA OneItem ==
  ASSUME NEW S, NEW x \in S PROVE <<x>> \in Seq(S) /\ Len(<<x>>) = 1 /\ <<x>>[1] = x
OBVIOUS

LEMMA AsSequence ==
  ASSUME NEW S, NEW n \in Nat, NEW f \in [1..n -> S]
  PROVE  f \in Seq(S) /\ Len(f) = n
OBVIOUS

LEMMA ExceptType ==
  ASSUME NEW S, NEW s \in Seq(S), NEW i, NEW x, i \in DOMAIN s => x \in S
  PROVE  [s EXCEPT ![i] = x] \in Seq(S)
<1>1. CASE i \in DOMAIN s
  BY <1>1
<1>2. CASE i \notin DOMAIN s
  <2>1. [s EXCEPT ![i] = x] = s
    BY <1>2
  <2>2. QED
    BY <2>1
<1>3. QED
  BY <1>1, <1>2

LEMMA TwoItems ==
  ASSUME NEW S, NEW x \in S, NEW y \in S PROVE <<x, y>> \in Seq(S)
OBVIOUS

LEMMA SubSeqType ==
  ASSUME NEW S, NEW s \in Seq(S), NEW m \in 1 .. Len(s) + 1, NEW n \in 0 .. Len(s)
  PROVE  SubSeq(s, m, n) \in Seq(S)
<1>1. \A i \in m..n : s[i] \in S
  OBVIOUS
<1>2. QED
  BY <1>1, SubSeqProperties

LEMMA AppendType ==
  ASSUME NEW S, NEW s \in Seq(S), NEW x \in S PROVE Append(s, x) \in Seq(S)
OBVIOUS

LEMMA SameItems ==
  ASSUME NEW S, NEW s \in Seq(S), NEW t \in Seq(S), Len(s) = Len(t),
         \A i \in 1..Len(t) : s[i] = t[i]
  PROVE  s = t
OBVIOUS

LEMMA CutIs ==
  ASSUME NEW S, NEW s \in Seq(S), NEW i \in 0..Len(s), NEW m \in i..Len(s)
  PROVE  /\ SubSeq(s, i + 1, m) \in Seq(S)
         /\ Len(SubSeq(s, i + 1, m)) = m - i
         /\ \A k \in 1 .. m - i : SubSeq(s, i + 1, m)[k] = s[i + k]
<1>1. i + 1 \in 1 .. Len(s) + 1 /\ m \in 0..Len(s) /\ Len(s) \in Nat
  OBVIOUS
<1>2. SubSeq(s, i + 1, m) \in Seq(S)
  BY <1>1, SubSeqType
<1>3. SubSeq(s, i + 1, m) = [k \in 1 .. m - i |-> s[i + k]]
  BY <1>1
<1>4. QED
  BY <1>1, <1>2, <1>3

(***************************************************************************)
(* Texts one after the other.                                              *)
(***************************************************************************)
LEMMA Concatenated ==
  ASSUME NEW S, NEW s \in Seq(S), NEW t \in Seq(S)
  PROVE  /\ s \o t \in Seq(S) /\ Len(s \o t) = Len(s) + Len(t)
         /\ \A i \in 1..Len(s) : (s \o t)[i] = s[i]
         /\ \A i \in 1..Len(t) : (s \o t)[Len(s) + i] = t[i]
  OBVIOUS

(* FlattenSeq(seqs) is the last of the results f, one longer by seqs[i]    *)
(* than the one before.                                                    *)
Accumulates(f, seqs, n) ==
  f[0] = <<>> /\ \A i \in 0 .. n - 1 : f[i + 1] = f[i] \o seqs[i + 1]

LEMMA Flattened ==
  ASSUME NEW S, NEW seqs \in Seq(Seq(S))
  PROVE  \E f \in [0..Len(seqs) -> Seq(S)] :
           Accumulates(f, seqs, Len(seqs)) /\ FlattenSeq(seqs) = f[Len(seqs)]
<1>1. PICK n \in Nat : n = Len(seqs)
  OBVIOUS
<1>2. \A i \in 0 .. n - 1 : seqs[i + 1] \in Seq(S)
  BY <1>1
<1>3. PICK f \in [0..n -> Seq(S)] :
        f[0] = <<>> /\ \A i \in 0 .. n - 1 : f[i + 1] = f[i] \o seqs[i + 1]
  <2> DEFINE step == [i \in 0 .. n - 1 |-> [s \in Seq(S) |-> s \o seqs[i + 1]]]
  <2>1. step \in [0 .. n - 1 -> [Seq(S) -> Seq(S)]]
    BY <1>2
  <2>2. <<>> \in Seq(S)
    OBVIOUS
  <2>3. PICK f \in [0..n -> Seq(S)] : Steps(f, <<>>, step, n)
    <3> HIDE DEF step
    <3>1. QED
      BY <2>1, <2>2, Iterated
  <2>4. ASSUME NEW i \in 0 .. n - 1 PROVE step[i][f[i]] = f[i] \o seqs[i + 1]
    <3>1. f[i] \in Seq(S)
      OBVIOUS
    <3>2. QED
      BY <3>1
  <2>5. QED
    BY <2>3, <2>4 DEF Steps
<1>4. CASE n = 0
  <2>1. seqs = <<>> /\ FlattenSeq(seqs) = seqs
    BY <1>1, <1>4, EmptySeq DEF FlattenSeq
  <2>2. QED
    BY <1>1, <1>3, <1>4, <2>1 DEF Accumulates
<1>5. CASE n > 0
  <2> DEFINE Step(h) == [i \in 1..n |-> IF i = 1 THEN seqs[i] ELSE h[i - 1] \o seqs[i]]
             g == [i \in 1..n |-> f[i]]
             h == CHOOSE h : h = Step(h)
  <2>1. g = Step(g)
    <3>1. ASSUME NEW i \in 1..n PROVE f[i] = Step(g)[i]
      <4>1. i - 1 \in 0 .. n - 1 /\ (i - 1) + 1 = i
        OBVIOUS
      <4>2. f[i] = f[i - 1] \o seqs[i] /\ seqs[i] \in Seq(S)
        BY <1>2, <1>3, <4>1
      <4>3. CASE i = 1
        <5>1. Step(g)[i] = seqs[i] /\ f[i - 1] = <<>>
          BY <1>3, <4>3
        <5>2. QED
          BY <4>2, <5>1, ConcatEmptySeq
      <4>4. CASE i # 1
        <5>1. g[i - 1] = f[i - 1]
          BY <4>1, <4>4
        <5> HIDE DEF g
        <5>2. QED
          BY <4>2, <4>4, <5>1
      <4>5. QED
        BY <4>3, <4>4
    <3>2. QED
      BY <3>1
  <2>2. h = Step(h)
    <3> HIDE DEF g, Step
    <3>1. QED
      BY <2>1
  <2>3. FlattenSeq(seqs) = h[n]
    BY <1>1, <1>5 DEF FlattenSeq
  <2> DEFINE D == {j \in 0..n : j > 0 => h[j] = f[j]}
  <2> HIDE DEF h
  <2>4. ASSUME NEW i \in 0 .. n - 1 PROVE i \in D => i + 1 \in D
    <3> SUFFICES ASSUME i \in D PROVE i + 1 \in D
      OBVIOUS
    <3>1. i + 1 \in 1..n /\ i \in Nat /\ (i + 1) - 1 = i
      OBVIOUS
    <3>2. h[i + 1] = IF i + 1 = 1 THEN seqs[i + 1] ELSE h[i] \o seqs[i + 1]
      BY <2>2, <3>1
    <3>3. f[i + 1] = f[i] \o seqs[i + 1] /\ seqs[i + 1] \in Seq(S)
      BY <1>2, <1>3
    <3>4. h[i + 1] = f[i + 1]
      <4>1. CASE i = 0
        <5>1. h[i + 1] = seqs[i + 1] /\ f[i] = <<>>
          BY <1>3, <3>2, <4>1
        <5>2. QED
          BY <3>3, <5>1, ConcatEmptySeq
      <4>2. CASE i > 0
        <5>1. h[i] = f[i] /\ i + 1 # 1
          BY <3>1, <4>2
        <5>2. QED
          BY <3>2, <3>3, <5>1
      <4>3. QED
        BY <3>1, <4>1, <4>2
    <3>5. QED
      BY <3>1, <3>4
  <2>5. n \in D
    <3>1. 0 \in D
      OBVIOUS
    <3> HIDE DEF D
    <3>2. QED
      BY <2>4, <3>1, InductionTo
  <2>6. QED
    BY <1>1, <1>3, <1>5, <2>3, <2>5 DEF Accumulates
<1>6. QED
  BY <1>4, <1>5

(* Each part is found in the whole, behind those before it. *)
StartsWith(t, s) == Len(s) <= Len(t) /\ \A j \in 1..Len(s) : t[j] = s[j]

PartsStand(f, seqs, n) ==
  \A i \in 0 .. n - 1 :
    /\ Len(f[i + 1]) = Len(f[i]) + Len(seqs[i + 1])
    /\ Len(f[i + 1]) <= Len(f[n])
    /\ \A j \in 1..Len(seqs[i + 1]) : f[n][Len(f[i]) + j] = seqs[i + 1][j]

LEMMA FlattenedParts ==
  ASSUME NEW S, NEW n \in Nat, NEW seqs \in [1..n -> Seq(S)],
         NEW f \in [0..n -> Seq(S)], Accumulates(f, seqs, n)
  PROVE  PartsStand(f, seqs, n)
<1>2. ASSUME NEW i \in 0 .. n - 1
      PROVE  /\ f[i] \in Seq(S) /\ f[i + 1] \in Seq(S) /\ seqs[i + 1] \in Seq(S)
             /\ Len(f[i]) \in Nat /\ Len(f[i + 1]) \in Nat /\ Len(seqs[i + 1]) \in Nat
             /\ Len(f[i + 1]) = Len(f[i]) + Len(seqs[i + 1])
             /\ StartsWith(f[i + 1], f[i])
             /\ \A j \in 1..Len(seqs[i + 1]) : f[i + 1][Len(f[i]) + j] = seqs[i + 1][j]
  <2>1. f[i] \in Seq(S) /\ f[i + 1] \in Seq(S) /\ seqs[i + 1] \in Seq(S)
    <3>1. i \in 0..n /\ i + 1 \in 0..n /\ i + 1 \in 1..n
      OBVIOUS
    <3>2. QED
      BY <3>1
  <2>2. f[i + 1] = f[i] \o seqs[i + 1]
    BY DEF Accumulates
  <2>3. PICK s \in Seq(S), t \in Seq(S), u \in Seq(S) : s = f[i] /\ t = seqs[i + 1] /\ u = f[i + 1]
    BY <2>1
  <2>4. /\ Len(u) = Len(s) + Len(t)
        /\ \A j \in 1..Len(s) : u[j] = s[j]
        /\ \A j \in 1..Len(t) : u[Len(s) + j] = t[j]
    <3>1. u = s \o t
      BY <2>2, <2>3
    <3>2. QED
      BY <3>1, Concatenated
  <2>5. Len(s) \in Nat /\ Len(t) \in Nat /\ Len(u) \in Nat
    OBVIOUS
  <2>5a. StartsWith(u, s)
    <3>1. Len(s) <= Len(u)
      BY <2>4, <2>5
    <3>2. QED
      BY <2>4, <3>1 DEF StartsWith
  <2>6. QED
    BY <2>3, <2>4, <2>5, <2>5a
<1> DEFINE D == {m \in 0..n : \A k \in 0..m : StartsWith(f[m], f[k])}
<1>3. 0 \in D
  <2>1. Len(f[0]) \in Nat
    OBVIOUS
  <2>2. StartsWith(f[0], f[0])
    BY <2>1 DEF StartsWith
  <2>3. QED
    BY <2>2
<1>4. ASSUME NEW m \in 0 .. n - 1 PROVE m \in D => m + 1 \in D
  <2>1. SUFFICES ASSUME m \in D, NEW k \in 0 .. m + 1 PROVE StartsWith(f[m + 1], f[k])
    OBVIOUS
  <2>2. StartsWith(f[m + 1], f[m]) /\ Len(f[m]) \in Nat /\ Len(f[m + 1]) \in Nat
    BY <1>2
  <2>3. CASE k = m + 1
    BY <2>2, <2>3 DEF StartsWith
  <2>4. CASE k \in 0..m
    <3>1. StartsWith(f[m], f[k]) /\ Len(f[k]) \in Nat
      BY <2>1, <2>4
    <3>2. QED
      BY <2>2, <3>1, SMTT(30) DEF StartsWith
  <2>5. QED
    BY <2>3, <2>4
<1>5. n \in D
  <2> HIDE DEF D
  <2>1. QED
    BY <1>3, <1>4, InductionTo
<1>6. ASSUME NEW i \in 0 .. n - 1
      PROVE  /\ Len(f[i + 1]) = Len(f[i]) + Len(seqs[i + 1])
             /\ Len(f[i + 1]) <= Len(f[n])
             /\ \A j \in 1..Len(seqs[i + 1]) : f[n][Len(f[i]) + j] = seqs[i + 1][j]
  <2>1. StartsWith(f[n], f[i + 1])
    BY <1>5
  <2>2. PICK a \in Nat, b \in Nat, c \in Nat :
          a = Len(f[i]) /\ b = Len(seqs[i + 1]) /\ c = Len(f[i + 1])
    BY <1>2
  <2>3. c = a + b
    BY <1>2, <2>2
  <2>4. ASSUME NEW j \in 1..b PROVE f[n][a + j] = seqs[i + 1][j]
    <3>1. a + j \in 1..c
      BY <2>3
    <3>2. f[n][a + j] = f[i + 1][a + j]
      BY <2>1, <2>2, <3>1 DEF StartsWith
    <3>3. QED
      BY <1>2, <2>2, <3>2
  <2>5. Len(f[i + 1]) <= Len(f[n])
    BY <2>1 DEF StartsWith
  <2>6. QED
    BY <1>2, <2>2, <2>4, <2>5
<1>7. QED
  BY <1>6 DEF PartsStand

LEMMA FlattenSeqType ==
  ASSUME NEW S, NEW seqs \in Seq(Seq(S))
  PROVE  FlattenSeq(seqs) \in Seq(S)
<1>1. PICK f \in [0..Len(seqs) -> Seq(S)] : FlattenSeq(seqs) = f[Len(seqs)]
  BY Flattened
<1>2. Len(seqs) \in 0..Len(seqs)
  OBVIOUS
<1>3. QED
  BY <1>1, <1>2

(* A recursive function is a CHOOSE of TLA+.  It is f when f takes the     *)
(* steps it is defined by, as far as it agrees with f itself.              *)
Follows(h, f, n) == h[0] = f[0] /\ \A i \in 0 .. n - 1 : h[i] = f[i] => h[i + 1] = f[i + 1]

Equal(h, f, n) == \A i \in 0..n : h[i] = f[i]

LEMMA Agrees ==
  ASSUME NEW n \in Nat, NEW f, NEW h, Follows(h, f, n)
  PROVE  Equal(h, f, n)
<1>1. h[0] = f[0] /\ \A i \in 0 .. n - 1 : h[i] = f[i] => h[i + 1] = f[i + 1]
  BY DEF Follows
<1> DEFINE D == {i \in 0..n : h[i] = f[i]}
<1>2. 0 \in D /\ \A i \in 0 .. n - 1 : i \in D => i + 1 \in D
  BY <1>1
<1>3. \A i \in 0..n : i \in D
  <2> HIDE DEF D
  <2>1. QED
    BY <1>2, InductionTo
<1>4. QED
  BY <1>3 DEF Equal

-----------------------------------------------------------------------------
(***************************************************************************)
(* Texts.                                                                  *)
(***************************************************************************)
(* The literals of the model are strings too, which is said here since the *)
(* provers do not know it.                                                 *)
Literals ==
  {"dquote", "backslash", " ", "lf", ",", ";", "=", "(", ")", ":", "?", "?0", "5", "req",
   "wimse-workload-to-workload", "@signature-params",
   "@method", "@authority", "@path", "@query", "a", "/", "CONNECT", "@METHOD", "Content-Type",
   "content-type", "content-digest", "authorization", "txn-token", "workload-identity-token",
   "base64-1", "base64-2", Hash}
    \cup Marks \cup ToSet(Order)

Alphabet == STRING \cup Literals
Text     == Seq(Alphabet)

ComponentType == [name : Text, req : BOOLEAN]

LEMMA Characters ==
  /\ DQuote \in Alphabet /\ Backslash \in Alphabet /\ Space \in Alphabet
  /\ LineFeed \in Alphabet /\ Comma \in Alphabet /\ Semicolon \in Alphabet
  /\ Equals \in Alphabet /\ Open \in Alphabet /\ Close \in Alphabet
BY DEF Alphabet, Literals, DQuote, Backslash, Space, LineFeed, Comma, Semicolon, Equals, Open, Close

LEMMA TextConcat ==
  ASSUME NEW s \in Text, NEW t \in Text
  PROVE  /\ s \o t \in Text /\ Len(s \o t) = Len(s) + Len(t)
         /\ \A i \in 1..Len(s) : (s \o t)[i] = s[i]
         /\ \A i \in 1..Len(t) : (s \o t)[Len(s) + i] = t[i]
BY Concatenated DEF Text

Associates(a, b, c) == (a \o b) \o c = a \o (b \o c)

LEMMA TextAssociative ==
  ASSUME NEW a \in Text, NEW b \in Text, NEW c \in Text
  PROVE  Associates(a, b, c)
  BY ConcatAssociative, SMTT(30) DEF Text, Associates

LEMMA EmptyText == <<>> \in Text
BY DEF Text

(***************************************************************************)
(* Texts stay texts.                                                       *)
(***************************************************************************)
(***************************************************************************)
(* What each use of Run yields.                                            *)
(***************************************************************************)
LEMMA PickedType ==
  ASSUME NEW S, NEW items \in Seq(S), NEW places
  PROVE  Picked(items, places) \in Seq(S)
<1>1. PICK n \in Nat : n = Len(items) /\ DOMAIN items = 1..n /\ \A i \in 1..n : items[i] \in S
  OBVIOUS
<1> DEFINE Read(picked, i) == IF i \in places THEN Append(picked, items[i]) ELSE picked
           step == [i \in 0 .. n - 1 |-> [picked \in Seq(S) |-> Read(picked, i + 1)]]
<1>2. ASSUME NEW i \in 1..n, NEW picked \in Seq(S) PROVE Read(picked, i) \in Seq(S)
  BY <1>1, AppendType
<1>3. PICK f \in [0..n -> Seq(S)] :
        f[0] = <<>> /\ \A i \in 0 .. n - 1 : f[i + 1] = Read(f[i], i + 1)
  <2>1. step \in [0 .. n - 1 -> [Seq(S) -> Seq(S)]]
    <3> HIDE DEF Read
    <3>1. \A i \in 0 .. n - 1, picked \in Seq(S) : Read(picked, i + 1) \in Seq(S)
      BY <1>2
    <3>2. QED
      BY <3>1
  <2>2. <<>> \in Seq(S)
    OBVIOUS
  <2>3. PICK f \in [0..n -> Seq(S)] : Steps(f, <<>>, step, n)
    <3> HIDE DEF step
    <3>1. QED
      BY <2>1, <2>2, Iterated
  <2>4. ASSUME NEW i \in 0 .. n - 1 PROVE step[i][f[i]] = Read(f[i], i + 1)
    <3> HIDE DEF Read
    <3>1. f[i] \in Seq(S)
      OBVIOUS
    <3>2. QED
      BY <3>1
  <2> HIDE DEF step, Read
  <2>5. QED
    BY <2>3, <2>4 DEF Steps
<1> DEFINE Body(h) == [i \in 0..n |-> IF i = 0 THEN <<>> ELSE Read(h[i - 1], i)]
           after == CHOOSE h : h = Body(h)
<1>4. f = Body(f)
  <2> HIDE DEF Read
  <2>1. ASSUME NEW i \in 0..n PROVE f[i] = IF i = 0 THEN <<>> ELSE Read(f[i - 1], i)
    <3>1. CASE i = 0
      BY <1>3, <3>1
    <3>2. CASE i # 0
      <4>1. i - 1 \in 0 .. n - 1 /\ (i - 1) + 1 = i
        BY <3>2
      <4>2. QED
        BY <1>3, <3>2, <4>1
    <3>3. QED
      BY <3>1, <3>2
  <2>2. QED
    BY <2>1
<1>5. after = Body(after)
  <2> HIDE DEF Body
  <2>1. QED
    BY <1>4
<1>6. Picked(items, places) = after[n]
  BY <1>1 DEF Picked, Run
<1> HIDE DEF after
<1>7. after[0] = f[0] /\ \A i \in 0 .. n - 1 : after[i] = f[i] => after[i + 1] = f[i + 1]
  <2> HIDE DEF Read
  <2>1. after[0] = <<>>
    BY <1>5
  <2>2. ASSUME NEW i \in 0 .. n - 1 PROVE after[i + 1] = Read(after[i], i + 1)
    <3>1. i + 1 \in 0..n /\ i + 1 # 0 /\ (i + 1) - 1 = i
      OBVIOUS
    <3>2. QED
      BY <1>5, <3>1
  <2>3. QED
    BY <1>3, <2>1, <2>2
<1>8. \A i \in 0..n : after[i] = f[i]
  <2>1. Follows(after, f, n)
    BY <1>7 DEF Follows
  <2>2. Equal(after, f, n)
    BY <2>1, Agrees
  <2>3. QED
    BY <2>2 DEF Equal
<1>9. n \in 0..n
  OBVIOUS
<1>10. QED
  BY <1>6, <1>8, <1>9

LEMMA JoinedType ==
  ASSUME NEW texts \in Seq(Text), NEW separator \in Text
  PROVE  Joined(texts, separator) \in Text
<1>1. PICK n \in Nat : n = Len(texts) /\ DOMAIN texts = 1..n /\ \A i \in 1..n : texts[i] \in Text
  OBVIOUS
<1> DEFINE Read(joined, i) == IF i = 1 THEN texts[1] ELSE joined \o separator \o texts[i]
           step == [i \in 0 .. n - 1 |-> [joined \in Text |-> Read(joined, i + 1)]]
<1>2. ASSUME NEW i \in 1..n, NEW joined \in Text PROVE Read(joined, i) \in Text
  <2>1. texts[i] \in Text /\ (i = 1 => texts[1] \in Text)
    BY <1>1
  <2>2. joined \o separator \in Text
    BY TextConcat
  <2>3. (joined \o separator) \o texts[i] \in Text
    BY <2>1, <2>2, TextConcat
  <2>4. QED
    BY <2>1, <2>3
<1>3. PICK f \in [0..n -> Text] :
        f[0] = <<>> /\ \A i \in 0 .. n - 1 : f[i + 1] = Read(f[i], i + 1)
  <2>1. step \in [0 .. n - 1 -> [Text -> Text]]
    <3> HIDE DEF Read
    <3>1. \A i \in 0 .. n - 1, joined \in Text : Read(joined, i + 1) \in Text
      BY <1>2
    <3>2. QED
      BY <3>1
  <2>2. <<>> \in Text
    BY EmptyText
  <2>3. PICK f \in [0..n -> Text] : Steps(f, <<>>, step, n)
    <3> HIDE DEF step
    <3>1. QED
      BY <2>1, <2>2, Iterated
  <2>4. ASSUME NEW i \in 0 .. n - 1 PROVE step[i][f[i]] = Read(f[i], i + 1)
    <3> HIDE DEF Read
    <3>1. f[i] \in Text
      OBVIOUS
    <3>2. QED
      BY <3>1
  <2> HIDE DEF step, Read
  <2>5. QED
    BY <2>3, <2>4 DEF Steps
<1> DEFINE Body(h) == [i \in 0..n |-> IF i = 0 THEN <<>> ELSE Read(h[i - 1], i)]
           after == CHOOSE h : h = Body(h)
<1>4. f = Body(f)
  <2> HIDE DEF Read
  <2>1. ASSUME NEW i \in 0..n PROVE f[i] = IF i = 0 THEN <<>> ELSE Read(f[i - 1], i)
    <3>1. CASE i = 0
      BY <1>3, <3>1
    <3>2. CASE i # 0
      <4>1. i - 1 \in 0 .. n - 1 /\ (i - 1) + 1 = i
        BY <3>2
      <4>2. QED
        BY <1>3, <3>2, <4>1
    <3>3. QED
      BY <3>1, <3>2
  <2>2. QED
    BY <2>1
<1>5. after = Body(after)
  <2> HIDE DEF Body
  <2>1. QED
    BY <1>4
<1>6. Joined(texts, separator) = after[n]
  BY <1>1 DEF Joined, Run
<1> HIDE DEF after
<1>7. after[0] = f[0] /\ \A i \in 0 .. n - 1 : after[i] = f[i] => after[i + 1] = f[i + 1]
  <2> HIDE DEF Read
  <2>1. after[0] = <<>>
    BY <1>5
  <2>2. ASSUME NEW i \in 0 .. n - 1 PROVE after[i + 1] = Read(after[i], i + 1)
    <3>1. i + 1 \in 0..n /\ i + 1 # 0 /\ (i + 1) - 1 = i
      OBVIOUS
    <3>2. QED
      BY <1>5, <3>1
  <2>3. QED
    BY <1>3, <2>1, <2>2
<1>8. \A i \in 0..n : after[i] = f[i]
  <2>1. Follows(after, f, n)
    BY <1>7 DEF Follows
  <2>2. Equal(after, f, n)
    BY <2>1, Agrees
  <2>3. QED
    BY <2>2 DEF Equal
<1>9. n \in 0..n
  OBVIOUS
<1>10. QED
  BY <1>6, <1>8, <1>9

(* A text that is cut has at least one part. *)
Parts(S) == {parts \in Seq(Seq(S)) : Len(parts) >= 1}

LEMMA SplitAtType ==
  ASSUME NEW S, NEW chars \in Seq(S), NEW cuts
  PROVE  SplitAt(chars, cuts) \in Parts(S)
<1>1. PICK n \in Nat : n = Len(chars) /\ \A i \in 1..n : chars[i] \in S
  OBVIOUS
<1> DEFINE Read(parts, i) == IF i \in cuts THEN Append(parts, <<>>)
                             ELSE [parts EXCEPT ![Len(parts)] = Append(@, chars[i])]
           step == [i \in 0 .. n - 1 |-> [parts \in Parts(S) |-> Read(parts, i + 1)]]
<1>2. ASSUME NEW i \in 1..n, NEW parts \in Parts(S) PROVE Read(parts, i) \in Parts(S)
  <2>1. parts \in Seq(Seq(S)) /\ Len(parts) \in Nat /\ Len(parts) >= 1
    BY DEF Parts
  <2>2. Append(parts, <<>>) \in Seq(Seq(S)) /\ Len(Append(parts, <<>>)) >= 1
    BY <2>1
  <2>3. Append(parts[Len(parts)], chars[i]) \in Seq(S)
    <3>1. parts[Len(parts)] \in Seq(S) /\ chars[i] \in S
      BY <1>1, <2>1
    <3>2. QED
      BY <3>1, AppendType
  <2>4. /\ [parts EXCEPT ![Len(parts)] = Append(@, chars[i])] \in Seq(Seq(S))
        /\ Len([parts EXCEPT ![Len(parts)] = Append(@, chars[i])]) >= 1
    BY <2>1, <2>3
  <2>5. QED
    BY <2>2, <2>4 DEF Parts
<1>3. PICK f \in [0..n -> Parts(S)] :
        f[0] = <<<<>>>> /\ \A i \in 0 .. n - 1 : f[i + 1] = Read(f[i], i + 1)
  <2>1. step \in [0 .. n - 1 -> [Parts(S) -> Parts(S)]]
    <3> HIDE DEF Read
    <3>1. \A i \in 0 .. n - 1, parts \in Parts(S) : Read(parts, i + 1) \in Parts(S)
      BY <1>2
    <3>2. QED
      BY <3>1
  <2>2. <<<<>>>> \in Parts(S)
    BY DEF Parts
  <2>3. PICK f \in [0..n -> Parts(S)] : Steps(f, <<<<>>>>, step, n)
    <3> HIDE DEF step
    <3>1. QED
      BY <2>1, <2>2, Iterated
  <2>4. ASSUME NEW i \in 0 .. n - 1 PROVE step[i][f[i]] = Read(f[i], i + 1)
    <3> HIDE DEF Read
    <3>1. f[i] \in Parts(S)
      OBVIOUS
    <3>2. QED
      BY <3>1
  <2> HIDE DEF step, Read
  <2>5. QED
    BY <2>3, <2>4 DEF Steps
<1> DEFINE Body(h) == [i \in 0..n |-> IF i = 0 THEN <<<<>>>> ELSE Read(h[i - 1], i)]
           after == CHOOSE h : h = Body(h)
<1>4. f = Body(f)
  <2> HIDE DEF Read
  <2>1. ASSUME NEW i \in 0..n PROVE f[i] = IF i = 0 THEN <<<<>>>> ELSE Read(f[i - 1], i)
    <3>1. CASE i = 0
      BY <1>3, <3>1
    <3>2. CASE i # 0
      <4>1. i - 1 \in 0 .. n - 1 /\ (i - 1) + 1 = i
        BY <3>2
      <4>2. QED
        BY <1>3, <3>2, <4>1
    <3>3. QED
      BY <3>1, <3>2
  <2>2. QED
    BY <2>1
<1>5. after = Body(after)
  <2> HIDE DEF Body
  <2>1. QED
    BY <1>4
<1>6. SplitAt(chars, cuts) = after[n]
  BY <1>1 DEF SplitAt, Run
<1> HIDE DEF after
<1>7. after[0] = f[0] /\ \A i \in 0 .. n - 1 : after[i] = f[i] => after[i + 1] = f[i + 1]
  <2> HIDE DEF Read
  <2>1. after[0] = <<<<>>>>
    BY <1>5
  <2>2. ASSUME NEW i \in 0 .. n - 1 PROVE after[i + 1] = Read(after[i], i + 1)
    <3>1. i + 1 \in 0..n /\ i + 1 # 0 /\ (i + 1) - 1 = i
      OBVIOUS
    <3>2. QED
      BY <1>5, <3>1
  <2>3. QED
    BY <1>3, <2>1, <2>2
<1>8. \A i \in 0..n : after[i] = f[i]
  <2>1. Follows(after, f, n)
    BY <1>7 DEF Follows
  <2>2. Equal(after, f, n)
    BY <2>1, Agrees
  <2>3. QED
    BY <2>2 DEF Equal
<1>9. n \in 0..n
  OBVIOUS
<1>10. QED
  BY <1>6, <1>8, <1>9

(***************************************************************************)
(* Texts stay texts.                                                       *)
(***************************************************************************)
LEMMA TrimType == ASSUME NEW t \in Text PROVE Trim(t) \in Text
<1> DEFINE words == {i \in DOMAIN t : t[i] \notin {Space, LineFeed}}
<1>1. CASE words = {}
  BY <1>1, EmptyText DEF Trim
<1>2. CASE words # {}
  <2>1. Len(t) \in Nat /\ words \in SUBSET (1..Len(t)) /\ t \in Seq(Alphabet)
    BY DEF Text
  <2> HIDE DEF words
  <2>2. words \in SUBSET Nat /\ words \in SUBSET (0..Len(t))
    BY <2>1
  <2>3. Min(words) \in words /\ Max(words) \in words
    BY <1>2, <2>1, <2>2, MinIsLeast, MaxIsGreatest
  <2>4. Min(words) \in 1 .. Len(t) + 1 /\ Max(words) \in 0..Len(t)
    <3>1. Min(words) \in 1..Len(t) /\ Max(words) \in 1..Len(t)
      BY <2>1, <2>3
    <3> DEFINE least == Min(words)
               greatest == Max(words)
    <3> HIDE DEF least, greatest
    <3>2. least \in 1..Len(t) /\ greatest \in 1..Len(t)
      BY <3>1 DEF least, greatest
    <3>3. least \in 1 .. Len(t) + 1 /\ greatest \in 0..Len(t)
      BY <2>1, <3>2
    <3>4. QED
      BY <3>3 DEF least, greatest
  <2>5. SubSeq(t, Min(words), Max(words)) \in Seq(Alphabet)
    BY <2>1, <2>4, SubSeqType
  <2>6. QED
    BY <1>2, <2>5 DEF Trim, words, Text
<1>3. QED
  BY <1>1, <1>2

LEMMA EscapedType == ASSUME NEW c \in Alphabet PROVE Escaped(c) \in Text
<1>1. <<c>> \in Text /\ <<Backslash, c>> \in Text
  BY Characters, OneItem, TwoItems DEF Text
<1>2. QED
  BY <1>1 DEF Escaped

LEMMA Quote == <<DQuote>> \in Text
BY Characters, OneItem DEF Text

LEMMA SfStringType == ASSUME NEW value \in Text PROVE SfString(value) \in Text
<1> DEFINE parts == [i \in DOMAIN value |-> Escaped(value[i])]
<1>1. parts \in Seq(Seq(Alphabet))
  <2>1. \A i \in 1..Len(value) : value[i] \in Alphabet
    BY DEF Text
  <2>2. \A i \in 1..Len(value) : Escaped(value[i]) \in Seq(Alphabet)
    BY <2>1, EscapedType DEF Text
  <2>3. Len(value) \in Nat /\ DOMAIN value = 1..Len(value)
    BY DEF Text
  <2>4. QED
    BY <2>2, <2>3
<1>2. FlattenSeq(parts) \in Text
  <2> HIDE DEF parts
  <2>1. QED
    BY <1>1, FlattenSeqType DEF Text
<1> HIDE DEF parts
<1>3. <<DQuote>> \o FlattenSeq(parts) \in Text
  BY <1>2, Quote, TextConcat
<1>4. (<<DQuote>> \o FlattenSeq(parts)) \o <<DQuote>> \in Text
  BY <1>3, Quote, TextConcat
<1>5. QED
  BY <1>4 DEF SfString, parts

LEMMA QuotedIdType ==
  ASSUME NEW c \in ComponentType PROVE QuotedId(c) \in Text
<1>1. c.name \in Text /\ <<Semicolon, "req">> \in Text /\ <<>> \in Text
  <2> USE DEF ComponentType
  <2>1. "req" \in Alphabet
    BY DEF Alphabet, Literals
  <2>2. <<Semicolon, "req">> \in Text
    BY <2>1, Characters, TwoItems DEF Text
  <2>3. QED
    BY <2>2, EmptyText
<1>2. <<DQuote>> \o c.name \in Text
  BY <1>1, Quote, TextConcat
<1>3. (<<DQuote>> \o c.name) \o <<DQuote>> \in Text
  BY <1>2, Quote, TextConcat
<1> DEFINE id == (<<DQuote>> \o c.name) \o <<DQuote>>
           mark == IF c.req THEN <<Semicolon, "req">> ELSE <<>>
<1>4. mark \in Text
  BY <1>1
<1> HIDE DEF mark
<1>5. id \o mark \in Text
  BY <1>3, <1>4, TextConcat
<1>6. QED
  BY <1>5 DEF QuotedId, mark

LEMMA WrittenType ==
  ASSUME NEW name \in Alphabet, NEW value,
         name \in StringParams => value \in Text, name \in IntegerParams => value \in Alphabet
  PROVE  WrittenParam(name, value) \in Text
<1> DEFINE front == <<Semicolon, name>>
           back == IF name \in StringParams THEN <<Equals>> \o SfString(value)
                   ELSE IF name \in IntegerParams THEN <<Equals, value>>
                   ELSE IF value THEN <<>> ELSE <<Equals, "?0">>
<1>1. front \in Text
  BY Characters, TwoItems DEF Text
<1>2. back \in Text
  <2>1. CASE name \in StringParams
    <3>1. SfString(value) \in Text /\ <<Equals>> \in Text
      BY <2>1, SfStringType, Characters, OneItem DEF Text
    <3>2. QED
      BY <2>1, <3>1, TextConcat
  <2>2. CASE name \notin StringParams /\ name \in IntegerParams
    <3>1. <<Equals, value>> \in Text
      BY <2>2, Characters, TwoItems DEF Text
    <3>2. QED
      BY <2>2, <3>1
  <2>3. CASE name \notin StringParams /\ name \notin IntegerParams
    <3>1. "?0" \in Alphabet
      BY DEF Alphabet, Literals
    <3>2. <<Equals, "?0">> \in Text
      BY <3>1, Characters, TwoItems DEF Text
    <3>3. QED
      BY <2>3, <3>2, EmptyText
  <2>4. QED
    BY <2>1, <2>2, <2>3
<1> HIDE DEF front, back
<1>3. front \o back \in Text
  BY <1>1, <1>2, TextConcat
<1>4. QED
  BY <1>3 DEF front, back, WrittenParam

LEMMA OrderType == /\ DOMAIN Order = 1..9 /\ \A i \in 1..9 : Order[i] \in Alphabet /\ Order[i] \in ToSet(Order)
<1>1. DOMAIN Order = 1..9
  BY DEF Order
<1>2. QED
  BY <1>1 DEF ToSet, Alphabet, Literals

(* The values of params are such as a parameter of that name may have. *)
ParamsType(params) ==
  \A i \in DOMAIN Order :
    \A v \in params[Order[i]] :
      /\ Order[i] \in StringParams => v \in Text
      /\ Order[i] \in IntegerParams => v \in Alphabet

LEMMA SerializeType ==
  ASSUME NEW cs \in Seq(ComponentType), NEW params, ParamsType(params)
  PROVE  SerializeParamsValue(cs, params) \in Text
<1> DEFINE ids    == [i \in DOMAIN cs |-> QuotedId(cs[i])]
           list   == Joined(ids, <<Space>>)
           pieces == [i \in DOMAIN Order |-> WrittenIfAny(Order[i], params[Order[i]])]
<1>1. ids \in Seq(Text)
  <2>1. PICK n \in Nat : n = Len(cs) /\ DOMAIN cs = 1..n /\ \A i \in 1..n : cs[i] \in ComponentType
    OBVIOUS
  <2>2. \A i \in 1..n : QuotedId(cs[i]) \in Text
    BY <2>1, QuotedIdType
  <2>3. QED
    BY <2>1, <2>2
<1>2. <<Space>> \in Text /\ <<Open>> \in Text /\ <<Close>> \in Text
  BY Characters, OneItem DEF Text
<1>3. list \in Text
  <2> HIDE DEF ids
  <2>1. QED
    BY <1>1, <1>2, JoinedType
<1>4. pieces \in Seq(Seq(Alphabet))
  <2>1. ASSUME NEW i \in 1..9 PROVE WrittenIfAny(Order[i], params[Order[i]]) \in Text
    <3>1. CASE params[Order[i]] = {}
      BY <3>1, EmptyText DEF WrittenIfAny
    <3>2. CASE params[Order[i]] # {}
      <4> DEFINE v == CHOOSE v \in params[Order[i]] : TRUE
      <4>1. v \in params[Order[i]]
        BY <3>2
      <4>2. WrittenIfAny(Order[i], params[Order[i]]) = WrittenParam(Order[i], v)
        BY <3>2 DEF WrittenIfAny
      <4> HIDE DEF v
      <4>3. WrittenParam(Order[i], v) \in Text
        BY <4>1, OrderType, WrittenType DEF ParamsType
      <4>4. QED
        BY <4>2, <4>3
    <3>3. QED
      BY <3>1, <3>2
  <2>2. pieces = [i \in 1..9 |-> WrittenIfAny(Order[i], params[Order[i]])]
    BY OrderType
  <2>3. pieces \in [1..9 -> Seq(Alphabet)]
    BY <2>1, <2>2 DEF Text
  <2> HIDE DEF pieces
  <2>4. QED
    BY <2>3, AsSequence
<1>5. FlattenSeq(pieces) \in Text
  <2> HIDE DEF pieces
  <2>1. QED
    BY <1>4, FlattenSeqType DEF Text
<1> HIDE DEF list, pieces
<1>6. <<Open>> \o list \in Text
  BY <1>2, <1>3, TextConcat
<1>7. (<<Open>> \o list) \o <<Close>> \in Text
  BY <1>2, <1>6, TextConcat
<1>8. ((<<Open>> \o list) \o <<Close>>) \o FlattenSeq(pieces) \in Text
  BY <1>5, <1>7, TextConcat
<1>9. QED
  BY <1>8 DEF SerializeParamsValue, list, pieces

-----------------------------------------------------------------------------
(***************************************************************************)
(* The scanner and the readers, as functions that take a step at each      *)
(* place.                                                                  *)
(***************************************************************************)
ModesStep(t, modes, i) == Append(modes, NextMode(Last(modes), t[i]))

(* Functions that take the steps of the scanner, and of each reader, are   *)
(* what it computes.                                                       *)
LEMMA ModesRun ==
  ASSUME NEW t, NEW n \in Nat, n = Len(t), NEW S, NEW f \in [0..n -> S],
         f[0] = <<"plain">>, \A i \in 0 .. n - 1 : f[i + 1] = ModesStep(t, f[i], i + 1)
  PROVE  Modes(t) = f[n]
<1> DEFINE Body(h) == [i \in 0..n |-> IF i = 0 THEN <<"plain">> ELSE ModesStep(t, h[i - 1], i)]
           after == CHOOSE h : h = Body(h)
<1>1. f = Body(f)
  <2>1. ASSUME NEW i \in 0..n PROVE f[i] = IF i = 0 THEN <<"plain">> ELSE ModesStep(t, f[i - 1], i)
    <3>1. CASE i = 0
      BY <3>1
    <3>2. CASE i # 0
      <4>1. i - 1 \in 0 .. n - 1 /\ (i - 1) + 1 = i
        BY <3>2
      <4>2. QED
        BY <3>2, <4>1
    <3>3. QED
      BY <3>1, <3>2
  <2>2. QED
    BY <2>1
<1>2. after = Body(after)
  <2> HIDE DEF Body
  <2>1. QED
    BY <1>1
<1>3. Modes(t) = after[n]
  BY DEF Modes, Run, ModesStep
<1> HIDE DEF after
<1>4. after[0] = f[0] /\ \A i \in 0 .. n - 1 : after[i] = f[i] => after[i + 1] = f[i + 1]
  <2>1. after[0] = <<"plain">>
    BY <1>2
  <2>2. ASSUME NEW i \in 0 .. n - 1 PROVE after[i + 1] = ModesStep(t, after[i], i + 1)
    <3>1. i + 1 \in 0..n /\ i + 1 # 0 /\ (i + 1) - 1 = i
      OBVIOUS
    <3>2. QED
      BY <1>2, <3>1
  <2>3. QED
    BY <2>1, <2>2
<1>5. \A i \in 0..n : after[i] = f[i]
  <2>1. Follows(after, f, n)
    BY <1>4 DEF Follows
  <2>2. Equal(after, f, n)
    BY <2>1, Agrees
  <2>3. QED
    BY <2>2 DEF Equal
<1>6. n \in 0..n
  OBVIOUS
<1>7. QED
  BY <1>3, <1>5, <1>6

DepthsStep(t, depths, i) ==
  Append(depths,
         IF i \notin Unquoted(t) THEN Last(depths)
         ELSE IF t[i] = Open THEN Last(depths) + 1
         ELSE IF t[i] = Close /\ Last(depths) > 0 THEN Last(depths) - 1
         ELSE Last(depths))

LEMMA DepthsRun ==
  ASSUME NEW t, NEW n \in Nat, n = Len(t), NEW S, NEW f \in [0..n -> S],
         f[0] = << 0 >>, \A i \in 0 .. n - 1 : f[i + 1] = DepthsStep(t, f[i], i + 1)
  PROVE  Depths(t) = f[n]
<1> DEFINE Body(h) == [i \in 0..n |-> IF i = 0 THEN <<0>> ELSE DepthsStep(t, h[i - 1], i)]
           after == CHOOSE h : h = Body(h)
<1>1. f = Body(f)
  <2>1. ASSUME NEW i \in 0..n PROVE f[i] = IF i = 0 THEN <<0>> ELSE DepthsStep(t, f[i - 1], i)
    <3>1. CASE i = 0
      BY <3>1
    <3>2. CASE i # 0
      <4>1. i - 1 \in 0 .. n - 1 /\ (i - 1) + 1 = i
        BY <3>2
      <4>2. QED
        BY <3>2, <4>1
    <3>3. QED
      BY <3>1, <3>2
  <2>2. QED
    BY <2>1
<1>2. after = Body(after)
  <2> HIDE DEF Body
  <2>1. QED
    BY <1>1
<1>3. Depths(t) = after[n]
  BY DEF Depths, Run, DepthsStep
<1> HIDE DEF after
<1>4. after[0] = f[0] /\ \A i \in 0 .. n - 1 : after[i] = f[i] => after[i + 1] = f[i + 1]
  <2>1. after[0] = <<0>>
    BY <1>2
  <2>2. ASSUME NEW i \in 0 .. n - 1 PROVE after[i + 1] = DepthsStep(t, after[i], i + 1)
    <3>1. i + 1 \in 0..n /\ i + 1 # 0 /\ (i + 1) - 1 = i
      OBVIOUS
    <3>2. QED
      BY <1>2, <3>1
  <2>3. QED
    BY <2>1, <2>2
<1>5. \A i \in 0..n : after[i] = f[i]
  <2>1. Follows(after, f, n)
    BY <1>4 DEF Follows
  <2>2. Equal(after, f, n)
    BY <2>1, Agrees
  <2>3. QED
    BY <2>2 DEF Equal
<1>6. n \in 0..n
  OBVIOUS
<1>7. QED
  BY <1>3, <1>5, <1>6

NoText == <<<<>>>>

SplitStep(t, cuts, parts, i) ==
  IF i \in cuts THEN Append(parts, <<>>)
  ELSE [parts EXCEPT ![Len(parts)] = Append(@, t[i])]

SplitsAs(f, t, cuts, n) ==
  f[0] = NoText /\ \A i \in 0 .. n - 1 : f[i + 1] = SplitStep(t, cuts, f[i], i + 1)

LEMMA SplitRun ==
  ASSUME NEW t, NEW cuts, NEW n \in Nat, n = Len(t), NEW S, NEW f \in [0..n -> S],
         SplitsAs(f, t, cuts, n)
  PROVE  SplitAt(t, cuts) = f[n]
<1>0. f[0] = NoText /\ \A i \in 0 .. n - 1 : f[i + 1] = SplitStep(t, cuts, f[i], i + 1)
  BY DEF SplitsAs
<1> DEFINE Body(h) == [i \in 0..n |-> IF i = 0 THEN NoText ELSE SplitStep(t, cuts, h[i - 1], i)]
           after == CHOOSE h : h = Body(h)
<1>1. f = Body(f)
  <2>1. ASSUME NEW i \in 0..n PROVE f[i] = IF i = 0 THEN NoText ELSE SplitStep(t, cuts, f[i - 1], i)
    <3>1. CASE i = 0
      BY <1>0, <3>1
    <3>2. CASE i # 0
      <4>1. i - 1 \in 0 .. n - 1 /\ (i - 1) + 1 = i
        BY <3>2
      <4>2. QED
        BY <1>0, <3>2, <4>1
    <3>3. QED
      BY <3>1, <3>2
  <2>2. QED
    BY <2>1
<1>2. after = Body(after)
  <2> HIDE DEF Body
  <2>1. QED
    BY <1>1
<1>3. SplitAt(t, cuts) = after[n]
  BY DEF SplitAt, Run, NoText, SplitStep
<1> HIDE DEF after
<1>4. after[0] = f[0] /\ \A i \in 0 .. n - 1 : after[i] = f[i] => after[i + 1] = f[i + 1]
  <2>1. after[0] = NoText
    BY <1>2
  <2>2. ASSUME NEW i \in 0 .. n - 1 PROVE after[i + 1] = SplitStep(t, cuts, after[i], i + 1)
    <3>1. i + 1 \in 0..n /\ i + 1 # 0 /\ (i + 1) - 1 = i
      OBVIOUS
    <3>2. QED
      BY <1>2, <3>1
  <2>3. QED
    BY <1>0, <2>1, <2>2
<1>5. \A i \in 0..n : after[i] = f[i]
  <2>1. Follows(after, f, n)
    BY <1>4 DEF Follows
  <2>2. Equal(after, f, n)
    BY <2>1, Agrees
  <2>3. QED
    BY <2>2 DEF Equal
<1>6. n \in 0..n
  OBVIOUS
<1>7. QED
  BY <1>3, <1>5, <1>6

JoinStep(texts, separator, joined, i) ==
  IF i = 1 THEN texts[1] ELSE joined \o separator \o texts[i]

JoinsAs(f, texts, separator, n) ==
  f[0] = <<>> /\ \A i \in 0 .. n - 1 : f[i + 1] = JoinStep(texts, separator, f[i], i + 1)

LEMMA JoinedRun ==
  ASSUME NEW texts, NEW separator, NEW n \in Nat, n = Len(texts), NEW S, NEW f \in [0..n -> S],
         JoinsAs(f, texts, separator, n)
  PROVE  Joined(texts, separator) = f[n]
<1>0. f[0] = <<>> /\ \A i \in 0 .. n - 1 : f[i + 1] = JoinStep(texts, separator, f[i], i + 1)
  BY DEF JoinsAs
<1> DEFINE Body(h) == [i \in 0..n |-> IF i = 0 THEN <<>> ELSE JoinStep(texts, separator, h[i - 1], i)]
           after == CHOOSE h : h = Body(h)
<1>1. f = Body(f)
  <2>1. ASSUME NEW i \in 0..n PROVE f[i] = IF i = 0 THEN <<>> ELSE JoinStep(texts, separator, f[i - 1], i)
    <3>1. CASE i = 0
      BY <1>0, <3>1
    <3>2. CASE i # 0
      <4>1. i - 1 \in 0 .. n - 1 /\ (i - 1) + 1 = i
        BY <3>2
      <4>2. QED
        BY <1>0, <3>2, <4>1
    <3>3. QED
      BY <3>1, <3>2
  <2>2. QED
    BY <2>1
<1>2. after = Body(after)
  <2> HIDE DEF Body
  <2>1. QED
    BY <1>1
<1>3. Joined(texts, separator) = after[n]
  BY DEF Joined, Run, JoinStep
<1> HIDE DEF after
<1>4. after[0] = f[0] /\ \A i \in 0 .. n - 1 : after[i] = f[i] => after[i + 1] = f[i + 1]
  <2>1. after[0] = <<>>
    BY <1>2
  <2>2. ASSUME NEW i \in 0 .. n - 1 PROVE after[i + 1] = JoinStep(texts, separator, after[i], i + 1)
    <3>1. i + 1 \in 0..n /\ i + 1 # 0 /\ (i + 1) - 1 = i
      OBVIOUS
    <3>2. QED
      BY <1>2, <3>1
  <2>3. QED
    BY <1>0, <2>1, <2>2
<1>5. \A i \in 0..n : after[i] = f[i]
  <2>1. Follows(after, f, n)
    BY <1>4 DEF Follows
  <2>2. Equal(after, f, n)
    BY <2>1, Agrees
  <2>3. QED
    BY <2>2 DEF Equal
<1>6. n \in 0..n
  OBVIOUS
<1>7. QED
  BY <1>3, <1>5, <1>6

PickStep(items, places, picked, i) ==
  IF i \in places THEN Append(picked, items[i]) ELSE picked

PicksAs(f, items, places, n) ==
  f[0] = <<>> /\ \A i \in 0 .. n - 1 : f[i + 1] = PickStep(items, places, f[i], i + 1)

LEMMA PickedRun ==
  ASSUME NEW items, NEW places, NEW n \in Nat, n = Len(items), NEW S, NEW f \in [0..n -> S],
         PicksAs(f, items, places, n)
  PROVE  Picked(items, places) = f[n]
<1>0. f[0] = <<>> /\ \A i \in 0 .. n - 1 : f[i + 1] = PickStep(items, places, f[i], i + 1)
  BY DEF PicksAs
<1> DEFINE Body(h) == [i \in 0..n |-> IF i = 0 THEN <<>> ELSE PickStep(items, places, h[i - 1], i)]
           after == CHOOSE h : h = Body(h)
<1>1. f = Body(f)
  <2>1. ASSUME NEW i \in 0..n PROVE f[i] = IF i = 0 THEN <<>> ELSE PickStep(items, places, f[i - 1], i)
    <3>1. CASE i = 0
      BY <1>0, <3>1
    <3>2. CASE i # 0
      <4>1. i - 1 \in 0 .. n - 1 /\ (i - 1) + 1 = i
        BY <3>2
      <4>2. QED
        BY <1>0, <3>2, <4>1
    <3>3. QED
      BY <3>1, <3>2
  <2>2. QED
    BY <2>1
<1>2. after = Body(after)
  <2> HIDE DEF Body
  <2>1. QED
    BY <1>1
<1>3. Picked(items, places) = after[n]
  BY DEF Picked, Run, PickStep
<1> HIDE DEF after
<1>4. after[0] = f[0] /\ \A i \in 0 .. n - 1 : after[i] = f[i] => after[i + 1] = f[i + 1]
  <2>1. after[0] = <<>>
    BY <1>2
  <2>2. ASSUME NEW i \in 0 .. n - 1 PROVE after[i + 1] = PickStep(items, places, after[i], i + 1)
    <3>1. i + 1 \in 0..n /\ i + 1 # 0 /\ (i + 1) - 1 = i
      OBVIOUS
    <3>2. QED
      BY <1>2, <3>1
  <2>3. QED
    BY <1>0, <2>1, <2>2
<1>5. \A i \in 0..n : after[i] = f[i]
  <2>1. Follows(after, f, n)
    BY <1>4 DEF Follows
  <2>2. Equal(after, f, n)
    BY <2>1, Agrees
  <2>3. QED
    BY <2>2 DEF Equal
<1>6. n \in 0..n
  OBVIOUS
<1>7. QED
  BY <1>3, <1>5, <1>6

ReadStep(parts, read, i) == UNION {ReadParam(params, parts[i]) : params \in read}

LEMMA ReadRun ==
  ASSUME NEW t, NEW n \in Nat, n = Len(Semicolons(t)), NEW S, NEW f \in [0..n -> S],
         f[0] = {NoParams}, \A i \in 0 .. n - 1 : f[i + 1] = ReadStep(Semicolons(t), f[i], i + 1)
  PROVE  ReadParams(t) = f[n]
<1> DEFINE Body(h) == [i \in 0..n |-> IF i = 0 THEN {NoParams} ELSE ReadStep(Semicolons(t), h[i - 1], i)]
           after == CHOOSE h : h = Body(h)
<1>1. f = Body(f)
  <2>1. ASSUME NEW i \in 0..n PROVE f[i] = IF i = 0 THEN {NoParams} ELSE ReadStep(Semicolons(t), f[i - 1], i)
    <3>1. CASE i = 0
      BY <3>1
    <3>2. CASE i # 0
      <4>1. i - 1 \in 0 .. n - 1 /\ (i - 1) + 1 = i
        BY <3>2
      <4>2. QED
        BY <3>2, <4>1
    <3>3. QED
      BY <3>1, <3>2
  <2>2. QED
    BY <2>1
<1>2. after = Body(after)
  <2> HIDE DEF Body
  <2>1. QED
    BY <1>1
<1>3. ReadParams(t) = after[n]
  BY DEF ReadParams, Run, ReadStep
<1> HIDE DEF after
<1>4. after[0] = f[0] /\ \A i \in 0 .. n - 1 : after[i] = f[i] => after[i + 1] = f[i + 1]
  <2>1. after[0] = {NoParams}
    BY <1>2
  <2>2. ASSUME NEW i \in 0 .. n - 1 PROVE after[i + 1] = ReadStep(Semicolons(t), after[i], i + 1)
    <3>1. i + 1 \in 0..n /\ i + 1 # 0 /\ (i + 1) - 1 = i
      OBVIOUS
    <3>2. QED
      BY <1>2, <3>1
  <2>3. QED
    BY <2>1, <2>2
<1>5. \A i \in 0..n : after[i] = f[i]
  <2>1. Follows(after, f, n)
    BY <1>4 DEF Follows
  <2>2. Equal(after, f, n)
    BY <2>1, Agrees
  <2>3. QED
    BY <2>2 DEF Equal
<1>6. n \in 0..n
  OBVIOUS
<1>7. QED
  BY <1>3, <1>5, <1>6

(***************************************************************************)
(* The scanner, along a text.                                              *)
(***************************************************************************)
ModeSet == {"plain", "quoted", "escaped"}

(* What the scanner goes through along a text, and where it is at its end. *)
Scans(modes, t) == \A i \in 1..Len(t) : modes[i + 1] = NextMode(modes[i], t[i])

LEMMA NextModeType == ASSUME NEW mode \in ModeSet, NEW c PROVE NextMode(mode, c) \in ModeSet
BY DEF ModeSet, NextMode

(* The modes before each character and behind the last. *)
LEMMA ModesAre ==
  ASSUME NEW t \in Text
  PROVE  /\ Modes(t) \in Seq(ModeSet) /\ Len(Modes(t)) = Len(t) + 1
         /\ Modes(t)[1] = "plain" /\ Scans(Modes(t), t)
<1>1. PICK n \in Nat : n = Len(t)
  BY DEF Text
<1>2. PICK g \in [0..n -> ModeSet] :
        g[0] = "plain" /\ \A i \in 0 .. n - 1 : g[i + 1] = NextMode(g[i], t[i + 1])
  <2> DEFINE step == [i \in 0 .. n - 1 |-> [mode \in ModeSet |-> NextMode(mode, t[i + 1])]]
  <2>1. step \in [0 .. n - 1 -> [ModeSet -> ModeSet]]
    BY NextModeType
  <2>2. "plain" \in ModeSet
    BY DEF ModeSet
  <2>3. PICK g \in [0..n -> ModeSet] : Steps(g, "plain", step, n)
    <3> HIDE DEF step
    <3>1. QED
      BY <2>1, <2>2, Iterated
  <2>4. ASSUME NEW i \in 0 .. n - 1 PROVE step[i][g[i]] = NextMode(g[i], t[i + 1])
    <3>1. g[i] \in ModeSet
      OBVIOUS
    <3>2. QED
      BY <3>1
  <2> HIDE DEF step
  <2>5. QED
    BY <2>3, <2>4 DEF Steps
<1> DEFINE f == [i \in 0..n |-> [j \in 1 .. i + 1 |-> g[j - 1]]]
<1>3. ASSUME NEW i \in 0..n
      PROVE  /\ f[i] \in Seq(ModeSet) /\ Len(f[i]) = i + 1
             /\ \A j \in 1 .. i + 1 : f[i][j] = g[j - 1]
  <2>1. \A j \in 1 .. i + 1 : g[j - 1] \in ModeSet
    OBVIOUS
  <2>2. f[i] \in [1 .. i + 1 -> ModeSet] /\ i + 1 \in Nat
    BY <2>1
  <2>3. \A j \in 1 .. i + 1 : f[i][j] = g[j - 1]
    OBVIOUS
  <2> HIDE DEF f
  <2>4. QED
    BY <2>2, <2>3, AsSequence
<1>4. f \in [0..n -> Seq(ModeSet)]
  <2>1. f = [i \in 0..n |-> f[i]]
    OBVIOUS
  <2> HIDE DEF f
  <2>2. QED
    BY <1>3, <2>1
<1>5. f[0] = <<"plain">>
  <2>1. f[0] \in Seq(ModeSet) /\ Len(f[0]) = 1 /\ f[0][1] = "plain"
    BY <1>2, <1>3
  <2> HIDE DEF f
  <2>2. <<"plain">> \in Seq(ModeSet) /\ Len(<<"plain">>) = 1 /\ <<"plain">>[1] = "plain"
    BY DEF ModeSet
  <2>3. QED
    BY <2>1, <2>2, SameItems
<1> HIDE DEF f
<1>6. ASSUME NEW i \in 0 .. n - 1 PROVE f[i + 1] = ModesStep(t, f[i], i + 1)
  <2>1. /\ f[i] \in Seq(ModeSet) /\ Len(f[i]) = i + 1
        /\ f[i + 1] \in Seq(ModeSet) /\ Len(f[i + 1]) = i + 2
        /\ \A j \in 1 .. i + 1 : f[i][j] = g[j - 1] /\ f[i + 1][j] = g[j - 1]
        /\ f[i + 1][i + 2] = g[i + 1]
    <3>1. i \in 0..n /\ i + 1 \in 0..n /\ (i + 1) + 1 = i + 2 /\ (i + 2) - 1 = i + 1
      OBVIOUS
    <3>2. i + 2 \in 1 .. (i + 1) + 1 /\ \A j \in 1 .. i + 1 : j \in 1 .. (i + 1) + 1
      OBVIOUS
    <3>3. QED
      BY <1>3, <3>1, <3>2
  <2>2. PICK s \in Seq(ModeSet), r \in Seq(ModeSet) : s = f[i] /\ r = f[i + 1]
    BY <2>1
  <2>3. Last(s) = g[i]
    <3>1. Last(s) = s[i + 1] /\ i + 1 \in 1 .. i + 1
      BY <2>1, <2>2 DEF Last
    <3>2. QED
      BY <2>1, <2>2, <3>1
  <2>4. PICK x \in ModeSet : x = NextMode(g[i], t[i + 1]) /\ x = g[i + 1]
    <3>1. g[i + 1] \in ModeSet
      OBVIOUS
    <3>2. QED
      BY <1>2, <3>1
  <2>5. r = Append(s, x)
    <3>1. Append(s, x) \in Seq(ModeSet) /\ Len(Append(s, x)) = i + 2
      BY <2>1, <2>2
    <3>2. ASSUME NEW j \in 1 .. i + 2 PROVE r[j] = Append(s, x)[j]
      <4>1. CASE j \in 1 .. i + 1
        BY <2>1, <2>2, <4>1
      <4>2. CASE j = i + 2
        BY <2>1, <2>2, <2>4, <4>2
      <4>3. QED
        BY <4>1, <4>2
    <3>3. QED
      BY <2>1, <2>2, <3>1, <3>2, SameItems
  <2>6. QED
    BY <2>2, <2>3, <2>4, <2>5 DEF ModesStep
<1>7. Modes(t) = f[n]
  BY <1>1, <1>4, <1>5, <1>6, ModesRun, SMTT(30), ZenonT(60)
<1>8. f[n] \in Seq(ModeSet) /\ Len(f[n]) = n + 1 /\ \A j \in 1 .. n + 1 : f[n][j] = g[j - 1]
  BY <1>3
<1>9. ASSUME NEW i \in 1..n PROVE f[n][i + 1] = NextMode(f[n][i], t[i])
  <2>1. i - 1 \in 0 .. n - 1 /\ (i - 1) + 1 = i /\ (i + 1) - 1 = i
    OBVIOUS
  <2>2. f[n][i] = g[i - 1] /\ f[n][i + 1] = g[i]
    BY <1>8, <2>1
  <2>3. QED
    BY <1>2, <2>1, <2>2
<1>10. f[n][1] = "plain"
  BY <1>2, <1>8
<1>11. QED
  BY <1>1, <1>7, <1>8, <1>9, <1>10 DEF Scans

(* The scanner is deterministic: it goes through the same modes wherever   *)
(* it finds the same text and is in the same mode in front of it.          *)
GoesAlike(m, a, b, d) ==
  a[1] = b[d + 1] /\ \A i \in 1..m : a[i] = b[d + i] => a[i + 1] = b[d + (i + 1)]

Alike(m, a, b, d) == \A i \in 1 .. m + 1 : a[i] = b[d + i]

LEMMA SameScan ==
  ASSUME NEW m \in Nat, NEW a, NEW b, NEW d \in Nat, GoesAlike(m, a, b, d)
  PROVE  Alike(m, a, b, d)
<1>0. a[1] = b[d + 1] /\ \A i \in 1..m : a[i] = b[d + i] => a[i + 1] = b[d + (i + 1)]
  BY DEF GoesAlike
<1> DEFINE D == {i \in 0..m : a[i + 1] = b[d + (i + 1)]}
<1>1. 0 \in D
  BY <1>0
<1>2. ASSUME NEW i \in 0 .. m - 1 PROVE i \in D => i + 1 \in D
  <2>1. i + 1 \in 1..m /\ i + 1 \in 0..m
    OBVIOUS
  <2>2. QED
    BY <1>0, <2>1
<1>3. \A i \in 0..m : i \in D
  <2> HIDE DEF D
  <2>1. QED
    BY <1>1, <1>2, InductionTo
<1>4. ASSUME NEW i \in 1 .. m + 1 PROVE a[i] = b[d + i]
  <2>1. i - 1 \in 0..m /\ (i - 1) + 1 = i
    OBVIOUS
  <2>2. QED
    BY <1>3, <2>1
<1>5. QED
  BY <1>4 DEF Alike

(***************************************************************************)
(* Texts that follow one another: the scanner is where it was, if the      *)
(* first leaves no string open.                                            *)
(***************************************************************************)
(* In front of what follows the text there is no string left open. *)
Balanced(t) == Modes(t)[Len(t) + 1] = "plain"

(* In front of a text the scanner goes through what it would without it;   *)
(* and behind one that leaves no string open, too.                         *)
LEMMA ScanOn ==
  ASSUME NEW t \in Text, NEW u \in Text
  PROVE  /\ \A i \in 1 .. Len(t) + 1 : Modes(t \o u)[i] = Modes(t)[i]
         /\ Balanced(t) => \A i \in 1 .. Len(u) + 1 : Modes(t \o u)[Len(t) + i] = Modes(u)[i]
<1>1. PICK n \in Nat, k \in Nat : n = Len(t) /\ k = Len(u)
  BY DEF Text
<1>2. PICK w \in Text : w = t \o u
  BY TextConcat
<1>3. /\ Len(w) = n + k /\ \A i \in 1..n : w[i] = t[i]
      /\ \A i \in 1..k : w[n + i] = u[i]
  BY <1>1, <1>2, TextConcat
<1>4. PICK a, b, c : a = Modes(t) /\ b = Modes(u) /\ c = Modes(w)
  OBVIOUS
<1>5. /\ a[1] = "plain" /\ b[1] = "plain" /\ c[1] = "plain"
      /\ \A i \in 1..n : a[i + 1] = NextMode(a[i], t[i])
      /\ \A i \in 1..k : b[i + 1] = NextMode(b[i], u[i])
      /\ \A i \in 1 .. n + k : c[i + 1] = NextMode(c[i], w[i])
  BY <1>1, <1>3, <1>4, ModesAre DEF Scans
<1>6. \A i \in 1 .. n + 1 : a[i] = c[0 + i]
  <2>1. \A i \in 1..n : a[i] = c[0 + i] => a[i + 1] = c[0 + (i + 1)]
    <3>1. ASSUME NEW i \in 1..n, a[i] = c[0 + i] PROVE a[i + 1] = c[0 + (i + 1)]
      <4>1. i \in 1 .. n + k /\ 0 + i = i /\ 0 + (i + 1) = i + 1
        OBVIOUS
      <4>2. QED
        BY <1>3, <1>5, <3>1, <4>1
    <3>2. QED
      BY <3>1
  <2>2. a[1] = c[0 + 1]
    BY <1>5
  <2>3. GoesAlike(n, a, c, 0)
    BY <2>1, <2>2 DEF GoesAlike
  <2>4. Alike(n, a, c, 0)
    BY <2>3, SameScan
  <2>5. QED
    BY <2>4 DEF Alike
<1>7. ASSUME a[n + 1] = "plain" PROVE \A i \in 1 .. k + 1 : b[i] = c[n + i]
  <2>1. \A i \in 1..k : b[i] = c[n + i] => b[i + 1] = c[n + (i + 1)]
    <3>1. ASSUME NEW i \in 1..k, b[i] = c[n + i] PROVE b[i + 1] = c[n + (i + 1)]
      <4>1. n + i \in 1 .. n + k /\ n + (i + 1) = (n + i) + 1
        OBVIOUS
      <4>2. QED
        BY <1>3, <1>5, <3>1, <4>1
    <3>2. QED
      BY <3>1
  <2>2. b[1] = c[n + 1]
    <3>1. n + 1 \in 1 .. n + 1 /\ 0 + (n + 1) = n + 1
      OBVIOUS
    <3>2. QED
      BY <1>5, <1>6, <1>7, <3>1
  <2>3. GoesAlike(k, b, c, n)
    BY <2>1, <2>2 DEF GoesAlike
  <2>4. Alike(k, b, c, n)
    BY <2>3, SameScan
  <2>5. QED
    BY <2>4 DEF Alike
<1>8. \A i \in 1 .. n + 1 : c[i] = a[i]
  BY <1>6
<1>9. QED
  BY <1>1, <1>2, <1>4, <1>7, <1>8 DEF Balanced

(* Where a text is outside of strings. *)
LEMMA UnquotedIs ==
  ASSUME NEW t \in Text
  PROVE  /\ Unquoted(t) \in SUBSET (1..Len(t))
         /\ \A i \in 1..Len(t) : i \in Unquoted(t) <=> Modes(t)[i] = "plain" /\ t[i] # DQuote
<1>1. DOMAIN t = 1..Len(t)
  BY DEF Text
<1>2. QED
  BY <1>1 DEF Unquoted

(* And where two are that follow one another. *)
LEMMA UnquotedOn ==
  ASSUME NEW t \in Text, NEW u \in Text
  PROVE  /\ \A i \in 1..Len(t) : i \in Unquoted(t \o u) <=> i \in Unquoted(t)
         /\ Balanced(t) => \A i \in 1..Len(u) : Len(t) + i \in Unquoted(t \o u) <=> i \in Unquoted(u)
         /\ Balanced(t) /\ Balanced(u) => Balanced(t \o u)
<1>1. PICK n \in Nat, k \in Nat : n = Len(t) /\ k = Len(u)
  BY DEF Text
<1>2. PICK w \in Text : w = t \o u
  BY TextConcat
<1>3. /\ Len(w) = n + k /\ \A i \in 1..n : w[i] = t[i]
      /\ \A i \in 1..k : w[n + i] = u[i]
  BY <1>1, <1>2, TextConcat
<1>4. /\ \A i \in 1 .. n + 1 : Modes(w)[i] = Modes(t)[i]
      /\ Balanced(t) => \A i \in 1 .. k + 1 : Modes(w)[n + i] = Modes(u)[i]
  BY <1>1, <1>2, ScanOn
<1>5. ASSUME NEW i \in 1..n PROVE i \in Unquoted(w) <=> i \in Unquoted(t)
  <2>1. i \in 1 .. n + 1 /\ i \in 1 .. n + k
    OBVIOUS
  <2>2. Modes(w)[i] = Modes(t)[i] /\ w[i] = t[i]
    BY <1>3, <1>4, <2>1
  <2>3. QED
    BY <1>1, <1>3, <2>1, <2>2, UnquotedIs, SMTT(30), ZenonT(60)
<1>6. ASSUME Balanced(t), NEW i \in 1..k PROVE n + i \in Unquoted(w) <=> i \in Unquoted(u)
  <2>1. i \in 1 .. k + 1 /\ n + i \in 1 .. n + k
    OBVIOUS
  <2>2. Modes(w)[n + i] = Modes(u)[i] /\ w[n + i] = u[i]
    BY <1>3, <1>4, <1>6, <2>1
  <2>3. QED
    BY <1>1, <1>3, <2>1, <2>2, UnquotedIs, SMTT(30), ZenonT(60)
<1>7. ASSUME Balanced(t), Balanced(u) PROVE Balanced(w)
  <2>1. k + 1 \in 1 .. k + 1 /\ n + (k + 1) = (n + k) + 1
    OBVIOUS
  <2>2. Modes(w)[n + (k + 1)] = Modes(u)[k + 1]
    BY <1>4, <1>7, <2>1
  <2>3. QED
    BY <1>1, <1>3, <1>7, <2>1, <2>2 DEF Balanced
<1>8. QED
  BY <1>1, <1>2, <1>5, <1>6, <1>7

(* A text with whole strings in it, and outside of them nothing but T. *)
Tidy(t, T) == t \in Text /\ Balanced(t) /\ \A i \in Unquoted(t) : t[i] \in T

LEMMA TidyMore == ASSUME NEW T, NEW U, T \subseteq U, NEW t, Tidy(t, T) PROVE Tidy(t, U)
BY DEF Tidy

(* What stands outside of strings in two texts stands so in one of them. *)
LEMMA TidyOn ==
  ASSUME NEW T, NEW t, Tidy(t, T), NEW u, Tidy(u, T)
  PROVE  Tidy(t \o u, T)
<1>1. t \in Text /\ u \in Text /\ Balanced(t) /\ Balanced(u)
  BY DEF Tidy
<1>2. PICK n \in Nat, k \in Nat : n = Len(t) /\ k = Len(u)
  BY <1>1 DEF Text
<1>3. PICK w \in Text : w = t \o u
  BY <1>1, TextConcat
<1>4. /\ Len(w) = n + k /\ \A i \in 1..n : w[i] = t[i]
      /\ \A i \in 1..k : w[n + i] = u[i]
  BY <1>1, <1>2, <1>3, TextConcat
<1>5. /\ \A i \in 1..n : i \in Unquoted(w) <=> i \in Unquoted(t)
      /\ \A i \in 1..k : n + i \in Unquoted(w) <=> i \in Unquoted(u)
      /\ Balanced(w)
  BY <1>1, <1>2, <1>3, UnquotedOn
<1>6. ASSUME NEW i \in Unquoted(w) PROVE w[i] \in T
  <2>1. i \in 1 .. n + k
    BY <1>4, UnquotedIs
  <2>2. CASE i \in 1..n
    BY <1>4, <1>5, <2>2 DEF Tidy
  <2>3. CASE i \notin 1..n
    <3>1. PICK j \in 1..k : i = n + j
      <4>1. i - n \in 1..k /\ i = n + (i - n)
        BY <2>1, <2>3
      <4>2. QED
        BY <4>1
    <3>2. QED
      BY <1>4, <1>5, <3>1 DEF Tidy
  <2>4. QED
    BY <2>2, <2>3
<1>7. QED
  BY <1>3, <1>5, <1>6 DEF Tidy

(* A text without a quote is all outside of strings. *)
LEMMA TidyWord ==
  ASSUME NEW T, NEW t \in Text, \A i \in 1..Len(t) : t[i] \in T, DQuote \notin T
  PROVE  Tidy(t, T) /\ Unquoted(t) = 1..Len(t)
<1>1. PICK n \in Nat : n = Len(t)
  BY DEF Text
<1>2. \A i \in 1..n : t[i] # DQuote
  BY <1>1
<1> DEFINE m == Modes(t)
<1>3. m[1] = "plain" /\ \A i \in 1..n : m[i + 1] = NextMode(m[i], t[i])
  BY <1>1, ModesAre DEF Scans
<1> HIDE DEF m
<1> DEFINE D == {i \in 0..n : m[i + 1] = "plain"}
<1>4. 0 \in D
  BY <1>3
<1>5. ASSUME NEW i \in 0 .. n - 1 PROVE i \in D => i + 1 \in D
  <2>1. i + 1 \in 1..n /\ i + 1 \in 0..n
    OBVIOUS
  <2>2. i \in D => m[(i + 1) + 1] = "plain"
    BY <1>2, <1>3, <2>1 DEF NextMode
  <2>3. QED
    BY <2>1, <2>2
<1>6. \A i \in 0..n : i \in D
  <2> HIDE DEF D
  <2>1. QED
    BY <1>4, <1>5, InductionTo
<1>7. Balanced(t)
  BY <1>1, <1>6 DEF Balanced, m
<1>8. ASSUME NEW i \in 1..n PROVE i \in Unquoted(t)
  <2>1. i - 1 \in 0..n /\ (i - 1) + 1 = i
    OBVIOUS
  <2>2. m[i] = "plain"
    BY <1>6, <2>1
  <2>3. QED
    BY <1>1, <1>2, <2>2, UnquotedIs DEF m
<1>9. Unquoted(t) = 1..Len(t)
  BY <1>1, <1>8, UnquotedIs
<1>10. QED
  BY <1>7, <1>9 DEF Tidy

(***************************************************************************)
(* Strings, written and read.                                              *)
(***************************************************************************)
Special == {Backslash, DQuote}

(* Where each character of a value, or its backslash, stands in a string: *)
(* behind at[i] other tokens.                                              *)
WrittenAt(q, v, at) ==
  /\ at \in [0..Len(v) -> Nat] /\ at[0] = 1
  /\ q[1] = DQuote /\ Len(q) = at[Len(v)] + 1 /\ q[at[Len(v)] + 1] = DQuote
  /\ \A i \in 0 .. Len(v) - 1 :
       /\ at[i + 1] = at[i] + (IF v[i + 1] \in Special THEN 2 ELSE 1)
       /\ v[i + 1] \in Special => q[at[i] + 1] = Backslash /\ q[at[i] + 2] = v[i + 1]
       /\ v[i + 1] \notin Special => q[at[i] + 1] = v[i + 1]

LEMMA EscapedIs ==
  ASSUME NEW c \in Alphabet
  PROVE  /\ Escaped(c) \in Text
         /\ Len(Escaped(c)) = IF c \in Special THEN 2 ELSE 1
         /\ c \in Special => Escaped(c)[1] = Backslash /\ Escaped(c)[2] = c
         /\ c \notin Special => Escaped(c)[1] = c
BY EscapedType DEF Escaped, Special

(* A string has its characters in order, each behind a backslash where it  *)
(* needs one.                                                              *)
LEMMA SfStringIs ==
  ASSUME NEW v \in Text
  PROVE  \E at : WrittenAt(SfString(v), v, at)
<1>1. PICK n \in Nat : n = Len(v) /\ DOMAIN v = 1..n /\ \A i \in 1..n : v[i] \in Alphabet
  BY DEF Text
<1> DEFINE parts == [i \in 1..n |-> Escaped(v[i])]
<1>2. parts \in [1..n -> Text] /\ \A i \in 1..n : parts[i] = Escaped(v[i])
  BY <1>1, EscapedIs
<1>3. parts = [i \in DOMAIN v |-> Escaped(v[i])]
  BY <1>1
<1> HIDE DEF parts
<1>4. parts \in Seq(Seq(Alphabet)) /\ Len(parts) = n
  BY <1>2, AsSequence DEF Text
<1>5. PICK f \in [0..n -> Seq(Alphabet)] : Accumulates(f, parts, n) /\ FlattenSeq(parts) = f[n]
  BY <1>4, Flattened
<1>6. PartsStand(f, parts, n)
  BY <1>2, <1>5, FlattenedParts DEF Text
<1>7. PICK body \in Text : body = f[n] /\ body = FlattenSeq(parts)
  <2>1. f[n] \in Seq(Alphabet)
    BY <1>5
  <2>2. QED
    BY <1>5, <2>1 DEF Text
<1>8. PICK m \in Nat : m = Len(body)
  BY DEF Text
<1>9. PICK q \in Text : /\ q = SfString(v) /\ Len(q) = m + 2 /\ q[1] = DQuote
                        /\ \A i \in 1..m : q[i + 1] = body[i]
                        /\ q[m + 2] = DQuote
  <2>1. PICK front \in Text : front = <<DQuote>> \o body
    BY Quote, TextConcat
  <2>2. /\ Len(front) = m + 1 /\ front[1] = DQuote
        /\ \A i \in 1..m : front[1 + i] = body[i]
    <3>1. Len(<<DQuote>>) = 1 /\ <<DQuote>>[1] = DQuote /\ 1 \in 1..1
      OBVIOUS
    <3>2. QED
      BY <1>8, <2>1, <3>1, Quote, TextConcat
  <2>3. PICK q \in Text : q = front \o <<DQuote>>
    BY Quote, TextConcat
  <2>4. /\ Len(q) = m + 2 /\ \A i \in 1 .. m + 1 : q[i] = front[i]
        /\ q[(m + 1) + 1] = DQuote
    <3>1. Len(<<DQuote>>) = 1 /\ <<DQuote>>[1] = DQuote /\ 1 \in 1..1
      OBVIOUS
    <3>2. QED
      BY <2>2, <2>3, <3>1, Quote, TextConcat
  <2>5. ASSUME NEW i \in 1..m PROVE q[i + 1] = body[i]
    <3>1. i + 1 \in 1 .. m + 1 /\ i + 1 = 1 + i
      OBVIOUS
    <3>2. QED
      BY <2>2, <2>4, <3>1
  <2>6. q = SfString(v)
    BY <1>3, <1>7, <2>1, <2>3 DEF SfString
  <2>7. (m + 1) + 1 = m + 2 /\ 1 \in 1 .. m + 1
    OBVIOUS
  <2>8. QED
    BY <2>2, <2>4, <2>5, <2>6, <2>7
<1> DEFINE at == [i \in 0..n |-> Len(f[i]) + 1]
<1>10. \A i \in 0..n : Len(f[i]) \in Nat
  OBVIOUS
<1>11. at \in [0..n -> Nat] /\ \A i \in 0..n : at[i] = Len(f[i]) + 1
  BY <1>10
<1> HIDE DEF at
<1>12. at[0] = 1
  BY <1>5, <1>11 DEF Accumulates
<1>13. at[n] = m + 1
  <2>1. n \in 0..n
    OBVIOUS
  <2>2. QED
    BY <1>7, <1>8, <1>11, <2>1
<1>14. ASSUME NEW i \in 0 .. n - 1
       PROVE  /\ at[i + 1] = at[i] + (IF v[i + 1] \in Special THEN 2 ELSE 1)
              /\ v[i + 1] \in Special => q[at[i] + 1] = Backslash /\ q[at[i] + 2] = v[i + 1]
              /\ v[i + 1] \notin Special => q[at[i] + 1] = v[i + 1]
  <2>1. i \in 0..n /\ i + 1 \in 0..n /\ i + 1 \in 1..n
    OBVIOUS
  <2>2. PICK a \in Nat, b \in Nat : a = Len(f[i]) /\ b = Len(f[i + 1])
    BY <1>10, <2>1
  <2>3. PICK c \in Alphabet : c = v[i + 1] /\ parts[i + 1] = Escaped(c)
    BY <1>1, <1>2, <2>1
  <2>4. /\ b = a + Len(Escaped(c)) /\ b <= m
        /\ \A j \in 1..Len(Escaped(c)) : body[a + j] = Escaped(c)[j]
    BY <1>6, <1>7, <1>8, <2>2, <2>3 DEF PartsStand
  <2>5. at[i] = a + 1 /\ at[i + 1] = b + 1
    BY <1>11, <2>1, <2>2
  <2>6. CASE c \in Special
    <3>1. b = a + 2 /\ body[a + 1] = Backslash /\ body[a + 2] = c
      <4>1. Len(Escaped(c)) = 2 /\ Escaped(c)[1] = Backslash /\ Escaped(c)[2] = c
        BY <2>6, EscapedIs
      <4>2. QED
        BY <2>4, <4>1
    <3>2. a + 1 \in 1..m /\ a + 2 \in 1..m /\ (a + 1) + 1 = a + 2 /\ (a + 2) + 1 = (a + 1) + 2
      BY <2>4, <3>1
    <3>3. q[a + 2] = Backslash /\ q[(a + 1) + 2] = c
      BY <1>9, <3>1, <3>2
    <3>4. QED
      BY <2>3, <2>5, <2>6, <3>1, <3>2, <3>3
  <2>7. CASE c \notin Special
    <3>1. b = a + 1 /\ body[a + 1] = c
      <4>1. Len(Escaped(c)) = 1 /\ Escaped(c)[1] = c
        BY <2>7, EscapedIs
      <4>2. QED
        BY <2>4, <4>1
    <3>2. a + 1 \in 1..m
      BY <2>4, <3>1
    <3>3. q[(a + 1) + 1] = c
      BY <1>9, <3>1, <3>2
    <3>4. QED
      BY <2>3, <2>5, <2>7, <3>1, <3>3
  <2>8. QED
    BY <2>6, <2>7
<1>15. WrittenAt(q, v, at)
  <2>1. Len(q) = at[n] + 1 /\ q[at[n] + 1] = DQuote
    BY <1>9, <1>13
  <2>2. QED
    BY <1>1, <1>9, <1>11, <1>12, <1>14, <2>1 DEF WrittenAt
<1>16. QED
  BY <1>9, <1>15

(* A string is whole, and all of it is inside. *)
LEMMA SfStringTidy ==
  ASSUME NEW v \in Text
  PROVE  Tidy(SfString(v), {}) /\ Unquoted(SfString(v)) = {}
<1>1. PICK q \in Text : q = SfString(v)
  BY SfStringType
<1>2. PICK at : WrittenAt(q, v, at)
  BY <1>1, SfStringIs
<1>3. PICK n \in Nat : n = Len(v)
  BY DEF Text
<1>4. /\ at \in [0..n -> Nat] /\ at[0] = 1
      /\ q[1] = DQuote /\ Len(q) = at[n] + 1 /\ q[at[n] + 1] = DQuote
      /\ \A i \in 0 .. n - 1 :
           /\ at[i + 1] = at[i] + (IF v[i + 1] \in Special THEN 2 ELSE 1)
           /\ v[i + 1] \in Special => q[at[i] + 1] = Backslash /\ q[at[i] + 2] = v[i + 1]
           /\ v[i + 1] \notin Special => q[at[i] + 1] = v[i + 1]
  BY <1>2, <1>3 DEF WrittenAt
<1>5. PICK m : m = Modes(q)
  OBVIOUS
<1>6. m[1] = "plain" /\ \A i \in 1..Len(q) : m[i + 1] = NextMode(m[i], q[i])
  BY <1>5, ModesAre DEF Scans
<1> DEFINE Inside(k) == m[k + 1] = "quoted" /\ \A j \in 2 .. k + 1 : m[j] # "plain"
           D == {i \in 0..n : at[i] <= at[n] => Inside(at[i])}
<1>6a. \A i \in 0..n : at[i] \in Nat
  BY <1>4
<1>7. 0 \in D
  <2>1. 1 \in 1..Len(q)
    BY <1>4, <1>6a
  <2>2. m[2] = "quoted"
    BY <1>4, <1>6, <2>1 DEF NextMode
  <2>3. Inside(1)
    BY <2>2
  <2>4. QED
    BY <1>4, <2>3
<1>8. ASSUME NEW i \in 0 .. n - 1 PROVE i \in D => i + 1 \in D
  <2> SUFFICES ASSUME i \in D, at[i + 1] <= at[n] PROVE Inside(at[i + 1])
    OBVIOUS
  <2>0. PICK c : c = v[i + 1]
    OBVIOUS
  <2>1. PICK a \in Nat, b \in Nat : a = at[i] /\ b = at[i + 1] /\ c = v[i + 1]
    BY <2>0, <1>6a
  <2>2. PICK l \in Nat : l = at[n] /\ Len(q) = l + 1
    BY <1>4, <1>6a
  <2>3. /\ b = a + (IF c \in Special THEN 2 ELSE 1) /\ b <= l
        /\ c \in Special => q[a + 1] = Backslash /\ q[a + 2] = c
        /\ c \notin Special => q[a + 1] = c
    BY <1>4, <2>1, <2>2
  <2>4. Inside(a)
    BY <2>1, <2>2, <2>3
  <2>5. m[a + 1] = "quoted" /\ \A j \in 2 .. a + 1 : m[j] # "plain"
    BY <2>4
  <2>6. CASE c \in Special
    <3>1. a + 1 \in 1..Len(q) /\ a + 2 \in 1..Len(q) /\ (a + 1) + 1 = a + 2 /\ (a + 2) + 1 = a + 3
      BY <2>2, <2>3, <2>6
    <3>2. m[a + 2] = "escaped"
      BY <1>6, <2>3, <2>5, <2>6, <3>1 DEF NextMode
    <3>3. m[a + 3] = "quoted"
      BY <1>6, <3>1, <3>2 DEF NextMode
    <3>4. \A j \in 2 .. a + 3 : m[j] # "plain"
      BY <2>5, <3>2, <3>3
    <3>5. b + 1 = a + 3
      BY <2>3, <2>6
    <3>6. Inside(b)
      BY <3>3, <3>4, <3>5
    <3>7. QED
      BY <2>1, <3>6
  <2>7. CASE c \notin Special
    <3>1. a + 1 \in 1..Len(q) /\ (a + 1) + 1 = a + 2
      BY <2>2, <2>3, <2>7
    <3>2. m[a + 2] = "quoted"
      <4>1. q[a + 1] # Backslash /\ q[a + 1] # DQuote
        BY <2>3, <2>7 DEF Special
      <4>2. QED
        BY <1>6, <2>5, <3>1, <4>1 DEF NextMode
    <3>3. \A j \in 2 .. a + 2 : m[j] # "plain"
      BY <2>5, <3>2
    <3>4. b + 1 = a + 2
      BY <2>3, <2>7
    <3>5. Inside(b)
      BY <3>2, <3>3, <3>4
    <3>6. QED
      BY <2>1, <3>5
  <2>8. QED
    BY <2>6, <2>7
<1>9. n \in D
  <2> HIDE DEF D
  <2>1. QED
    BY <1>7, <1>8, InductionTo
<1>10. PICK l \in Nat : l = at[n] /\ Len(q) = l + 1
  BY <1>4, <1>6a
<1>11. m[l + 1] = "quoted" /\ \A j \in 2 .. l + 1 : m[j] # "plain"
  BY <1>9, <1>10
<1>12. Balanced(q)
  <2>1. l + 1 \in 1..Len(q)
    BY <1>10
  <2>2. m[(l + 1) + 1] = NextMode(m[l + 1], q[l + 1])
    BY <1>6, <2>1
  <2>2a. q[l + 1] = DQuote
    BY <1>4, <1>10
  <2>2b. m[(l + 1) + 1] = "plain"
    BY <1>11, <2>2, <2>2a DEF NextMode, DQuote, Backslash
  <2>3. QED
    BY <1>5, <1>10, <2>2b DEF Balanced
<1>13. ASSUME NEW i \in 1..Len(q) PROVE i \notin Unquoted(q)
  <2>1. CASE i = 1
    BY <1>4, <2>1, UnquotedIs
  <2>2. CASE i # 1
    <3>1. i \in 2 .. l + 1
      BY <1>10, <2>2
    <3>2. QED
      BY <1>5, <1>11, <3>1, UnquotedIs
  <2>3. QED
    BY <2>1, <2>2
<1>14. Unquoted(q) = {}
  BY <1>13, UnquotedIs
<1>15. QED
  BY <1>1, <1>12, <1>14 DEF Tidy
Fresh == [out |-> <<>>, pending |-> FALSE, ok |-> TRUE]

UnescapeStep(inner, r, i) ==
  IF r.pending THEN [r EXCEPT !.pending = FALSE, !.out = Append(@, inner[i]),
                              !.ok = @ /\ inner[i] \in {Backslash, DQuote}]
  ELSE IF inner[i] = Backslash THEN [r EXCEPT !.pending = TRUE]
  ELSE [r EXCEPT !.out = Append(@, inner[i])]

Unescaped(inner) ==
  Run(LAMBDA r, i : UnescapeStep(inner, r, i),
      [out |-> <<>>, pending |-> FALSE, ok |-> TRUE], Len(inner))

LEMMA UnescapeRun ==
  ASSUME NEW inner, NEW n \in Nat, n = Len(inner), NEW S, NEW f \in [0..n -> S],
         f[0] = Fresh, \A i \in 0 .. n - 1 : f[i + 1] = UnescapeStep(inner, f[i], i + 1)
  PROVE  Unescaped(inner) = f[n]
<1> DEFINE Body(h) == [i \in 0..n |-> IF i = 0 THEN Fresh ELSE UnescapeStep(inner, h[i - 1], i)]
           after == CHOOSE h : h = Body(h)
<1>1. f = Body(f)
  <2>1. ASSUME NEW i \in 0..n PROVE f[i] = IF i = 0 THEN Fresh ELSE UnescapeStep(inner, f[i - 1], i)
    <3>1. CASE i = 0
      BY <3>1
    <3>2. CASE i # 0
      <4>1. i - 1 \in 0 .. n - 1 /\ (i - 1) + 1 = i
        BY <3>2
      <4>2. QED
        BY <3>2, <4>1
    <3>3. QED
      BY <3>1, <3>2
  <2>2. QED
    BY <2>1
<1>2. after = Body(after)
  <2> HIDE DEF Body
  <2>1. QED
    BY <1>1
<1>3. Unescaped(inner) = after[n]
  BY DEF Unescaped, Run, Fresh
<1> HIDE DEF after
<1>4. after[0] = f[0] /\ \A i \in 0 .. n - 1 : after[i] = f[i] => after[i + 1] = f[i + 1]
  <2>1. after[0] = Fresh
    BY <1>2
  <2>2. ASSUME NEW i \in 0 .. n - 1 PROVE after[i + 1] = UnescapeStep(inner, after[i], i + 1)
    <3>1. i + 1 \in 0..n /\ i + 1 # 0 /\ (i + 1) - 1 = i
      OBVIOUS
    <3>2. QED
      BY <1>2, <3>1
  <2>3. QED
    BY <2>1, <2>2
<1>5. \A i \in 0..n : after[i] = f[i]
  <2>1. Follows(after, f, n)
    BY <1>4 DEF Follows
  <2>2. Equal(after, f, n)
    BY <2>1, Agrees
  <2>3. QED
    BY <2>2 DEF Equal
<1>6. n \in 0..n
  OBVIOUS
<1>7. QED
  BY <1>3, <1>5, <1>6


LEMMA ParseSfStringIs ==
  ASSUME NEW t, NEW inner, inner = SubSeq(t, 2, Len(t) - 1)
  PROVE  ParseSfString(t) =
           IF Quoted(t) /\ Unescaped(inner).ok /\ ~Unescaped(inner).pending
             THEN {Unescaped(inner).out} ELSE {}
BY DEF ParseSfString, Unescaped, UnescapeStep, Run

ReaderState == [out : Text, pending : BOOLEAN, ok : BOOLEAN]

LEMMA UnescapeType ==
  ASSUME NEW inner \in Text, NEW i \in 1..Len(inner), NEW r \in ReaderState
  PROVE  UnescapeStep(inner, r, i) \in ReaderState
<1>1. PICK c \in Alphabet : c = inner[i]
  BY DEF Text
<1>2. r.out \in Text /\ Append(r.out, c) \in Text
  BY <1>1, AppendType DEF ReaderState, Text
<1>3. PICK a \in Text : a = Append(r.out, c)
  BY <1>2
<1>4. CASE r.pending
  <2>1. UnescapeStep(inner, r, i) =
          [r EXCEPT !.pending = FALSE, !.out = a, !.ok = r.ok /\ c \in {Backslash, DQuote}]
    BY <1>1, <1>3, <1>4 DEF UnescapeStep, ReaderState
  <2>2. (r.ok /\ c \in {Backslash, DQuote}) \in BOOLEAN
    BY DEF ReaderState
  <2>3. QED
    BY <2>1, <2>2 DEF ReaderState
<1>5. CASE ~r.pending /\ c = Backslash
  <2>1. UnescapeStep(inner, r, i) = [r EXCEPT !.pending = TRUE]
    BY <1>1, <1>5 DEF UnescapeStep
  <2>2. QED
    BY <2>1 DEF ReaderState
<1>6. CASE ~r.pending /\ c # Backslash
  <2>1. UnescapeStep(inner, r, i) = [r EXCEPT !.out = a]
    BY <1>1, <1>3, <1>6 DEF UnescapeStep
  <2>2. QED
    BY <2>1 DEF ReaderState
<1>7. QED
  BY <1>4, <1>5, <1>6

(* The reader of a string, step by step. *)
LEMMA UnescapeIs ==
  ASSUME NEW inner \in Text, NEW n \in Nat, n = Len(inner)
  PROVE  \E f \in [0..n -> ReaderState] :
           /\ f[0] = Fresh
           /\ \A i \in 0 .. n - 1 : f[i + 1] = UnescapeStep(inner, f[i], i + 1)
           /\ Unescaped(inner) = f[n]
<1> DEFINE step == [i \in 0 .. n - 1 |-> [r \in ReaderState |-> UnescapeStep(inner, r, i + 1)]]
<1>1. step \in [0 .. n - 1 -> [ReaderState -> ReaderState]]
  <2>1. ASSUME NEW i \in 0 .. n - 1, NEW r \in ReaderState
        PROVE  UnescapeStep(inner, r, i + 1) \in ReaderState
    <3>1. i + 1 \in 1..Len(inner)
      OBVIOUS
    <3>2. QED
      BY <3>1, UnescapeType
  <2>2. QED
    BY <2>1
<1>2. Fresh \in ReaderState
  BY EmptyText DEF ReaderState, Fresh
<1>3. PICK f \in [0..n -> ReaderState] : Steps(f, Fresh, step, n)
  <2> HIDE DEF step
  <2>1. QED
    BY <1>1, <1>2, Iterated
<1>4. f[0] = Fresh /\ \A i \in 0 .. n - 1 : f[i + 1] = UnescapeStep(inner, f[i], i + 1)
  <2>1. ASSUME NEW i \in 0 .. n - 1 PROVE step[i][f[i]] = UnescapeStep(inner, f[i], i + 1)
    <3>1. f[i] \in ReaderState
      OBVIOUS
    <3>2. QED
      BY <3>1
  <2> HIDE DEF step
  <2>2. QED
    BY <1>3, <2>1 DEF Steps
<1>5. Unescaped(inner) = f[n]
  <2> HIDE DEF step
  <2>1. f \in [0..n -> ReaderState]
    OBVIOUS
  <2>2. QED
    BY <1>4, <2>1, UnescapeRun
<1>6. QED
  BY <1>4, <1>5

Settled(s) == [out |-> s, pending |-> FALSE, ok |-> TRUE]
Pending(s) == [out |-> s, pending |-> TRUE, ok |-> TRUE]

LEMMA Unescaping ==
  ASSUME NEW inner, NEW i, NEW s
  PROVE  /\ inner[i] = Backslash =>
              UnescapeStep(inner, Settled(s), i) =
                Pending(s)
         /\ inner[i] # Backslash =>
              UnescapeStep(inner, Settled(s), i) =
                Settled(Append(s, inner[i]))
         /\ inner[i] \in {Backslash, DQuote} =>
              UnescapeStep(inner, Pending(s), i) =
                Settled(Append(s, inner[i]))
<1>1. PICK c, t : c = inner[i] /\ t = Append(s, inner[i])
  OBVIOUS
<1> DEFINE r == Settled(s)
           p == Pending(s)
<1>2. ASSUME c = Backslash PROVE UnescapeStep(inner, r, i) = [r EXCEPT !.pending = TRUE]
  BY <1>1, <1>2 DEF UnescapeStep, Settled, Pending
<1>3. ASSUME c # Backslash PROVE UnescapeStep(inner, r, i) = [r EXCEPT !.out = t]
  BY <1>1, <1>3 DEF UnescapeStep, Settled, Pending
<1>4. ASSUME c \in {Backslash, DQuote}
      PROVE  UnescapeStep(inner, p, i) = [p EXCEPT !.pending = FALSE, !.out = t, !.ok = TRUE]
  <2>1. (p.ok /\ c \in {Backslash, DQuote}) = TRUE
    BY <1>4 DEF Settled, Pending
  <2>2. UnescapeStep(inner, p, i) =
          [p EXCEPT !.pending = FALSE, !.out = Append(@, inner[i]),
                    !.ok = @ /\ inner[i] \in {Backslash, DQuote}]
    BY DEF UnescapeStep, Settled, Pending
  <2>3. QED
    BY <1>1, <2>1, <2>2 DEF Pending
<1>5. QED
  BY <1>1, <1>2, <1>3, <1>4 DEF Settled, Pending

(* One character more of a value. *)
LEMMA OneMore ==
  ASSUME NEW S, NEW v \in Seq(S), NEW i \in 0 .. Len(v) - 1
  PROVE  SubSeq(v, 1, i + 1) = Append(SubSeq(v, 1, i), v[i + 1])
<1>1. PICK n \in Nat : n = Len(v) /\ i \in 0..n /\ i + 1 \in 0..n /\ i + 1 \in 1..n /\ 0 \in 0..n
                       /\ i \in 0..n /\ i + 1 \in 0..n
  OBVIOUS
<1>2. PICK a, b : a = SubSeq(v, 1, i) /\ b = SubSeq(v, 1, i + 1)
  OBVIOUS
<1>3. a \in Seq(S) /\ Len(a) = i /\ \A k \in 1..i : a[k] = v[k]
  <2>1. 0 \in 0..Len(v) /\ i \in 0..Len(v) /\ a = SubSeq(v, 0 + 1, i)
    BY <1>1, <1>2
  <2>2. /\ SubSeq(v, 0 + 1, i) \in Seq(S) /\ Len(SubSeq(v, 0 + 1, i)) = i - 0
        /\ \A k \in 1 .. i - 0 : SubSeq(v, 0 + 1, i)[k] = v[0 + k]
    BY <2>1, CutIs
  <2>3. QED
    BY <2>1, <2>2
<1>4. b \in Seq(S) /\ Len(b) = i + 1 /\ \A k \in 1 .. i + 1 : b[k] = v[k]
  <2>1. 0 \in 0..Len(v) /\ i + 1 \in 0..Len(v) /\ b = SubSeq(v, 0 + 1, i + 1)
    BY <1>1, <1>2
  <2>2. /\ SubSeq(v, 0 + 1, i + 1) \in Seq(S) /\ Len(SubSeq(v, 0 + 1, i + 1)) = (i + 1) - 0
        /\ \A k \in 1 .. (i + 1) - 0 : SubSeq(v, 0 + 1, i + 1)[k] = v[0 + k]
    BY <2>1, CutIs
  <2>3. QED
    BY <2>1, <2>2
<1>5. PICK x \in S : x = v[i + 1]
  BY <1>1
<1>6. PICK c : c = Append(a, x)
  OBVIOUS
<1>7. c \in Seq(S) /\ Len(c) = i + 1 /\ c[i + 1] = x /\ \A k \in 1..i : c[k] = a[k]
  BY <1>3, <1>5, <1>6
<1>8. ASSUME NEW k \in 1 .. i + 1 PROVE c[k] = b[k]
  <2>1. CASE k \in 1..i
    BY <1>3, <1>4, <1>7, <2>1
  <2>2. CASE k = i + 1
    BY <1>4, <1>5, <1>7, <2>2
  <2>3. QED
    BY <2>1, <2>2
<1>9. c = b
  BY <1>4, <1>7, <1>8, SameItems
<1>10. QED
  BY <1>2, <1>5, <1>6, <1>9

LEMMA WholeAndNone ==
  ASSUME NEW S, NEW v \in Seq(S)
  PROVE  SubSeq(v, 1, Len(v)) = v /\ SubSeq(v, 1, 0) = <<>>
OBVIOUS

(* A string reads back as the value that was written, whatever is in it   *)
(* (params.rs, sf_string and parse_sf_string).                             *)
THEOREM StringReadsBack ==
  ASSUME NEW v \in Text
  PROVE  ParseSfString(SfString(v)) = {v}
<1>1. PICK q \in Text : q = SfString(v)
  BY SfStringType
<1>2. PICK at : WrittenAt(q, v, at)
  BY <1>1, SfStringIs
<1>3. PICK n \in Nat : n = Len(v)
  BY DEF Text
<1>4. /\ at \in [0..n -> Nat] /\ at[0] = 1
      /\ q[1] = DQuote /\ Len(q) = at[n] + 1 /\ q[at[n] + 1] = DQuote
      /\ \A i \in 0 .. n - 1 :
           /\ at[i + 1] = at[i] + (IF v[i + 1] \in Special THEN 2 ELSE 1)
           /\ v[i + 1] \in Special => q[at[i] + 1] = Backslash /\ q[at[i] + 2] = v[i + 1]
           /\ v[i + 1] \notin Special => q[at[i] + 1] = v[i + 1]
  BY <1>2, <1>3 DEF WrittenAt
<1>5. \A i \in 0..n : at[i] \in Nat /\ at[i] >= 1
  <2> DEFINE D == {i \in 0..n : at[i] >= 1}
  <2>1. 0 \in D
    BY <1>4
  <2>2. ASSUME NEW i \in 0 .. n - 1 PROVE i \in D => i + 1 \in D
    <3>1. PICK a \in Nat : a = at[i]
      BY <1>4
    <3>2. at[i + 1] = a + 1 \/ at[i + 1] = a + 2
      BY <1>4, <3>1
    <3>3. QED
      BY <3>1, <3>2
  <2>3. \A i \in 0..n : i \in D
    <3> HIDE DEF D
    <3>1. QED
      BY <2>1, <2>2, InductionTo
  <2>4. QED
    BY <1>4, <2>3
<1>6. PICK l \in Nat : l = at[n] /\ l >= 1 /\ Len(q) = l + 1
  BY <1>4, <1>5
<1>7. PICK inner \in Text : /\ inner = SubSeq(q, 2, l) /\ Len(inner) = l - 1
                            /\ \A k \in 1 .. l - 1 : inner[k] = q[k + 1]
  <2>1. 1 \in 0..Len(q) /\ l \in 1..Len(q) /\ 1 + 1 = 2 /\ \A k \in 1 .. l - 1 : 1 + k = k + 1
    BY <1>6
  <2>2. /\ SubSeq(q, 1 + 1, l) \in Seq(Alphabet) /\ Len(SubSeq(q, 1 + 1, l)) = l - 1
        /\ \A k \in 1 .. l - 1 : SubSeq(q, 1 + 1, l)[k] = q[1 + k]
    BY <2>1, CutIs DEF Text
  <2>3. QED
    BY <2>1, <2>2 DEF Text
<1>8. PICK f \in [0 .. l - 1 -> ReaderState] :
        /\ f[0] = Fresh
        /\ \A i \in 0 .. (l - 1) - 1 : f[i + 1] = UnescapeStep(inner, f[i], i + 1)
        /\ Unescaped(inner) = f[l - 1]
  <2>1. l - 1 \in Nat
    BY <1>6
  <2>2. QED
    BY <1>7, <2>1, UnescapeIs
<1> DEFINE Read(i) == Settled(SubSeq(v, 1, i))
           D == {i \in 0..n : at[i] <= l => f[at[i] - 1] = Read(i)}
<1>9. 0 \in D
  <2>1. SubSeq(v, 1, 0) = <<>>
    BY WholeAndNone DEF Text
  <2>2. at[0] - 1 = 0
    BY <1>4
  <2>3. f[at[0] - 1] = Read(0)
    BY <1>8, <2>1, <2>2 DEF Fresh, Settled, Pending
  <2>4. QED
    BY <2>3
<1>10. ASSUME NEW i \in 0 .. n - 1 PROVE i \in D => i + 1 \in D
  <2> SUFFICES ASSUME i \in D, at[i + 1] <= l PROVE f[at[i + 1] - 1] = Read(i + 1)
    OBVIOUS
  <2>0. PICK c : c = v[i + 1]
    OBVIOUS
  <2>1. PICK a \in Nat, b \in Nat : a = at[i] /\ b = at[i + 1] /\ c = v[i + 1] /\ a >= 1
    BY <2>0, <1>5
  <2>2. /\ b = a + (IF c \in Special THEN 2 ELSE 1) /\ b <= l
        /\ c \in Special => q[a + 1] = Backslash /\ q[a + 2] = c
        /\ c \notin Special => q[a + 1] = c
    BY <1>4, <2>1
  <2>3. f[a - 1] = Read(i)
    <3>1. a <= l
      BY <2>2, <1>6
    <3>2. QED
      BY <2>1, <3>1
  <2>4. PICK s : s = SubSeq(v, 1, i) /\ Append(s, c) = SubSeq(v, 1, i + 1)
    <3>1. i \in 0 .. Len(v) - 1
      BY <1>3
    <3>2. SubSeq(v, 1, i + 1) = Append(SubSeq(v, 1, i), v[i + 1])
      BY <3>1, OneMore DEF Text
    <3>3. QED
      BY <2>1, <3>2
  <2> HIDE DEF D
  <2>5. f[a - 1] = Settled(s)
    BY <2>3, <2>4
  <2>5a. b = a + 1 \/ b = a + 2
    BY <2>2
  <2>5b. a + 1 <= l
    <3>1. l \in Nat /\ b <= l
      BY <1>6, <2>2
    <3>2. QED
      BY <2>1, <2>5a, <3>1, SMTT(30)
  <2>6. a - 1 \in 0 .. (l - 1) - 1 /\ (a - 1) + 1 = a /\ a \in 1 .. l - 1
    <3>1. a \in Nat /\ l \in Nat /\ a >= 1 /\ a + 1 <= l
      BY <2>1, <2>5b
    <3>2. QED
      BY <3>1
  <2>7. f[a] = UnescapeStep(inner, f[a - 1], a) /\ inner[a] = q[a + 1]
    BY <1>7, <1>8, <2>6
  <2>8. CASE c \in Special
    <3>1. a \in 0 .. (l - 1) - 1 /\ a + 1 \in 1 .. l - 1 /\ (a + 1) + 1 = a + 2 /\ b - 1 = a + 1
      <4>1. b = a + 2 /\ a + 2 <= l
        BY <2>2, <2>8
      <4>2. QED
        <5>1. a \in Nat /\ l \in Nat /\ a >= 1 /\ a + 2 <= l /\ b = a + 2
          BY <2>1, <4>1
        <5>2. QED
          BY <5>1
    <3>2. inner[a] = Backslash
      BY <2>2, <2>7, <2>8
    <3>3. f[a] = Pending(s)
      BY <2>5, <2>7, <3>2, Unescaping
    <3>4. f[a + 1] = UnescapeStep(inner, f[a], a + 1) /\ inner[a + 1] = c
      BY <1>7, <1>8, <2>2, <2>8, <3>1
    <3>5. f[a + 1] = Settled(Append(s, c))
      <4>1. c \in {Backslash, DQuote}
        BY <2>8 DEF Special
      <4>2. QED
        BY <3>3, <3>4, <4>1, Unescaping
    <3>6. QED
      BY <2>1, <2>4, <3>1, <3>5
  <2>9. CASE c \notin Special
    <3>1. b - 1 = a
      BY <2>1, <2>2, <2>9
    <3>2. inner[a] = c /\ c # Backslash
      BY <2>2, <2>7, <2>9 DEF Special
    <3>3. f[a] = Settled(Append(s, c))
      BY <2>5, <2>7, <3>2, Unescaping
    <3>4. QED
      BY <2>1, <2>4, <3>1, <3>3
  <2>10. QED
    BY <2>8, <2>9
<1>11. n \in D
  <2> HIDE DEF D
  <2>1. QED
    BY <1>9, <1>10, InductionTo
<1>12. f[l - 1] = Settled(v)
  <2>1. SubSeq(v, 1, n) = v
    BY <1>3, WholeAndNone DEF Text
  <2>2. at[n] <= l /\ at[n] - 1 = l - 1
    BY <1>6
  <2>3. QED
    BY <1>11, <2>1, <2>2
<1>13. Quoted(q)
  BY <1>4, <1>6 DEF Quoted
<1>14. inner = SubSeq(q, 2, Len(q) - 1)
  <2>1. Len(q) - 1 = l
    BY <1>6
  <2>2. QED
    BY <1>7, <2>1
<1>15. ParseSfString(q) = IF Quoted(q) /\ Unescaped(inner).ok /\ ~Unescaped(inner).pending
                            THEN {Unescaped(inner).out} ELSE {}
  BY <1>14, ParseSfStringIs
<1>16. QED
  BY <1>1, <1>8, <1>12, <1>13, <1>15 DEF Settled, Pending

(***************************************************************************)
(* What Trim and SplitOnce find.                                           *)
(***************************************************************************)
Blanks == {Space, LineFeed}

(* There is nothing around the text to be trimmed. *)
Solid(t) == t \in Text /\ Len(t) >= 1 /\ t[1] \notin Blanks /\ t[Len(t)] \notin Blanks

LEMMA OneChar ==
  ASSUME NEW c \in Alphabet PROVE <<c>> \in Text /\ Len(<<c>>) = 1 /\ <<c>>[1] = c
BY OneItem DEF Text

LEMMA ConcatAs ==
  ASSUME NEW s \in Text, NEW t \in Text, NEW n \in Nat, NEW k \in Nat, n = Len(s), k = Len(t),
         NEW w, w = s \o t
  PROVE  /\ w \in Text /\ Len(w) = n + k /\ \A i \in 1..n : w[i] = s[i]
         /\ \A i \in 1..k : w[n + i] = t[i]
BY TextConcat

(* Two texts come apart again. *)
LEMMA ConcatParts ==
  ASSUME NEW t \in Text, NEW u \in Text
  PROVE  SubSeq(t \o u, 1, Len(t)) = t /\ SubSeq(t \o u, Len(t) + 1, Len(t \o u)) = u
<1>1. PICK n \in Nat, k \in Nat : n = Len(t) /\ k = Len(u)
  BY DEF Text
<1>2. PICK w \in Text : w = t \o u
  BY TextConcat
<1>3. /\ Len(w) = n + k /\ \A i \in 1..n : w[i] = t[i]
      /\ \A i \in 1..k : w[n + i] = u[i]
  BY <1>1, <1>2, TextConcat
<1>4. PICK a, b : a = SubSeq(w, 1, n) /\ b = SubSeq(w, n + 1, n + k)
  OBVIOUS
<1>5. a \in Text /\ Len(a) = n /\ \A i \in 1..n : a[i] = w[i]
  <2>1. 0 \in 0..Len(w) /\ n \in 0..Len(w) /\ a = SubSeq(w, 0 + 1, n)
    BY <1>3, <1>4
  <2>2. /\ SubSeq(w, 0 + 1, n) \in Seq(Alphabet) /\ Len(SubSeq(w, 0 + 1, n)) = n - 0
        /\ \A i \in 1 .. n - 0 : SubSeq(w, 0 + 1, n)[i] = w[0 + i]
    BY <2>1, CutIs DEF Text
  <2>3. QED
    BY <2>1, <2>2 DEF Text
<1>6. b \in Text /\ Len(b) = k /\ \A i \in 1..k : b[i] = w[n + i]
  <2>1. n \in 0..Len(w) /\ n + k \in n..Len(w) /\ (n + k) - n = k
    BY <1>3
  <2>2. /\ SubSeq(w, n + 1, n + k) \in Seq(Alphabet) /\ Len(SubSeq(w, n + 1, n + k)) = (n + k) - n
        /\ \A i \in 1 .. (n + k) - n : SubSeq(w, n + 1, n + k)[i] = w[n + i]
    BY <2>1, CutIs DEF Text
  <2>3. QED
    BY <1>4, <2>1, <2>2 DEF Text
<1>7. a = t
  <2>1. \A i \in 1..n : a[i] = t[i]
    BY <1>3, <1>5
  <2>2. QED
    BY <1>1, <1>5, <2>1, SameItems DEF Text
<1>8. b = u
  <2>1. \A i \in 1..k : b[i] = u[i]
    BY <1>3, <1>6
  <2>2. QED
    BY <1>1, <1>6, <2>1, SameItems DEF Text
<1>9. QED
  BY <1>1, <1>2, <1>3, <1>4, <1>7, <1>8

(* Blanks go at both ends, and nothing else does. *)
LEMMA TrimIs ==
  ASSUME NEW t \in Text, NEW i \in 1..Len(t), NEW j \in 1..Len(t),
         t[i] \notin Blanks, t[j] \notin Blanks,
         \A k \in 1..Len(t) : k < i \/ k > j => t[k] \in Blanks
  PROVE  Trim(t) = SubSeq(t, i, j)
<1>1. PICK n \in Nat : n = Len(t) /\ DOMAIN t = 1..n
  BY DEF Text
<1>2. PICK words : words = {k \in DOMAIN t : t[k] \notin {Space, LineFeed}}
  OBVIOUS
<1>3. words \in SUBSET Nat /\ words \in SUBSET (0..n) /\ i \in words /\ j \in words
      /\ \A k \in words : k >= i /\ k <= j
  BY <1>1, <1>2 DEF Blanks
<1>4. PICK a \in Nat : a = Min(words) /\ a \in words /\ a <= i
  BY <1>3, MinIsLeast
<1>5. PICK b \in Nat : b = Max(words) /\ b \in words /\ j <= b
  BY <1>3, MaxIsGreatest
<1>6. a = i /\ b = j
  BY <1>3, <1>4, <1>5
<1>7. QED
  BY <1>2, <1>3, <1>4, <1>5, <1>6 DEF Trim

LEMMA SolidTrim == ASSUME NEW t, Solid(t) PROVE Trim(t) = t
<1>1. PICK n \in Nat : t \in Text /\ n = Len(t) /\ n >= 1
  BY DEF Solid, Text
<1>2. 1 \in 1..Len(t) /\ n \in 1..Len(t) /\ t[1] \notin Blanks /\ t[n] \notin Blanks
  BY <1>1 DEF Solid
<1>3. Trim(t) = SubSeq(t, 1, n)
  BY <1>1, <1>2, TrimIs
<1>4. QED
  BY <1>1, <1>3, WholeAndNone DEF Text

LEMMA BlankTrim == ASSUME NEW t, Solid(t) PROVE Trim(<<Space>> \o t) = t
<1>1. PICK n \in Nat : t \in Text /\ n = Len(t) /\ n >= 1
  BY DEF Solid, Text
<1>2. PICK b \in Text : b = <<Space>> /\ Len(b) = 1 /\ b[1] = Space
  BY Characters, OneChar
<1>3. PICK w \in Text : w = b \o t
  BY <1>1, TextConcat
<1>4. Len(w) = n + 1 /\ w[1] = Space /\ \A i \in 1..n : w[1 + i] = t[i]
  BY <1>1, <1>2, <1>3, TextConcat
<1>5. w[2] \notin Blanks /\ w[n + 1] \notin Blanks
  <2>1. w[1 + 1] = t[1] /\ w[1 + n] = t[n] /\ 1 + n = n + 1
    BY <1>1, <1>4
  <2>2. QED
    BY <1>1, <2>1 DEF Solid
<1>6. 2 \in 1..Len(w) /\ n + 1 \in 1..Len(w)
      /\ \A k \in 1..Len(w) : k < 2 \/ k > n + 1 => w[k] \in Blanks
  <2>1. \A k \in 1..Len(w) : k < 2 \/ k > n + 1 => k = 1
    BY <1>4
  <2>2. QED
    BY <1>1, <1>4, <2>1 DEF Blanks
<1>7. Trim(w) = SubSeq(w, 2, n + 1)
  BY <1>5, <1>6, TrimIs
<1>8. SubSeq(w, Len(b) + 1, Len(w)) = t
  BY <1>1, <1>3, ConcatParts
<1>9. QED
  <2>1. Len(b) + 1 = 2 /\ Len(w) = n + 1
    BY <1>2, <1>4
  <2>2. QED
    BY <1>2, <1>3, <1>7, <1>8, <2>1

LEMMA EmptyTrim == Trim(<<>>) = <<>>
BY DEF Trim

(* One of the ends is enough to be solid at that end. *)
LEMMA SolidOn ==
  ASSUME NEW t, NEW u, Solid(t), Solid(u)
  PROVE  Solid(t \o u)
<1>1. PICK n \in Nat, k \in Nat : t \in Text /\ u \in Text /\ n = Len(t) /\ n >= 1 /\ k = Len(u) /\ k >= 1
  BY DEF Solid, Text
<1>2. PICK w \in Text : w = t \o u
  BY <1>1, TextConcat
<1>3. Len(w) = n + k /\ w[1] = t[1] /\ w[n + k] = u[k]
  <2>1. 1 \in 1..n /\ k \in 1..k
    BY <1>1
  <2>2. QED
    BY <1>1, <1>2, <2>1, TextConcat
<1>4. QED
  BY <1>1, <1>2, <1>3 DEF Solid

LEMMA SolidWrapped ==
  ASSUME NEW t, NEW u \in Text, NEW v, Solid(t), Solid(v)
  PROVE  Solid((t \o u) \o v)
<1>1. PICK n \in Nat, k \in Nat, l \in Nat :
        t \in Text /\ v \in Text /\ n = Len(t) /\ n >= 1 /\ k = Len(u) /\ l = Len(v) /\ l >= 1
  BY DEF Solid, Text
<1>2. PICK w \in Text : w = t \o u
  BY <1>1, TextConcat
<1>3. PICK x \in Text : x = w \o v
  BY <1>1, TextConcat
<1>4. Len(w) = n + k /\ w[1] = t[1] /\ Len(x) = (n + k) + l /\ x[1] = w[1] /\ x[(n + k) + l] = v[l]
  <2>1. 1 \in 1..n /\ l \in 1..l /\ 1 \in 1 .. n + k
    BY <1>1
  <2>2. Len(w) = n + k /\ w[1] = t[1]
    BY <1>1, <1>2, <2>1, TextConcat
  <2>3. QED
    <3>1. PICK m \in Nat : m = Len(w)
      BY DEF Text
    <3>2. /\ Len(x) = m + l /\ \A i \in 1..m : x[i] = w[i]
          /\ \A i \in 1..l : x[m + i] = v[i]
      BY <1>1, <1>3, <3>1, TextConcat
    <3>3. QED
      BY <1>1, <2>1, <2>2, <3>1, <3>2
<1>5. QED
  BY <1>1, <1>2, <1>3, <1>4 DEF Solid

(* The first "=". *)
LEMMA SplitOnceIs ==
  ASSUME NEW front \in Text, NEW rest \in Text, \A i \in 1..Len(front) : front[i] # Equals
  PROVE  SplitOnce((front \o <<Equals>>) \o rest) = {<<Trim(front), rest>>}
<1>1. PICK n \in Nat, k \in Nat : n = Len(front) /\ k = Len(rest)
  BY DEF Text
<1>2. PICK e \in Text : e = <<Equals>> /\ Len(e) = 1 /\ e[1] = Equals
  BY Characters, OneChar
<1>3. PICK t \in Text : t = front \o e
  BY TextConcat
<1>4. PICK w \in Text : w = t \o rest
  BY TextConcat
<1>5. /\ Len(t) = n + 1 /\ t[n + 1] = Equals
      /\ Len(w) = (n + 1) + k /\ w[n + 1] = Equals /\ \A i \in 1..n : w[i] # Equals
  <2>1. Len(t) = n + 1 /\ t[n + 1] = Equals /\ \A i \in 1..n : t[i] = front[i]
    BY <1>1, <1>2, <1>3, TextConcat
  <2>2. Len(w) = (n + 1) + k /\ \A i \in 1 .. n + 1 : w[i] = t[i]
    <3>1. PICK m \in Nat : m = Len(t)
      BY DEF Text
    <3>2. Len(w) = m + k /\ \A i \in 1..m : w[i] = t[i]
      BY <1>1, <1>4, <3>1, TextConcat
    <3>3. QED
      BY <2>1, <3>1, <3>2
  <2>3. QED
    BY <1>1, <2>1, <2>2
<1>6. PICK eq : eq = {i \in DOMAIN w : w[i] = Equals}
  OBVIOUS
<1>7. eq \in SUBSET Nat /\ n + 1 \in eq /\ \A i \in eq : i >= n + 1
  <2>1. DOMAIN w = 1..Len(w)
    BY DEF Text
  <2>2. QED
    BY <1>5, <1>6, <2>1
<1>8. Min(eq) = n + 1
  <2>1. Min(eq) \in eq /\ Min(eq) <= n + 1 /\ Min(eq) \in Nat
    BY <1>7, MinIsLeast
  <2>2. QED
    BY <1>7, <2>1
<1>9. SplitOnce(w) = {<<Trim(SubSeq(w, 1, Min(eq) - 1)), SubSeq(w, Min(eq) + 1, Len(w))>>}
  BY <1>6, <1>7 DEF SplitOnce
<1>10. Min(eq) - 1 = n
  BY <1>8
<1>11. SubSeq(w, (n + 1) + 1, Len(w)) = rest /\ SubSeq(w, 1, n + 1) = t
  BY <1>4, <1>5, ConcatParts
<1>12. SubSeq(w, 1, n) = front
  <2>1. PICK u \in Text : u = e \o rest
    BY TextConcat
  <2>2. w = front \o u
    <3>1. Associates(front, e, rest)
      BY <1>3, TextAssociative
    <3>2. QED
      BY <1>3, <1>4, <2>1, <3>1 DEF Associates
  <2>3. QED
    BY <1>1, <2>2, ConcatParts
<1>13. QED
  BY <1>2, <1>3, <1>4, <1>8, <1>9, <1>10, <1>11, <1>12

LEMMA NotSplit ==
  ASSUME NEW t \in Text, \A i \in 1..Len(t) : t[i] # Equals
  PROVE  SplitOnce(t) = {}
<1>1. DOMAIN t = 1..Len(t)
  BY DEF Text
<1>2. QED
  BY <1>1 DEF SplitOnce

(***************************************************************************)
(* Cutting texts up.                                                       *)
(***************************************************************************)
TextParts == Parts(Alphabet)

LEMMA SplitStepType ==
  ASSUME NEW t \in Text, NEW cuts, NEW i \in 1..Len(t), NEW parts \in TextParts
  PROVE  SplitStep(t, cuts, parts, i) \in TextParts
<1>1. PICK c \in Alphabet : c = t[i]
  BY DEF Text
<1>2. CASE i \in cuts
  <2>1. <<>> \in Seq(Alphabet) /\ parts \in Seq(Seq(Alphabet)) /\ Len(parts) >= 1
    BY DEF Parts, TextParts
  <2>2. Append(parts, <<>>) \in Seq(Seq(Alphabet)) /\ Len(Append(parts, <<>>)) >= 1
    BY <2>1, AppendType
  <2>3. QED
    BY <1>2, <2>2 DEF Parts, TextParts, SplitStep
<1>3. CASE i \notin cuts
  <2>1. parts \in Seq(Seq(Alphabet)) /\ Len(parts) \in DOMAIN parts /\ Len(parts) >= 1
    BY DEF Parts, TextParts
  <2>2. parts[Len(parts)] \in Seq(Alphabet)
    BY <2>1
  <2>3. PICK x \in Seq(Alphabet) : x = Append(parts[Len(parts)], c)
    BY <2>2, AppendType
  <2>4. SplitStep(t, cuts, parts, i) = [parts EXCEPT ![Len(parts)] = x]
    BY <1>1, <1>3, <2>3 DEF SplitStep
  <2>5. [parts EXCEPT ![Len(parts)] = x] \in Seq(Seq(Alphabet))
    BY <2>1, ExceptType
  <2>6. Len([parts EXCEPT ![Len(parts)] = x]) = Len(parts)
    BY <2>1
  <2>7. QED
    BY <2>1, <2>4, <2>5, <2>6 DEF Parts, TextParts
<1>4. QED
  BY <1>2, <1>3

HasSplit(t, cuts, n) ==
  \E f \in [0..n -> TextParts] : SplitsAs(f, t, cuts, n) /\ SplitAt(t, cuts) = f[n]

(* Each cut begins another part, and what lies between two cuts is one. *)
LEMMA SplitIs ==
  ASSUME NEW t \in Text, NEW cuts, NEW n \in Nat, n = Len(t)
  PROVE  HasSplit(t, cuts, n)
<1> DEFINE step == [i \in 0 .. n - 1 |-> [p \in TextParts |-> SplitStep(t, cuts, p, i + 1)]]
<1>1. step \in [0 .. n - 1 -> [TextParts -> TextParts]]
  <2>1. ASSUME NEW i \in 0 .. n - 1, NEW p \in TextParts
        PROVE  SplitStep(t, cuts, p, i + 1) \in TextParts
    <3>1. i + 1 \in 1..Len(t)
      OBVIOUS
    <3>2. QED
      BY <3>1, SplitStepType
  <2>2. QED
    BY <2>1
<1>2. NoText \in TextParts
  <2>1. <<>> \in Seq(Alphabet)
    OBVIOUS
  <2>2. <<<<>>>> \in Seq(Seq(Alphabet)) /\ Len(<<<<>>>>) = 1
    BY <2>1, OneItem
  <2>3. QED
    BY <2>2 DEF Parts, TextParts, NoText
<1>3. PICK f \in [0..n -> TextParts] : Steps(f, NoText, step, n)
  <2> HIDE DEF step
  <2>1. QED
    BY <1>1, <1>2, Iterated
<1>4. SplitsAs(f, t, cuts, n)
  <2>1. ASSUME NEW i \in 0 .. n - 1 PROVE step[i][f[i]] = SplitStep(t, cuts, f[i], i + 1)
    <3>1. f[i] \in TextParts
      OBVIOUS
    <3>2. QED
      BY <3>1
  <2> HIDE DEF step
  <2>2. QED
    BY <1>3, <2>1 DEF Steps, SplitsAs
<1>5. SplitAt(t, cuts) = f[n]
  <2> HIDE DEF step
  <2>1. f \in [0..n -> TextParts]
    OBVIOUS
  <2>2. QED
    BY <1>4, <2>1, SplitRun
<1>6. QED
  BY <1>4, <1>5 DEF HasSplit

LEMMA AppendIs ==
  ASSUME NEW S, NEW s \in Seq(S), NEW x \in S, NEW n \in Nat, n = Len(s)
  PROVE  /\ Append(s, x) \in Seq(S) /\ Len(Append(s, x)) = n + 1 /\ Append(s, x)[n + 1] = x
         /\ \A i \in 1..n : Append(s, x)[i] = s[i]
OBVIOUS

(* Where nothing is cut, the last part grows. *)
LEMMA PartGrows ==
  ASSUME NEW parts \in Seq(Text), NEW s \in Text, NEW c \in Alphabet
  PROVE  LET p == Append(parts, s) IN
         [p EXCEPT ![Len(p)] = Append(@, c)] = Append(parts, Append(s, c))
<1>1. PICK n \in Nat : n = Len(parts)
  OBVIOUS
<1>2. PICK x \in Text : x = Append(s, c)
  BY AppendType DEF Text
<1>3. PICK p \in Seq(Text) : p = Append(parts, s) /\ Len(p) = n + 1 /\ p[n + 1] = s
                             /\ \A i \in 1..n : p[i] = parts[i]
  <2>1. /\ Append(parts, s) \in Seq(Text) /\ Len(Append(parts, s)) = n + 1
        /\ Append(parts, s)[n + 1] = s /\ \A i \in 1..n : Append(parts, s)[i] = parts[i]
    BY <1>1, AppendIs
  <2>2. QED
    BY <2>1
<1>4. PICK q \in Seq(Text) : q = Append(parts, x) /\ Len(q) = n + 1 /\ q[n + 1] = x
                             /\ \A i \in 1..n : q[i] = parts[i]
  <2>1. /\ Append(parts, x) \in Seq(Text) /\ Len(Append(parts, x)) = n + 1
        /\ Append(parts, x)[n + 1] = x /\ \A i \in 1..n : Append(parts, x)[i] = parts[i]
    BY <1>1, AppendIs
  <2>2. QED
    BY <2>1
<1>5. PICK r : r = [p EXCEPT ![n + 1] = x]
  OBVIOUS
<1>6. r \in Seq(Text) /\ Len(r) = n + 1 /\ r[n + 1] = x /\ \A i \in 1..n : r[i] = p[i]
  <2>1. DOMAIN p = 1 .. n + 1 /\ n + 1 \in 1 .. n + 1 /\ \A i \in 1..n : i \in 1 .. n + 1 /\ i # n + 1
    BY <1>3
  <2>2. r \in Seq(Text)
    BY <1>5, ExceptType
  <2>3. DOMAIN r = DOMAIN p /\ r[n + 1] = x /\ \A i \in 1..n : r[i] = p[i]
    BY <1>5, <2>1
  <2>4. QED
    BY <2>1, <2>2, <2>3
<1>7. ASSUME NEW i \in 1 .. n + 1 PROVE r[i] = q[i]
  <2>1. CASE i \in 1..n
    BY <1>3, <1>4, <1>6, <2>1
  <2>2. CASE i = n + 1
    BY <1>4, <1>6, <2>2
  <2>3. QED
    BY <2>1, <2>2
<1>8. r = q
  BY <1>4, <1>6, <1>7, SameItems
<1>9. [p EXCEPT ![Len(p)] = Append(@, c)] = [p EXCEPT ![n + 1] = x]
  BY <1>2, <1>3
<1>10. QED
  BY <1>2, <1>3, <1>4, <1>5, <1>8, <1>9

UncutFrom(w, cuts, p, u) == \A i \in 1..Len(u) : w[p + i] = u[i] /\ p + i \notin cuts

GrowsFrom(f, w, cuts, n, p, parts, u) ==
  /\ n \in Nat /\ parts \in Seq(Text) /\ u \in Text
  /\ SplitsAs(f, w, cuts, n) /\ p \in 0..n /\ f[p] = Append(parts, <<>>)
  /\ p + Len(u) = n /\ UncutFrom(w, cuts, p, u)

LEMMA Uncut ==
  ASSUME NEW w, NEW cuts, NEW n, NEW f, NEW p, NEW parts, NEW u,
         GrowsFrom(f, w, cuts, n, p, parts, u)
  PROVE  f[n] = Append(parts, u)
<1>0. /\ n \in Nat /\ parts \in Seq(Text) /\ u \in Text
      /\ SplitsAs(f, w, cuts, n) /\ p \in 0..n /\ f[p] = Append(parts, <<>>)
      /\ p + Len(u) = n /\ UncutFrom(w, cuts, p, u)
  BY DEF GrowsFrom
<1>1. PICK k \in Nat : k = Len(u) /\ p + k = n /\ \A i \in 1..k : u[i] \in Alphabet
  BY <1>0 DEF Text
<1> DEFINE D == {i \in 0..k : f[p + i] = Append(parts, SubSeq(u, 1, i))}
<1>2. 0 \in D
  <2>1. SubSeq(u, 1, 0) = <<>>
    BY <1>0, WholeAndNone DEF Text
  <2>2. p + 0 = p /\ 0 \in 0..k
    BY <1>0
  <2>3. f[p + 0] = f[p]
    BY <2>2
  <2>4. f[p + 0] = Append(parts, SubSeq(u, 1, 0))
    BY <1>0, <2>1, <2>3
  <2>5. QED
    BY <2>2, <2>4
<1>3. ASSUME NEW i \in 0 .. k - 1 PROVE i \in D => i + 1 \in D
  <2> SUFFICES ASSUME i \in D PROVE f[p + (i + 1)] = Append(parts, SubSeq(u, 1, i + 1))
    OBVIOUS
  <2>1. f[p + i] = Append(parts, SubSeq(u, 1, i))
    OBVIOUS
  <2> HIDE DEF D
  <2>2. p + i \in 0 .. n - 1 /\ (p + i) + 1 = p + (i + 1) /\ i + 1 \in 1..k
    BY <1>0, <1>1
  <2>3. PICK s \in Text, c \in Alphabet :
          s = SubSeq(u, 1, i) /\ c = u[i + 1] /\ SubSeq(u, 1, i + 1) = Append(s, c)
    <3>1. i \in 0 .. Len(u) - 1 /\ i \in 0..Len(u) /\ 1 \in 1 .. Len(u) + 1
      BY <1>1
    <3>2. SubSeq(u, 1, i) \in Text
      BY <1>0, <3>1, SubSeqType DEF Text
    <3>3. SubSeq(u, 1, i + 1) = Append(SubSeq(u, 1, i), u[i + 1])
      BY <1>0, <3>1, OneMore DEF Text
    <3>4. u[i + 1] \in Alphabet
      BY <1>1, <2>2
    <3>5. QED
      BY <3>2, <3>3, <3>4
  <2>4. w[p + (i + 1)] = c /\ p + (i + 1) \notin cuts
    BY <1>0, <1>1, <2>2, <2>3 DEF UncutFrom
  <2>5. f[p + (i + 1)] = SplitStep(w, cuts, f[p + i], p + (i + 1))
    BY <1>0, <2>2 DEF SplitsAs
  <2>6. PICK q : q = Append(parts, s) /\ f[p + i] = q
    BY <2>1, <2>3
  <2>7. f[p + (i + 1)] = [q EXCEPT ![Len(q)] = Append(@, c)]
    BY <2>4, <2>5, <2>6 DEF SplitStep
  <2>8. [q EXCEPT ![Len(q)] = Append(@, c)] = Append(parts, Append(s, c))
    <3>1. parts \in Seq(Text)
      BY <1>0
    <3>2. QED
      BY <2>6, <3>1, PartGrows
  <2>9. QED
    BY <2>3, <2>7, <2>8
<1>4. k \in D
  <2> HIDE DEF D
  <2>1. QED
    BY <1>2, <1>3, InductionTo
<1>5. SubSeq(u, 1, k) = u
  BY <1>0, <1>1, WholeAndNone DEF Text
<1>6. QED
  BY <1>1, <1>4, <1>5

(* No cut, one part. *)
LEMMA NoCut ==
  ASSUME NEW t \in Text, NEW cuts, \A i \in 1..Len(t) : i \notin cuts
  PROVE  SplitAt(t, cuts) = <<t>>
<1>1. PICK n \in Nat : n = Len(t)
  BY DEF Text
<1>2. PICK f \in [0..n -> TextParts] : SplitsAs(f, t, cuts, n) /\ SplitAt(t, cuts) = f[n]
  BY <1>1, SplitIs DEF HasSplit
<1>3. PICK none \in Seq(Text) : none = <<>>
  <2>1. <<>> \in Seq(Text)
    OBVIOUS
  <2>2. QED
    BY <2>1
<1>4. f[0] = Append(none, <<>>)
  BY <1>2, <1>3 DEF SplitsAs, NoText
<1>5. 0 \in 0..n /\ 0 + Len(t) = n /\ UncutFrom(t, cuts, 0, t)
  BY <1>1 DEF UncutFrom
<1>6. f[n] = Append(none, t)
  <2>1. GrowsFrom(f, t, cuts, n, 0, none, t)
    BY <1>2, <1>4, <1>5 DEF GrowsFrom
  <2>2. QED
    BY <2>1, Uncut
<1>7. QED
  BY <1>2, <1>3, <1>6

(* One cut more, between t and u. *)
CutBetween(t, u, before, cuts) ==
  /\ \A i \in 1..Len(t) : i \in cuts <=> i \in before
  /\ Len(t) + 1 \in cuts /\ \A i \in 1..Len(u) : Len(t) + 1 + i \notin cuts

(* One more cut, one more part: the text behind it. *)
LEMMA CutOn ==
  ASSUME NEW t \in Text, NEW c \in Alphabet, NEW u \in Text, NEW before, NEW cuts,
         CutBetween(t, u, before, cuts)
  PROVE  SplitAt((t \o <<c>>) \o u, cuts) = Append(SplitAt(t, before), u)
<1>1. PICK n \in Nat, k \in Nat : n = Len(t) /\ k = Len(u)
  BY DEF Text
<1>2. PICK e \in Text : e = <<c>> /\ Len(e) = 1 /\ e[1] = c
  BY OneChar
<1>3. PICK v \in Text : v = t \o e
  BY TextConcat
<1>4. PICK w \in Text : w = v \o u
  BY TextConcat
<1>5. Len(v) = n + 1 /\ \A i \in 1..n : v[i] = t[i]
  BY <1>1, <1>2, <1>3, TextConcat
<1>6. PICK m \in Nat : m = n + 1 /\ m = Len(v)
  BY <1>5
<1>7. Len(w) = m + k /\ (\A i \in 1..m : w[i] = v[i]) /\ \A i \in 1..k : w[m + i] = u[i]
  <2>1. PICK l \in Nat : l = Len(v)
    BY DEF Text
  <2>2. Len(w) = l + k /\ (\A i \in 1..l : w[i] = v[i]) /\ \A i \in 1..k : w[l + i] = u[i]
    BY <1>1, <1>4, <2>1, TextConcat
  <2>3. QED
    BY <1>6, <2>1, <2>2
<1>8. PICK z \in Nat : z = m + k /\ z = Len(w)
  BY <1>7
<1>9. PICK f \in [0..z -> TextParts] : SplitsAs(f, w, cuts, z) /\ SplitAt(w, cuts) = f[z]
  BY <1>8, SplitIs DEF HasSplit
<1>10. PICK g \in [0..n -> TextParts] : SplitsAs(g, t, before, n) /\ SplitAt(t, before) = g[n]
  <2>1. HasSplit(t, before, n)
    BY <1>1, SplitIs
  <2>2. QED
    BY <2>1 DEF HasSplit
<1>11. \A i \in 0..n : g[i] = f[i]
  <2>1. g[0] = f[0]
    BY <1>9, <1>10 DEF SplitsAs
  <2>2. ASSUME NEW i \in 0 .. n - 1 PROVE g[i] = f[i] => g[i + 1] = f[i + 1]
    <3> SUFFICES ASSUME g[i] = f[i] PROVE g[i + 1] = f[i + 1]
      OBVIOUS
    <3>1. i \in 0 .. z - 1 /\ i + 1 \in 1..n /\ i + 1 \in 1..m
      BY <1>6, <1>8
    <3>2. f[i + 1] = SplitStep(w, cuts, f[i], i + 1) /\ g[i + 1] = SplitStep(t, before, g[i], i + 1)
      BY <1>9, <1>10, <3>1 DEF SplitsAs
    <3>3. w[i + 1] = t[i + 1] /\ (i + 1 \in cuts <=> i + 1 \in before)
      BY <1>1, <1>5, <1>7, <3>1 DEF CutBetween
    <3>4. QED
      BY <3>2, <3>3 DEF SplitStep
  <2>3. QED
    <3>1. Follows(g, f, n)
      BY <2>1, <2>2 DEF Follows
    <3>2. QED
      BY <3>1, Agrees DEF Equal
<1>12. PICK parts \in Seq(Text) : parts = g[n]
  <2>1. n \in 0..n
    OBVIOUS
  <2>2. g[n] \in TextParts
    BY <2>1
  <2>3. QED
    BY <2>2 DEF Parts, TextParts, Text
<1>13. f[m] = Append(parts, <<>>)
  <2>1. n \in 0 .. z - 1 /\ n \in 0..n /\ n + 1 = m
    BY <1>6, <1>8
  <2>2. f[m] = SplitStep(w, cuts, f[n], m)
    BY <1>9, <2>1 DEF SplitsAs
  <2>3. m \in cuts /\ f[n] = parts
    BY <1>1, <1>6, <1>11, <1>12, <2>1 DEF CutBetween
  <2>4. QED
    BY <2>2, <2>3 DEF SplitStep
<1>14. m \in 0..z /\ m + Len(u) = z /\ UncutFrom(w, cuts, m, u)
  <2>1. \A i \in 1..k : Len(t) + 1 + i = m + i
    BY <1>1, <1>6
  <2>2. QED
    BY <1>1, <1>7, <1>8, <2>1 DEF UncutFrom, CutBetween
<1>15. f[z] = Append(parts, u)
  <2>1. GrowsFrom(f, w, cuts, z, m, parts, u)
    BY <1>9, <1>13, <1>14 DEF GrowsFrom
  <2>2. QED
    BY <2>1, Uncut
<1>16. QED
  BY <1>2, <1>3, <1>4, <1>9, <1>10, <1>12, <1>15

(***************************************************************************)
(* Delimiters outside of strings.                                          *)
(***************************************************************************)
(* The places where somebody finds c when looking for it. *)
Marked(t, c) == {i \in Unquoted(t) : t[i] = c}

(* Delimiters in two texts are those of either. *)
LEMMA MarkedOn ==
  ASSUME NEW t \in Text, NEW u \in Text, NEW c, Balanced(t)
  PROVE  /\ \A i \in 1..Len(t) : i \in Marked(t \o u, c) <=> i \in Marked(t, c)
         /\ \A i \in 1..Len(u) : Len(t) + i \in Marked(t \o u, c) <=> i \in Marked(u, c)
<1>1. PICK w \in Text : w = t \o u
  BY TextConcat
<1>2. /\ \A i \in 1..Len(t) : w[i] = t[i]
      /\ \A i \in 1..Len(u) : w[Len(t) + i] = u[i]
  BY <1>1, TextConcat
<1>3. /\ \A i \in 1..Len(t) : i \in Unquoted(w) <=> i \in Unquoted(t)
      /\ \A i \in 1..Len(u) : Len(t) + i \in Unquoted(w) <=> i \in Unquoted(u)
  BY <1>1, UnquotedOn
<1>4. QED
  BY <1>1, <1>2, <1>3 DEF Marked

LEMMA MarkedIn ==
  ASSUME NEW t \in Text, NEW c PROVE Marked(t, c) \in SUBSET (1..Len(t))
BY UnquotedIs DEF Marked

(* What never stands outside of strings is no delimiter. *)
LEMMA NoneMarked ==
  ASSUME NEW T, NEW t, Tidy(t, T), NEW c, c \notin T
  PROVE  Marked(t, c) = {}
BY DEF Tidy, Marked

(* A character by itself. *)
LEMMA TidyChar ==
  ASSUME NEW c \in Alphabet, c # DQuote
  PROVE  Tidy(<<c>>, {c}) /\ Marked(<<c>>, c) = {1}
<1>1. PICK e \in Text : e = <<c>> /\ Len(e) = 1 /\ e[1] = c
  BY OneChar
<1>2. /\ \A i \in 1..Len(e) : e[i] \in {c}
      /\ DQuote \notin {c}
  BY <1>1
<1>3. Tidy(e, {c}) /\ Unquoted(e) = 1..Len(e)
  BY <1>2, TidyWord
<1>4. Marked(e, c) = {1}
  BY <1>1, <1>3 DEF Marked
<1>5. QED
  BY <1>1, <1>3, <1>4

(* A delimiter between two texts is one more. *)
LEMMA MarkedAround ==
  ASSUME NEW t \in Text, NEW c \in Alphabet, NEW u \in Text, c # DQuote, Balanced(t)
  PROVE  LET w == (t \o <<c>>) \o u IN
         /\ \A i \in 1..Len(t) : i \in Marked(w, c) <=> i \in Marked(t, c)
         /\ Len(t) + 1 \in Marked(w, c)
         /\ \A i \in 1..Len(u) : Len(t) + 1 + i \in Marked(w, c) <=> i \in Marked(u, c)
         /\ Len(w) = Len(t) + 1 + Len(u)
<1>1. PICK e \in Text : e = <<c>> /\ Len(e) = 1 /\ Balanced(e) /\ Marked(e, c) = {1}
  BY OneChar, TidyChar DEF Tidy
<1>2. PICK v \in Text : v = t \o e
  BY TextConcat
<1>3. PICK w \in Text : w = v \o u
  BY TextConcat
<1>4. PICK n \in Nat : n = Len(t)
  BY DEF Text
<1>5. PICK m \in Nat : m = Len(v) /\ m = n + 1
  BY <1>1, <1>2, <1>4, TextConcat
<1>6. Balanced(v)
  BY <1>1, <1>2, UnquotedOn
<1>7. /\ \A i \in 1..n : i \in Marked(v, c) <=> i \in Marked(t, c)
      /\ n + 1 \in Marked(v, c)
  <2>1. /\ \A i \in 1..Len(t) : i \in Marked(v, c) <=> i \in Marked(t, c)
        /\ \A i \in 1..Len(e) : Len(t) + i \in Marked(v, c) <=> i \in Marked(e, c)
    BY <1>2, MarkedOn
  <2>2. QED
    BY <1>1, <1>4, <2>1
<1>8. /\ \A i \in 1..Len(v) : i \in Marked(w, c) <=> i \in Marked(v, c)
      /\ \A i \in 1..Len(u) : Len(v) + i \in Marked(w, c) <=> i \in Marked(u, c)
  BY <1>3, <1>6, MarkedOn
<1>9. \A i \in 1..n : i \in 1..m
  BY <1>5
<1>10. Len(w) = Len(v) + Len(u)
  BY <1>3, TextConcat
<1>11. n + 1 \in Marked(w, c)
  <2>1. n + 1 \in 1..Len(v)
    BY <1>5
  <2>2. QED
    BY <1>7, <1>8, <2>1
<1>12. \A i \in 1..n : i \in Marked(w, c) <=> i \in Marked(t, c)
  BY <1>5, <1>7, <1>8, <1>9
<1>13. w = (t \o <<c>>) \o u
  BY <1>1, <1>2, <1>3
<1>14. Len(w) = Len(t) + 1 + Len(u)
  BY <1>4, <1>5, <1>10
<1>15. \A i \in 1..Len(u) : Len(t) + 1 + i \in Marked(w, c) <=> i \in Marked(u, c)
  BY <1>4, <1>5, <1>8
<1>16. QED
  BY <1>4, <1>11, <1>12, <1>13, <1>14, <1>15

(* The only one is the one that is found. *)
LEMMA FindOne ==
  ASSUME NEW t \in Text, NEW c \in Alphabet, NEW u \in Text, c # DQuote, Balanced(t),
         Marked(t, c) = {}, Marked(u, c) = {}
  PROVE  FindUnquoted((t \o <<c>>) \o u, c) = {Len(t) + 1}
<1>1. PICK w \in Text : w = (t \o <<c>>) \o u
  BY OneChar, TextConcat
<1>2. PICK n \in Nat, k \in Nat : n = Len(t) /\ k = Len(u)
  BY DEF Text
<1>3. /\ \A i \in 1..n : i \notin Marked(w, c)
      /\ n + 1 \in Marked(w, c)
      /\ \A i \in 1..k : n + 1 + i \notin Marked(w, c)
      /\ Len(w) = n + 1 + k
  BY <1>1, <1>2, MarkedAround
<1>4. Marked(w, c) \in SUBSET (1..Len(w))
  BY MarkedIn
<1>5. ASSUME NEW i \in Marked(w, c) PROVE i = n + 1
  <2>1. i \in 1 .. n + 1 + k
    BY <1>3, <1>4
  <2>2. ASSUME i > n + 1 PROVE FALSE
    <3>1. PICK j \in 1..k : i = n + 1 + j
      <4>1. i - (n + 1) \in 1..k /\ i = n + 1 + (i - (n + 1))
        BY <2>1, <2>2
      <4>2. QED
        BY <4>1
    <3>2. QED
      BY <1>3, <3>1
  <2>3. i \notin 1..n
    BY <1>3
  <2>4. QED
    BY <2>1, <2>2, <2>3
<1>6. PICK found : found = {i \in Unquoted(w) : w[i] = c}
  OBVIOUS
<1>7. found = {n + 1}
  BY <1>3, <1>5, <1>6 DEF Marked
<1>8. found \in SUBSET Nat /\ found # {}
  BY <1>7
<1>9. Min(found) = n + 1
  <2>1. Min(found) \in found
    BY <1>8, MinIsLeast
  <2>2. QED
    BY <1>7, <2>1
<1>10. FindUnquoted(w, c) = {Min(found)}
  BY <1>6, <1>8 DEF FindUnquoted
<1>11. QED
  BY <1>1, <1>2, <1>9, <1>10

(* A semicolon and a text without one: one more parameter. *)
LEMMA SemicolonsMore ==
  ASSUME NEW t \in Text, NEW u \in Text, Balanced(t), Marked(u, Semicolon) = {}
  PROVE  Semicolons((t \o <<Semicolon>>) \o u) = Append(Semicolons(t), u)
<1>1. PICK w : w = (t \o <<Semicolon>>) \o u
  OBVIOUS
<1>2. /\ \A i \in 1..Len(t) : i \in Marked(w, Semicolon) <=> i \in Marked(t, Semicolon)
      /\ Len(t) + 1 \in Marked(w, Semicolon)
      /\ \A i \in 1..Len(u) : Len(t) + 1 + i \in Marked(w, Semicolon) <=> i \in Marked(u, Semicolon)
  <2>1. Semicolon \in Alphabet /\ Semicolon # DQuote
    BY Characters DEF Semicolon, DQuote
  <2>2. QED
    BY <1>1, <2>1, MarkedAround
<1>3. \A i \in 1..Len(u) : Len(t) + 1 + i \notin Marked(w, Semicolon)
  BY <1>2
<1>4. SplitAt(w, Marked(w, Semicolon)) = Append(SplitAt(t, Marked(t, Semicolon)), u)
  <2>1. PICK cuts, before : cuts = Marked(w, Semicolon) /\ before = Marked(t, Semicolon)
    OBVIOUS
  <2>2. PICK c \in Alphabet : c = Semicolon
    BY Characters
  <2>3. CutBetween(t, u, before, cuts)
    BY <1>2, <1>3, <2>1 DEF CutBetween
  <2>4. SplitAt((t \o <<c>>) \o u, cuts) = Append(SplitAt(t, before), u)
    BY <2>3, CutOn
  <2>5. QED
    BY <1>1, <2>1, <2>2, <2>4
<1>5. QED
  BY <1>1, <1>4 DEF Semicolons, Marked

LEMMA SemicolonsNone == Semicolons(<<>>) = <<<<>>>>
<1>1. PICK t \in Text : t = <<>>
  BY EmptyText
<1>2. Marked(t, Semicolon) = {}
  <2>1. Len(t) = 0
    BY <1>1
  <2>2. QED
    BY <2>1, MarkedIn
<1>3. SplitAt(t, Marked(t, Semicolon)) = <<t>>
  BY <1>2, NoCut
<1>4. QED
  BY <1>1, <1>3 DEF Semicolons, Marked

(***************************************************************************)
(* How deep in lists a text is.                                            *)
(***************************************************************************)
(* What is noted down at each step, from the start on. *)
Notes(f, start, next, n) ==
  f[0] = <<start>> /\ \A i \in 0 .. n - 1 : f[i + 1] = Append(f[i], next[i][Last(f[i])])

Noted(s, start, next, n) ==
  Len(s) = n + 1 /\ s[1] = start /\ \A i \in 1..n : s[i + 1] = next[i - 1][s[i]]

(* A sequence to which each step appends what it makes of the last item. *)
LEMMA Recorded ==
  ASSUME NEW S, NEW start \in S, NEW n \in Nat, NEW next \in [0 .. n - 1 -> [S -> S]]
  PROVE  \E f \in [0..n -> Seq(S)] : Notes(f, start, next, n) /\ Noted(f[n], start, next, n)
<1>1. PICK g \in [0..n -> S] : Steps(g, start, next, n)
  BY Iterated
<1>2. g[0] = start /\ \A i \in 0 .. n - 1 : g[i + 1] = next[i][g[i]]
  BY <1>1 DEF Steps
<1> DEFINE f == [i \in 0..n |-> [j \in 1 .. i + 1 |-> g[j - 1]]]
<1>3. ASSUME NEW i \in 0..n
      PROVE  /\ f[i] \in Seq(S) /\ Len(f[i]) = i + 1
             /\ \A j \in 1 .. i + 1 : f[i][j] = g[j - 1]
  <2>1. \A j \in 1 .. i + 1 : g[j - 1] \in S
    OBVIOUS
  <2>2. f[i] \in [1 .. i + 1 -> S] /\ i + 1 \in Nat
    BY <2>1
  <2>3. \A j \in 1 .. i + 1 : f[i][j] = g[j - 1]
    OBVIOUS
  <2> HIDE DEF f
  <2>4. QED
    BY <2>2, <2>3, AsSequence
<1>4. f \in [0..n -> Seq(S)]
  <2>1. f = [i \in 0..n |-> f[i]]
    OBVIOUS
  <2> HIDE DEF f
  <2>2. QED
    BY <1>3, <2>1
<1>5. f[0] = <<start>>
  <2>1. f[0] \in Seq(S) /\ Len(f[0]) = 1 /\ f[0][1] = start
    BY <1>2, <1>3
  <2> HIDE DEF f
  <2>2. <<start>> \in Seq(S) /\ Len(<<start>>) = 1 /\ <<start>>[1] = start
    BY OneItem
  <2>3. QED
    BY <2>1, <2>2, SameItems
<1> HIDE DEF f
<1>6. ASSUME NEW i \in 0 .. n - 1 PROVE f[i + 1] = Append(f[i], next[i][Last(f[i])])
  <2>1. /\ f[i] \in Seq(S) /\ Len(f[i]) = i + 1
        /\ f[i + 1] \in Seq(S) /\ Len(f[i + 1]) = i + 2
        /\ \A j \in 1 .. i + 1 : f[i][j] = g[j - 1] /\ f[i + 1][j] = g[j - 1]
        /\ f[i + 1][i + 2] = g[i + 1]
    <3>1. i \in 0..n /\ i + 1 \in 0..n /\ (i + 1) + 1 = i + 2 /\ (i + 2) - 1 = i + 1
      OBVIOUS
    <3>2. i + 2 \in 1 .. (i + 1) + 1 /\ \A j \in 1 .. i + 1 : j \in 1 .. (i + 1) + 1
      OBVIOUS
    <3>3. QED
      BY <1>3, <3>1, <3>2
  <2>2. PICK s \in Seq(S), r \in Seq(S) : s = f[i] /\ r = f[i + 1]
    BY <2>1
  <2>3. Last(s) = g[i]
    <3>1. Last(s) = s[i + 1] /\ i + 1 \in 1 .. i + 1
      BY <2>1, <2>2 DEF Last
    <3>2. QED
      BY <2>1, <2>2, <3>1
  <2>4. PICK x \in S : x = next[i][g[i]] /\ x = g[i + 1]
    <3>1. g[i + 1] \in S
      OBVIOUS
    <3>2. QED
      BY <1>2, <3>1
  <2>5. r = Append(s, x)
    <3>1. Append(s, x) \in Seq(S) /\ Len(Append(s, x)) = i + 2
      BY <2>1, <2>2
    <3>2. ASSUME NEW j \in 1 .. i + 2 PROVE r[j] = Append(s, x)[j]
      <4>1. CASE j \in 1 .. i + 1
        BY <2>1, <2>2, <4>1
      <4>2. CASE j = i + 2
        BY <2>1, <2>2, <2>4, <4>2
      <4>3. j \in 1 .. i + 1 \/ j = i + 2
        OBVIOUS
      <4>4. QED
        BY <4>1, <4>2, <4>3
    <3>3. QED
      BY <2>1, <2>2, <3>1, <3>2, SameItems
  <2>6. QED
    BY <2>2, <2>3, <2>4, <2>5
<1>7. /\ f[n] \in Seq(S) /\ Len(f[n]) = n + 1 /\ \A j \in 1 .. n + 1 : f[n][j] = g[j - 1]
  BY <1>3
<1>8. ASSUME NEW i \in 1..n PROVE f[n][i + 1] = next[i - 1][f[n][i]]
  <2>1. i - 1 \in 0 .. n - 1 /\ (i - 1) + 1 = i /\ (i + 1) - 1 = i
    OBVIOUS
  <2>2. f[n][i] = g[i - 1] /\ f[n][i + 1] = g[i]
    BY <1>7, <2>1
  <2>3. QED
    BY <1>2, <2>1, <2>2
<1>9. f[n][1] = start
  BY <1>2, <1>7
<1>10. QED
  BY <1>4, <1>5, <1>6, <1>7, <1>8, <1>9 DEF Notes, Noted

NextDepth(t, depth, i) ==
  IF i \notin Unquoted(t) THEN depth
  ELSE IF t[i] = Open THEN depth + 1
  ELSE IF t[i] = Close /\ depth > 0 THEN depth - 1
  ELSE depth

(* A bracket outside of strings, and nothing else, changes the depth. *)
LEMMA DepthsAre ==
  ASSUME NEW t \in Text
  PROVE  /\ Depths(t)[1] = 0
         /\ \A i \in 1..Len(t) : Depths(t)[i + 1] = NextDepth(t, Depths(t)[i], i)
<1>1. PICK n \in Nat : n = Len(t)
  BY DEF Text
<1> DEFINE next == [i \in 0 .. n - 1 |-> [depth \in Nat |-> NextDepth(t, depth, i + 1)]]
<1>2. next \in [0 .. n - 1 -> [Nat -> Nat]]
  <2>1. ASSUME NEW i, NEW depth \in Nat PROVE NextDepth(t, depth, i) \in Nat
    BY DEF NextDepth
  <2>2. QED
    BY <2>1
<1>3. PICK f \in [0..n -> Seq(Nat)] : Notes(f, 0, next, n) /\ Noted(f[n], 0, next, n)
  <2> HIDE DEF next
  <2>1. 0 \in Nat
    OBVIOUS
  <2>2. QED
    BY <1>2, <2>1, Recorded
<1>4. \A i \in 0 .. n - 1, d \in Nat : next[i][d] = NextDepth(t, d, i + 1)
  OBVIOUS
<1> HIDE DEF next
<1>5. \A i \in 0..n : Len(f[i]) = i + 1
  <2> DEFINE D == {i \in 0..n : Len(f[i]) = i + 1}
  <2>1. 0 \in D
    <3>1. Len(<<0>>) = 1 /\ 0 \in 0..n
      OBVIOUS
    <3>2. f[0] = <<0>>
      BY <1>3 DEF Notes
    <3>3. Len(f[0]) = 0 + 1
      BY <3>1, <3>2
    <3>4. QED
      BY <3>1, <3>3
  <2>2. ASSUME NEW i \in 0 .. n - 1 PROVE i \in D => i + 1 \in D
    <3>1. i \in 0..n /\ i + 1 \in 0..n
      OBVIOUS
    <3>2. PICK s \in Seq(Nat) : s = f[i]
      BY <3>1
    <3>3. PICK x : x = next[i][Last(f[i])] /\ f[i + 1] = Append(f[i], x)
      BY <1>3 DEF Notes
    <3>4. Len(Append(s, x)) = Len(s) + 1
      OBVIOUS
    <3>5. QED
      BY <3>1, <3>2, <3>3, <3>4
  <2>3. \A i \in 0..n : i \in D
    <3> HIDE DEF D
    <3>1. QED
      BY <2>1, <2>2, InductionTo
  <2>4. QED
    BY <2>3
<1>6. ASSUME NEW i \in 0 .. n - 1 PROVE f[i + 1] = DepthsStep(t, f[i], i + 1)
  <2>1. f[i + 1] = Append(f[i], next[i][Last(f[i])])
    BY <1>3 DEF Notes
  <2>2. PICK d \in Nat : d = Last(f[i])
    <3>1. i \in 0..n
      OBVIOUS
    <3>2. PICK s \in Seq(Nat) : s = f[i] /\ Len(s) \in 1..Len(s)
      BY <1>5, <3>1
    <3>3. s[Len(s)] \in Nat
      BY <3>2
    <3>4. QED
      BY <3>2, <3>3 DEF Last
  <2>3. f[i + 1] = Append(f[i], NextDepth(t, d, i + 1))
    BY <1>4, <2>1, <2>2
  <2>4. QED
    BY <2>2, <2>3 DEF NextDepth, DepthsStep
<1>7. Depths(t) = f[n]
  <2>1. f[0] = <<0>>
    BY <1>3 DEF Notes
  <2>2. QED
    BY <1>1, <1>6, <2>1, DepthsRun, SMTT(30), ZenonT(60)
<1>8. f[n][1] = 0 /\ \A i \in 1..n : f[n][i] \in Nat /\ f[n][i + 1] = next[i - 1][f[n][i]]
  <2>1. n \in 0..n /\ f[n] \in Seq(Nat) /\ Len(f[n]) = n + 1
    BY <1>3 DEF Noted
  <2>2. \A i \in 1..n : f[n][i] \in Nat
    BY <2>1
  <2>3. QED
    BY <1>3, <2>2 DEF Noted
<1>9. ASSUME NEW i \in 1..n PROVE f[n][i + 1] = NextDepth(t, f[n][i], i)
  <2>1. i - 1 \in 0 .. n - 1 /\ (i - 1) + 1 = i
    OBVIOUS
  <2>2. QED
    BY <1>4, <1>8, <2>1
<1>10. QED
  BY <1>1, <1>7, <1>8, <1>9

(* Between the brackets of inner lists the depth stays what it is. *)
LEMMA FlatDepth ==
  ASSUME NEW t \in Text, NEW p \in 1 .. Len(t) + 1, NEW q \in p .. Len(t) + 1,
         \A i \in p .. q - 1 : i \notin Marked(t, Open) /\ i \notin Marked(t, Close)
  PROVE  Depths(t)[q] = Depths(t)[p]
<1>1. PICK n \in Nat : n = Len(t)
  BY DEF Text
<1>1a. PICK d : d = Depths(t)
  OBVIOUS
<1>2. p \in Nat /\ q \in Nat /\ p >= 1 /\ p <= q /\ q <= n + 1
  BY <1>1
<1> DEFINE D == {i \in 0 .. q - p : d[p + i] = d[p]}
<1>3. 0 \in D
  BY <1>2
<1>4. ASSUME NEW i \in 0 .. (q - p) - 1 PROVE i \in D => i + 1 \in D
  <2>1. /\ p + i \in p .. q - 1 /\ p + i \in 1..n /\ p + (i + 1) = (p + i) + 1
        /\ i + 1 \in 0 .. q - p
    BY <1>2
  <2>2. p + i \notin Unquoted(t) \/ (t[p + i] # Open /\ t[p + i] # Close)
    BY <2>1 DEF Marked
  <2>3. d[(p + i) + 1] = NextDepth(t, d[p + i], p + i)
    BY <1>1, <1>1a, <2>1, DepthsAre
  <2>4. d[(p + i) + 1] = d[p + i]
    BY <2>2, <2>3 DEF NextDepth
  <2>5. QED
    BY <2>1, <2>4
<1>5. q - p \in D
  <2> HIDE DEF D
  <2>1. q - p \in Nat
    BY <1>2
  <2>2. QED
    BY <1>3, <1>4, <2>1, InductionTo
<1>6. p + (q - p) = q
  BY <1>2
<1>7. QED
  BY <1>1a, <1>5, <1>6

(***************************************************************************)
(* Dictionaries of one member and of two.                                  *)
(***************************************************************************)
(* One member of a dictionary. *)
Entry(s, label, value) ==
  /\ s = (label \o <<Equals>>) \o value /\ Solid(label) /\ Solid(value)
  /\ \A i \in 1..Len(label) : label[i] # Equals

(* A label, an equals sign and a value are read as such, a space in front  *)
(* of them or not.                                                         *)
LEMMA EntryRead ==
  ASSUME NEW s, NEW label, NEW value, Entry(s, label, value)
  PROVE  /\ Solid(s) /\ SplitMember(s) = {<<label, value>>}
         /\ SplitMember(<<Space>> \o s) = {<<label, value>>}
<1>1. /\ label \in Text /\ value \in Text /\ Solid(label) /\ Solid(value)
      /\ s = (label \o <<Equals>>) \o value /\ \A i \in 1..Len(label) : label[i] # Equals
  BY DEF Entry, Solid
<1>2. PICK e \in Text : e = <<Equals>>
  BY Characters, OneChar
<1>3. Solid(s)
  BY <1>1, <1>2, SolidWrapped
<1>4. Trim(s) = s /\ Trim(<<Space>> \o s) = s
  BY <1>3, SolidTrim, BlankTrim
<1>5. SplitOnce(s) = {<<Trim(label), value>>}
  BY <1>1, SplitOnceIs
<1>6. Trim(label) = label /\ label # <<>>
  BY <1>1, SolidTrim DEF Solid
<1>7. SplitOnce(s) = {<<label, value>>}
  BY <1>5, <1>6
<1>8. PICK m : m = <<label, value>> /\ m[1] = label
  <2>1. <<label, value>>[1] = label
    OBVIOUS
  <2>2. QED
    BY <2>1
<1>9. {x \in {m} : x[1] # <<>>} = {m}
  BY <1>6, <1>8
<1>10. QED
  BY <1>3, <1>4, <1>7, <1>8, <1>9 DEF SplitMember

CommaCuts(text) == {i \in Unquoted(text) : text[i] = Comma /\ Depths(text)[i] = 0}

MembersRead(parts, e, n) ==
  /\ DOMAIN parts = 1..n /\ DOMAIN e = 1..n /\ e = [k \in 1..n |-> e[k]]
  /\ \A k \in 1..n : SplitMember(parts[k]) = {e[k]}

Repeated(e, n) == \E j, k \in 1..n : j < k /\ e[j][1] = e[k][1]

(* Parts that are each read as an entry make a dictionary, if no two have  *)
(* the same label.                                                         *)
LEMMA DictionaryIs ==
  ASSUME NEW text, NEW parts, parts = SplitAt(text, CommaCuts(text)),
         NEW n, NEW e, MembersRead(parts, e, n)
  PROVE  SplitDictionary(text) = IF Repeated(e, n) THEN {} ELSE {e}
<1>0. /\ DOMAIN parts = 1..n /\ DOMAIN e = 1..n /\ e = [k \in 1..n |-> e[k]]
      /\ \A k \in 1..n : SplitMember(parts[k]) = {e[k]}
  BY DEF MembersRead
<1> DEFINE members == [k \in DOMAIN parts |-> SplitMember(parts[k])]
           dict == [k \in DOMAIN members |-> CHOOSE m \in members[k] : TRUE]
<1>1. DOMAIN members = 1..n /\ \A k \in 1..n : members[k] = {e[k]}
  BY <1>0
<1>2. ~\E k \in DOMAIN members : members[k] = {}
  BY <1>1
<1>3. dict = e
  <2> HIDE DEF members
  <2>1. \A k \in 1..n : (CHOOSE m \in members[k] : TRUE) = e[k]
    BY <1>1
  <2>2. QED
    BY <1>0, <1>1, <2>1
<1>4. SplitDictionary(text) =
        IF \E k \in DOMAIN members : members[k] = {} THEN {}
        ELSE IF \E j, k \in DOMAIN dict : j < k /\ dict[j][1] = dict[k][1] THEN {} ELSE {dict}
  BY DEF SplitDictionary, CommaCuts
<1>5. QED
  <2> HIDE DEF members, dict
  <2>1. QED
    BY <1>0, <1>2, <1>3, <1>4 DEF Repeated

(* A dictionary of one entry, which has no comma in it. *)
LEMMA OneEntry ==
  ASSUME NEW s, NEW label, NEW value, Entry(s, label, value), Marked(s, Comma) = {}
  PROVE  SplitDictionary(s) = {<<<<label, value>>>>}
<1>1. s \in Text
  BY EntryRead DEF Solid
<1>2. PICK cuts : cuts = CommaCuts(s)
  OBVIOUS
<1>3. cuts = {}
  BY <1>2 DEF CommaCuts, Marked
<1>4. SplitAt(s, cuts) = <<s>>
  BY <1>1, <1>3, NoCut
<1>5. PICK parts, e, m : parts = <<s>> /\ e = <<m>> /\ m = <<label, value>>
  OBVIOUS
<1>6. MembersRead(parts, e, 1)
  BY <1>5, EntryRead DEF MembersRead
<1>7. SplitDictionary(s) = IF Repeated(e, 1) THEN {} ELSE {e}
  BY <1>2, <1>4, <1>5, <1>6, DictionaryIs
<1>8. ~Repeated(e, 1)
  BY DEF Repeated
<1>9. QED
  BY <1>5, <1>7, <1>8

LEMMA PairIs ==
  ASSUME NEW S, NEW x \in S, NEW y \in S
  PROVE  Append(<<x>>, y) = <<x, y>> /\ <<x>> \o <<y>> = <<x, y>>
<1>1. PICK a \in Seq(S), b \in Seq(S), p \in Seq(S) : a = <<x>> /\ b = <<y>> /\ p = <<x, y>>
  BY OneItem, TwoItems
<1>2. /\ Len(a) = 1 /\ a[1] = x /\ Len(b) = 1 /\ b[1] = y
      /\ Len(p) = 2 /\ p[1] = x /\ p[2] = y
  BY <1>1
<1>3. PICK r \in Seq(S) : r = Append(a, y) /\ Len(r) = 2 /\ r[1] = x /\ r[2] = y
  BY <1>2, AppendIs
<1>4. PICK q \in Seq(S) : q = a \o b /\ Len(q) = 2 /\ q[1] = x /\ q[2] = y
  <2>1. a \o b \in Seq(S) /\ Len(a \o b) = Len(a) + Len(b)
    BY Concatenated
  <2>2. (a \o b)[1] = a[1]
    <3>1. \A i \in 1..Len(a) : (a \o b)[i] = a[i]
      BY Concatenated
    <3>2. 1 \in 1..Len(a)
      BY <1>2
    <3>3. QED
      BY <3>1, <3>2
  <2>3. (a \o b)[Len(a) + 1] = b[1]
    <3>1. \A i \in 1..Len(b) : (a \o b)[Len(a) + i] = b[i]
      BY Concatenated
    <3>2. 1 \in 1..Len(b)
      BY <1>2
    <3>3. QED
      BY <3>1, <3>2
  <2>4. PICK q \in Seq(S) : q = a \o b
    BY <2>1
  <2>5. Len(q) = 1 + 1 /\ q[1 + 1] = y /\ q[1] = x
    BY <1>2, <2>1, <2>2, <2>3, <2>4
  <2>6. 1 + 1 = 2
    OBVIOUS
  <2>7. QED
    BY <2>4, <2>5, <2>6
<1>5. r = p /\ q = p
  <2>1. \A i \in 1..2 : r[i] = p[i] /\ q[i] = p[i]
    <3>1. \A i \in 1..2 : i = 1 \/ i = 2
      OBVIOUS
    <3>2. QED
      BY <1>2, <1>3, <1>4, <3>1
  <2>2. QED
    BY <1>2, <1>3, <1>4, <2>1, SameItems
<1>6. QED
  BY <1>1, <1>3, <1>4, <1>5

(* w is s and t with a comma between them, outside of any list. *)
Comprises(w, s, t) ==
  w = (s \o <<Comma>>) \o (<<Space>> \o t) /\ Depths(w)[Len(s) + 1] = 0

ReadsAsTwo(w, l, v, k, u) ==
  SplitDictionary(w) = IF l = k THEN {} ELSE {<<<<l, v>>, <<k, u>>>>}

(* And of two, with a comma between them and nowhere else. *)
LEMMA TwoEntries ==
  ASSUME NEW s, NEW l, NEW v, Entry(s, l, v), NEW t, NEW k, NEW u, Entry(t, k, u),
         Marked(s, Comma) = {}, Marked(t, Comma) = {}, Balanced(s),
         NEW w, Comprises(w, s, t)
  PROVE  ReadsAsTwo(w, l, v, k, u)
<1>h. w = (s \o <<Comma>>) \o (<<Space>> \o t) /\ Depths(w)[Len(s) + 1] = 0
  BY DEF Comprises
<1>1. s \in Text /\ t \in Text
  BY EntryRead DEF Solid
<1>2. PICK c \in Alphabet : c = Comma /\ c # DQuote
  BY Characters DEF Comma, DQuote
<1>3. PICK b \in Text : b = <<Space>> /\ Balanced(b) /\ Marked(b, c) = {}
  <2>1. Space \in Alphabet /\ Space # DQuote /\ Comma \notin {Space}
    BY Characters DEF Comma, DQuote, Space
  <2>2. Tidy(<<Space>>, {Space})
    BY <2>1, TidyChar
  <2>3. Marked(<<Space>>, Comma) = {}
    BY <2>1, <2>2, NoneMarked
  <2>4. QED
    BY <1>2, <2>2, <2>3 DEF Tidy
<1>4. PICK r \in Text : r = b \o t
  BY <1>1, TextConcat
<1>5. Marked(r, c) = {}
  <2>1. /\ \A i \in 1..Len(b) : i \in Marked(r, c) <=> i \in Marked(b, c)
        /\ \A i \in 1..Len(t) : Len(b) + i \in Marked(r, c) <=> i \in Marked(t, c)
    BY <1>1, <1>3, <1>4, MarkedOn
  <2>2. PICK m \in Nat, n \in Nat : m = Len(b) /\ n = Len(t) /\ Len(r) = m + n
    BY <1>1, <1>4, TextConcat DEF Text
  <2>3. ASSUME NEW i \in 1 .. m + n PROVE i \notin Marked(r, c)
    <3>1. CASE i <= m
      BY <1>3, <2>1, <2>2, <3>1
    <3>2. CASE i > m
      <4>1. PICK j \in 1..n : i = m + j
        <5>1. i - m \in 1..n /\ i = m + (i - m)
          BY <3>2
        <5>2. QED
          BY <5>1
      <4>2. QED
        BY <1>2, <2>1, <2>2, <4>1
    <3>3. QED
      BY <3>1, <3>2
  <2>4. QED
    BY <2>2, <2>3, MarkedIn
<1>6. w = (s \o <<c>>) \o r
  BY <1>h, <1>2, <1>3, <1>4
<1>7. /\ \A i \in 1..Len(s) : i \in Marked(w, c) <=> i \in Marked(s, c)
      /\ Len(s) + 1 \in Marked(w, c)
      /\ \A i \in 1..Len(r) : Len(s) + 1 + i \in Marked(w, c) <=> i \in Marked(r, c)
  BY <1>1, <1>2, <1>6, MarkedAround
<1>8. PICK cuts : cuts = CommaCuts(w)
  OBVIOUS
<1>0. PICK none : none = {}
  OBVIOUS
<1>9. CutBetween(s, r, none, cuts)
  <2>1. \A i : i \in cuts <=> i \in Marked(w, c) /\ Depths(w)[i] = 0
    BY <1>2, <1>8 DEF CommaCuts, Marked
  <2>2. QED
    BY <1>h, <1>0, <1>2, <1>5, <1>7, <2>1 DEF CutBetween
<1>10. SplitAt(w, cuts) = Append(SplitAt(s, none), r)
  <2>1. SplitAt((s \o <<c>>) \o r, cuts) = Append(SplitAt(s, none), r)
    BY <1>1, <1>9, CutOn
  <2>2. QED
    BY <1>6, <2>1
<1>11. SplitAt(s, none) = <<s>>
  BY <1>0, <1>1, NoCut
<1>12. PICK parts, e, m, x : parts = <<s, r>> /\ e = <<m, x>> /\ m = <<l, v>> /\ x = <<k, u>>
  OBVIOUS
<1>13. SplitAt(w, cuts) = parts
  <2>1. Append(<<s>>, r) = <<s, r>>
    BY <1>1, <1>4, PairIs
  <2>2. QED
    BY <1>10, <1>11, <1>12, <2>1
<1>14. SplitMember(s) = {m} /\ SplitMember(r) = {x}
  BY <1>3, <1>4, <1>12, EntryRead
<1>15. MembersRead(parts, e, 2)
  BY <1>12, <1>14 DEF MembersRead
<1>16. SplitDictionary(w) = IF Repeated(e, 2) THEN {} ELSE {e}
  BY <1>8, <1>13, <1>15, DictionaryIs
<1>17. Repeated(e, 2) <=> l = k
  <2>1. e[1][1] = l /\ e[2][1] = k
    BY <1>12
  <2>2. \A i, j \in 1..2 : i < j <=> i = 1 /\ j = 2
    OBVIOUS
  <2>3. QED
    BY <2>1, <2>2 DEF Repeated
<1>18. QED
  BY <1>12, <1>16, <1>17 DEF ReadsAsTwo

Spreads(a, b, x, y) == (a \o <<x, y>>) \o b = (a \o <<x>>) \o (<<y>> \o b)

LEMMA Spread ==
  ASSUME NEW a \in Text, NEW b \in Text, NEW x \in Alphabet, NEW y \in Alphabet
  PROVE  Spreads(a, b, x, y)
<1>1. PICK p \in Text, q \in Text : p = <<x>> /\ q = <<y>> /\ p \o q = <<x, y>>
  <2>1. <<x>> \o <<y>> = <<x, y>>
    BY PairIs
  <2>2. QED
    BY <2>1, OneChar
<1>2. a \o (p \o q) = (a \o p) \o q
  BY TextAssociative DEF Associates
<1>3. PICK c \in Text : c = a \o p
  BY TextConcat
<1>4. (c \o q) \o b = c \o (q \o b)
  BY TextAssociative DEF Associates
<1>5. QED
  BY <1>1, <1>2, <1>3, <1>4 DEF Spreads

(* The depth that a text leaves off at. *)
EndDepth(t) == Depths(t)[Len(t) + 1]

Bracketless(t) == Marked(t, Open) = {} /\ Marked(t, Close) = {}

(* What follows a text changes nothing about where it leaves off. *)
LEMMA DepthOn ==
  ASSUME NEW t \in Text, NEW u \in Text
  PROVE  Depths(t \o u)[Len(t) + 1] = EndDepth(t)
<1>1. PICK n \in Nat, k \in Nat : n = Len(t) /\ k = Len(u)
  BY DEF Text
<1>2. PICK w \in Text : w = t \o u
  BY TextConcat
<1>3. Len(w) = n + k /\ \A i \in 1..n : w[i] = t[i]
  BY <1>1, <1>2, TextConcat
<1>4. PICK a, c : a = Depths(t) /\ c = Depths(w)
  OBVIOUS
<1>5. /\ a[1] = 0 /\ c[1] = 0
      /\ \A i \in 1..n : a[i + 1] = NextDepth(t, a[i], i)
      /\ \A i \in 1 .. n + k : c[i + 1] = NextDepth(w, c[i], i)
  BY <1>1, <1>3, <1>4, DepthsAre
<1>6. \A i \in 1..n : i \in Unquoted(w) <=> i \in Unquoted(t)
  BY <1>1, <1>2, UnquotedOn
<1>7. \A i \in 1..n : a[i] = c[0 + i] => a[i + 1] = c[0 + (i + 1)]
  <2>1. ASSUME NEW i \in 1..n, a[i] = c[0 + i] PROVE a[i + 1] = c[0 + (i + 1)]
    <3>1. i \in 1 .. n + k /\ 0 + i = i /\ 0 + (i + 1) = i + 1
      OBVIOUS
    <3>2. NextDepth(w, c[i], i) = NextDepth(t, c[i], i)
      BY <1>3, <1>6 DEF NextDepth
    <3>3. QED
      BY <1>5, <2>1, <3>1, <3>2
  <2>2. QED
    BY <2>1
<1>8. a[1] = c[0 + 1]
  BY <1>5
<1>9. \A i \in 1 .. n + 1 : a[i] = c[0 + i]
  <2>1. PICK z \in Nat : z = 0
    OBVIOUS
  <2>2. GoesAlike(n, a, c, z)
    BY <1>7, <1>8, <2>1 DEF GoesAlike
  <2>3. Alike(n, a, c, z)
    BY <2>2, SameScan
  <2>4. QED
    BY <2>1, <2>3 DEF Alike
<1>10. n + 1 \in 1 .. n + 1 /\ 0 + (n + 1) = n + 1
  OBVIOUS
<1>11. QED
  BY <1>1, <1>2, <1>4, <1>9, <1>10 DEF EndDepth

(* Without brackets the depth stays. *)
LEMMA DepthFlat ==
  ASSUME NEW t \in Text, NEW u \in Text, Balanced(t), Bracketless(u)
  PROVE  EndDepth(t \o u) = EndDepth(t)
<1>1. PICK n \in Nat, k \in Nat : n = Len(t) /\ k = Len(u)
  BY DEF Text
<1>2. PICK w \in Text : w = t \o u
  BY TextConcat
<1>3. Len(w) = n + k
  BY <1>1, <1>2, TextConcat
<1>4. \A c : \A i \in 1..k : n + i \in Marked(w, c) <=> i \in Marked(u, c)
  BY <1>1, <1>2, MarkedOn
<1>5. PICK p, q : p = n + 1 /\ q = n + k + 1
  OBVIOUS
<1>6. p \in 1 .. Len(w) + 1 /\ q \in p .. Len(w) + 1
  BY <1>3, <1>5
<1>7. ASSUME NEW i \in p .. q - 1 PROVE i \notin Marked(w, Open) /\ i \notin Marked(w, Close)
  <2>1. i - n \in 1..k /\ n + (i - n) = i
    BY <1>5
  <2>2. QED
    BY <1>4, <2>1 DEF Bracketless
<1>8. Depths(w)[q] = Depths(w)[p]
  BY <1>6, <1>7, FlatDepth
<1>9. Depths(w)[p] = EndDepth(t)
  BY <1>1, <1>2, <1>5, DepthOn
<1>10. EndDepth(w) = Depths(w)[q]
  BY <1>3, <1>5 DEF EndDepth
<1>11. QED
  BY <1>2, <1>8, <1>9, <1>10

LEMMA DepthNone ==
  ASSUME NEW t \in Text, Bracketless(t)
  PROVE  EndDepth(t) = 0
<1>1. PICK n \in Nat : n = Len(t)
  BY DEF Text
<1>2. PICK p, q : p = 1 /\ q = n + 1
  OBVIOUS
<1>3. p \in 1 .. Len(t) + 1 /\ q \in p .. Len(t) + 1
  BY <1>1, <1>2
<1>4. \A i \in p .. q - 1 : i \notin Marked(t, Open) /\ i \notin Marked(t, Close)
  BY DEF Bracketless
<1>5. Depths(t)[q] = Depths(t)[p]
  BY <1>3, <1>4, FlatDepth
<1>6. QED
  BY <1>1, <1>2, <1>5, DepthsAre DEF EndDepth

(* A bracket steps in, or out. *)
LEMMA DepthAfter ==
  ASSUME NEW t \in Text, NEW c \in {Open, Close}, Balanced(t)
  PROVE  EndDepth(t \o <<c>>) =
           IF c = Open THEN EndDepth(t) + 1
           ELSE IF EndDepth(t) > 0 THEN EndDepth(t) - 1 ELSE EndDepth(t)
<1>1. c \in Alphabet /\ c # DQuote /\ Open # Close
  BY Characters DEF Open, Close, DQuote
<1>2. PICK b \in Text : b = <<c>> /\ Len(b) = 1
  BY <1>1, OneChar
<1>3. PICK n \in Nat : n = Len(t)
  BY DEF Text
<1>4. PICK w \in Text : w = t \o b
  BY TextConcat
<1>5. Len(w) = n + 1
  BY <1>2, <1>3, <1>4, TextConcat
<1>6. n + 1 \in Marked(w, c)
  <2>1. Marked(b, c) = {1}
    BY <1>1, <1>2, TidyChar
  <2>2. 1 \in 1..Len(b)
    BY <1>2
  <2>3. QED
    BY <1>3, <1>4, <2>1, <2>2, MarkedOn
<1>7. n + 1 \in Unquoted(w) /\ w[n + 1] = c
  BY <1>6 DEF Marked
<1>8. Depths(w)[(n + 1) + 1] = NextDepth(w, Depths(w)[n + 1], n + 1)
  <2>1. n + 1 \in 1..Len(w)
    BY <1>5
  <2>2. QED
    BY <2>1, DepthsAre
<1>9. Depths(w)[n + 1] = EndDepth(t)
  BY <1>3, <1>4, DepthOn
<1>10. EndDepth(w) = NextDepth(w, EndDepth(t), n + 1)
  BY <1>5, <1>8, <1>9 DEF EndDepth
<1>11. QED
  BY <1>1, <1>2, <1>4, <1>7, <1>10 DEF NextDepth

(***************************************************************************)
(* One parameter, read behind those before it.                             *)
(***************************************************************************)
(* One parameter as it is written behind its semicolon. *)
ParamBody(name, val) == (<<name>> \o <<Equals>>) \o val

LEMMA BodyType ==
  ASSUME NEW name \in Alphabet, NEW val \in Text
  PROVE  ParamBody(name, val) \in Text
<1>1. <<name>> \in Text /\ <<Equals>> \in Text
  BY Characters, OneChar
<1>2. QED
  BY <1>1, TextConcat DEF ParamBody

(* A name and a value come apart at the equals sign. *)
LEMMA BodySplit ==
  ASSUME NEW name \in Alphabet, name \notin Blanks, name # Equals, NEW val \in Text
  PROVE  SplitOnce(ParamBody(name, val)) = {<<<<name>>, val>>}
<1>1. PICK s \in Text : s = <<name>> /\ Len(s) = 1 /\ s[1] = name
  BY OneChar
<1>2. \A i \in 1..Len(s) : s[i] # Equals
  BY <1>1
<1>3. SplitOnce((s \o <<Equals>>) \o val) = {<<Trim(s), val>>}
  BY <1>2, SplitOnceIs
<1>4. Trim(s) = s
  BY <1>1, SolidTrim DEF Solid
<1>5. QED
  BY <1>1, <1>3, <1>4 DEF ParamBody

(* So a parameter is read as what its value reads as. *)
LEMMA ReadParamIs ==
  ASSUME NEW q, NEW name \in ToSet(Order), name \notin Blanks, name # Equals, NEW val, Solid(val)
  PROVE  ReadParam(q, ParamBody(name, val)) =
           {[q EXCEPT ![name] = {v}] : v \in ParamValue(name, val)}
<1>1. name \in Alphabet /\ val \in Text
  BY DEF Alphabet, Literals, Solid
<1>2. PICK part : part = ParamBody(name, val)
  OBVIOUS
<1>3. PICK s, p : s = <<name>> /\ p = <<s, val>>
  OBVIOUS
<1>4. p[1] = s /\ p[2] = val /\ Len(s) = 1 /\ s[1] = name
  BY <1>3
<1>5. SplitOnce(part) = {p}
  BY <1>1, <1>2, <1>3, BodySplit
<1>6. (CHOOSE x \in SplitOnce(part) : TRUE) = p
  BY <1>5
<1>7. Trim(val) = val
  BY SolidTrim
<1>8. QED
  BY <1>2, <1>4, <1>5, <1>6, <1>7 DEF ReadParam

(* A bare name counts for wimse-sign-response. *)
LEMMA ReadBare ==
  ASSUME NEW q, SignResponse \in Alphabet, SignResponse \notin Blanks, SignResponse # Equals
  PROVE  ReadParam(q, <<SignResponse>>) = {[q EXCEPT ![SignResponse] = {TRUE}]}
<1>1. PICK s \in Text : s = <<SignResponse>> /\ Len(s) = 1 /\ s[1] = SignResponse
  BY OneChar
<1>2. SplitOnce(s) = {}
  BY <1>1, NotSplit
<1>3. Trim(s) = s
  BY <1>1, SolidTrim DEF Solid
<1>4. QED
  BY <1>1, <1>2, <1>3 DEF ReadParam

LEMMA ReadEmpty == ASSUME NEW q PROVE ReadParam(q, <<>>) = {q}
<1>1. PICK s \in Text : s = <<>> /\ Len(s) = 0
  BY EmptyText
<1>2. SplitOnce(s) = {}
  BY <1>1, NotSplit
<1>3. Trim(s) # <<SignResponse>>
  <2>1. Len(<<SignResponse>>) = 1
    OBVIOUS
  <2>2. Trim(s) = s
    BY <1>1, EmptyTrim
  <2>3. QED
    BY <1>1, <2>1, <2>2
<1>4. QED
  BY <1>1, <1>2, <1>3 DEF ReadParam

(***************************************************************************)
(* Parameter after parameter.                                              *)
(***************************************************************************)
ReadsAs(f, parts, n, q) ==
  /\ n \in Nat /\ n = Len(parts) /\ f[0] = {NoParams} /\ f[n] = {q}
  /\ \A i \in 0 .. n - 1 : f[i + 1] = ReadStep(parts, f[i], i + 1)

ReadTo(t, q) == \E f, n : ReadsAs(f, Semicolons(t), n, q)

LEMMA ReadDone ==
  ASSUME NEW t, NEW q, ReadTo(t, q)
  PROVE  ReadParams(t) = {q}
<1>1. PICK f, n : ReadsAs(f, Semicolons(t), n, q)
  BY DEF ReadTo
<1>2. PICK g : g = [i \in 0..n |-> f[i]]
  OBVIOUS
<1>3. n \in Nat /\ n = Len(Semicolons(t))
  BY <1>1 DEF ReadsAs
<1>4. PICK S : S = {f[i] : i \in 0..n}
  OBVIOUS
<1>5. g \in [0..n -> S]
  BY <1>2, <1>4
<1>6. 0 \in 0..n /\ n \in 0..n
  BY <1>3
<1>7. g[0] = {NoParams} /\ g[n] = {q}
  BY <1>1, <1>2, <1>6 DEF ReadsAs
<1>8. ASSUME NEW i \in 0 .. n - 1 PROVE g[i + 1] = ReadStep(Semicolons(t), g[i], i + 1)
  <2>1. i \in 0..n /\ i + 1 \in 0..n
    BY <1>3
  <2>2. g[i] = f[i] /\ g[i + 1] = f[i + 1]
    BY <1>2, <2>1
  <2>3. QED
    BY <1>1, <2>2 DEF ReadsAs
<1>9. QED
  BY <1>3, <1>5, <1>7, <1>8, ReadRun, SMTT(30), ZenonT(60)

LEMMA SemicolonsType == ASSUME NEW t \in Text PROVE Semicolons(t) \in TextParts
<1>1. QED
  BY SplitAtType DEF Semicolons, Text, TextParts

(* One parameter more is read behind all before it. *)
LEMMA ReadMore ==
  ASSUME NEW t \in Text, NEW u \in Text, NEW w, Semicolons(w) = Append(Semicolons(t), u),
         NEW q, ReadTo(t, q), NEW r, ReadParam(q, u) = {r}
  PROVE  ReadTo(w, r)
<1>1. PICK f, n : ReadsAs(f, Semicolons(t), n, q)
  BY DEF ReadTo
<1>2. PICK parts \in Seq(Text) : parts = Semicolons(t)
  BY SemicolonsType DEF TextParts, Parts, Text
<1>3. /\ n \in Nat /\ n = Len(parts) /\ f[0] = {NoParams} /\ f[n] = {q}
      /\ \A i \in 0 .. n - 1 : f[i + 1] = ReadStep(parts, f[i], i + 1)
  BY <1>1, <1>2 DEF ReadsAs
<1>4. PICK more \in Seq(Text) : more = Append(parts, u)
  BY AppendType
<1>5. Len(more) = n + 1 /\ more[n + 1] = u /\ \A i \in 1..n : more[i] = parts[i]
  BY <1>3, <1>4, AppendIs
<1>6. PICK g : g = [i \in 0 .. n + 1 |-> IF i = n + 1 THEN {r} ELSE f[i]]
  OBVIOUS
<1>7. g[n + 1] = {r} /\ \A i \in 0..n : g[i] = f[i]
  BY <1>3, <1>6
<1>8. ASSUME NEW i \in 0..n PROVE g[i + 1] = ReadStep(more, g[i], i + 1)
  <2>1. CASE i = n
    <3>1. g[i] = {q} /\ more[i + 1] = u /\ g[i + 1] = {r}
      BY <1>3, <1>5, <1>7, <2>1
    <3>2. ReadStep(more, {q}, i + 1) = ReadParam(q, more[i + 1])
      BY DEF ReadStep
    <3>3. QED
      BY <3>1, <3>2
  <2>2. CASE i # n
    <3>1. i \in 0 .. n - 1 /\ i + 1 \in 0..n /\ i + 1 \in 1..n
      BY <1>3, <2>2
    <3>2. g[i] = f[i] /\ g[i + 1] = f[i + 1] /\ more[i + 1] = parts[i + 1]
      BY <1>5, <1>7, <3>1
    <3>3. f[i + 1] = ReadStep(parts, f[i], i + 1)
      BY <1>3, <3>1
    <3>4. QED
      BY <3>2, <3>3 DEF ReadStep
  <2>3. QED
    BY <2>1, <2>2
<1>9. PICK m \in Nat : m = n + 1 /\ m - 1 = n
  BY <1>3
<1>10. ReadsAs(g, more, m, r)
  <2>1. g[0] = {NoParams}
    BY <1>3, <1>7
  <2>2. QED
    BY <1>5, <1>7, <1>8, <1>9, <2>1 DEF ReadsAs
<1>11. QED
  BY <1>2, <1>4, <1>10 DEF ReadTo

LEMMA ReadNone == ReadTo(<<>>, NoParams)
<1>1. PICK parts : parts = <<<<>>>> /\ Len(parts) = 1 /\ parts[1] = <<>>
  BY EmptyText, OneItem
<1>2. PICK f : f = [i \in 0..1 |-> {NoParams}]
  OBVIOUS
<1>3. f[0] = {NoParams} /\ f[1] = {NoParams}
  BY <1>2
<1>4. ReadStep(parts, {NoParams}, 1) = {NoParams}
  <2>1. ReadStep(parts, {NoParams}, 1) = ReadParam(NoParams, parts[1])
    BY DEF ReadStep
  <2>2. QED
    BY <1>1, <2>1, ReadEmpty
<1>5. ASSUME NEW i \in 0 .. 1 - 1 PROVE f[i + 1] = ReadStep(parts, f[i], i + 1)
  <2>1. i = 0 /\ i + 1 = 1
    OBVIOUS
  <2>2. QED
    BY <1>3, <1>4, <2>1
<1>6. ReadsAs(f, parts, 1, NoParams)
  BY <1>1, <1>3, <1>5 DEF ReadsAs
<1>7. QED
  BY <1>1, <1>6, SemicolonsNone DEF ReadTo

(***************************************************************************)
(* The tags among the parameters.                                          *)
(***************************************************************************)
TagOf(part) ==
  {ParseSfString(Trim(pair[2])) : pair \in {pair \in SplitOnce(part) : pair[1] = <<"tag">>}}
Tags(t) == UNION {TagOf(part) : part \in ToSet(Semicolons(t))}

(* And so are the tags among them. *)
LEMMA TagsMore ==
  ASSUME NEW t \in Text, NEW u \in Text, NEW w, Semicolons(w) = Append(Semicolons(t), u)
  PROVE  Tags(w) = Tags(t) \cup TagOf(u)
<1>1. PICK parts \in Seq(Text) : parts = Semicolons(t)
  BY SemicolonsType DEF TextParts, Parts, Text
<1>2. PICK n \in Nat : n = Len(parts)
  OBVIOUS
<1>3. PICK more \in Seq(Text) : more = Append(parts, u)
  BY AppendType
<1>4. Len(more) = n + 1 /\ more[n + 1] = u /\ \A i \in 1..n : more[i] = parts[i]
  BY <1>2, <1>3, AppendIs
<1>5. ToSet(more) = ToSet(parts) \cup {u}
  <2>1. DOMAIN parts = 1..n /\ DOMAIN more = 1 .. n + 1
    BY <1>2, <1>4
  <2>2. \A i \in 1 .. n + 1 : i \in 1..n \/ i = n + 1
    OBVIOUS
  <2>3. n + 1 \in 1 .. n + 1 /\ \A i \in 1..n : i \in 1 .. n + 1
    OBVIOUS
  <2>4. QED
    BY <1>4, <2>1, <2>2, <2>3 DEF ToSet
<1>6. QED
  BY <1>1, <1>3, <1>5 DEF Tags

(***************************************************************************)
(* Parameters as they are written.                                         *)
(***************************************************************************)
(* What stands outside strings in one parameter, and in several. *)
Quiet == Alphabet \ {DQuote, Comma, Open, Close, Semicolon}
Plain == Alphabet \ {DQuote, Comma, Open, Close}

LEMMA Atom ==
  ASSUME NEW c \in Quiet
  PROVE  c \in Alphabet /\ Tidy(<<c>>, Quiet) /\ (c \notin Blanks => Solid(<<c>>))
<1>1. c \in Alphabet /\ c # DQuote
  BY DEF Quiet
<1>2. {c} \subseteq Quiet
  OBVIOUS
<1>3. Tidy(<<c>>, Quiet)
  BY <1>1, <1>2, TidyChar, TidyMore
<1>4. PICK s \in Text : s = <<c>> /\ Len(s) = 1 /\ s[1] = c
  BY <1>1, OneChar
<1>5. QED
  BY <1>1, <1>3, <1>4 DEF Solid

LEMMA EqualsQuiet == Equals \in Quiet /\ Equals \notin Blanks
  BY Characters DEF Quiet, Blanks, Equals, DQuote, Comma, Open, Close, Semicolon, Space, LineFeed

(* Nothing in a parameter passes for another delimiter. *)
LEMMA BodyShape ==
  ASSUME NEW name \in Quiet, name \notin Blanks, NEW val, Tidy(val, Quiet), Solid(val)
  PROVE  ParamBody(name, val) \in Text /\ Tidy(ParamBody(name, val), Quiet) /\ Solid(ParamBody(name, val))
<1>1. PICK s \in Text, e \in Text : s = <<name>> /\ e = <<Equals>>
  BY Atom, EqualsQuiet, OneChar
<1>2. Tidy(s, Quiet) /\ Tidy(e, Quiet) /\ Solid(s)
  BY <1>1, Atom, EqualsQuiet
<1>3. PICK a : a = s \o e
  OBVIOUS
<1>4. Tidy(a, Quiet)
  BY <1>2, <1>3, TidyOn
<1>5. Tidy(a \o val, Quiet)
  BY <1>4, TidyOn
<1>6. Solid(a \o val)
  BY <1>1, <1>2, <1>3, SolidWrapped
<1>7. QED
  BY <1>1, <1>3, <1>5, <1>6 DEF ParamBody, Tidy

(* Nor does anything in a string, whatever its value. *)
LEMMA StringShape ==
  ASSUME NEW v \in Text
  PROVE  SfString(v) \in Text /\ Tidy(SfString(v), Quiet) /\ Solid(SfString(v))
<1>1. PICK q \in Text : q = SfString(v)
  BY SfStringType
<1>2. Tidy(q, Quiet)
  BY <1>1, SfStringTidy, TidyMore
<1>3. PICK at : WrittenAt(q, v, at)
  BY <1>1, SfStringIs
<1>4. PICK n \in Nat : n = Len(v)
  BY DEF Text
<1>5. PICK m \in Nat : m = at[n]
  <2>1. n \in 0..Len(v)
    BY <1>4
  <2>2. QED
    BY <1>3, <2>1 DEF WrittenAt
<1>6. q[1] = DQuote /\ Len(q) = m + 1 /\ q[m + 1] = DQuote
  BY <1>3, <1>4, <1>5 DEF WrittenAt
<1>7. DQuote \notin Blanks
  BY DEF DQuote, Blanks, Space, LineFeed
<1>8. Len(q) >= 1
  BY <1>6
<1>9. QED
  BY <1>1, <1>2, <1>6, <1>7, <1>8 DEF Solid

(***************************************************************************)
(* What a text of parameters says.                                         *)
(***************************************************************************)
Spelled(t, q, T) == Tidy(t, Plain) /\ ReadTo(t, q) /\ Tags(t) = T


(* What is spelled goes on with one parameter more. *)
LEMMA SpellMore ==
  ASSUME NEW t, NEW q, NEW T, Spelled(t, q, T), NEW u, Tidy(u, Quiet),
         NEW r, ReadParam(q, u) = {r}
  PROVE  Spelled((t \o <<Semicolon>>) \o u, r, T \cup TagOf(u))
<1>1. t \in Text /\ u \in Text /\ Balanced(t) /\ Tidy(t, Plain)
  BY DEF Spelled, Tidy
<1>2. Marked(u, Semicolon) = {}
  BY NoneMarked DEF Quiet
<1>3. PICK w : w = (t \o <<Semicolon>>) \o u
  OBVIOUS
<1>4. Semicolons(w) = Append(Semicolons(t), u)
  BY <1>1, <1>2, <1>3, SemicolonsMore
<1>5. ReadTo(w, r)
  BY <1>1, <1>4, ReadMore DEF Spelled
<1>6. Tags(w) = T \cup TagOf(u)
  BY <1>1, <1>4, TagsMore DEF Spelled
<1>7. Tidy(w, Plain)
  <2>1. Semicolon \in Alphabet /\ Semicolon # DQuote /\ {Semicolon} \subseteq Plain
    BY Characters DEF Plain, Semicolon, DQuote, Comma, Open, Close
  <2>2. Tidy(<<Semicolon>>, Plain)
    BY <2>1, TidyChar, TidyMore
  <2>3. Tidy(t \o <<Semicolon>>, Plain)
    BY <1>1, <2>2, TidyOn
  <2>4. Tidy(u, Plain)
    <3>1. Quiet \subseteq Plain
      BY DEF Quiet, Plain
    <3>2. QED
      BY <3>1, TidyMore
  <2>5. QED
    BY <1>3, <2>3, <2>4, TidyOn
<1>8. QED
  BY <1>3, <1>5, <1>6, <1>7 DEF Spelled

(* A parameter is a tag only by its name. *)
LEMMA BodyTag ==
  ASSUME NEW name \in Alphabet, name \notin Blanks, name # Equals, NEW val, Solid(val)
  PROVE  TagOf(ParamBody(name, val)) = IF name = "tag" THEN {ParseSfString(val)} ELSE {}
<1>1. val \in Text /\ Trim(val) = val
  BY SolidTrim DEF Solid
<1>2. PICK s, g, p : s = <<name>> /\ g = <<"tag">> /\ p = <<s, val>>
  OBVIOUS
<1>3. p[1] = s /\ p[2] = val /\ (s = g <=> name = "tag")
  BY <1>2
<1>4. SplitOnce(ParamBody(name, val)) = {p}
  BY <1>1, <1>2, BodySplit
<1>5. {pair \in {p} : pair[1] = g} = IF s = g THEN {p} ELSE {}
  BY <1>3
<1>6. CASE s = g
  BY <1>1, <1>2, <1>3, <1>4, <1>5, <1>6 DEF TagOf
<1>7. CASE s # g
  BY <1>1, <1>2, <1>3, <1>4, <1>5, <1>7 DEF TagOf
<1>8. QED
  BY <1>6, <1>7

LEMMA EmptyConcat ==
  ASSUME NEW S, NEW t \in Seq(S) PROVE <<>> \o t = t /\ t \o <<>> = t
  OBVIOUS

LEMMA SpelledNone == Spelled(<<>>, NoParams, {})
<1>1. PICK s \in Text : s = <<>> /\ Len(s) = 0
  BY EmptyText
<1>2. Tidy(s, Plain)
  BY <1>1, TidyWord DEF Plain
<1>3. Tags(s) = {}
  <2>1. Semicolons(s) = <<s>>
    BY <1>1, SemicolonsNone
  <2>2. ToSet(<<s>>) = {s}
    BY DEF ToSet
  <2>3. SplitOnce(s) = {}
    BY <1>1, NotSplit
  <2>4. TagOf(s) = {}
    BY <2>3 DEF TagOf
  <2>5. QED
    BY <2>1, <2>2, <2>4 DEF Tags
<1>4. QED
  BY <1>1, <1>2, <1>3, ReadNone DEF Spelled

(* Parameters as they are written. *)
Shifts(a, b, c, d) == (a \o b) \o (c \o d) = a \o ((b \o c) \o d)

LEMMA Regroup ==
  ASSUME NEW a \in Text, NEW b \in Text, NEW c \in Text, NEW d \in Text
  PROVE  Shifts(a, b, c, d)
<1>1. PICK x \in Text : x = c \o d
  BY TextConcat
<1>2. Associates(a, b, x) /\ Associates(b, c, d)
  BY TextAssociative
<1>3. (a \o b) \o x = a \o (b \o x) /\ (b \o c) \o d = b \o (c \o d)
  BY <1>2 DEF Associates
<1>4. QED
  BY <1>1, <1>3 DEF Shifts

LEMMA ValueWritten ==
  ASSUME NEW name \in Alphabet, NEW val \in Text
  PROVE  <<Semicolon, name>> \o (<<Equals>> \o val) = <<Semicolon>> \o ParamBody(name, val)
<1>1. PICK a \in Text, b \in Text, e \in Text : a = <<Semicolon>> /\ b = <<name>> /\ e = <<Equals>>
  BY Characters, OneChar
<1>2. <<Semicolon, name>> = a \o b
  BY <1>1, Characters, PairIs
<1>3. QED
  <2>1. Shifts(a, b, e, val)
    BY Regroup
  <2>2. QED
    BY <1>1, <1>2, <2>1 DEF ParamBody, Shifts

(* Each type of parameter is written as a name and a value, or as a bare   *)
(* name.                                                                   *)
LEMMA StringWritten ==
  ASSUME NEW name \in StringParams, name \in Alphabet, NEW v \in Text
  PROVE  WrittenParam(name, v) = <<Semicolon>> \o ParamBody(name, SfString(v))
<1>1. SfString(v) \in Text
  BY SfStringType
<1>2. QED
  BY <1>1, ValueWritten DEF WrittenParam

LEMMA AtomWritten ==
  ASSUME NEW name \in Alphabet, NEW x \in Alphabet
  PROVE  <<Semicolon, name>> \o <<Equals, x>> = <<Semicolon>> \o ParamBody(name, <<x>>)
<1>1. <<Equals, x>> = <<Equals>> \o <<x>>
  BY Characters, PairIs
<1>2. <<x>> \in Text
  BY OneChar
<1>3. QED
  BY <1>1, <1>2, ValueWritten

LEMMA IntegerWritten ==
  ASSUME NEW name \in IntegerParams, name \in Alphabet, NEW x \in Alphabet
  PROVE  WrittenParam(name, x) = <<Semicolon>> \o ParamBody(name, <<x>>)
<1>1. name \notin StringParams
  BY DEF IntegerParams, StringParams
<1>2. QED
  BY <1>1, AtomWritten DEF WrittenParam

LEMMA BooleanWritten ==
  ASSUME SignResponse \in Alphabet, "?0" \in Alphabet
  PROVE  /\ WrittenParam(SignResponse, TRUE) = <<Semicolon>> \o <<SignResponse>>
         /\ WrittenParam(SignResponse, FALSE) = <<Semicolon>> \o ParamBody(SignResponse, <<"?0">>)
<1>1. SignResponse \notin StringParams /\ SignResponse \notin IntegerParams
  BY DEF IntegerParams, StringParams, SignResponse
<1>2. PICK p \in Text : p = <<Semicolon, SignResponse>> /\ p = <<Semicolon>> \o <<SignResponse>>
  BY Characters, PairIs, TwoItems DEF Text
<1>3. p \o <<>> = p
  BY EmptyConcat DEF Text
<1>4. WrittenParam(SignResponse, TRUE) = p
  BY <1>1, <1>2, <1>3 DEF WrittenParam
<1>5. WrittenParam(SignResponse, FALSE) = <<Semicolon, SignResponse>> \o <<Equals, "?0">>
  BY <1>1 DEF WrittenParam
<1>6. QED
  BY <1>2, <1>4, <1>5, AtomWritten

LEMMA OrderNames ==
  /\ "created" \in ToSet(Order) /\ "nonce" \in ToSet(Order) /\ "tag" \in ToSet(Order)
  /\ SignResponse \in ToSet(Order)
<1>1. /\ Order[1] = "created" /\ Order[5] = "nonce" /\ Order[6] = "tag"
      /\ Order[8] = SignResponse
  BY DEF Order
<1>2. 1 \in 1..9 /\ 5 \in 1..9 /\ 6 \in 1..9 /\ 8 \in 1..9
  OBVIOUS
<1>3. QED
  BY <1>1, <1>2, OrderType

LEMMA QuietNames ==
  \A name \in {"created", "nonce", "tag", SignResponse} :
    name \in Alphabet /\ name \in Quiet /\ name \notin Blanks /\ name # Equals
<1>1. ASSUME NEW name \in {"created", "nonce", "tag", SignResponse} PROVE name \in Alphabet
  BY OrderNames DEF Alphabet, Literals
<1>2. ASSUME NEW name \in {"created", "nonce", "tag", SignResponse}
      PROVE  name \notin {DQuote, Comma, Open, Close, Semicolon} /\ name \notin Blanks /\ name # Equals
  BY DEF SignResponse, Blanks, Equals, DQuote, Comma, Open, Close, Semicolon, Space, LineFeed
<1>3. QED
  BY <1>1, <1>2 DEF Quiet

LEMMA QuietFalse == "?0" \in Quiet /\ "?0" \notin Blanks
<1>1. "?0" \in Alphabet
  BY DEF Alphabet, Literals
<1>2. QED
  BY <1>1 DEF Quiet, Blanks, DQuote, Comma, Open, Close, Semicolon, Space, LineFeed

(* One parameter more, as it is written. *)
Extended(t, written, q, T, val, name, x) ==
  /\ Spelled(t \o written, [q EXCEPT ![name] = {x}],
             T \cup (IF name = "tag" THEN {ParseSfString(val)} ELSE {}))
  /\ Solid(written)

LEMMA SpellBody ==
  ASSUME NEW t, NEW q, NEW T, Spelled(t, q, T), NEW name \in {"created", "nonce", "tag", SignResponse},
         NEW val, Tidy(val, Quiet), Solid(val), NEW x, ParamValue(name, val) = {x},
         NEW written, written = <<Semicolon>> \o ParamBody(name, val)
  PROVE  Extended(t, written, q, T, val, name, x)
<1>1. name \in Alphabet /\ name \in Quiet /\ name \notin Blanks /\ name # Equals
  BY QuietNames
<1>2. PICK u \in Text : u = ParamBody(name, val) /\ Tidy(u, Quiet) /\ Solid(u)
  BY <1>1, BodyShape
<1>3. name \in ToSet(Order)
  BY OrderNames
<1>4. ReadParam(q, u) = {[q EXCEPT ![name] = {v}] : v \in {x}}
  BY <1>1, <1>2, <1>3, ReadParamIs
<1>5. PICK r : r = [q EXCEPT ![name] = {x}]
  OBVIOUS
<1>6. ReadParam(q, u) = {r}
  BY <1>4, <1>5
<1>7. PICK s \in Text : s = <<Semicolon>> /\ Solid(s)
  <2>1. Semicolon \notin Blanks
    BY DEF Semicolon, Blanks, Space, LineFeed
  <2>2. PICK s \in Text : s = <<Semicolon>> /\ Len(s) = 1 /\ s[1] = Semicolon
    BY Characters, OneChar
  <2>3. QED
    BY <2>1, <2>2 DEF Solid
<1>8. t \in Text
  BY DEF Spelled, Tidy
<1>9. (t \o s) \o u = t \o (s \o u)
  BY <1>8, TextAssociative DEF Associates
<1>10. PICK G : G = TagOf(u)
  OBVIOUS
<1>11. Spelled((t \o s) \o u, r, T \cup G)
  BY <1>2, <1>6, <1>7, <1>10, SpellMore
<1>12. G = IF name = "tag" THEN {ParseSfString(val)} ELSE {}
  BY <1>1, <1>2, <1>10, BodyTag
<1>13. Solid(s \o u)
  BY <1>2, <1>7, SolidOn
<1>14. QED
  BY <1>2, <1>5, <1>7, <1>9, <1>11, <1>12, <1>13 DEF Extended

(***************************************************************************)
(* The four parameters of a member.                                        *)
(***************************************************************************)
LEMMA SpellInteger ==
  ASSUME NEW t, NEW q, NEW T, Spelled(t, q, T), NEW x \in Numbers, x \in Quiet, x \notin Blanks
  PROVE  /\ Spelled(t \o WrittenParam("created", x), [q EXCEPT !["created"] = {x}], T)
         /\ Solid(WrittenParam("created", x))
<1>1. PICK name : name = "created"
  OBVIOUS
<1>2. PICK val : val = <<x>> /\ Tidy(val, Quiet) /\ Solid(val)
  BY Atom
<1>3. name \in Alphabet /\ name \in IntegerParams /\ name \notin StringParams /\ x \in Alphabet
  BY <1>1, QuietNames DEF IntegerParams, StringParams, Quiet
<1>4. ParamValue(name, val) = {x}
  <2>1. {n \in Numbers : <<x>> = <<n>>} = {x}
    OBVIOUS
  <2>2. QED
    BY <1>2, <1>3, <2>1 DEF ParamValue, ParseInt
<1>5. PICK written : written = WrittenParam(name, x)
  OBVIOUS
<1>6. written = <<Semicolon>> \o ParamBody(name, val)
  BY <1>2, <1>3, <1>5, IntegerWritten
<1>7. Extended(t, written, q, T, val, name, x)
  BY <1>1, <1>2, <1>4, <1>6, SpellBody
<1>8. name # "tag" /\ T \cup {} = T
  BY <1>1
<1>9. QED
  BY <1>1, <1>5, <1>7, <1>8 DEF Extended

LEMMA SpellString ==
  ASSUME NEW t, NEW q, NEW T, Spelled(t, q, T), NEW name \in {"nonce", "tag"}, NEW v \in Text
  PROVE  /\ Spelled(t \o WrittenParam(name, v), [q EXCEPT ![name] = {v}],
                    T \cup (IF name = "tag" THEN {{v}} ELSE {}))
         /\ Solid(WrittenParam(name, v))
<1>1. name \in Alphabet /\ name \in StringParams /\ name \in {"created", "nonce", "tag", SignResponse}
  BY QuietNames DEF StringParams
<1>2. PICK val : val = SfString(v) /\ Tidy(val, Quiet) /\ Solid(val)
  BY StringShape
<1>3. ParseSfString(val) = {v}
  BY <1>2, StringReadsBack
<1>4. ParamValue(name, val) = {v}
  BY <1>1, <1>3 DEF ParamValue
<1>5. PICK written : written = WrittenParam(name, v)
  OBVIOUS
<1>6. written = <<Semicolon>> \o ParamBody(name, val)
  BY <1>1, <1>2, <1>5, StringWritten
<1>7. Extended(t, written, q, T, val, name, v)
  BY <1>1, <1>2, <1>4, <1>6, SpellBody
<1>8. QED
  BY <1>3, <1>5, <1>7 DEF Extended

LEMMA SpellBoolean ==
  ASSUME NEW t, NEW q, NEW T, Spelled(t, q, T), NEW b \in BOOLEAN
  PROVE  /\ Spelled(t \o WrittenParam(SignResponse, b), [q EXCEPT ![SignResponse] = {b}], T)
         /\ Solid(WrittenParam(SignResponse, b))
<1>1. /\ SignResponse \in Alphabet /\ SignResponse \in Quiet /\ SignResponse \notin Blanks
      /\ SignResponse # Equals /\ SignResponse # "tag"
  BY QuietNames DEF SignResponse
<1>2. "?0" \in Alphabet /\ "?0" \in Quiet /\ "?0" \notin Blanks
  BY QuietFalse DEF Quiet
<1>3. CASE b = TRUE
  <2>1. PICK s \in Text, u \in Text : s = <<Semicolon>> /\ u = <<SignResponse>>
    BY <1>1, Characters, OneChar
  <2>2. WrittenParam(SignResponse, TRUE) = s \o u
    BY <1>1, <1>2, <2>1, BooleanWritten
  <2>3. Tidy(u, Quiet) /\ Solid(u)
    BY <1>1, <2>1, Atom
  <2>4. PICK r : r = [q EXCEPT ![SignResponse] = {TRUE}]
    OBVIOUS
  <2>5. ReadParam(q, u) = {r}
    BY <1>1, <2>1, <2>4, ReadBare
  <2>6. PICK G : G = TagOf(u)
    OBVIOUS
  <2>7. Spelled((t \o s) \o u, r, T \cup G)
    BY <2>1, <2>3, <2>5, <2>6, SpellMore
  <2>8. G = {}
    <3>1. SplitOnce(u) = {}
      <4>1. Len(u) = 1 /\ u[1] = SignResponse
        BY <2>1
      <4>2. QED
        BY <1>1, <4>1, NotSplit
    <3>2. QED
      BY <2>6, <3>1 DEF TagOf
  <2>9. t \in Text
    BY DEF Spelled, Tidy
  <2>10. (t \o s) \o u = t \o (s \o u)
    BY <2>9, TextAssociative DEF Associates
  <2>11. Solid(s \o u)
    <3>1. Semicolon \notin Blanks
      BY DEF Semicolon, Blanks, Space, LineFeed
    <3>2. Solid(s)
      BY <2>1, <3>1, Characters, OneChar DEF Solid
    <3>3. QED
      BY <2>3, <3>2, SolidOn
  <2>12. T \cup G = T
    BY <2>8
  <2>13. QED
    BY <1>3, <2>2, <2>4, <2>7, <2>10, <2>11, <2>12
<1>4. CASE b = FALSE
  <2>1. PICK name : name = SignResponse
    OBVIOUS
  <2>2. PICK val : val = <<"?0">> /\ Tidy(val, Quiet) /\ Solid(val)
    BY <1>2, Atom
  <2>3. ParamValue(name, val) = {FALSE}
    <3>1. name \notin StringParams /\ name \notin IntegerParams
      BY <2>1 DEF SignResponse, StringParams, IntegerParams
    <3>2. {c \in BOOLEAN : <<"?0">> = <<IF c THEN "?1" ELSE "?0">>} = {FALSE}
      <4>1. <<"?0">> # <<"?1">>
        <5>1. "?0" # "?1" /\ <<"?0">>[1] = "?0" /\ <<"?1">>[1] = "?1"
          OBVIOUS
        <5>2. QED
          BY <5>1
      <4>2. ASSUME NEW c \in BOOLEAN PROVE <<"?0">> = <<IF c THEN "?1" ELSE "?0">> <=> c = FALSE
        <5>1. CASE c = TRUE
          BY <4>1, <5>1
        <5>2. CASE c = FALSE
          BY <5>2
        <5>3. QED
          BY <5>1, <5>2
      <4>3. QED
        BY <4>2
    <3>3. QED
      BY <2>2, <3>1, <3>2 DEF ParamValue, ParseSfBoolean
  <2>4. PICK written : written = WrittenParam(SignResponse, FALSE)
    OBVIOUS
  <2>5. written = <<Semicolon>> \o ParamBody(name, val)
    BY <1>1, <1>2, <2>1, <2>2, <2>4, BooleanWritten
  <2>6. PICK x : x = FALSE
    OBVIOUS
  <2>7. Extended(t, written, q, T, val, name, x)
    BY <2>1, <2>2, <2>3, <2>5, <2>6, SpellBody
  <2>8. name # "tag" /\ T \cup {} = T
    BY <1>1, <2>1
  <2>9. QED
    BY <1>4, <2>1, <2>4, <2>6, <2>7, <2>8 DEF Extended
<1>5. QED
  BY <1>3, <1>4

(***************************************************************************)
(* Texts that are joined.                                                  *)
(***************************************************************************)
LEMMA JoinedOne ==
  ASSUME NEW texts, Len(texts) = 1, NEW separator
  PROVE  Joined(texts, separator) = texts[1]
<1>1. PICK f : f = [i \in 0..1 |-> IF i = 0 THEN <<>> ELSE texts[1]]
  OBVIOUS
<1>2. f[0] = <<>> /\ f[1] = texts[1]
  BY <1>1
<1>3. PICK S : S = {f[i] : i \in 0..1}
  OBVIOUS
<1>4. f \in [0..1 -> S]
  BY <1>1, <1>3
<1>5. ASSUME NEW i \in 0 .. 1 - 1 PROVE f[i + 1] = JoinStep(texts, separator, f[i], i + 1)
  <2>1. i = 0 /\ i + 1 = 1
    OBVIOUS
  <2>2. QED
    BY <1>2, <2>1 DEF JoinStep
<1>6. JoinsAs(f, texts, separator, 1)
  BY <1>2, <1>5 DEF JoinsAs
<1>7. QED
  BY <1>2, <1>4, <1>6, JoinedRun, SMTT(30), ZenonT(60)

LEMMA JoinedTwo ==
  ASSUME NEW texts, Len(texts) = 2, NEW separator
  PROVE  Joined(texts, separator) = texts[1] \o separator \o texts[2]
<1>1. PICK f : f = [i \in 0..2 |-> IF i = 0 THEN <<>> ELSE IF i = 1 THEN texts[1]
                                   ELSE texts[1] \o separator \o texts[2]]
  OBVIOUS
<1>2. f[0] = <<>> /\ f[1] = texts[1] /\ f[2] = texts[1] \o separator \o texts[2]
  BY <1>1
<1>3. PICK S : S = {f[i] : i \in 0..2}
  OBVIOUS
<1>4. f \in [0..2 -> S]
  BY <1>1, <1>3
<1>5. ASSUME NEW i \in 0 .. 2 - 1 PROVE f[i + 1] = JoinStep(texts, separator, f[i], i + 1)
  <2>1. (i = 0 /\ i + 1 = 1) \/ (i = 1 /\ i + 1 = 2)
    OBVIOUS
  <2>2. QED
    BY <1>2, <2>1 DEF JoinStep
<1>6. JoinsAs(f, texts, separator, 2)
  BY <1>2, <1>5 DEF JoinsAs
<1>7. QED
  BY <1>2, <1>4, <1>6, JoinedRun, SMTT(30), ZenonT(60)

LEMMA JoinedThree ==
  ASSUME NEW texts, Len(texts) = 3, NEW separator
  PROVE  Joined(texts, separator) = (texts[1] \o separator \o texts[2]) \o separator \o texts[3]
<1>1. PICK f : f = [i \in 0..3 |-> IF i = 0 THEN <<>> ELSE IF i = 1 THEN texts[1]
                                   ELSE IF i = 2 THEN texts[1] \o separator \o texts[2]
                                   ELSE (texts[1] \o separator \o texts[2]) \o separator \o texts[3]]
  OBVIOUS
<1>2. /\ f[0] = <<>> /\ f[1] = texts[1] /\ f[2] = texts[1] \o separator \o texts[2]
      /\ f[3] = f[2] \o separator \o texts[3]
  BY <1>1
<1>3. PICK S : S = {f[i] : i \in 0..3}
  OBVIOUS
<1>4. f \in [0..3 -> S]
  BY <1>1, <1>3
<1>5. ASSUME NEW i \in 0 .. 3 - 1 PROVE f[i + 1] = JoinStep(texts, separator, f[i], i + 1)
  <2>1. (i = 0 /\ i + 1 = 1) \/ (i = 1 /\ i + 1 = 2) \/ (i = 2 /\ i + 1 = 3)
    OBVIOUS
  <2>2. QED
    BY <1>2, <2>1 DEF JoinStep
<1>6. JoinsAs(f, texts, separator, 3)
  BY <1>2, <1>5 DEF JoinsAs
<1>7. QED
  BY <1>2, <1>4, <1>6, JoinedRun, SMTT(30), ZenonT(60)

(* All items, picked. *)
LEMMA PickAll ==
  ASSUME NEW S, NEW items \in Seq(S), NEW places, \A i \in 1..Len(items) : i \in places
  PROVE  Picked(items, places) = items
<1>1. PICK n \in Nat : n = Len(items)
  OBVIOUS
<1>2. PICK f : f = [i \in 0..n |-> SubSeq(items, 1, i)]
  OBVIOUS
<1>3. PICK R : R = {f[i] : i \in 0..n}
  OBVIOUS
<1>4. f \in [0..n -> R]
  BY <1>2, <1>3
<1>5. f[0] = <<>> /\ f[n] = items
  <2>1. 0 \in 0..n /\ n \in 0..n
    OBVIOUS
  <2>2. QED
    BY <1>1, <1>2, <2>1, WholeAndNone
<1>6. ASSUME NEW i \in 0 .. n - 1 PROVE f[i + 1] = PickStep(items, places, f[i], i + 1)
  <2>1. i \in 0..n /\ i + 1 \in 0..n /\ i + 1 \in 1..n
    OBVIOUS
  <2>2. SubSeq(items, 1, i + 1) = Append(SubSeq(items, 1, i), items[i + 1])
    BY <1>1, OneMore
  <2>3. i + 1 \in places
    BY <1>1, <2>1
  <2>4. QED
    BY <1>2, <2>1, <2>2, <2>3 DEF PickStep
<1>7. Picked(items, places) = f[n]
  <2>1. PicksAs(f, items, places, n)
    BY <1>5, <1>6 DEF PicksAs
  <2>2. QED
    BY <1>1, <1>4, <2>1, PickedRun
<1>8. QED
  BY <1>5, <1>7

(***************************************************************************)
(* Words between spaces.                                                   *)
(***************************************************************************)
Spaces(t) == {i \in DOMAIN t : t[i] = Space}

(* A space and a word: one word more. *)
LEMMA SpacesMore ==
  ASSUME NEW t \in Text, NEW u \in Text, \A i \in 1..Len(u) : u[i] # Space,
         NEW w, w = (t \o <<Space>>) \o u
  PROVE  w \in Text /\ SplitAt(w, Spaces(w)) = Append(SplitAt(t, Spaces(t)), u)
<1>1. PICK n \in Nat, k \in Nat : n = Len(t) /\ k = Len(u)
  BY DEF Text
<1>2. PICK b \in Text, c \in Alphabet : c = Space /\ b = <<c>> /\ Len(b) = 1 /\ b[1] = c
  BY Characters, OneChar
<1>3. PICK a \in Text : a = t \o b
  BY TextConcat
<1>4. Len(a) = n + 1 /\ a[n + 1] = Space /\ \A i \in 1..n : a[i] = t[i]
  <2>1. \A i \in 1..Len(b) : a[n + i] = b[i]
    BY <1>1, <1>3, TextConcat
  <2>2. 1 \in 1..Len(b)
    BY <1>2
  <2>3. a[n + 1] = b[1]
    BY <2>1, <2>2
  <2>4. QED
    BY <1>1, <1>2, <1>3, <2>3, TextConcat
<1>5. /\ w \in Text /\ Len(w) = (n + 1) + k /\ \A i \in 1 .. n + 1 : w[i] = a[i]
      /\ \A i \in 1..k : w[(n + 1) + i] = u[i]
  <2>1. w = a \o u
    BY <1>2, <1>3
  <2>2. PICK m \in Nat : m = n + 1
    OBVIOUS
  <2>3. m = Len(a)
    BY <1>4, <2>2
  <2>4. /\ w \in Text /\ Len(w) = m + k /\ \A i \in 1..m : w[i] = a[i]
        /\ \A i \in 1..k : w[m + i] = u[i]
    <3>1. PICK v \in Text : v = a \o u
      BY TextConcat
    <3>2. /\ Len(v) = m + k /\ \A i \in 1..m : v[i] = a[i]
          /\ \A i \in 1..k : v[m + i] = u[i]
      BY <1>1, <2>3, <3>1, TextConcat
    <3>3. QED
      BY <2>1, <3>1, <3>2
  <2>5. QED
    BY <2>2, <2>4
<1>6. PICK before, cuts : before = Spaces(t) /\ cuts = Spaces(w)
  OBVIOUS
<1>7. DOMAIN t = 1..n /\ DOMAIN w = 1 .. (n + 1) + k
  BY <1>1, <1>5 DEF Text
<1>8. CutBetween(t, u, before, cuts)
  <2>1. ASSUME NEW i \in 1..n PROVE i \in cuts <=> i \in before
    <3>1. i \in 1 .. n + 1 /\ i \in 1 .. (n + 1) + k
      OBVIOUS
    <3>2. w[i] = t[i]
      BY <1>4, <1>5, <3>1
    <3>3. QED
      BY <1>6, <1>7, <3>1, <3>2 DEF Spaces
  <2>2. n + 1 \in cuts
    <3>1. n + 1 \in 1 .. n + 1 /\ n + 1 \in 1 .. (n + 1) + k
      OBVIOUS
    <3>2. QED
      BY <1>4, <1>5, <1>6, <1>7, <3>1 DEF Spaces
  <2>3. ASSUME NEW i \in 1..k PROVE n + 1 + i \notin cuts
    BY <1>1, <1>5, <1>6 DEF Spaces
  <2>4. QED
    BY <1>1, <2>1, <2>2, <2>3 DEF CutBetween
<1>9. SplitAt((t \o <<c>>) \o u, cuts) = Append(SplitAt(t, before), u)
  BY <1>8, CutOn
<1>10. QED
  BY <1>2, <1>5, <1>6, <1>9

LEMMA SpacesNone ==
  ASSUME NEW t \in Text, \A i \in 1..Len(t) : t[i] # Space
  PROVE  SplitAt(t, Spaces(t)) = <<t>>
<1>1. PICK cuts : cuts = Spaces(t)
  OBVIOUS
<1>2. \A i \in 1..Len(t) : i \notin cuts
  BY <1>1 DEF Spaces
<1>3. QED
  BY <1>1, <1>2, NoCut

(* Three words, joined by spaces, come apart into them. *)
LEMMA ThreeWords ==
  ASSUME NEW texts \in [1..3 -> Text],
         \A k \in 1..3 : Len(texts[k]) >= 1 /\ \A i \in 1..Len(texts[k]) : texts[k][i] # Space
  PROVE  Words(Joined(texts, <<Space>>)) = texts /\ Joined(texts, <<Space>>) \in Text
<1>1. PICK a \in Text, b \in Text, c \in Text : a = texts[1] /\ b = texts[2] /\ c = texts[3]
  OBVIOUS
<1>2. /\ \A i \in 1..Len(a) : a[i] # Space
      /\ \A i \in 1..Len(b) : b[i] # Space
      /\ \A i \in 1..Len(c) : c[i] # Space
      /\ Len(a) >= 1 /\ Len(b) >= 1 /\ Len(c) >= 1
  BY <1>1
<1>3. texts \in Seq(Text) /\ Len(texts) = 3
  BY AsSequence
<1>4. PICK ab : ab = (a \o <<Space>>) \o b
  OBVIOUS
<1>5. PICK abc : abc = (ab \o <<Space>>) \o c
  OBVIOUS
<1>6. Joined(texts, <<Space>>) = abc
  BY <1>1, <1>3, <1>4, <1>5, JoinedThree
<1>7. SplitAt(a, Spaces(a)) = <<a>>
  BY <1>2, SpacesNone
<1>8. ab \in Text /\ SplitAt(ab, Spaces(ab)) = Append(<<a>>, b)
  BY <1>2, <1>4, <1>7, SpacesMore, SMTT(30), ZenonT(60)
<1>9. abc \in Text /\ SplitAt(abc, Spaces(abc)) = Append(SplitAt(ab, Spaces(ab)), c)
  BY <1>2, <1>5, <1>8, SpacesMore
<1>10. PICK p \in Seq(Text) : p = <<a>> /\ Len(p) = 1 /\ p[1] = a
  BY OneItem
<1>11. PICK q \in Seq(Text) : q = Append(p, b) /\ Len(q) = 2 /\ q[2] = b /\ q[1] = a
  <2>1. /\ Append(p, b) \in Seq(Text) /\ Len(Append(p, b)) = 1 + 1 /\ Append(p, b)[1 + 1] = b
        /\ \A i \in 1..1 : Append(p, b)[i] = p[i]
    BY <1>10, AppendIs
  <2>2. 1 \in 1..1 /\ 1 + 1 = 2
    OBVIOUS
  <2>3. QED
    BY <1>10, <2>1, <2>2
<1>12. PICK r \in Seq(Text) : r = Append(q, c) /\ Len(r) = 3 /\ r[3] = c /\ r[1] = a /\ r[2] = b
  <2>1. /\ Append(q, c) \in Seq(Text) /\ Len(Append(q, c)) = 2 + 1 /\ Append(q, c)[2 + 1] = c
        /\ \A i \in 1..2 : Append(q, c)[i] = q[i]
    BY <1>11, AppendIs
  <2>2. 1 \in 1..2 /\ 2 \in 1..2 /\ 2 + 1 = 3
    OBVIOUS
  <2>3. QED
    BY <1>11, <2>1, <2>2
<1>13. r = texts
  <2>1. \A i \in 1..3 : i = 1 \/ i = 2 \/ i = 3
    OBVIOUS
  <2>2. \A i \in 1..3 : r[i] = texts[i]
    BY <1>1, <1>12, <2>1
  <2>3. QED
    BY <1>3, <1>12, <2>2, SameItems
<1>14. SplitAt(abc, Spaces(abc)) = texts
  BY <1>8, <1>9, <1>10, <1>11, <1>12, <1>13
<1>15. PICK places : places = {k \in DOMAIN texts : texts[k] # <<>>}
  OBVIOUS
<1>16. \A i \in 1..Len(texts) : i \in places
  <2>1. DOMAIN texts = 1..3 /\ Len(<<>>) = 0
    OBVIOUS
  <2>2. \A k \in 1..3 : texts[k] # <<>>
    BY <2>1
  <2>3. QED
    BY <1>3, <1>15, <2>1, <2>2
<1>17. Picked(texts, places) = texts
  BY <1>3, <1>16, PickAll
<1>18. Words(abc) = Picked(texts, places)
  BY <1>14, <1>15 DEF Words, Spaces
<1>19. QED
  BY <1>6, <1>9, <1>17, <1>18

(***************************************************************************)
(* Identifiers of components.                                              *)
(***************************************************************************)
(* A text between quotes, and where its characters are. *)
Enclosing(q, name, n) ==
  /\ n \in Nat /\ n = Len(name) /\ q \in Text /\ Len(q) = n + 2
  /\ q[1] = DQuote /\ q[n + 2] = DQuote /\ \A i \in 1..n : q[i + 1] = name[i]

LEMMA EnclosedIs ==
  ASSUME NEW name \in Text
  PROVE  Enclosing((<<DQuote>> \o name) \o <<DQuote>>, name, Len(name))
<1>1. PICK n \in Nat : n = Len(name)
  BY DEF Text
<1>2. PICK d \in Text : d = <<DQuote>> /\ Len(d) = 1 /\ d[1] = DQuote
  BY Characters, OneChar
<1>3. PICK a \in Text : a = d \o name
  BY TextConcat
<1>4. /\ Len(a) = 1 + n /\ \A i \in 1..1 : a[i] = d[i]
      /\ \A i \in 1..n : a[1 + i] = name[i]
  BY <1>1, <1>2, <1>3, TextConcat
<1>5. PICK q \in Text : q = a \o d
  BY TextConcat
<1>6. PICK m \in Nat : m = 1 + n /\ m = Len(a)
  BY <1>4
<1>7. /\ Len(q) = m + 1 /\ \A i \in 1..m : q[i] = a[i]
      /\ \A i \in 1..1 : q[m + i] = d[i]
  BY <1>2, <1>5, <1>6, TextConcat
<1>8. q[1] = DQuote
  <2>1. 1 \in 1..m /\ 1 \in 1..1
    BY <1>6
  <2>2. QED
    BY <1>2, <1>4, <1>7, <2>1
<1>9. q[n + 2] = DQuote /\ Len(q) = n + 2
  <2>1. m + 1 = n + 2 /\ 1 \in 1..1
    BY <1>6
  <2>2. q[m + 1] = d[1]
    BY <1>7, <2>1
  <2>3. QED
    BY <1>2, <1>7, <2>1, <2>2
<1>10. ASSUME NEW i \in 1..n PROVE q[i + 1] = name[i]
  <2>1. i + 1 \in 1..m /\ i + 1 = 1 + i
    BY <1>6
  <2>2. QED
    BY <1>4, <1>7, <2>1
<1>11. QED
  BY <1>1, <1>2, <1>3, <1>5, <1>8, <1>9, <1>10 DEF Enclosing

(* Where there is nothing to be escaped. *)
LEMMA PlainString ==
  ASSUME NEW v \in Text, \A i \in 1..Len(v) : v[i] \notin Special
  PROVE  SfString(v) = (<<DQuote>> \o v) \o <<DQuote>>
<1>1. PICK n \in Nat : n = Len(v)
  BY DEF Text
<1>2. PICK r : r = (<<DQuote>> \o v) \o <<DQuote>>
  OBVIOUS
<1>3. r \in Text /\ Len(r) = n + 2 /\ r[1] = DQuote /\ r[n + 2] = DQuote /\ \A i \in 1..n : r[i + 1] = v[i]
  BY <1>1, <1>2, EnclosedIs DEF Enclosing
<1>4. PICK q \in Text : q = SfString(v)
  BY SfStringType
<1>5. PICK at : WrittenAt(q, v, at)
  BY <1>4, SfStringIs
<1>6. /\ at[0] = 1 /\ q[1] = DQuote /\ Len(q) = at[n] + 1 /\ q[at[n] + 1] = DQuote
      /\ \A i \in 0 .. n - 1 :
           /\ at[i + 1] = at[i] + (IF v[i + 1] \in Special THEN 2 ELSE 1)
           /\ v[i + 1] \notin Special => q[at[i] + 1] = v[i + 1]
  BY <1>1, <1>5 DEF WrittenAt
<1>7. ASSUME NEW i \in 0 .. n - 1 PROVE at[i + 1] = at[i] + 1 /\ q[at[i] + 1] = v[i + 1]
  <2>1. i + 1 \in 1..n
    OBVIOUS
  <2>2. v[i + 1] \notin Special
    BY <1>1, <2>1
  <2>3. QED
    BY <1>6, <2>2
<1>8. \A i \in 0..n : at[i] = i + 1
  <2> DEFINE D == {i \in 0..n : at[i] = i + 1}
  <2>1. 0 \in D
    BY <1>6
  <2>2. ASSUME NEW i \in 0 .. n - 1 PROVE i \in D => i + 1 \in D
    <3>1. i + 1 \in 0..n
      OBVIOUS
    <3>2. QED
      BY <1>7, <3>1
  <2>3. \A i \in 0..n : i \in D
    <3> HIDE DEF D
    <3>1. QED
      BY <2>1, <2>2, InductionTo
  <2>4. QED
    BY <2>3
<1>9. at[n] = n + 1 /\ Len(q) = n + 2 /\ q[n + 2] = DQuote
  <2>1. n \in 0..n /\ (n + 1) + 1 = n + 2
    OBVIOUS
  <2>2. QED
    BY <1>6, <1>8, <2>1
<1>10. ASSUME NEW i \in 1 .. n + 2 PROVE q[i] = r[i]
  <2>1. CASE i = 1
    BY <1>3, <1>6, <2>1
  <2>2. CASE i = n + 2
    BY <1>3, <1>9, <2>2
  <2>3. CASE i # 1 /\ i # n + 2
    <3>1. PICK j \in 0 .. n - 1 : j = i - 2
      BY <2>3
    <3>2. (j + 1) + 1 = i /\ j \in 0..n /\ j + 1 \in 1..n
      BY <3>1
    <3>3. at[j] = j + 1
      BY <1>8, <3>2
    <3>4. q[i] = v[j + 1]
      BY <1>7, <3>2, <3>3
    <3>5. r[i] = v[j + 1]
      BY <1>3, <3>2
    <3>6. QED
      BY <3>4, <3>5
  <2>4. QED
    BY <2>1, <2>2, <2>3
<1>11. q = r
  BY <1>3, <1>9, <1>10, SameItems DEF Text
<1>12. QED
  BY <1>2, <1>4, <1>11

(* Names in which no reader of the component list stumbles. *)
Readable(name) ==
  /\ name \in Text /\ \A i \in 1..Len(name) : name[i] \notin {DQuote, Backslash, Space}
  /\ ToSet(name) \cap AtNames # {} => name \in {<<derived>> : derived \in DerivedNames}

(* A name that can be read stands between quotes as it is, and nothing in  *)
(* it is a delimiter.                                                      *)
LEMMA EnclosedRead ==
  ASSUME NEW name, Readable(name), NEW q, q = (<<DQuote>> \o name) \o <<DQuote>>
  PROVE  /\ Tidy(q, {}) /\ \A i \in 1..Len(q) : q[i] # Space
         /\ Len(q) >= 2 /\ q[1] = DQuote /\ q[Len(q)] = DQuote /\ SubSeq(q, 2, Len(q) - 1) = name
<1>1. name \in Text /\ \A i \in 1..Len(name) : name[i] \notin Special /\ name[i] # Space
  BY DEF Readable, Special
<1>2. SfString(name) = q
  BY <1>1, PlainString
<1>3. Tidy(q, {})
  BY <1>1, <1>2, SfStringTidy
<1>4. PICK n \in Nat : n = Len(name)
  BY <1>1 DEF Text
<1>5. q \in Text /\ Len(q) = n + 2 /\ q[1] = DQuote /\ q[n + 2] = DQuote /\ \A i \in 1..n : q[i + 1] = name[i]
  BY <1>1, <1>4, EnclosedIs DEF Enclosing
<1>6. ASSUME NEW i \in 1 .. n + 2 PROVE q[i] # Space
  <2>1. DQuote # Space
    BY DEF DQuote, Space
  <2>2. CASE i = 1 \/ i = n + 2
    BY <1>5, <2>1, <2>2
  <2>3. CASE i # 1 /\ i # n + 2
    <3>1. PICK j \in 1..n : j = i - 1
      BY <2>3
    <3>2. j + 1 = i
      BY <3>1
    <3>3. QED
      BY <1>1, <1>4, <1>5, <3>2
  <2>4. QED
    BY <2>2, <2>3
<1>7. PICK s : s = SubSeq(q, 2, n + 1)
  OBVIOUS
<1>8. s = name
  <2>1. 1 \in 0..Len(q) /\ n + 1 \in 1..Len(q) /\ (n + 1) - 1 = n /\ 1 + 1 = 2
    BY <1>5
  <2>2. /\ SubSeq(q, 1 + 1, n + 1) \in Seq(Alphabet) /\ Len(SubSeq(q, 1 + 1, n + 1)) = (n + 1) - 1
        /\ \A k \in 1 .. (n + 1) - 1 : SubSeq(q, 1 + 1, n + 1)[k] = q[1 + k]
    BY <1>5, <2>1, CutIs DEF Text
  <2>3. s \in Text /\ Len(s) = n /\ \A k \in 1..n : s[k] = q[1 + k]
    BY <1>7, <2>1, <2>2 DEF Text
  <2>4. \A k \in 1..n : s[k] = name[k]
    <3>1. \A k \in 1..n : 1 + k = k + 1
      OBVIOUS
    <3>2. QED
      BY <1>5, <2>3, <3>1
  <2>5. QED
    BY <1>1, <1>4, <2>3, <2>4, SameItems DEF Text
<1>9. (n + 2) - 1 = n + 1 /\ n + 2 >= 2
  OBVIOUS
<1>10. QED
  BY <1>3, <1>5, <1>6, <1>7, <1>8, <1>9

EndsInReq(t) == Len(t) >= 2 /\ SubSeq(t, Len(t) - 1, Len(t)) = <<Semicolon, "req">>

(* An identifier reads as its name, with req or without. *)
LEMMA FromPlain ==
  ASSUME NEW t, ~EndsInReq(t), Quoted(t), NEW name, name = SubSeq(t, 2, Len(t) - 1), Readable(name)
  PROVE  FromQuotedId(t) = {[name |-> name, req |-> FALSE]}
<1>1. EndsInReq(t) = FALSE
  OBVIOUS
<1>2. QED
  BY <1>1 DEF FromQuotedId, EndsInReq, Readable

LEMMA FromReq ==
  ASSUME NEW t, EndsInReq(t), NEW base, base = SubSeq(t, 1, Len(t) - 2), Quoted(base),
         NEW name, name = SubSeq(base, 2, Len(base) - 1), Readable(name)
  PROVE  FromQuotedId(t) = {[name |-> name, req |-> TRUE]}
<1>1. EndsInReq(t) = TRUE
  OBVIOUS
<1>2. QED
  BY <1>1 DEF FromQuotedId, EndsInReq, Readable

(* An identifier reads back, and no reader of a list of them is misled. *)
ReadsBack(c, t) ==
  /\ Tidy(t, Plain) /\ FromQuotedId(t) = {c}
  /\ Len(t) >= 1 /\ \A i \in 1..Len(t) : t[i] # Space

(* So the identifier that is written reads back as the component. *)
LEMMA QuotedIdRead ==
  ASSUME NEW c \in ComponentType, Readable(c.name)
  PROVE  ReadsBack(c, QuotedId(c))
<1>1. PICK name : name = c.name /\ Readable(name)
  OBVIOUS
<1>2. PICK q : q = (<<DQuote>> \o name) \o <<DQuote>>
  OBVIOUS
<1>3. /\ Tidy(q, {}) /\ \A i \in 1..Len(q) : q[i] # Space
      /\ Len(q) >= 2 /\ q[1] = DQuote /\ q[Len(q)] = DQuote /\ SubSeq(q, 2, Len(q) - 1) = name
  BY <1>1, <1>2, EnclosedRead
<1>4. q \in Text
  BY <1>3 DEF Tidy
<1>5. Tidy(q, Plain)
  BY <1>3, TidyMore
<1>6. Quoted(q)
  BY <1>3 DEF Quoted
<1>7. PICK n \in Nat : n = Len(q) /\ n >= 2
  BY <1>3, <1>4 DEF Text
<1>8. CASE c.req = FALSE
  <2>1. QuotedId(c) = q
    <3>1. q \o <<>> = q
      BY <1>4, EmptyConcat DEF Text
    <3>2. QED
      BY <1>1, <1>2, <1>8, <3>1 DEF QuotedId
  <2>2. ~EndsInReq(q)
    <3>1. PICK r : r = SubSeq(q, n - 1, n)
      OBVIOUS
    <3>2. PICK m \in Nat : m + 1 = n - 1 /\ m \in 0..n /\ n \in m..n /\ 2 \in 1 .. n - m /\ m + 2 = n
      <4>1. n - 2 \in Nat /\ (n - 2) + 1 = n - 1 /\ n - 2 \in 0..n /\ n \in n - 2 .. n
            /\ 2 \in 1 .. n - (n - 2) /\ (n - 2) + 2 = n
        BY <1>7
      <4>2. QED
        BY <4>1
    <3>3. \A k \in 1 .. n - m : SubSeq(q, m + 1, n)[k] = q[m + k]
      BY <1>4, <1>7, <3>2, CutIs DEF Text
    <3>4. r[2] = DQuote
      BY <1>3, <1>7, <3>1, <3>2, <3>3
    <3>5. <<Semicolon, "req">>[2] = "req" /\ "req" # DQuote
      BY DEF DQuote
    <3>6. r # <<Semicolon, "req">>
      BY <3>4, <3>5
    <3>7. QED
      BY <1>7, <3>1, <3>6 DEF EndsInReq
  <2>3. FromQuotedId(q) = {[name |-> name, req |-> FALSE]}
    BY <1>1, <1>3, <1>6, <2>2, FromPlain
  <2>4. c = [name |-> name, req |-> FALSE]
    BY <1>1, <1>8 DEF ComponentType
  <2>5. QED
    BY <1>3, <1>5, <1>7, <2>1, <2>3, <2>4 DEF ReadsBack
<1>9. CASE c.req = TRUE
  <2>1. PICK z \in Text : z = <<Semicolon, "req">> /\ Len(z) = 2 /\ z[1] = Semicolon /\ z[2] = "req"
    <3>1. "req" \in Alphabet
      BY DEF Alphabet, Literals
    <3>2. <<Semicolon, "req">> \in Text
      BY <3>1, Characters, TwoItems DEF Text
    <3>3. QED
      BY <3>2
  <2>2. PICK x \in Text : x = q \o z
    BY <1>4, TextConcat
  <2>3. QuotedId(c) = x
    BY <1>1, <1>2, <1>9, <2>1, <2>2 DEF QuotedId
  <2>4. /\ Len(x) = n + 2 /\ \A i \in 1..n : x[i] = q[i]
        /\ \A i \in 1..2 : x[n + i] = z[i]
    BY <1>4, <1>7, <2>1, <2>2, TextConcat
  <2>5. SubSeq(x, 1, n) = q /\ SubSeq(x, n + 1, n + 2) = z
    <3>1. SubSeq(q \o z, 1, Len(q)) = q /\ SubSeq(q \o z, Len(q) + 1, Len(q \o z)) = z
      BY <1>4, ConcatParts
    <3>2. QED
      BY <1>7, <2>2, <2>4, <3>1
  <2>6. (n + 2) - 1 = n + 1 /\ (n + 2) - 2 = n /\ n + 2 >= 2
    OBVIOUS
  <2>7. EndsInReq(x)
    BY <2>1, <2>4, <2>5, <2>6 DEF EndsInReq
  <2>8. SubSeq(x, 1, Len(x) - 2) = q
    BY <2>4, <2>5, <2>6
  <2>9. FromQuotedId(x) = {[name |-> name, req |-> TRUE]}
    BY <1>1, <1>3, <1>6, <2>7, <2>8, FromReq
  <2>10. c = [name |-> name, req |-> TRUE]
    BY <1>1, <1>9 DEF ComponentType
  <2>11. Tidy(z, Plain)
    <3>1. Semicolon \in Plain /\ "req" \in Plain /\ DQuote \notin Plain
      BY Characters DEF Plain, Alphabet, Literals, Semicolon, DQuote, Comma, Open, Close
    <3>2. \A i \in 1..2 : z[i] \in Plain
      <4>1. \A i \in 1..2 : i = 1 \/ i = 2
        OBVIOUS
      <4>2. QED
        BY <2>1, <3>1, <4>1
    <3>3. QED
      BY <2>1, <3>1, <3>2, TidyWord
  <2>12. Tidy(x, Plain)
    BY <1>5, <2>2, <2>11, TidyOn
  <2>13. ASSUME NEW i \in 1 .. n + 2 PROVE x[i] # Space
    <3>1. Semicolon # Space /\ "req" # Space
      BY DEF Semicolon, Space
    <3>2. CASE i <= n
      BY <1>3, <1>7, <2>4, <3>2
    <3>3. CASE i > n
      <4>1. i = n + 1 \/ i = n + 2
        BY <3>3
      <4>2. 1 \in 1..2 /\ 2 \in 1..2
        OBVIOUS
      <4>3. x[i] = z[1] \/ x[i] = z[2]
        BY <2>4, <4>1, <4>2
      <4>4. QED
        BY <2>1, <3>1, <4>3
    <3>4. QED
      BY <3>2, <3>3
  <2>14. Len(x) >= 1
    BY <2>4
  <2>15. QED
    BY <2>3, <2>4, <2>9, <2>10, <2>12, <2>13, <2>14 DEF ReadsBack
<1>10. QED
  BY <1>8, <1>9 DEF ComponentType

(***************************************************************************)
(* A member: an inner list, and its parameters.                            *)
(***************************************************************************)
Listed == Alphabet \ {DQuote, Comma}

(* w is s and t, which are n and k long. *)
Chained(w, s, n, t, k) ==
  /\ n \in Nat /\ k \in Nat /\ n = Len(s) /\ k = Len(t)
  /\ w \in Text /\ Len(w) = n + k
  /\ \A i \in 1..n : w[i] = s[i]
  /\ \A i \in 1..k : w[n + i] = t[i]

LEMMA ChainedIs ==
  ASSUME NEW s \in Text, NEW t \in Text, NEW w, w = s \o t
  PROVE  Chained(w, s, Len(s), t, Len(t))
<1>1. Len(s) \in Nat /\ Len(t) \in Nat
  BY DEF Text
<1>2. QED
  BY <1>1, TextConcat DEF Chained

LEMMA Bracket ==
  ASSUME NEW c \in {Open, Close}
  PROVE  c \in Alphabet /\ c # DQuote /\ c # Comma /\ c \notin Blanks /\ <<c>> \in Text /\ Tidy(<<c>>, {c})
<1>1. c \in Alphabet /\ c # DQuote /\ c # Comma /\ c \notin Blanks
  BY Characters DEF Open, Close, DQuote, Comma, Blanks, Space, LineFeed
<1>2. QED
  BY <1>1, OneChar, TidyChar

LEMMA PlainBracketless == ASSUME NEW t, Tidy(t, Plain) PROVE Bracketless(t) /\ Marked(t, Comma) = {}
<1>1. Open \notin Plain /\ Close \notin Plain /\ Comma \notin Plain
  BY DEF Plain
<1>2. QED
  BY <1>1, NoneMarked DEF Bracketless

Ids(cs) == [i \in DOMAIN cs |-> QuotedId(cs[i])]

(* And three of them, joined, as all three. *)
LEMMA IdsRead ==
  ASSUME NEW cs \in [1..3 -> ComponentType], \A i \in 1..3 : Readable(cs[i].name)
  PROVE  /\ Ids(cs) \in [1..3 -> Text] /\ \A i \in 1..3 : ReadsBack(cs[i], Ids(cs)[i])
         /\ Tidy(Joined(Ids(cs), <<Space>>), Plain)
         /\ Words(Joined(Ids(cs), <<Space>>)) = Ids(cs)
<1>1. \A i \in 1..3 : cs[i] \in ComponentType /\ ReadsBack(cs[i], QuotedId(cs[i]))
  BY QuotedIdRead
<1>2. PICK ids : ids = Ids(cs)
  OBVIOUS
<1>3. DOMAIN ids = 1..3 /\ \A i \in 1..3 : ids[i] = QuotedId(cs[i])
  BY <1>2 DEF Ids
<1>4. ids \in [1..3 -> Text]
  <2>1. \A i \in 1..3 : QuotedId(cs[i]) \in Text
    BY <1>1 DEF ReadsBack, Tidy
  <2>2. QED
    BY <1>2, <2>1 DEF Ids
<1>5. \A i \in 1..3 : ReadsBack(cs[i], ids[i])
  BY <1>1, <1>3
<1>6. Words(Joined(ids, <<Space>>)) = ids
  BY <1>4, <1>5, ThreeWords DEF ReadsBack
<1>7. Tidy(Joined(ids, <<Space>>), Plain)
  <2>1. PICK a, b, c : a = ids[1] /\ b = ids[2] /\ c = ids[3]
    OBVIOUS
  <2>2. Tidy(a, Plain) /\ Tidy(b, Plain) /\ Tidy(c, Plain)
    BY <1>5, <2>1 DEF ReadsBack
  <2>3. PICK s : s = <<Space>> /\ Tidy(s, Plain)
    <3>1. Space \in Alphabet /\ Space # DQuote /\ {Space} \subseteq Plain
      BY Characters DEF Plain, Space, DQuote, Comma, Open, Close
    <3>2. QED
      BY <3>1, TidyChar, TidyMore
  <2>4. Len(ids) = 3
    BY <1>4, AsSequence
  <2>5. PICK as, asb, asbs : as = a \o s /\ asb = as \o b /\ asbs = asb \o s
    OBVIOUS
  <2>6. Joined(ids, s) = asbs \o c
    BY <2>1, <2>4, <2>5, JoinedThree
  <2>7. Tidy(as, Plain)
    BY <2>2, <2>3, <2>5, TidyOn
  <2>8. Tidy(asb, Plain)
    BY <2>2, <2>5, <2>7, TidyOn
  <2>9. Tidy(asbs, Plain)
    BY <2>3, <2>5, <2>8, TidyOn
  <2>10. Tidy(asbs \o c, Plain)
    BY <2>2, <2>9, TidyOn
  <2>11. QED
    BY <2>3, <2>6, <2>10
<1>8. QED
  BY <1>2, <1>4, <1>5, <1>6, <1>7

(* A member and its parts. *)
MemberOf(w, j, p) ==
  /\ Tidy(j, Plain) /\ Tidy(p, Plain) /\ Solid(p)
  /\ w = ((<<Open>> \o j) \o <<Close>>) \o p

(* The list ends at its only closing bracket outside of strings, and the   *)
(* parameters follow.                                                      *)
LEMMA MemberShape ==
  ASSUME NEW w, NEW j, NEW p, MemberOf(w, j, p)
  PROVE  /\ Solid(w) /\ w[1] = Open /\ Balanced(w) /\ Marked(w, Comma) = {}
         /\ FindUnquoted(w, Close) = {Len(j) + 2}
         /\ SubSeq(w, 2, Len(j) + 1) = j /\ SubSeq(w, Len(j) + 3, Len(w)) = p
<1>1. /\ Tidy(j, Plain) /\ Tidy(p, Plain) /\ Solid(p) /\ j \in Text /\ p \in Text
      /\ w = ((<<Open>> \o j) \o <<Close>>) \o p
  BY DEF MemberOf, Tidy
<1>2. PICK o \in Text, c \in Text : o = <<Open>> /\ c = <<Close>>
  BY Bracket
<1>3. Tidy(o, {Open}) /\ Tidy(c, {Close}) /\ Len(o) = 1 /\ o[1] = Open /\ Len(c) = 1
  BY <1>2, Bracket
<1>4. PICK front \in Text : front = o \o j
  BY <1>1, TextConcat
<1>5. PICK n \in Nat : n = Len(j)
  BY <1>1 DEF Text
<1>6. /\ Len(front) = 1 + n /\ \A i \in 1..1 : front[i] = o[i]
      /\ \A i \in 1..n : front[1 + i] = j[i]
  <2>1. Chained(front, o, Len(o), j, Len(j))
    BY <1>1, <1>4, ChainedIs
  <2>2. QED
    BY <1>3, <1>5, <2>1 DEF Chained
<1>7. PICK t \in Text : t = front \o c
  BY TextConcat
<1>8. w = t \o p
  BY <1>1, <1>2, <1>4, <1>7
<1>9. Tidy(front, Plain \cup {Open})
  <2>1. Tidy(o, Plain \cup {Open})
    <3>1. {Open} \subseteq Plain \cup {Open}
      OBVIOUS
    <3>2. QED
      BY <1>3, <3>1, TidyMore
  <2>2. Tidy(j, Plain \cup {Open})
    <3>1. Plain \subseteq Plain \cup {Open}
      OBVIOUS
    <3>2. QED
      BY <1>1, <3>1, TidyMore
  <2>3. PICK T : T = Plain \cup {Open}
    OBVIOUS
  <2>4. QED
    BY <1>4, <2>1, <2>2, <2>3, TidyOn
<1>10. Marked(front, Close) = {}
  <2>1. Close \notin Plain \cup {Open}
    BY DEF Plain, Open, Close
  <2>2. QED
    BY <1>9, <2>1, NoneMarked
<1>11. FindUnquoted(w, Close) = {Len(front) + 1}
  <2>1. Marked(p, Close) = {} /\ Balanced(front)
    BY <1>1, <1>9, PlainBracketless DEF Bracketless, Tidy
  <2>2. PICK x \in Alphabet : x = Close /\ x # DQuote
    BY Bracket
  <2>3. w = (front \o <<x>>) \o p
    BY <1>2, <1>7, <1>8, <2>2
  <2>4. Marked(front, x) = {} /\ Marked(p, x) = {}
    BY <1>10, <2>1, <2>2
  <2>5. FindUnquoted((front \o <<x>>) \o p, x) = {Len(front) + 1}
    BY <1>1, <2>1, <2>2, <2>4, FindOne
  <2>6. QED
    BY <2>2, <2>3, <2>5
<1>12. Len(t) = n + 2 /\ \A i \in 1 .. n + 1 : t[i] = front[i]
  <2>1. PICK m \in Nat : m = Len(front) /\ m = n + 1 /\ m + 1 = n + 2
    BY <1>6
  <2>2. Len(t) = m + 1 /\ \A i \in 1..m : t[i] = front[i]
    <3>1. Chained(t, front, Len(front), c, Len(c))
      BY <1>7, ChainedIs
    <3>2. QED
      BY <1>3, <2>1, <3>1 DEF Chained
  <2>3. QED
    BY <2>1, <2>2
<1>13. SubSeq(w, 1, n + 2) = t /\ SubSeq(w, n + 3, Len(w)) = p
  <2>1. SubSeq(t \o p, 1, Len(t)) = t /\ SubSeq(t \o p, Len(t) + 1, Len(t \o p)) = p
    BY <1>1, ConcatParts
  <2>2. (n + 2) + 1 = n + 3
    OBVIOUS
  <2>3. QED
    BY <1>8, <1>12, <2>1, <2>2
<1>14. PICK k \in Nat : k = Len(p) /\ w \in Text /\ Len(w) = (n + 2) + k /\ \A i \in 1 .. n + 2 : w[i] = t[i]
  <2>1. PICK k \in Nat, m \in Nat : k = Len(p) /\ m = Len(t) /\ m = n + 2
    BY <1>1, <1>12 DEF Text
  <2>2. Chained(w, t, Len(t), p, Len(p))
    BY <1>1, <1>8, ChainedIs
  <2>3. w \in Text /\ Len(w) = m + k /\ \A i \in 1..m : w[i] = t[i]
    BY <2>1, <2>2 DEF Chained
  <2>4. QED
    BY <2>1, <2>3
<1>15. \A i \in 1 .. n + 1 : w[i] = front[i]
  BY <1>12, <1>14
<1>16. w[1] = Open
  <2>1. 1 \in 1 .. n + 1 /\ 1 \in 1..1
    OBVIOUS
  <2>2. QED
    BY <1>3, <1>6, <1>15, <2>1
<1>17. SubSeq(w, 2, n + 1) = j
  <2>1. PICK s : s = SubSeq(w, 2, n + 1)
    OBVIOUS
  <2>2. 1 \in 0..Len(w) /\ n + 1 \in 1..Len(w) /\ (n + 1) - 1 = n /\ 1 + 1 = 2
    BY <1>14
  <2>3. /\ SubSeq(w, 1 + 1, n + 1) \in Seq(Alphabet) /\ Len(SubSeq(w, 1 + 1, n + 1)) = (n + 1) - 1
        /\ \A i \in 1 .. (n + 1) - 1 : SubSeq(w, 1 + 1, n + 1)[i] = w[1 + i]
    BY <1>14, <2>2, CutIs DEF Text
  <2>4. s \in Text /\ Len(s) = n /\ \A i \in 1..n : s[i] = w[1 + i]
    BY <2>1, <2>2, <2>3 DEF Text
  <2>5. \A i \in 1..n : s[i] = j[i]
    <3>1. ASSUME NEW i \in 1..n PROVE s[i] = j[i]
      <4>1. 1 + i \in 1 .. n + 1
        OBVIOUS
      <4>2. QED
        BY <1>6, <1>15, <2>4, <4>1
    <3>2. QED
      BY <3>1
  <2>6. QED
    BY <1>1, <1>5, <2>1, <2>4, <2>5, SameItems DEF Text
<1>18. Solid(w)
  <2>1. Solid(o)
    BY <1>2, <1>3, Bracket DEF Solid
  <2>2. PICK r \in Text : r = j \o c
    BY <1>1, TextConcat
  <2>3. t = o \o r
    <3>1. Associates(o, j, c)
      BY <1>1, TextAssociative
    <3>2. (o \o j) \o c = o \o (j \o c)
      BY <3>1 DEF Associates
    <3>3. QED
      BY <1>4, <1>7, <2>2, <3>2
  <2>4. Solid((o \o r) \o p)
    BY <1>1, <2>1, SolidWrapped
  <2>5. QED
    BY <1>8, <2>3, <2>4
<1>19. Tidy(w, Listed)
  <2>1. Plain \cup {Open} \subseteq Listed /\ {Close} \subseteq Listed /\ Plain \subseteq Listed
    BY Bracket DEF Plain, Listed
  <2>2. Tidy(front, Listed) /\ Tidy(c, Listed) /\ Tidy(p, Listed)
    BY <1>1, <1>3, <1>9, <2>1, TidyMore
  <2>3. Tidy(t, Listed)
    BY <1>7, <2>2, TidyOn
  <2>4. QED
    BY <1>8, <2>2, <2>3, TidyOn
<1>20. Marked(w, Comma) = {} /\ Balanced(w)
  <2>1. Comma \notin Listed
    BY DEF Listed
  <2>2. Marked(w, Comma) = {}
    BY <1>19, <2>1, NoneMarked
  <2>3. QED
    BY <1>19, <2>2 DEF Tidy
<1>21. Len(front) + 1 = n + 2
  BY <1>6
<1>22. QED
  BY <1>5, <1>11, <1>13, <1>16, <1>17, <1>18, <1>20, <1>21

Regroups(a, b, c, d, e) == a \o (((b \o c) \o d) \o e) = (((a \o b) \o c) \o d) \o e

LEMMA FiveTexts ==
  ASSUME NEW a \in Text, NEW b \in Text, NEW c \in Text, NEW d \in Text, NEW e \in Text
  PROVE  Regroups(a, b, c, d, e)
<1>1. PICK bc \in Text, bcd \in Text : bc = b \o c /\ bcd = bc \o d
  BY TextConcat
<1>2. Associates(a, bcd, e) /\ Associates(a, bc, d) /\ Associates(a, b, c)
  BY TextAssociative
<1>3. QED
  BY <1>1, <1>2 DEF Associates, Regroups

(* The member is read as its components and its parameters. *)
LEMMA MemberRead ==
  ASSUME NEW cs \in [1..3 -> ComponentType], \A i \in 1..3 : Readable(cs[i].name),
         NEW j, j = Joined(Ids(cs), <<Space>>), NEW p, NEW q, NEW T, Spelled(p, q, T),
         NEW w, MemberOf(w, j, p), NEW label
  PROVE  ParseInputMember(label, w) =
           {[label |-> label, paramsValue |-> w, params |-> q, components |-> cs]}
<1>1. Solid(w) /\ w[1] = Open /\ FindUnquoted(w, Close) = {Len(j) + 2}
      /\ SubSeq(w, 2, Len(j) + 1) = j /\ SubSeq(w, Len(j) + 3, Len(w)) = p
  BY MemberShape
<1>2. PICK n \in Nat : n = Len(j)
  BY DEF MemberOf, Tidy, Text
<1>3. PICK close \in Nat : close = n + 2 /\ close - 1 = n + 1 /\ close + 1 = n + 3
  <2>1. n + 2 \in Nat /\ (n + 2) - 1 = n + 1 /\ (n + 2) + 1 = n + 3
    OBVIOUS
  <2>2. QED
    BY <2>1
<1>4. PICK ids : ids = Ids(cs)
  OBVIOUS
<1>5. Words(j) = ids /\ ids \in [1..3 -> Text] /\ \A i \in 1..3 : ReadsBack(cs[i], ids[i])
  BY <1>4, IdsRead
<1>6. Words(SubSeq(w, 2, close - 1)) = ids
  BY <1>1, <1>2, <1>3, <1>5
<1>7. ReadParams(SubSeq(w, close + 1, Len(w))) = {q}
  BY <1>1, <1>2, <1>3, ReadDone DEF Spelled
<1>8. DOMAIN ids = 1..3 /\ \A k \in 1..3 : FromQuotedId(ids[k]) = {cs[k]}
  BY <1>5 DEF ReadsBack
<1>9. [k \in DOMAIN ids |-> CHOOSE c \in FromQuotedId(ids[k]) : TRUE] = cs
  <2>1. \A k \in 1..3 : (CHOOSE c \in FromQuotedId(ids[k]) : TRUE) = cs[k]
    BY <1>8
  <2>2. QED
    BY <1>8, <2>1
<1>10. ~\E k \in DOMAIN ids : FromQuotedId(ids[k]) = {}
  BY <1>8
<1>11. Trim(w) = w /\ w # <<>>
  BY <1>1, SolidTrim DEF Solid
<1>12. FindUnquoted(w, Close) = {close}
  BY <1>1, <1>2, <1>3
<1> DEFINE Read(t, at) ==
      LET words == Words(SubSeq(t, 2, at - 1)) IN
      IF \E k \in DOMAIN words : FromQuotedId(words[k]) = {} THEN {}
      ELSE {[label |-> label, paramsValue |-> t, params |-> params,
             components |-> [k \in DOMAIN words |-> CHOOSE c \in FromQuotedId(words[k]) : TRUE]] :
            params \in ReadParams(SubSeq(t, at + 1, Len(t)))}
<1>13. Read(w, close) = {[label |-> label, paramsValue |-> w, params |-> q, components |-> cs]}
  <2>1. Read(w, close) = {[label |-> label, paramsValue |-> w, params |-> params,
                        components |-> [k \in DOMAIN ids |-> CHOOSE c \in FromQuotedId(ids[k]) : TRUE]] :
                       params \in {q}}
    BY <1>6, <1>7, <1>10
  <2>2. Read(w, close) = {[label |-> label, paramsValue |-> w, params |-> params, components |-> cs] :
                       params \in {q}}
    BY <1>9, <2>1
  <2>3. QED
    BY <2>2
<1>14. ParseInputMember(label, w) = UNION {Read(w, at) : at \in FindUnquoted(w, Close)}
  <2>1. ParseInputMember(label, w) =
          IF Trim(w) = <<>> \/ Trim(w)[1] # Open THEN {}
          ELSE UNION {Read(Trim(w), at) : at \in FindUnquoted(Trim(w), Close)}
    BY DEF ParseInputMember
  <2> HIDE DEF Read
  <2>2. QED
    BY <1>1, <1>11, <2>1
<1>15. QED
  <2> HIDE DEF Read
  <2>1. QED
    BY <1>12, <1>13, <1>14

(* It is found by tag just when it has the tag. *)
LEMMA MemberTags ==
  ASSUME NEW j, NEW p, NEW q, NEW T, Spelled(p, q, T), NEW w, MemberOf(w, j, p)
  PROVE  CarriesWimseTag(w) <=> {<<WimseTag>>} \in T
<1>1. Solid(w) /\ FindUnquoted(w, Close) = {Len(j) + 2} /\ SubSeq(w, Len(j) + 3, Len(w)) = p
  BY MemberShape
<1>2. PICK n \in Nat : n = Len(j)
  BY DEF MemberOf, Tidy, Text
<1>3. PICK close \in Nat : close = n + 2 /\ close + 1 = n + 3
  <2>1. n + 2 \in Nat /\ (n + 2) + 1 = n + 3
    OBVIOUS
  <2>2. QED
    BY <2>1
<1>4. Trim(w) = w
  BY <1>1, SolidTrim
<1>5. FindUnquoted(w, Close) = {close} /\ SubSeq(w, close + 1, Len(w)) = p
  BY <1>1, <1>2, <1>3
<1>6. CarriesWimseTag(w) <=>
        \E part \in ToSet(Semicolons(p)) : \E pair \in SplitOnce(part) :
          pair[1] = <<"tag">> /\ ParseSfString(Trim(pair[2])) = {<<WimseTag>>}
  BY <1>4, <1>5 DEF CarriesWimseTag
<1>7. {<<WimseTag>>} \in Tags(p) <=>
        \E part \in ToSet(Semicolons(p)) : \E pair \in SplitOnce(part) :
          pair[1] = <<"tag">> /\ ParseSfString(Trim(pair[2])) = {<<WimseTag>>}
  BY DEF Tags, TagOf
<1>8. QED
  BY <1>6, <1>7 DEF Spelled

(* Behind a member, one is as deep in lists as in front of it. *)
LEMMA MemberDepth ==
  ASSUME NEW t \in Text, Balanced(t), EndDepth(t) = 0, NEW j, NEW p, NEW w, MemberOf(w, j, p)
  PROVE  EndDepth(t \o w) = 0
<1>1. PICK a \in Text, b \in Text :
        a = j /\ b = p /\ Tidy(a, Plain) /\ Tidy(b, Plain) /\ w = ((<<Open>> \o a) \o <<Close>>) \o b
  BY DEF MemberOf, Tidy
<1>2. PICK o \in Text, c \in Text :
        o = <<Open>> /\ c = <<Close>> /\ Tidy(o, {Open}) /\ Tidy(c, {Close})
  BY Bracket
<1>3. PICK t1 \in Text : t1 = t \o o
  BY TextConcat
<1>4. EndDepth(t1) = 1 /\ Balanced(t1)
  <2>1. EndDepth(t1) = EndDepth(t) + 1
    BY <1>2, <1>3, DepthAfter
  <2>2. Balanced(t1)
    BY <1>2, <1>3, UnquotedOn DEF Tidy
  <2>3. QED
    BY <2>1, <2>2
<1>5. PICK t2 \in Text : t2 = t1 \o a
  BY TextConcat
<1>6. EndDepth(t2) = 1 /\ Balanced(t2)
  <2>1. Bracketless(a) /\ Balanced(a)
    BY <1>1, PlainBracketless DEF Tidy
  <2>2. QED
    BY <1>4, <1>5, <2>1, DepthFlat, UnquotedOn
<1>7. PICK t3 \in Text : t3 = t2 \o c
  BY TextConcat
<1>8. EndDepth(t3) = 0 /\ Balanced(t3)
  <2>1. Close # Open
    BY DEF Open, Close
  <2>2. EndDepth(t2 \o <<Close>>) = EndDepth(t2) - 1
    <3>1. EndDepth(t2) > 0
      BY <1>6
    <3>2. PICK x \in {Open, Close} : x = Close
      OBVIOUS
    <3>3. EndDepth(t2 \o <<x>>) =
            IF x = Open THEN EndDepth(t2) + 1
            ELSE IF EndDepth(t2) > 0 THEN EndDepth(t2) - 1 ELSE EndDepth(t2)
      BY <1>6, DepthAfter
    <3>4. QED
      BY <2>1, <3>1, <3>2, <3>3
  <2>3. Balanced(t3)
    BY <1>2, <1>6, <1>7, UnquotedOn DEF Tidy
  <2>4. QED
    BY <1>2, <1>6, <1>7, <2>2, <2>3
<1>9. EndDepth(t3 \o b) = 0
  <2>1. Bracketless(b)
    BY <1>1, PlainBracketless
  <2>2. QED
    BY <1>8, <2>1, DepthFlat
<1>10. t \o w = t3 \o b
  <2>1. Regroups(t, o, a, c, b)
    BY FiveTexts
  <2>2. QED
    BY <1>1, <1>2, <1>3, <1>5, <1>7, <2>1 DEF Regroups
<1>11. QED
  BY <1>9, <1>10

(***************************************************************************)
(* The parameters that the signers of the model give.                      *)
(***************************************************************************)
LEMMA FlattenedNine ==
  ASSUME NEW S, NEW seqs \in [1..9 -> Seq(S)],
         \A i \in {2, 3, 4, 7, 9} : seqs[i] = <<>>
  PROVE  FlattenSeq(seqs) = ((seqs[1] \o seqs[5]) \o seqs[6]) \o seqs[8]
<1>1. seqs \in Seq(Seq(S)) /\ Len(seqs) = 9
  <2>0. PICK R : R = Seq(S)
    OBVIOUS
  <2>1. PICK n \in Nat : n = 9 /\ R = Seq(S)
    BY <2>0
  <2>2. seqs \in [1..n -> R]
    BY <2>1
  <2>3. seqs \in Seq(R) /\ Len(seqs) = n
    BY <2>2, AsSequence
  <2>4. QED
    BY <2>1, <2>3
<1>2. PICK f \in [0..9 -> Seq(S)] : Accumulates(f, seqs, 9) /\ FlattenSeq(seqs) = f[9]
  <2>1. \E f \in [0..Len(seqs) -> Seq(S)] :
           Accumulates(f, seqs, Len(seqs)) /\ FlattenSeq(seqs) = f[Len(seqs)]
    BY <1>1, Flattened
  <2>2. QED
    BY <1>1, <2>1
<1>3. f[0] = <<>> /\ \A i \in 0 .. 9 - 1 : f[i + 1] = f[i] \o seqs[i + 1]
  BY <1>2 DEF Accumulates
<1>4. /\ f[0 + 1] = f[0] \o seqs[0 + 1] /\ f[1 + 1] = f[1] \o seqs[1 + 1]
      /\ f[2 + 1] = f[2] \o seqs[2 + 1] /\ f[3 + 1] = f[3] \o seqs[3 + 1]
      /\ f[4 + 1] = f[4] \o seqs[4 + 1] /\ f[5 + 1] = f[5] \o seqs[5 + 1]
      /\ f[6 + 1] = f[6] \o seqs[6 + 1] /\ f[7 + 1] = f[7] \o seqs[7 + 1]
      /\ f[8 + 1] = f[8] \o seqs[8 + 1]
  <2>1. \A i \in {0, 1, 2, 3, 4, 5, 6, 7, 8} : i \in 0 .. 9 - 1
    OBVIOUS
  <2>2. QED
    BY <1>3, <2>1
<1>5. /\ f[1] = f[0] \o seqs[1] /\ f[2] = f[1] \o seqs[2] /\ f[3] = f[2] \o seqs[3]
      /\ f[4] = f[3] \o seqs[4] /\ f[5] = f[4] \o seqs[5] /\ f[6] = f[5] \o seqs[6]
      /\ f[7] = f[6] \o seqs[7] /\ f[8] = f[7] \o seqs[8] /\ f[9] = f[8] \o seqs[9]
  <2>1. /\ 0 + 1 = 1 /\ 1 + 1 = 2 /\ 2 + 1 = 3 /\ 3 + 1 = 4 /\ 4 + 1 = 5 /\ 5 + 1 = 6
        /\ 6 + 1 = 7 /\ 7 + 1 = 8 /\ 8 + 1 = 9
    OBVIOUS
  <2>2. QED
    BY <1>4, <2>1
<1>6. \A i \in 0..9 : f[i] \in Seq(S)
  OBVIOUS
<1>7. \A s \in Seq(S) : <<>> \o s = s /\ s \o <<>> = s
  BY EmptyConcat
<1>8. f[1] = seqs[1] /\ f[1] \in Seq(S)
  <2>1. 1 \in 1..9 /\ 1 \in 0..9
    OBVIOUS
  <2>2. seqs[1] \in Seq(S)
    BY <2>1
  <2>3. <<>> \o seqs[1] = seqs[1]
    BY <1>7, <2>2
  <2>4. f[1] = <<>> \o seqs[1]
    BY <1>3, <1>5
  <2>5. QED
    BY <2>2, <2>3, <2>4
<1>9. f[2] = f[1] /\ f[3] = f[2] /\ f[4] = f[3]
  <2>1. seqs[2] = <<>> /\ seqs[3] = <<>> /\ seqs[4] = <<>>
    OBVIOUS
  <2>2. f[2] = f[1] \o <<>> /\ f[3] = f[2] \o <<>> /\ f[4] = f[3] \o <<>>
    BY <1>5, <2>1
  <2>3. f[2] = f[1]
    BY <1>7, <1>8, <2>2
  <2>4. f[3] = f[2]
    BY <1>7, <1>8, <2>2, <2>3
  <2>5. f[4] = f[3]
    BY <1>7, <1>8, <2>2, <2>3, <2>4
  <2>6. QED
    BY <2>3, <2>4, <2>5
<1>10. f[6] = (f[4] \o seqs[5]) \o seqs[6] /\ f[7] = f[6]
  <2>1. f[6] \in Seq(S)
    BY <1>6
  <2>2. QED
    BY <1>5, <1>7, <2>1
<1>11. f[9] = f[8] /\ f[8] = f[6] \o seqs[8]
  <2>1. f[8] \in Seq(S)
    BY <1>6
  <2>2. QED
    BY <1>5, <1>7, <1>10, <2>1
<1>12. QED
  BY <1>2, <1>8, <1>9, <1>10, <1>11

(* The parameters x, v, w and what sr holds, and no others. *)
Given(params, x, v, w, sr) ==
  /\ params = [n \in ToSet(Order) |-> params[n]]
  /\ params["created"] = {x} /\ params["nonce"] = {v} /\ params["tag"] = {w}
  /\ params[SignResponse] = sr
  /\ \A n \in ToSet(Order) \ {"created", "nonce", "tag", SignResponse} : params[n] = {}
  /\ x \in Numbers /\ x \in Quiet /\ x \notin Blanks /\ v \in Text /\ w \in Text
  /\ sr \in {{}, {TRUE}, {FALSE}}

ParamTexts(params) == [i \in DOMAIN Order |-> WrittenIfAny(Order[i], params[Order[i]])]

LEMMA OneWritten ==
  ASSUME NEW name, NEW x PROVE WrittenIfAny(name, {x}) = WrittenParam(name, x)
<1>1. (CHOOSE v \in {x} : TRUE) = x
  OBVIOUS
<1>2. {x} # {}
  OBVIOUS
<1>3. QED
  BY <1>1, <1>2 DEF WrittenIfAny

(* Parameters are written in their order, the ones that there are. *)
LEMMA GivenWritten ==
  ASSUME NEW params, NEW x, NEW v, NEW w, NEW sr, Given(params, x, v, w, sr)
  PROVE  FlattenSeq(ParamTexts(params)) =
           ((WrittenParam("created", x) \o WrittenParam("nonce", v)) \o WrittenParam("tag", w))
             \o WrittenIfAny(SignResponse, sr)
<1>1. PICK seqs : seqs = ParamTexts(params)
  OBVIOUS
<1>2. DOMAIN Order = 1..9
  BY OrderType
<1>3. /\ Order[1] = "created" /\ Order[2] = "expires" /\ Order[3] = "keyid" /\ Order[4] = "alg"
      /\ Order[5] = "nonce" /\ Order[6] = "tag" /\ Order[7] = "wimse-aud"
      /\ Order[8] = SignResponse /\ Order[9] = "wimse-req-nonce"
  BY DEF Order
<1>4. /\ DOMAIN seqs = 1..9 /\ seqs = [i \in 1..9 |-> WrittenIfAny(Order[i], params[Order[i]])]
      /\ \A i \in 1..9 : seqs[i] = WrittenIfAny(Order[i], params[Order[i]])
  BY <1>1, <1>2 DEF ParamTexts
<1>5. /\ params["created"] = {x} /\ params["nonce"] = {v} /\ params["tag"] = {w}
      /\ params[SignResponse] = sr
      /\ \A n \in ToSet(Order) \ {"created", "nonce", "tag", SignResponse} : params[n] = {}
      /\ x \in Quiet /\ v \in Text /\ w \in Text /\ sr \in {{}, {TRUE}, {FALSE}}
      /\ x \in Numbers /\ x \notin Blanks
  BY DEF Given
<1>6. ASSUME NEW i \in {2, 3, 4, 7, 9} PROVE seqs[i] = <<>>
  <2>1. i \in 1..9 /\ Order[i] \notin {"created", "nonce", "tag", SignResponse}
    BY <1>3 DEF SignResponse
  <2>2. params[Order[i]] = {}
    BY <1>5, <2>1, OrderType
  <2>3. QED
    BY <1>4, <2>1, <2>2 DEF WrittenIfAny
<1>7. seqs[1] = WrittenParam("created", x) /\ seqs[5] = WrittenParam("nonce", v) /\ seqs[6] = WrittenParam("tag", w)
  <2>1. 1 \in 1..9 /\ 5 \in 1..9 /\ 6 \in 1..9
    OBVIOUS
  <2>2. QED
    BY <1>3, <1>4, <1>5, <2>1, OneWritten
<1>8. seqs[8] = WrittenIfAny(SignResponse, sr)
  <2>1. 8 \in 1..9
    OBVIOUS
  <2>2. QED
    BY <1>3, <1>4, <1>5, <2>1
<1>9. seqs \in [1..9 -> Seq(Alphabet)]
  <2>1. WrittenParam("created", x) \in Text
    BY <1>5, SpelledNone, SpellInteger DEF Solid
  <2>2. WrittenParam("nonce", v) \in Text /\ WrittenParam("tag", w) \in Text
    <3>1. "nonce" \in {"nonce", "tag"} /\ "tag" \in {"nonce", "tag"}
      OBVIOUS
    <3>2. QED
      BY <1>5, <3>1, SpelledNone, SpellString DEF Solid
  <2>3. WrittenIfAny(SignResponse, sr) \in Text
    <3>1. CASE sr = {}
      BY <3>1, EmptyText DEF WrittenIfAny
    <3>2. CASE sr # {}
      <4>1. PICK b \in BOOLEAN : sr = {b}
        BY <1>5, <3>2
      <4>2. QED
        BY <4>1, OneWritten, SpelledNone, SpellBoolean DEF Solid
    <3>3. QED
      BY <3>1, <3>2
  <2>4. ASSUME NEW i \in 1..9 PROVE seqs[i] \in Text
    <3>1. i \in {2, 3, 4, 7, 9} \/ i = 1 \/ i = 5 \/ i = 6 \/ i = 8
      OBVIOUS
    <3>2. QED
      BY <1>6, <1>7, <1>8, <2>1, <2>2, <2>3, <3>1, EmptyText
  <2>5. QED
    BY <1>4, <2>4 DEF Text
<1>10. QED
  BY <1>1, <1>6, <1>7, <1>8, <1>9, FlattenedNine

(* The text of the parameters reads back as them. *)
LEMMA GivenRead ==
  ASSUME NEW params, NEW x, NEW v, NEW w, NEW sr, Given(params, x, v, w, sr)
  PROVE  LET p == FlattenSeq(ParamTexts(params)) IN Spelled(p, params, {{w}}) /\ Solid(p)
<1>1. /\ params = [n \in ToSet(Order) |-> params[n]]
      /\ params["created"] = {x} /\ params["nonce"] = {v} /\ params["tag"] = {w}
      /\ params[SignResponse] = sr
      /\ \A n \in ToSet(Order) \ {"created", "nonce", "tag", SignResponse} : params[n] = {}
      /\ x \in Quiet /\ v \in Text /\ w \in Text /\ sr \in {{}, {TRUE}, {FALSE}}
      /\ x \in Numbers /\ x \notin Blanks
  BY DEF Given
<1>2. PICK c, n, t, r : /\ c = WrittenParam("created", x) /\ n = WrittenParam("nonce", v)
                        /\ t = WrittenParam("tag", w) /\ r = WrittenIfAny(SignResponse, sr)
  OBVIOUS
<1>3. PICK q1 : q1 = [NoParams EXCEPT !["created"] = {x}]
  OBVIOUS
<1>4. Spelled(c, q1, {}) /\ Solid(c)
  <2>1. Spelled(<<>> \o c, q1, {}) /\ Solid(c)
    BY <1>1, <1>2, <1>3, SpelledNone, SpellInteger
  <2>2. <<>> \o c = c
    BY <2>1, EmptyConcat DEF Solid, Text
  <2>3. QED
    BY <2>1, <2>2
<1>5. PICK q2, cn : q2 = [q1 EXCEPT !["nonce"] = {v}] /\ cn = c \o n
  OBVIOUS
<1>6. Spelled(cn, q2, {}) /\ Solid(n)
  <2>0. PICK T, name : T = {} /\ name = "nonce"
    OBVIOUS
  <2>1. T = {} /\ name = "nonce" /\ name \in {"nonce", "tag"} /\ name # "tag"
    BY <2>0
  <2>2. /\ Spelled(c \o WrittenParam(name, v), [q1 EXCEPT ![name] = {v}],
                   T \cup (IF name = "tag" THEN {{v}} ELSE {}))
        /\ Solid(WrittenParam(name, v))
    BY <1>1, <1>4, <2>1, SpellString
  <2>3. T \cup (IF name = "tag" THEN {{v}} ELSE {}) = {}
    BY <2>1
  <2>4. QED
    BY <1>2, <1>5, <2>1, <2>2, <2>3
<1>7. PICK q3, cnt : q3 = [q2 EXCEPT !["tag"] = {w}] /\ cnt = cn \o t
  OBVIOUS
<1>8. Spelled(cnt, q3, {{w}}) /\ Solid(t)
  <2>0. PICK T, name : T = {} /\ name = "tag"
    OBVIOUS
  <2>1. T = {} /\ name = "tag" /\ name \in {"nonce", "tag"}
    BY <2>0
  <2>2. /\ Spelled(cn \o WrittenParam(name, w), [q2 EXCEPT ![name] = {w}],
                   T \cup (IF name = "tag" THEN {{w}} ELSE {}))
        /\ Solid(WrittenParam(name, w))
    BY <1>1, <1>6, <2>1, SpellString
  <2>3. T \cup (IF name = "tag" THEN {{w}} ELSE {}) = {{w}}
    BY <2>1
  <2>4. QED
    BY <1>2, <1>7, <2>1, <2>2, <2>3
<1>9. Solid(cnt)
  BY <1>4, <1>5, <1>6, <1>7, <1>8, SolidOn
<1>10. /\ DOMAIN NoParams = ToSet(Order) /\ q3 = [m \in ToSet(Order) |-> q3[m]]
       /\ q3["created"] = {x} /\ q3["nonce"] = {v} /\ q3["tag"] = {w} /\ q3[SignResponse] = {}
       /\ \A m \in ToSet(Order) \ {"created", "nonce", "tag", SignResponse} : q3[m] = {}
  <2>1. NoParams = [m \in ToSet(Order) |-> NoParams[m]] /\ \A m \in ToSet(Order) : NoParams[m] = {}
    BY DEF NoParams
  <2>2. SignResponse \notin {"created", "nonce", "tag"}
    BY DEF SignResponse
  <2>3. QED
    BY <1>3, <1>5, <1>7, <2>1, <2>2, OrderNames
<1>11. FlattenSeq(ParamTexts(params)) = cnt \o r
  <2>1. FlattenSeq(ParamTexts(params)) =
          ((WrittenParam("created", x) \o WrittenParam("nonce", v)) \o WrittenParam("tag", w))
            \o WrittenIfAny(SignResponse, sr)
    BY GivenWritten
  <2>2. QED
    BY <1>2, <1>5, <1>7, <2>1
<1>12. CASE sr = {}
  <2>1. r = <<>>
    BY <1>2, <1>12 DEF WrittenIfAny
  <2>2. cnt \o r = cnt
    BY <1>9, <2>1, EmptyConcat DEF Solid, Text
  <2>3. params = q3
    <3>1. \A m \in ToSet(Order) : params[m] = q3[m]
      BY <1>1, <1>10, <1>12
    <3>2. QED
      BY <1>1, <1>10, <3>1
  <2>4. QED
    BY <1>8, <1>9, <1>11, <2>2, <2>3
<1>13. CASE sr # {}
  <2>1. PICK b \in BOOLEAN : sr = {b}
    BY <1>1, <1>13
  <2>2. r = WrittenParam(SignResponse, b)
    BY <1>2, <2>1, OneWritten
  <2>3. PICK q4 : q4 = [q3 EXCEPT ![SignResponse] = {b}]
    OBVIOUS
  <2>4. Spelled(cnt \o r, q4, {{w}}) /\ Solid(r)
    BY <1>8, <2>2, <2>3, SpellBoolean
  <2>5. Solid(cnt \o r)
    BY <1>9, <2>4, SolidOn
  <2>6. params = q4
    <3>1. /\ q4 = [m \in ToSet(Order) |-> q4[m]] /\ q4[SignResponse] = {b}
          /\ \A m \in ToSet(Order) \ {SignResponse} : q4[m] = q3[m]
      BY <1>10, <2>3, OrderNames
    <3>2. \A m \in ToSet(Order) : params[m] = q4[m]
      <4>1. SignResponse \notin {"created", "nonce", "tag"}
        BY DEF SignResponse
      <4>2. QED
        BY <1>1, <1>10, <2>1, <3>1, <4>1
    <3>3. QED
      BY <1>1, <3>1, <3>2
  <2>7. QED
    BY <1>11, <2>4, <2>5, <2>6
<1>14. QED
  BY <1>12, <1>13

(***************************************************************************)
(* Members of dictionaries, one or two of them.                            *)
(***************************************************************************)
LabelSet == LowerWords \cup Numbers \cup Marks

(* The characters of a label are no delimiters. *)
LEMMA LabelCharacters ==
  /\ \A c \in LabelSet : c \in Alphabet /\ c \in Plain /\ c \notin Blanks /\ c # Equals
  /\ Numbers \subseteq Quiet /\ \A c \in Numbers : c \notin Blanks
<1>1. \A c \in Marks : c \in Alphabet
  BY DEF Alphabet, Literals
<1>2. \A c \in Marks : c \notin {DQuote, Space, LineFeed, Comma, Semicolon, Equals, Open, Close}
  BY DEF Marks, DQuote, Space, LineFeed, Comma, Semicolon, Equals, Open, Close
<1>3. \A c \in LowerWords \cup Numbers :
        c \in Alphabet /\ c \notin {DQuote, Space, LineFeed, Comma, Semicolon, Equals, Open, Close}
  BY WordsAssumption DEF Alphabet
<1>4. QED
  BY <1>1, <1>2, <1>3 DEF LabelSet, Plain, Quiet, Blanks

LEMMA LabelShape ==
  ASSUME NEW l \in Text, CheckedLabel(l)
  PROVE  Solid(l) /\ Tidy(l, Plain) /\ \A i \in 1..Len(l) : l[i] # Equals
<1>1. PICK n \in Nat : n = Len(l) /\ DOMAIN l = 1..n
  BY DEF Text
<1>2. \A i \in 1..n : l[i] \in LabelSet
  BY <1>1 DEF CheckedLabel, LabelSet, ToSet
<1>3. n >= 1
  BY <1>1, EmptyText DEF CheckedLabel, Text
<1>4. 1 \in 1..n /\ n \in 1..n
  BY <1>3
<1>5. Solid(l)
  BY <1>1, <1>2, <1>3, <1>4, LabelCharacters DEF Solid
<1>6. \A i \in 1..Len(l) : l[i] \in Plain
  BY <1>1, <1>2, LabelCharacters
<1>7. DQuote \notin Plain
  BY DEF Plain
<1>8. Tidy(l, Plain)
  BY <1>6, <1>7, TidyWord
<1>9. QED
  BY <1>1, <1>2, <1>5, <1>8, LabelCharacters

(* Something a dictionary can hold. *)
Holds(s, label, value) ==
  Entry(s, label, value) /\ Marked(s, Comma) = {} /\ Balanced(s) /\ EndDepth(s) = 0

(* What a dictionary can hold it does hold, by itself or before another. *)
LEMMA HoldsOne ==
  ASSUME NEW texts, Len(texts) = 1, NEW l, NEW v, Holds(texts[1], l, v), NEW separator
  PROVE  SplitDictionary(Joined(texts, separator)) = {<<<<l, v>>>>}
<1>1. PICK s : s = texts[1]
  OBVIOUS
<1>2. Joined(texts, separator) = s
  BY <1>1, JoinedOne
<1>3. QED
  BY <1>1, <1>2, OneEntry DEF Holds

LEMMA HoldsTwo ==
  ASSUME NEW texts, Len(texts) = 2, NEW l, NEW v, Holds(texts[1], l, v),
         NEW k, NEW u, Holds(texts[2], k, u)
  PROVE  ReadsAsTwo(Joined(texts, <<Comma, Space>>), l, v, k, u)
<1>1. PICK s, t : s = texts[1] /\ t = texts[2]
  OBVIOUS
<1>2. /\ Entry(s, l, v) /\ Marked(s, Comma) = {} /\ Balanced(s) /\ EndDepth(s) = 0
      /\ Entry(t, k, u) /\ Marked(t, Comma) = {}
  BY <1>1 DEF Holds
<1>3. s \in Text /\ t \in Text
  BY <1>2, EntryRead DEF Solid
<1>4. PICK c \in Text, b \in Text : c = <<Comma>> /\ b = <<Space>>
  BY Characters, OneChar
<1>5. PICK w : w = (s \o <<Comma>>) \o (<<Space>> \o t)
  OBVIOUS
<1>6. Joined(texts, <<Comma, Space>>) = w
  <2>1. Joined(texts, <<Comma, Space>>) = (s \o <<Comma, Space>>) \o t
    BY <1>1, JoinedTwo
  <2>2. (s \o <<Comma, Space>>) \o t = (s \o <<Comma>>) \o (<<Space>> \o t)
    <3>1. Spreads(s, t, Comma, Space)
      BY <1>3, Characters, Spread
    <3>2. QED
      BY <3>1 DEF Spreads
  <2>3. QED
    BY <1>5, <2>1, <2>2
<1>7. Depths(w)[Len(s) + 1] = 0
  <2>1. PICK r \in Text, cr \in Text : r = b \o t /\ cr = c \o r
    BY <1>3, TextConcat
  <2>2. Associates(s, c, r)
    BY <1>3, TextAssociative
  <2>3. w = s \o cr
    BY <1>4, <1>5, <2>1, <2>2 DEF Associates
  <2>4. QED
    BY <1>2, <1>3, <2>3, DepthOn
<1>8. Comprises(w, s, t)
  BY <1>5, <1>7 DEF Comprises
<1>9. ReadsAsTwo(w, l, v, k, u)
  BY <1>2, <1>8, TwoEntries
<1>10. QED
  BY <1>6, <1>9

(***************************************************************************)
(* Members of Signature-Input.                                             *)
(***************************************************************************)
MemberMade(m) ==
  /\ m.label \in Text /\ CheckedLabel(m.label)
  /\ m.components \in [1..3 -> ComponentType]
  /\ \A i \in 1..3 : Readable(m.components[i].name)
  /\ \E x, v, w, sr : Given(m.params, x, v, w, sr)

MemberReads(m) ==
  LET pv == SerializeParamsValue(m.components, m.params) IN
  /\ Holds(SignatureInput(m.label, m.components, m.params), m.label, pv)
  /\ ParseInputMember(m.label, pv) =
       {[label |-> m.label, paramsValue |-> pv, params |-> m.params, components |-> m.components]}
  /\ CarriesWimseTag(pv) <=> m.params["tag"] = {<<WimseTag>>}

(* A label and a value that closes its brackets. *)
LEMMA LabelledHolds ==
  ASSUME NEW l \in Text, CheckedLabel(l), NEW v, Solid(v), Marked(v, Comma) = {}, Balanced(v),
         \A t \in Text : Balanced(t) /\ EndDepth(t) = 0 => EndDepth(t \o v) = 0
  PROVE  Holds((l \o <<Equals>>) \o v, l, v)
<1>1. Solid(l) /\ Tidy(l, Plain) /\ \A i \in 1..Len(l) : l[i] # Equals
  BY LabelShape
<1>2. PICK e \in Text : e = <<Equals>> /\ Tidy(e, Plain)
  <2>1. Equals \in Quiet /\ Quiet \subseteq Plain
    BY EqualsQuiet DEF Quiet, Plain
  <2>2. Equals \in Alphabet /\ Tidy(<<Equals>>, Quiet)
    BY <2>1, Atom
  <2>3. QED
    BY <2>1, <2>2, OneChar, TidyMore
<1>3. PICK t \in Text : t = l \o e
  BY TextConcat
<1>4. Tidy(t, Plain)
  BY <1>1, <1>2, <1>3, TidyOn
<1>5. Balanced(t) /\ Marked(t, Comma) = {} /\ Bracketless(t)
  BY <1>4, PlainBracketless DEF Tidy
<1>6. EndDepth(t) = 0
  BY <1>5, DepthNone
<1>7. v \in Text
  BY DEF Solid
<1>8. PICK s \in Text : s = t \o v
  BY <1>7, TextConcat
<1>9. EndDepth(s) = 0
  BY <1>5, <1>6, <1>8
<1>10. Balanced(s)
  BY <1>5, <1>7, <1>8, UnquotedOn
<1>11. Marked(s, Comma) = {}
  <2>1. Chained(s, t, Len(t), v, Len(v))
    BY <1>7, <1>8, ChainedIs
  <2>2. PICK n \in Nat, k \in Nat : n = Len(t) /\ k = Len(v) /\ Len(s) = n + k
    BY <2>1 DEF Chained
  <2>3. /\ \A i \in 1..Len(t) : i \in Marked(s, Comma) <=> i \in Marked(t, Comma)
        /\ \A i \in 1..Len(v) : Len(t) + i \in Marked(s, Comma) <=> i \in Marked(v, Comma)
    BY <1>5, <1>7, <1>8, MarkedOn
  <2>4. ASSUME NEW i \in 1 .. n + k PROVE i \notin Marked(s, Comma)
    <3>1. CASE i <= n
      BY <1>5, <2>2, <2>3, <3>1
    <3>2. CASE i > n
      <4>1. i - n \in 1..k /\ n + (i - n) = i
        BY <3>2
      <4>2. PICK j \in 1..k : n + j = i
        BY <4>1
      <4>3. QED
        BY <2>2, <2>3, <4>2
    <3>3. QED
      BY <3>1, <3>2
  <2>5. QED
    BY <2>2, <2>4, MarkedIn
<1>12. s = (l \o <<Equals>>) \o v
  BY <1>2, <1>3, <1>8
<1>13. Entry(s, l, v)
  BY <1>1, <1>12 DEF Entry
<1>14. QED
  BY <1>9, <1>10, <1>11, <1>12, <1>13 DEF Holds

(* A member reads back as what it was made of, whatever its values, its    *)
(* label and the names in it (split_dictionary, parse_input_member,        *)
(* has_wimse_tag).                                                         *)
LEMMA MadeReads ==
  ASSUME NEW m, MemberMade(m)
  PROVE  MemberReads(m)
<1>1. PICK x, v, w, sr : Given(m.params, x, v, w, sr)
  BY DEF MemberMade
<1>2. PICK l \in Text : l = m.label /\ CheckedLabel(l)
  BY DEF MemberMade
<1>3. PICK cs \in [1..3 -> ComponentType] : cs = m.components /\ \A i \in 1..3 : Readable(cs[i].name)
  BY DEF MemberMade
<1>4. PICK params : params = m.params
  OBVIOUS
<1>5. PICK j : j = Joined(Ids(cs), <<Space>>)
  OBVIOUS
<1>6. PICK p : p = FlattenSeq(ParamTexts(params))
  OBVIOUS
<1>7. Spelled(p, params, {{w}}) /\ Solid(p)
  BY <1>1, <1>4, <1>6, GivenRead
<1>8. PICK pv : pv = SerializeParamsValue(cs, params)
  OBVIOUS
<1>9. pv = ((<<Open>> \o j) \o <<Close>>) \o p
  BY <1>5, <1>6, <1>8 DEF SerializeParamsValue, Ids, ParamTexts
<1>10. Tidy(j, Plain)
  BY <1>3, <1>5, IdsRead
<1>11. MemberOf(pv, j, p)
  BY <1>7, <1>9, <1>10 DEF MemberOf, Spelled
<1>12. Solid(pv) /\ Marked(pv, Comma) = {} /\ Balanced(pv)
  BY <1>11, MemberShape
<1>13. ASSUME NEW t \in Text, Balanced(t), EndDepth(t) = 0 PROVE EndDepth(t \o pv) = 0
  BY <1>11, <1>13, MemberDepth
<1>14. Holds((l \o <<Equals>>) \o pv, l, pv)
  BY <1>2, <1>12, <1>13, LabelledHolds
<1>15. SignatureInput(l, cs, params) = (l \o <<Equals>>) \o pv
  BY <1>8 DEF SignatureInput
<1>16. ParseInputMember(l, pv) =
         {[label |-> l, paramsValue |-> pv, params |-> params, components |-> cs]}
  BY <1>3, <1>5, <1>7, <1>11, MemberRead
<1>17. CarriesWimseTag(pv) <=> {<<WimseTag>>} \in {{w}}
  BY <1>7, <1>11, MemberTags
<1>18. params["tag"] = {w}
  BY <1>1, <1>4 DEF Given
<1>19. CarriesWimseTag(pv) <=> params["tag"] = {<<WimseTag>>}
  BY <1>17, <1>18
<1>20. QED
  BY <1>2, <1>3, <1>4, <1>8, <1>14, <1>15, <1>16, <1>19 DEF MemberReads

(***************************************************************************)
(* Members of Signature.                                                   *)
(***************************************************************************)
Wrapped(b) == <<":", b, Equals, ":">>

LEMMA WrappedShape ==
  ASSUME NEW b \in Plain
  PROVE  Wrapped(b) \in Text /\ Solid(Wrapped(b)) /\ Tidy(Wrapped(b), Plain)
<1>1. ":" \in Alphabet /\ ":" \notin Blanks /\ ":" \notin {DQuote, Comma, Open, Close}
  BY DEF Alphabet, Literals, Blanks, DQuote, Comma, Open, Close, Space, LineFeed
<1>2. Equals \in Alphabet /\ Equals \notin {DQuote, Comma, Open, Close}
  BY Characters DEF Equals, DQuote, Comma, Open, Close
<1>3. PICK c \in Plain, e \in Plain : c = ":" /\ e = Equals
  BY <1>1, <1>2 DEF Plain
<1>4. PICK v : v = <<c, b, e, c>>
  OBVIOUS
<1>5. v \in Seq(Plain) /\ Len(v) = 4 /\ v[1] = c /\ v[4] = c
  BY <1>4
<1>6. v \in Text /\ \A i \in 1..Len(v) : v[i] \in Plain
  <2>1. \A i \in 1..4 : v[i] \in Plain
    BY <1>4
  <2>2. c \in Alphabet /\ b \in Alphabet /\ e \in Alphabet
    BY DEF Plain
  <2>3. v \in Seq(Alphabet)
    BY <1>4, <2>2
  <2>4. QED
    BY <1>5, <2>1, <2>3 DEF Text
<1>7. DQuote \notin Plain
  BY DEF Plain
<1>8. Tidy(v, Plain)
  BY <1>6, <1>7, TidyWord
<1>9. Solid(v)
  BY <1>1, <1>3, <1>5, <1>6 DEF Solid
<1>10. v = Wrapped(b)
  BY <1>3, <1>4 DEF Wrapped
<1>11. QED
  BY <1>6, <1>8, <1>9, <1>10

LEMMA SignatureIs ==
  ASSUME NEW l \in Text, NEW b \in Plain
  PROVE  Signature(l, b) = (l \o <<Equals>>) \o Wrapped(b)
<1>1. PICK c \in Alphabet, e \in Alphabet, x \in Alphabet : c = ":" /\ e = Equals /\ x = b
  BY Characters DEF Plain, Alphabet, Literals
<1>2. PICK p, v, w : p = <<e>> /\ v = <<c, x, e, c>> /\ w = <<e, c, x, e, c>>
  OBVIOUS
<1>3. /\ p \in Text /\ Len(p) = 1 /\ p[1] = e
      /\ v \in Text /\ Len(v) = 4 /\ v[1] = c /\ v[2] = x /\ v[3] = e /\ v[4] = c
  BY <1>2 DEF Text
<1>4. /\ w \in Text /\ Len(w) = 5 /\ w[1] = e /\ w[2] = c /\ w[3] = x /\ w[4] = e /\ w[5] = c
  BY <1>2 DEF Text
<1>h. PICK a : a = p \o v
  OBVIOUS
<1>5. a \in Text /\ Len(a) = 5 /\ a[1] = p[1] /\ \A i \in 1..4 : a[1 + i] = v[i]
  <2>1. /\ p \o v \in Text /\ Len(p \o v) = Len(p) + Len(v)
        /\ \A i \in 1..Len(p) : (p \o v)[i] = p[i]
        /\ \A i \in 1..Len(v) : (p \o v)[Len(p) + i] = v[i]
    BY <1>3, TextConcat
  <2>2. 1 \in 1..1
    OBVIOUS
  <2>3. QED
    BY <1>h, <1>3, <2>1, <2>2
<1>6. \A i \in 1..5 : a[i] = w[i]
  <2>1. a[1 + 1] = c /\ a[1 + 2] = x /\ a[1 + 3] = e /\ a[1 + 4] = c
    BY <1>3, <1>5
  <2>2. QED
    BY <1>3, <1>4, <1>5, <2>1
<1>7. a = w
  BY <1>4, <1>5, <1>6, SameItems DEF Text
<1>8. Associates(l, p, v)
  BY <1>3, TextAssociative
<1>9. l \o w = (l \o p) \o v
  BY <1>h, <1>7, <1>8 DEF Associates
<1>10. w = <<Equals, ":", b, Equals, ":">> /\ p = <<Equals>> /\ v = Wrapped(b)
  BY <1>1, <1>2 DEF Wrapped
<1>11. QED
  BY <1>9, <1>10 DEF Signature

(* A signature under its label, in which nothing passes for a delimiter. *)
LEMMA SignatureHolds ==
  ASSUME NEW l \in Text, CheckedLabel(l), NEW b \in Plain
  PROVE  Holds(Signature(l, b), l, Wrapped(b))
<1>1. PICK v \in Text : v = Wrapped(b) /\ Solid(v) /\ Tidy(v, Plain)
  BY WrappedShape
<1>2. Marked(v, Comma) = {} /\ Balanced(v) /\ Bracketless(v)
  BY <1>1, PlainBracketless DEF Tidy
<1>3. ASSUME NEW t \in Text, Balanced(t), EndDepth(t) = 0 PROVE EndDepth(t \o v) = 0
  BY <1>2, <1>3, DepthFlat
<1>4. Holds((l \o <<Equals>>) \o v, l, v)
  BY <1>1, <1>2, <1>3, LabelledHolds
<1>5. QED
  BY <1>1, <1>4, SignatureIs

(* Which of the members of a dictionary are found. *)
FoundMember(dict, label) ==
  {m[2][2] : m \in {m \in ToSet(dict) :
     /\ m[1] = label
     /\ Len(m[2]) = 4 /\ m[2][1] = ":" /\ m[2][3] = Equals /\ m[2][4] = ":"}}

LEMMA FoundIn ==
  ASSUME NEW text, NEW dict, SplitDictionary(text) = {dict}, NEW label
  PROVE  ParseSignatureText(text, label) = FoundMember(dict, label)
<1>1. UNION {ToSet(d) : d \in SplitDictionary(text)} = ToSet(dict)
  OBVIOUS
<1>2. QED
  BY <1>1 DEF ParseSignatureText, FoundMember

LEMMA WrappedIs ==
  ASSUME NEW b
  PROVE  LET v == Wrapped(b) IN Len(v) = 4 /\ v[1] = ":" /\ v[2] = b /\ v[3] = Equals /\ v[4] = ":"
BY DEF Wrapped

(* A signature is found under its label, and no other is. *)
LEMMA FoundOne ==
  ASSUME NEW l, NEW b
  PROVE  FoundMember(<<<<l, Wrapped(b)>>>>, l) = {b}
<1>1. PICK v, m, d : v = Wrapped(b) /\ m = <<l, v>> /\ d = <<m>>
  OBVIOUS
<1>2. ToSet(d) = {m}
  BY <1>1 DEF ToSet
<1>3. m[1] = l /\ m[2] = v
  BY <1>1
<1>4. Len(v) = 4 /\ v[1] = ":" /\ v[2] = b /\ v[3] = Equals /\ v[4] = ":"
  BY <1>1, WrappedIs
<1>5. FoundMember(d, l) = {b}
  BY <1>2, <1>3, <1>4 DEF FoundMember
<1>6. QED
  BY <1>1, <1>5

LEMMA FoundTwo ==
  ASSUME NEW l, NEW k, l # k, NEW b, NEW c
  PROVE  LET d == <<<<l, Wrapped(b)>>, <<k, Wrapped(c)>>>>
         IN  FoundMember(d, l) = {b} /\ FoundMember(d, k) = {c}
<1>1. PICK v, m, w, n, d : /\ v = Wrapped(b) /\ m = <<l, v>>
                           /\ w = Wrapped(c) /\ n = <<k, w>> /\ d = <<m, n>>
  OBVIOUS
<1>2. ToSet(d) = {m, n}
  <2>1. DOMAIN d = {1, 2} /\ d[1] = m /\ d[2] = n
    BY <1>1
  <2>2. QED
    BY <2>1 DEF ToSet
<1>3. m[1] = l /\ m[2] = v /\ n[1] = k /\ n[2] = w
  BY <1>1
<1>4. /\ Len(v) = 4 /\ v[1] = ":" /\ v[2] = b /\ v[3] = Equals /\ v[4] = ":"
      /\ Len(w) = 4 /\ w[1] = ":" /\ w[2] = c /\ w[3] = Equals /\ w[4] = ":"
  BY <1>1, WrappedIs
<1>5. FoundMember(d, l) = {b}
  BY <1>2, <1>3, <1>4 DEF FoundMember
<1>6. FoundMember(d, k) = {c}
  BY <1>2, <1>3, <1>4 DEF FoundMember
<1>7. QED
  BY <1>1, <1>5, <1>6
=============================================================================
