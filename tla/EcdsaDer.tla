------------------------------ MODULE EcdsaDer ------------------------------
(***************************************************************************)
(* wimsey-mtls: an ECDSA signature as JOSE writes it, two numbers of Half  *)
(* octets each, and as X.509 does, a DER SEQUENCE of two INTEGERs.         *)
(***************************************************************************)
EXTENDS Naturals, Sequences, SequencesExt, FiniteSetsExt

CONSTANT Half  \* octets in each number; 32 for P-256

ASSUME HalfAssumption == Half \in 1..32

SequenceTag == 48
IntegerTag  == 2

TopBit(octet) == octet >= 128

(* Leading zeros are dropped, and one is put back where the first bit of   *)
(* what remains would be taken for a sign.                                 *)
Integer(value) ==
  LET from == Min({i \in DOMAIN value : value[i] # 0} \cup {Len(value)})
      kept == SubSeq(value, from, Len(value))
  IN  IF TopBit(kept[1]) THEN <<IntegerTag, Len(kept) + 1, 0>> \o kept
      ELSE <<IntegerTag, Len(kept)>> \o kept

ToDer(raw) ==
  LET body == Integer(SubSeq(raw, 1, Half)) \o Integer(SubSeq(raw, Half + 1, 2 * Half))
  IN  <<SequenceTag, Len(body)>> \o body

(* Mutant: a leading zero is dropped wherever it stands. *)
UnpaddedAnyway(value) == IF Len(value) > 1 /\ value[1] = 0 THEN {Tail(value)} ELSE {value}

(* A leading zero is zero itself, or stands before a set bit. *)
Unpadded(value) ==
  IF Len(value) <= 1 \/ value[1] # 0 THEN {value}
  ELSE IF TopBit(value[2]) THEN {Tail(value)}
  ELSE {}

(* Reading one INTEGER: its number and what follows, if it is legal. *)
ReadInteger(input) ==
  IF Len(input) < 2 \/ input[1] # IntegerTag \/ Len(input) < 2 + input[2] THEN {}
  ELSE {[value |-> v, rest |-> SubSeq(input, 3 + input[2], Len(input))] :
          v \in {v \in Unpadded(SubSeq(input, 3, 2 + input[2])) : Len(v) \in 1..Half}}

ZeroPadded(value) == [i \in 1 .. Half - Len(value) |-> 0] \o value

FromDer(der) ==
  IF Len(der) < 2 \/ der[1] # SequenceTag \/ Len(der) # 2 + der[2] THEN {}
  ELSE UNION {
    {ZeroPadded(r.value) \o ZeroPadded(s.value) :
       s \in {s \in ReadInteger(r.rest) : s.rest = <<>>}} :
    r \in ReadInteger(SubSeq(der, 3, Len(der)))}
=============================================================================
