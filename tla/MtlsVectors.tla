---------------------------- MODULE MtlsVectors ----------------------------
(***************************************************************************)
(* The conformance vectors of Workload Identity Certificates.  A positive  *)
(* case is [wic, ca, now].                                                 *)
(***************************************************************************)
EXTENDS TokenVectors, Wic

CA_NBF  == 1600000000
CA_NAF  == 1900000000
WIC_NBF == IAT
WIC_NAF == IAT + 86400

VectorCa(alg, seed) == CaCertificate(VectorKey(alg, seed), CA_NBF, CA_NAF)

MtlsVector(alg) ==
  [wic |-> IssueWic(VectorKey(alg, "CA"), SUBJECT, VectorKey(alg, "POP"), WIC_NBF, WIC_NAF),
   ca |-> VectorCa(alg, "CA"), now |-> WIC_NBF + 100]

OtherAlgorithm(alg) == CHOOSE other \in Algorithms : other # alg

MtlsNegatives(alg) ==
  {Neg("wrong-ca", [ca |-> VectorCa(alg, "OTHER_CA")], "InvalidSignature"),
   Neg("expired", [now |-> WIC_NAF + 1], "CertificateNotValid"),
   Neg("not-yet-valid", [now |-> WIC_NBF - 1], "CertificateNotValid"),
   Neg("no-uri-san", [wic |-> VectorCa(alg, "CA")], "MissingIdentifier"),
   Neg("not-a-certificate", [wic |-> [wellFormed |-> FALSE]], "CertificateParseError"),
   Neg("ca-of-the-other-algorithm", [ca |-> VectorCa(OtherAlgorithm(alg), "OTHER_CA")],
       "UnsupportedAlg")}

MtlsCode(error) ==
  CASE error = "Parse"                -> "CertificateParseError"
    [] error = "UnsupportedAlgorithm" -> "UnsupportedAlg"
    [] error = "NotValid"             -> "CertificateNotValid"
    [] error = "Time"                 -> "Unmapped"
    [] OTHER                          -> error

(* What is accepted has to name the recorded identifier. *)
MtlsVerdict(c) ==
  IF VerifyWic(c.wic, c.ca, c.now) # "Ok" THEN MtlsCode(VerifyWic(c.wic, c.ca, c.now))
  ELSE IF Identifier(c.wic) # SUBJECT THEN "Differs"
  ELSE "Ok"
=============================================================================
