-------------------------------- MODULE Wic --------------------------------
(***************************************************************************)
(* wimsey-mtls: Workload Identity Certificates and the CA that signs them. *)
(* A certificate is [wellFormed, tbs, alg, sig]: alg is the outer          *)
(* signature algorithm, which nobody signs, and the to-be-signed part is   *)
(*   [key, alg, uris, notBefore, notAfter]                                 *)
(* with the subject's key, the inner algorithm and the URI SANs in order.  *)
(* wellFormed stands for what DER parsing, whole octets and the named      *)
(* curve demand; the error of a certificate that is not is Parse here,     *)
(* whichever of these it fails.  A signature is [key, over].               *)
(***************************************************************************)
EXTENDS Jose, Sequences

CONSTANTS
  TimeMax,     \* the last second a certificate can name
  Identifiers  \* the URIs that are workload identifiers

(* Mutant: an out-of-range timestamp is taken as it is. *)
ToTimeUnchecked(unix) == {unix}

(* No time, rather than one that a certificate cannot carry. *)
ToTime(unix) == {unix} \cap 0..TimeMax

Certificate(key, uris, notBefore, notAfter, signer) ==
  LET tbs == [key |-> key, alg |-> signer.alg, uris |-> uris,
              notBefore |-> notBefore, notAfter |-> notAfter]
  IN  [wellFormed |-> TRUE, tbs |-> tbs, alg |-> signer.alg,
       sig |-> [key |-> signer, over |-> tbs]]

(* WorkloadCa::from_signing_key: self-signed, determined by key and window. *)
CaCertificate(key, notBefore, notAfter) ==
  Certificate(key, <<>>, notBefore, notAfter, key)

(* WorkloadCa::issue. *)
IssueWic(caKey, sub, key, notBefore, notAfter) ==
  Certificate(key, <<sub>>, notBefore, notAfter, caKey)

(* Mutant: the last second is not part of the window. *)
ValidBefore(cert, now) == cert.tbs.notBefore <= now /\ now < cert.tbs.notAfter

(* Both ends are inclusive. *)
ValidAt(cert, now) == cert.tbs.notBefore <= now /\ now <= cert.tbs.notAfter

(* Mutant: the CA's own window is forgotten. *)
LeafValid(wic, ca, now) == ValidAt(wic, now)

BothValid(wic, ca, now) == ValidAt(ca, now) /\ ValidAt(wic, now)

(* Mutant: the first of several URIs is the identifier. *)
FirstUri(cert) == IF cert.tbs.uris = <<>> THEN "MissingIdentifier" ELSE "Ok"

UriSan(cert) ==
  IF cert.tbs.uris = <<>>       THEN "MissingIdentifier"
  ELSE IF Len(cert.tbs.uris) > 1 THEN "MultipleIdentifiers"
  ELSE IF cert.tbs.uris[1] \notin Identifiers THEN "InvalidIdentifier"
  ELSE "Ok"

(* The CA's key decides the algorithm; the leaf has to agree twice. *)
VerifyWic(wic, ca, now) ==
  IF ~wic.wellFormed \/ ~ca.wellFormed          THEN "Parse"
  ELSE IF ca.tbs.key.alg \notin Algorithms      THEN "UnsupportedAlgorithm"
  ELSE IF \/ wic.alg # ca.tbs.key.alg
          \/ wic.tbs.alg # ca.tbs.key.alg       THEN "UnsupportedAlgorithm"
  ELSE IF wic.sig # [key |-> ca.tbs.key, over |-> wic.tbs]
                                                THEN "InvalidSignature"
  ELSE IF ToTime(now) = {}                      THEN "Time"
  ELSE IF ~BothValid(wic, ca, now)               THEN "NotValid"
  ELSE UriSan(wic)

Identifier(wic) == wic.tbs.uris[1]
=============================================================================
