-------------------------- MODULE Commands_proofs --------------------------
(***************************************************************************)
(* That `wimsey key public` hands out the public half of the key it was    *)
(* given, and `wimsey wic verify` accepts what the CA signed and nothing   *)
(* else, for every number of commands, files edited between any two of     *)
(* their steps, keys and certificates.                                     *)
(***************************************************************************)
EXTENDS Commands, FiniteSetTheorems, TLAPS

(***************************************************************************)
(* Key files.                                                              *)
(***************************************************************************)
(* A key file has the members that `key generate` writes, and one d. *)
IsKeyFile(file) ==
  /\ file = WithD(file, file.d)
  /\ \A c, d \in file.d : c = d

(* The key of a public half is known by its x. *)
LEMMA VerifyingKeyOfX ==
  ASSUME NEW file, NEW key \in VerifyingKey(file)
  PROVE  X(key) = file.x /\ key \in Keys
  BY DEF VerifyingKey, PublicJwk, ToVerifyingKey

(* A private key is used only with the public half beside it. *)
LEMMA SigningKeyOfX ==
  ASSUME NEW file, NEW key \in SigningKey(file)
  PROVE  X(key) = file.x /\ key \in Keys /\ key.secret \in file.d
<1>1. PICK jwk \in PublicJwk(file), d \in file.d : key \in ToSigningKey(jwk, d)
  BY DEF SigningKey
<1>2. jwk.x = file.x
  BY DEF PublicJwk
<1>3. QED
  BY <1>1, <1>2 DEF ToSigningKey, ToVerifyingKey

LEMMA SameX ==
  ASSUME NEW key, NEW other, X(key) = X(other)
  PROVE  key = other
  BY DEF X

(* An edit leaves the public half, and at most one private half. *)
LEMMA KeyEdited ==
  ASSUME NEW file, IsKeyFile(file), NEW changed \in KeyEdits(file)
  PROVE  IsKeyFile(changed) /\ changed.x = file.x
<1>1. PICK alg, d : changed = WithD([file EXCEPT !.alg = alg], d)
                    /\ (d = file.d \/ \E key \in Keys : d = {key.secret})
  <2>1. CASE changed = WithD([file EXCEPT !.alg = {}], file.d)
    BY <2>1
  <2>2. CASE changed \in {WithD(file, {key.secret}) : key \in Keys}
    <3>1. PICK key \in Keys : changed = WithD(file, {key.secret})
      BY <2>2
    <3>2. [file EXCEPT !.alg = file.alg] = file
      BY DEF IsKeyFile, WithD
    <3>3. QED
      BY <3>1, <3>2
  <2>3. CASE changed \in {WithD([file EXCEPT !.alg = {alg}], file.d) : alg \in Algorithms}
    BY <2>3
  <2>4. QED
    BY <2>1, <2>2, <2>3 DEF KeyEdits
<1>2. [file EXCEPT !.alg = alg].x = file.x
  BY DEF IsKeyFile, WithD
<1>3. changed.x = file.x /\ changed.d = d /\ changed = WithD(changed, changed.d)
  BY <1>1, <1>2 DEF WithD
<1>4. QED
  BY <1>1, <1>3 DEF IsKeyFile

(***************************************************************************)
(* Certificates.                                                           *)
(***************************************************************************)
IsCertificate(cert) ==
  /\ cert.wellFormed \in BOOLEAN
  /\ cert = [wellFormed |-> cert.wellFormed, tbs |-> cert.tbs,
             alg |-> cert.alg, sig |-> cert.sig]

(* A certificate as its signer made it. *)
SignedBy(cert, signer) ==
  /\ IsCertificate(cert) /\ cert.wellFormed
  /\ cert.alg = signer.alg /\ cert.tbs.alg = signer.alg
  /\ cert.sig = [key |-> signer, over |-> cert.tbs]

WindowOk(cert) ==
  /\ cert.tbs.notBefore \in 0..TimeMax
  /\ cert.tbs.notAfter \in cert.tbs.notBefore .. TimeMax

LEMMA OneElement == ASSUME NEW S, NEW s \in S PROVE <<s>> \in Seq(S)
  OBVIOUS

LEMMA CertificateSigned ==
  ASSUME NEW key, NEW uris, NEW notBefore, NEW notAfter, NEW signer,
         NEW cert, cert = Certificate(key, uris, notBefore, notAfter, signer)
  PROVE  /\ SignedBy(cert, signer)
         /\ cert.tbs.key = key /\ cert.tbs.uris = uris
         /\ cert.tbs.notBefore = notBefore /\ cert.tbs.notAfter = notAfter
  BY DEF Certificate, SignedBy, IsCertificate

(* A certificate that anybody may present: the signature on it is a CA's   *)
(* over something the CA signed, or one of a workload's.                   *)
Circulates(cert, issues) ==
  /\ IsCertificate(cert)
  /\ \/ cert.sig.key \in WorkloadKeys
     \/ \E i \in issues : cert.sig = i.wic.sig

LEMMA CertificateEdited ==
  ASSUME NEW cert, NEW issues, Circulates(cert, issues),
         NEW changed \in CertificateEdits(cert)
  PROVE  Circulates(changed, issues)
<1>1. /\ IsCertificate(cert)
      /\ cert = [wellFormed |-> cert.wellFormed, tbs |-> cert.tbs,
                 alg |-> cert.alg, sig |-> cert.sig]
  BY DEF Circulates, IsCertificate
<1>2. CASE changed = [cert EXCEPT !.wellFormed = FALSE]
  <2>1. IsCertificate(changed) /\ changed.sig = cert.sig
    BY <1>1, <1>2 DEF IsCertificate
  <2>2. QED
    BY <2>1 DEF Circulates
<1>3. CASE \E alg \in Algorithms : changed = [cert EXCEPT !.alg = alg, !.tbs.alg = alg]
  <2>1. IsCertificate(changed) /\ changed.sig = cert.sig
    BY <1>1, <1>3 DEF IsCertificate
  <2>2. QED
    BY <2>1 DEF Circulates
<1>4. CASE \/ \E sub \in Subjects : changed = [cert EXCEPT !.tbs.uris = <<sub>>]
           \/ changed = [cert EXCEPT !.tbs.notAfter = TimeMax]
  <2>1. IsCertificate(changed) /\ changed.sig = cert.sig
    BY <1>1, <1>4 DEF IsCertificate
  <2>2. QED
    BY <2>1 DEF Circulates
<1>5. CASE \E key \in WorkloadKeys :
             changed = [cert EXCEPT !.sig = [key |-> key, over |-> cert.tbs]]
  <2>1. IsCertificate(changed) /\ changed.sig.key \in WorkloadKeys
    BY <1>1, <1>5 DEF IsCertificate
  <2>2. QED
    BY <2>1 DEF Circulates
<1>6. QED
  BY <1>2, <1>3, <1>4, <1>5 DEF CertificateEdits

(***************************************************************************)
(* The inductive invariant.                                                *)
(***************************************************************************)
IssuedOk(i) ==
  /\ i.signer \in CaKeys
  /\ SignedBy(i.wic, i.signer) /\ WindowOk(i.wic)
  /\ SignedBy(i.ca, i.signer) /\ WindowOk(i.ca)
  /\ i.ca.tbs.key = i.signer
  /\ i.wic.tbs.uris \in Seq(STRING)

(* What a file at path p may hold. *)
ContentOk(p, content, issues) ==
  /\ p \in JwkPaths => IsKeyFile(content)
  /\ p = CaKeyFile  => \E key \in CaKeys : content.x = X(key)
  /\ p = CaPem      => \E i \in issues : content = i.ca
  /\ p = WicPem     => Circulates(content, issues)

FilesOk(fs, issues) ==
  /\ DOMAIN fs = Paths
  /\ \A p \in Paths : /\ \A c, d \in fs[p] : c = d
                      /\ \A c \in fs[p] : ContentOk(p, c, issues)

(* What a command has read or made before its next step. *)
RunOk(u, issues) ==
  \/ u = Idle
  \/ u.pc = "public" /\ Exportable(u.from) /\ IsKeyFile(u.from)
  \/ u.pc = "load-key" /\ u.caKey \in CaKeys
  \/ u.pc = "emit-ca" /\ (\E i \in issues : u.ca = i.ca) /\ Circulates(u.wic, issues)
  \/ u.pc \in {"emit-wic", "read-ca"} /\ Circulates(u.wic, issues)

RunsOk(rs, issues) ==
  /\ DOMAIN rs = Runs
  /\ \A r \in Runs : RunOk(rs[r], issues)

ExportedOk(e) == Exportable(e.from) /\ IsKeyFile(e.from) /\ e.to = ToPublic(e.from)

(* Accepted: what this issue signed, under its CA, in both windows. *)
AcceptedFrom(a, i) ==
  /\ i.wic = a.wic /\ i.signer = a.ca.tbs.key
  /\ i.wic.tbs.uris = <<a.sub>> /\ a.sub \in Identifiers
  /\ a.at \in a.ca.tbs.notBefore .. a.ca.tbs.notAfter
  /\ a.at \in i.wic.tbs.notBefore .. i.wic.tbs.notAfter

AcceptedOk(accepts, issues) == \A a \in accepts : \E i \in issues : AcceptedFrom(a, i)

Inv ==
  /\ now \in 0..MaxTime /\ edits \in 0..MaxEdits
  /\ FilesOk(files, issued) /\ RunsOk(run, issued)
  /\ \A i \in issued : IssuedOk(i)
  /\ \A e \in exported : ExportedOk(e)
  /\ AcceptedOk(accepted, issued)

(***************************************************************************)
(* What holds of files, commands and acceptances stays as more is issued,  *)
(* and a file is written, or a command goes on, without harm to the rest.  *)
(***************************************************************************)
LEMMA MoreIssued ==
  ASSUME NEW issues, NEW more, issues \subseteq more
  PROVE  /\ \A cert : Circulates(cert, issues) => Circulates(cert, more)
         /\ \A p, c : ContentOk(p, c, issues) => ContentOk(p, c, more)
         /\ \A u : RunOk(u, issues) => RunOk(u, more)
         /\ \A fs : FilesOk(fs, issues) => FilesOk(fs, more)
         /\ \A rs : RunsOk(rs, issues) => RunsOk(rs, more)
         /\ \A accepts : AcceptedOk(accepts, issues) => AcceptedOk(accepts, more)
<1>1. \A cert : Circulates(cert, issues) => Circulates(cert, more)
  BY DEF Circulates
<1>2. \A p, c : ContentOk(p, c, issues) => ContentOk(p, c, more)
  BY <1>1 DEF ContentOk
<1>3. \A u : RunOk(u, issues) => RunOk(u, more)
  BY <1>1 DEF RunOk
<1>4. \A fs : FilesOk(fs, issues) => FilesOk(fs, more)
  BY <1>2 DEF FilesOk
<1>5. \A rs : RunsOk(rs, issues) => RunsOk(rs, more)
  BY <1>3 DEF RunsOk
<1>6. \A accepts : AcceptedOk(accepts, issues) => AcceptedOk(accepts, more)
  BY DEF AcceptedOk
<1>7. QED
  BY <1>1, <1>2, <1>3, <1>4, <1>5, <1>6

LEMMA FileWritten ==
  ASSUME NEW issues, FilesOk(files, issues), NEW p \in Paths, NEW content,
         Emit(p, content), ContentOk(p, content, issues)
  PROVE  FilesOk(files', issues)
<1>1. /\ DOMAIN files' = Paths /\ files'[p] = {content}
      /\ \A q \in Paths \ {p} : files'[q] = files[q]
  BY DEF Emit, FilesOk
<1>2. ASSUME NEW q \in Paths
      PROVE  /\ \A c, d \in files'[q] : c = d
             /\ \A c \in files'[q] : ContentOk(q, c, issues)
  <2>1. CASE q = p
    BY <1>1, <2>1
  <2>2. CASE q # p
    BY <1>1, <2>2 DEF FilesOk
  <2>3. QED
    BY <2>1, <2>2
<1>3. QED
  BY <1>1, <1>2 DEF FilesOk

LEMMA RunGoes ==
  ASSUME NEW issues, RunsOk(run, issues), NEW r \in Runs, NEW state,
         Goes(r, state), RunOk(state, issues)
  PROVE  RunsOk(run', issues)
<1>1. /\ DOMAIN run' = Runs /\ run'[r] = state
      /\ \A q \in Runs \ {r} : run'[q] = run[q]
  BY DEF Goes, RunsOk
<1>2. QED
  BY <1>1 DEF RunsOk

LEMMA RunIdles == ASSUME NEW issues PROVE RunOk(Idle, issues)
  BY DEF RunOk

(* What a command holds, by the point it has reached. *)
LEMMA AtPc ==
  ASSUME Inv, NEW r \in Runs
  PROVE  /\ run[r].pc = "public" => Exportable(run[r].from) /\ IsKeyFile(run[r].from)
         /\ run[r].pc = "load-key" => run[r].caKey \in CaKeys
         /\ run[r].pc = "emit-ca" => /\ \E i \in issued : run[r].ca = i.ca
                                     /\ Circulates(run[r].wic, issued)
         /\ run[r].pc \in {"emit-wic", "read-ca"} => Circulates(run[r].wic, issued)
<1>1. RunOk(run[r], issued)
  BY DEF Inv, RunsOk
<1>2. Idle.pc = "idle"
  BY DEF Idle
<1>3. QED
  BY <1>1, <1>2 DEF RunOk

(***************************************************************************)
(* Steps.                                                                  *)
(***************************************************************************)
LEMMA InitInv == Init => Inv
  BY CommandsAssumption DEF Init, Inv, FilesOk, RunsOk, RunOk, AcceptedOk

LEMMA GenerateInv ==
  ASSUME Inv, NEW p \in JwkPaths, NEW key \in CaKeys \cup WorkloadKeys,
         p = CaKeyFile => key \in CaKeys, Generate(p, key)
  PROVE  Inv'
<1> DEFINE file == FromSigningKey(key)
<1>1. /\ Emit(p, file)
      /\ UNCHANGED <<now, run, edits, exported, issued, accepted>>
  BY DEF Generate
<1>2. IsKeyFile(file) /\ file.x = X(key)
  BY DEF FromSigningKey, FromVerifyingKey, WithD, IsKeyFile
<1> HIDE DEF file
<1>3. p # CaPem /\ p # WicPem /\ p \in Paths
  BY DEF Paths, JwkPaths, CaKeyFile, KeyFileOf, PublicFile, CaPem, WicPem
<1>4. ContentOk(p, file, issued)
  BY <1>2, <1>3 DEF ContentOk
<1>5. FilesOk(files', issued)
  BY <1>1, <1>3, <1>4, FileWritten DEF Inv
<1>6. QED
  BY <1>1, <1>5 DEF Inv

LEMMA PublicLoadInv ==
  ASSUME Inv, NEW r \in Runs, NEW p \in JwkPaths, PublicLoad(r, p)
  PROVE  Inv'
<1>1. PICK file \in files[p] : Exportable(file) /\ Goes(r, [pc |-> "public", from |-> file])
  BY DEF PublicLoad
<1>2. IsKeyFile(file)
  BY DEF Inv, FilesOk, ContentOk, Paths
<1>3. RunOk([pc |-> "public", from |-> file], issued)
  BY <1>1, <1>2 DEF RunOk
<1>4. RunsOk(run', issued)
  BY <1>1, <1>3, RunGoes DEF Inv
<1>5. QED
  BY <1>4 DEF PublicLoad, Inv

LEMMA PublicEmitInv ==
  ASSUME Inv, NEW r \in Runs, PublicEmit(r)
  PROVE  Inv'
<1> DEFINE from == run[r].from
           e    == [from |-> from, to |-> ToPublic(from)]
<1>1. /\ Emit(PublicFile, ToPublic(from)) /\ exported' = exported \cup {e}
      /\ Goes(r, Idle) /\ UNCHANGED <<now, edits, issued, accepted>>
      /\ e.from = from /\ e.to = ToPublic(from)
  BY DEF PublicEmit
<1>2. Exportable(from) /\ IsKeyFile(from)
  BY AtPc DEF PublicEmit
<1> HIDE DEF from, e
<1>3. ExportedOk(e)
  BY <1>1, <1>2 DEF ExportedOk
<1>4. IsKeyFile(ToPublic(from))
  BY DEF ToPublic, WithD, IsKeyFile
<1>5. /\ PublicFile \in Paths /\ PublicFile # CaPem /\ PublicFile # WicPem
      /\ PublicFile # CaKeyFile
  BY DEF Paths, JwkPaths, CaKeyFile, KeyFileOf, PublicFile, CaPem, WicPem
<1>6. FilesOk(files', issued)
  BY <1>1, <1>4, <1>5, FileWritten DEF Inv, ContentOk
<1>7. RunsOk(run', issued)
  BY <1>1, RunGoes, RunIdles DEF Inv
<1>8. QED
  BY <1>1, <1>3, <1>6, <1>7 DEF Inv

LEMMA EditKeyInv ==
  ASSUME Inv, NEW p \in JwkPaths, NEW file \in files[p], NEW changed \in KeyEdits(file),
         EditKey(p, file, changed)
  PROVE  Inv'
<1>1. /\ Emit(p, changed) /\ edits' = edits + 1 /\ edits < MaxEdits
      /\ UNCHANGED <<now, run, exported, issued, accepted>>
  BY DEF EditKey
<1>2. p # CaPem /\ p # WicPem /\ p \in Paths
  BY DEF Paths, JwkPaths, CaKeyFile, KeyFileOf, PublicFile, CaPem, WicPem
<1>3. ContentOk(p, file, issued)
  BY <1>2 DEF Inv, FilesOk
<1>4. IsKeyFile(changed) /\ changed.x = file.x
  BY <1>3, KeyEdited DEF ContentOk
<1>5. ContentOk(p, changed, issued)
  BY <1>2, <1>3, <1>4 DEF ContentOk
<1>6. FilesOk(files', issued)
  BY <1>1, <1>2, <1>5, FileWritten DEF Inv
<1>7. edits' \in 0..MaxEdits
  BY <1>1, CommandsAssumption DEF Inv
<1>8. QED
  BY <1>1, <1>6, <1>7 DEF Inv

LEMMA IssueLoadCaInv ==
  ASSUME Inv, NEW r \in Runs, IssueLoadCa(r)
  PROVE  Inv'
<1>1. PICK file \in files[CaKeyFile] : \E caKey \in SigningKey(file) :
        Goes(r, [pc |-> "load-key", caKey |-> caKey])
  BY DEF IssueLoadCa
<1>2. PICK caKey \in SigningKey(file) : Goes(r, [pc |-> "load-key", caKey |-> caKey])
  BY <1>1
<1>3. CaKeyFile \in Paths
  BY DEF Paths, JwkPaths
<1>4. PICK key \in CaKeys : file.x = X(key)
  BY <1>3 DEF Inv, FilesOk, ContentOk
<1>5. caKey \in CaKeys
  BY <1>4, SigningKeyOfX, SameX
<1>6. RunOk([pc |-> "load-key", caKey |-> caKey], issued)
  BY <1>5 DEF RunOk
<1>7. RunsOk(run', issued)
  BY <1>2, <1>6, RunGoes DEF Inv
<1>8. QED
  BY <1>7 DEF IssueLoadCa, Inv

(* One more certificate, signed by a CA: by this command or another tool. *)
LEMMA IssuedMore ==
  ASSUME Inv, NEW i, IssuedOk(i), issued' = issued \cup {i},
         UNCHANGED <<now, exported, accepted>>, edits' \in 0..MaxEdits,
         FilesOk(files', issued'), RunsOk(run', issued')
  PROVE  Inv'
<1>1. AcceptedOk(accepted', issued')
  BY MoreIssued DEF Inv
<1>2. QED
  BY <1>1 DEF Inv

LEMMA IssueSignInv ==
  ASSUME Inv, NEW r \in Runs, NEW p \in JwkPaths, NEW sub \in Subjects,
         NEW ttl \in Ttls, NEW caTtl \in CaTtls, IssueSign(r, p, sub, ttl, caTtl)
  PROVE  Inv'
<1> DEFINE caKey == run[r].caKey
<1>1. PICK file \in files[p] : \E key \in VerifyingKey(file) :
        \E notBefore \in ToTime(now), notAfter \in ToTime(now + ttl),
           caNotAfter \in ToTime(now + caTtl) :
          LET ca  == CaCertificate(caKey, notBefore, caNotAfter)
              wic == IssueWic(caKey, sub, key, notBefore, notAfter)
          IN  /\ Goes(r, [pc |-> "emit-ca", ca |-> ca, wic |-> wic])
              /\ issued' = issued \cup {[wic |-> wic, ca |-> ca, signer |-> caKey]}
  BY DEF IssueSign
<1>2. PICK key \in VerifyingKey(file) :
        \E notBefore \in ToTime(now), notAfter \in ToTime(now + ttl),
           caNotAfter \in ToTime(now + caTtl) :
          LET ca  == CaCertificate(caKey, notBefore, caNotAfter)
              wic == IssueWic(caKey, sub, key, notBefore, notAfter)
          IN  /\ Goes(r, [pc |-> "emit-ca", ca |-> ca, wic |-> wic])
              /\ issued' = issued \cup {[wic |-> wic, ca |-> ca, signer |-> caKey]}
  BY <1>1
<1>3. PICK notBefore \in ToTime(now), notAfter \in ToTime(now + ttl),
           caNotAfter \in ToTime(now + caTtl) :
        LET ca  == CaCertificate(caKey, notBefore, caNotAfter)
            wic == IssueWic(caKey, sub, key, notBefore, notAfter)
        IN  /\ Goes(r, [pc |-> "emit-ca", ca |-> ca, wic |-> wic])
            /\ issued' = issued \cup {[wic |-> wic, ca |-> ca, signer |-> caKey]}
  BY <1>2
<1> DEFINE ca    == CaCertificate(caKey, notBefore, caNotAfter)
           wic   == IssueWic(caKey, sub, key, notBefore, notAfter)
           i     == [wic |-> wic, ca |-> ca, signer |-> caKey]
           state == [pc |-> "emit-ca", ca |-> ca, wic |-> wic]
<1>4. Goes(r, state) /\ issued' = issued \cup {i}
  BY <1>3
<1>5. /\ i.wic = wic /\ i.ca = ca /\ i.signer = caKey
      /\ state.pc = "emit-ca" /\ state.wic = wic /\ state.ca = ca
  OBVIOUS
<1>6. /\ SignedBy(wic, caKey) /\ wic.tbs.uris = <<sub>>
      /\ wic.tbs.notBefore = notBefore /\ wic.tbs.notAfter = notAfter
  <2>1. wic = Certificate(key, <<sub>>, notBefore, notAfter, caKey)
    BY DEF IssueWic
  <2> HIDE DEF wic, caKey
  <2>2. QED
    BY <2>1, CertificateSigned
<1>7. /\ SignedBy(ca, caKey) /\ ca.tbs.key = caKey
      /\ ca.tbs.notBefore = notBefore /\ ca.tbs.notAfter = caNotAfter
  <2>1. ca = Certificate(caKey, <<>>, notBefore, caNotAfter, caKey)
    BY DEF CaCertificate
  <2> HIDE DEF ca, caKey
  <2>2. QED
    BY <2>1, CertificateSigned
<1>8. caKey \in CaKeys
  BY AtPc DEF IssueSign
<1> HIDE DEF caKey, ca, wic, i, state
<1>9. WindowOk(wic) /\ WindowOk(ca)
  <2>1. {now, ttl, caTtl, TimeMax, MaxTime} \subseteq Nat
    BY CommandsAssumption DEF Inv
  <2>2. /\ notBefore = now /\ notAfter = now + ttl /\ caNotAfter = now + caTtl
        /\ notBefore \in 0..TimeMax /\ notAfter \in 0..TimeMax /\ caNotAfter \in 0..TimeMax
    BY DEF ToTime
  <2>3. QED
    BY <1>6, <1>7, <2>1, <2>2 DEF WindowOk
<1>10. <<sub>> \in Seq(STRING)
  <2>1. sub \in STRING
    BY CommandsAssumption
  <2>2. QED
    BY <2>1, OneElement, Zenon
<1>11. IssuedOk(i)
  BY <1>5, <1>6, <1>7, <1>8, <1>9, <1>10 DEF IssuedOk
<1>12. issued \subseteq issued' /\ i \in issued'
  BY <1>4
<1>13. Circulates(wic, issued')
  BY <1>5, <1>6, <1>12 DEF Circulates, SignedBy
<1>14. RunOk(state, issued')
  BY <1>5, <1>12, <1>13 DEF RunOk
<1>15. RunsOk(run, issued') /\ FilesOk(files, issued')
  BY <1>12, MoreIssued DEF Inv
<1>16. RunsOk(run', issued')
  BY <1>4, <1>14, <1>15, RunGoes
<1>17. /\ UNCHANGED <<now, exported, accepted>> /\ files' = files
       /\ edits' \in 0..MaxEdits
  BY DEF IssueSign, Inv
<1>18. QED
  BY <1>4, <1>11, <1>15, <1>16, <1>17, IssuedMore

LEMMA EmitCaInv ==
  ASSUME Inv, NEW r \in Runs, EmitCa(r)
  PROVE  Inv'
<1> DEFINE state == [pc |-> "emit-wic", wic |-> run[r].wic]
<1>1. /\ Goes(r, state) /\ (Emit(CaPem, run[r].ca) \/ UNCHANGED files)
      /\ UNCHANGED <<now, edits, exported, issued, accepted>>
      /\ state.pc = "emit-wic" /\ state.wic = run[r].wic
  BY DEF EmitCa
<1>2. (\E i \in issued : run[r].ca = i.ca) /\ Circulates(run[r].wic, issued)
  BY AtPc DEF EmitCa
<1> HIDE DEF state
<1>3. /\ CaPem \in Paths /\ CaPem \notin JwkPaths /\ CaPem # WicPem /\ CaPem # CaKeyFile
  BY DEF Paths, JwkPaths, CaKeyFile, KeyFileOf, PublicFile, CaPem, WicPem
<1>4. ContentOk(CaPem, run[r].ca, issued)
  BY <1>2, <1>3 DEF ContentOk
<1>5. FilesOk(files', issued)
  <2>1. CASE Emit(CaPem, run[r].ca)
    BY <2>1, <1>3, <1>4, FileWritten DEF Inv
  <2>2. CASE UNCHANGED files
    BY <2>2 DEF Inv
  <2>3. QED
    BY <1>1, <2>1, <2>2
<1>6. RunsOk(run', issued)
  BY <1>1, <1>2, RunGoes DEF Inv, RunOk
<1>7. QED
  BY <1>1, <1>5, <1>6 DEF Inv

LEMMA EmitWicInv ==
  ASSUME Inv, NEW r \in Runs, EmitWic(r)
  PROVE  Inv'
<1>1. Circulates(run[r].wic, issued)
  BY AtPc DEF EmitWic
<1>2. /\ WicPem \in Paths /\ WicPem \notin JwkPaths /\ WicPem # CaPem /\ WicPem # CaKeyFile
  BY DEF Paths, JwkPaths, CaKeyFile, KeyFileOf, PublicFile, CaPem, WicPem
<1>3. ContentOk(WicPem, run[r].wic, issued)
  BY <1>1, <1>2 DEF ContentOk
<1>4. FilesOk(files', issued)
  BY <1>2, <1>3, FileWritten DEF Inv, EmitWic
<1>5. RunsOk(run', issued)
  BY RunGoes, RunIdles DEF Inv, EmitWic
<1>6. QED
  BY <1>4, <1>5 DEF Inv, EmitWic

LEMMA OtherToolInv ==
  ASSUME Inv, NEW caKey \in CaKeys, NEW key \in WorkloadKeys, NEW uris \in OtherUris,
         OtherToolIssues(caKey, key, uris)
  PROVE  Inv'
<1> DEFINE ca  == CaCertificate(caKey, 0, TimeMax)
           wic == Certificate(key, uris, 0, TimeMax, caKey)
           i   == [wic |-> wic, ca |-> ca, signer |-> caKey]
<1>1. /\ Emit(WicPem, wic) /\ issued' = issued \cup {i}
      /\ edits < MaxEdits /\ edits' = edits + 1
      /\ UNCHANGED <<now, run, exported, accepted>>
      /\ i.wic = wic /\ i.ca = ca /\ i.signer = caKey
  BY DEF OtherToolIssues
<1>2. /\ SignedBy(wic, caKey) /\ wic.tbs.uris = uris
      /\ wic.tbs.notBefore = 0 /\ wic.tbs.notAfter = TimeMax
  <2>1. wic = Certificate(key, uris, 0, TimeMax, caKey)
    OBVIOUS
  <2> HIDE DEF wic
  <2>2. QED
    BY <2>1, CertificateSigned
<1>3. /\ SignedBy(ca, caKey) /\ ca.tbs.key = caKey
      /\ ca.tbs.notBefore = 0 /\ ca.tbs.notAfter = TimeMax
  <2>1. ca = Certificate(caKey, <<>>, 0, TimeMax, caKey)
    BY DEF CaCertificate
  <2> HIDE DEF ca
  <2>2. QED
    BY <2>1, CertificateSigned
<1> HIDE DEF ca, wic, i
<1>4. WindowOk(wic) /\ WindowOk(ca) /\ uris \in Seq(STRING)
  BY <1>2, <1>3, CommandsAssumption DEF WindowOk
<1>5. IssuedOk(i)
  BY <1>1, <1>2, <1>3, <1>4 DEF IssuedOk
<1>6. issued \subseteq issued' /\ i \in issued'
  BY <1>1
<1>7. Circulates(wic, issued')
  BY <1>1, <1>2, <1>6 DEF Circulates, SignedBy
<1>8. RunsOk(run', issued') /\ FilesOk(files, issued')
  BY <1>1, <1>6, MoreIssued DEF Inv
<1>9. /\ WicPem \in Paths /\ WicPem \notin JwkPaths /\ WicPem # CaPem /\ WicPem # CaKeyFile
  BY DEF Paths, JwkPaths, CaKeyFile, KeyFileOf, PublicFile, CaPem, WicPem
<1>10. FilesOk(files', issued')
  BY <1>1, <1>7, <1>8, <1>9, FileWritten DEF ContentOk
<1>11. edits' \in 0..MaxEdits
  BY <1>1, CommandsAssumption DEF Inv
<1>12. QED
  BY <1>1, <1>5, <1>8, <1>10, <1>11, IssuedMore

LEMMA EditWicInv ==
  ASSUME Inv, NEW cert \in files[WicPem], NEW changed \in CertificateEdits(cert),
         EditWic(cert, changed)
  PROVE  Inv'
<1>1. /\ Emit(WicPem, changed) /\ edits < MaxEdits /\ edits' = edits + 1
      /\ UNCHANGED <<now, run, exported, issued, accepted>>
  BY DEF EditWic
<1>2. /\ WicPem \in Paths /\ WicPem \notin JwkPaths /\ WicPem # CaPem /\ WicPem # CaKeyFile
  BY DEF Paths, JwkPaths, CaKeyFile, KeyFileOf, PublicFile, CaPem, WicPem
<1>3. Circulates(cert, issued)
  BY <1>2 DEF Inv, FilesOk, ContentOk
<1>4. ContentOk(WicPem, changed, issued)
  BY <1>2, <1>3, CertificateEdited DEF ContentOk
<1>5. FilesOk(files', issued)
  BY <1>1, <1>2, <1>4, FileWritten DEF Inv
<1>6. edits' \in 0..MaxEdits
  BY <1>1, CommandsAssumption DEF Inv
<1>7. QED
  BY <1>1, <1>5, <1>6 DEF Inv

LEMMA VerifyReadWicInv ==
  ASSUME Inv, NEW r \in Runs, VerifyReadWic(r)
  PROVE  Inv'
<1>1. PICK wic \in files[WicPem] : Goes(r, [pc |-> "read-ca", wic |-> wic])
  BY DEF VerifyReadWic
<1>2. WicPem \in Paths
  BY DEF Paths
<1>3. Circulates(wic, issued)
  BY <1>2 DEF Inv, FilesOk, ContentOk
<1>4. RunOk([pc |-> "read-ca", wic |-> wic], issued)
  BY <1>3 DEF RunOk
<1>5. RunsOk(run', issued)
  BY <1>1, <1>4, RunGoes DEF Inv
<1>6. QED
  BY <1>5 DEF Inv, VerifyReadWic

(* What a successful verification establishes. *)
LEMMA WicOk ==
  ASSUME NEW wic, NEW ca, NEW at, VerifyWic(wic, ca, at) = "Ok"
  PROVE  /\ wic.wellFormed
         /\ wic.alg = ca.tbs.key.alg
         /\ wic.sig = [key |-> ca.tbs.key, over |-> wic.tbs]
         /\ BothValid(wic, ca, at)
         /\ UriSan(wic) = "Ok"
  BY DEF VerifyWic

(* The heart of the matter: what passes is what the CA signed. *)
LEMMA VerifiedIsIssued ==
  ASSUME Inv, NEW wic, Circulates(wic, issued), NEW ca \in files[CaPem],
         VerifyWic(wic, ca, now) = "Ok"
  PROVE  \E i \in issued : i.wic = wic /\ i.signer = ca.tbs.key
<1>1. /\ wic.wellFormed /\ wic.alg = ca.tbs.key.alg
      /\ wic.sig = [key |-> ca.tbs.key, over |-> wic.tbs]
  BY WicOk
<1>2. CaPem \in Paths
  BY DEF Paths
<1>3. PICK j \in issued : ca = j.ca
  BY <1>2 DEF Inv, FilesOk, ContentOk
<1>4. ca.tbs.key \in CaKeys
  BY <1>3 DEF Inv, IssuedOk
<1>5. PICK i \in issued : wic.sig = i.wic.sig
  BY <1>1, <1>4, CommandsAssumption DEF Circulates
<1>6. SignedBy(i.wic, i.signer)
  BY DEF Inv, IssuedOk
<1>7. wic.tbs = i.wic.tbs /\ ca.tbs.key = i.signer
  BY <1>1, <1>5, <1>6 DEF SignedBy
<1>8. wic.wellFormed = i.wic.wellFormed /\ wic.alg = i.wic.alg
  BY <1>1, <1>6, <1>7 DEF SignedBy, Circulates, IsCertificate
<1>9. wic = i.wic
  BY <1>5, <1>6, <1>7, <1>8 DEF SignedBy, Circulates, IsCertificate
<1>10. QED
  BY <1>7, <1>9

LEMMA VerifyReadCaInv ==
  ASSUME Inv, NEW r \in Runs, VerifyReadCa(r)
  PROVE  Inv'
<1> DEFINE wic == run[r].wic
<1>1. PICK ca \in files[CaPem] :
        /\ VerifyWic(wic, ca, now) = "Ok"
        /\ accepted' = accepted \cup {[wic |-> wic, ca |-> ca,
                                       sub |-> Identifier(wic), at |-> now]}
  BY DEF VerifyReadCa
<1> DEFINE a == [wic |-> wic, ca |-> ca, sub |-> Identifier(wic), at |-> now]
<1>2. /\ accepted' = accepted \cup {a}
      /\ a.wic = wic /\ a.ca = ca /\ a.sub = Identifier(wic) /\ a.at = now
  BY <1>1
<1>3. Circulates(wic, issued)
  BY AtPc DEF VerifyReadCa
<1> HIDE DEF wic, a
<1>4. PICK i \in issued : i.wic = wic /\ i.signer = ca.tbs.key
  BY <1>1, <1>3, VerifiedIsIssued
<1>5. BothValid(wic, ca, now) /\ UriSan(wic) = "Ok"
  BY <1>1, WicOk
<1>6. wic.tbs.uris = <<Identifier(wic)>> /\ Identifier(wic) \in Identifiers
  <2>1. wic.tbs.uris \in Seq(STRING)
    BY <1>4 DEF Inv, IssuedOk
  <2>2. /\ wic.tbs.uris # <<>> /\ ~(Len(wic.tbs.uris) > 1)
        /\ wic.tbs.uris[1] \in Identifiers
    BY <1>5 DEF UriSan
  <2>3. QED
    BY <2>1, <2>2 DEF Identifier
<1>7. /\ now \in ca.tbs.notBefore .. ca.tbs.notAfter
      /\ now \in wic.tbs.notBefore .. wic.tbs.notAfter
  <2>1. CaPem \in Paths
    BY DEF Paths
  <2>2. WindowOk(ca) /\ WindowOk(wic)
    BY <1>4, <2>1 DEF Inv, FilesOk, ContentOk, IssuedOk
  <2>3. now \in Nat
    BY CommandsAssumption DEF Inv
  <2>4. QED
    BY <1>5, <2>2, <2>3, CommandsAssumption DEF BothValid, ValidAt, WindowOk
<1>8. AcceptedFrom(a, i)
  BY <1>2, <1>4, <1>6, <1>7 DEF AcceptedFrom
<1>9. AcceptedOk(accepted', issued)
  BY <1>2, <1>8 DEF Inv, AcceptedOk
<1>10. RunsOk(run', issued)
  BY RunGoes, RunIdles DEF Inv, VerifyReadCa
<1>11. QED
  BY <1>9, <1>10 DEF Inv, VerifyReadCa

LEMMA NextInv == Inv /\ [Next]_vars => Inv'
<1> SUFFICES ASSUME Inv, [Next]_vars PROVE Inv'
  OBVIOUS
<1>1. CASE \E key \in CaKeys : Generate(CaKeyFile, key)
  BY <1>1, GenerateInv DEF JwkPaths
<1>2. CASE \E key \in WorkloadKeys : Generate(KeyFileOf, key)
  BY <1>2, GenerateInv DEF JwkPaths, KeyFileOf, CaKeyFile
<1>3. CASE \E r \in Runs, p \in JwkPaths : PublicLoad(r, p)
  BY <1>3, PublicLoadInv
<1>4. CASE \E r \in Runs : PublicEmit(r)
  BY <1>4, PublicEmitInv
<1>5. CASE \E p \in JwkPaths : \E file \in files[p] : \E changed \in KeyEdits(file) :
             EditKey(p, file, changed)
  BY <1>5, EditKeyInv
<1>6. CASE \E r \in Runs : IssueLoadCa(r)
  BY <1>6, IssueLoadCaInv
<1>7. CASE \E r \in Runs, p \in JwkPaths, sub \in Subjects, ttl \in Ttls, caTtl \in CaTtls :
             IssueSign(r, p, sub, ttl, caTtl)
  BY <1>7, IssueSignInv
<1>8. CASE \E r \in Runs : EmitCa(r) \/ EmitWic(r)
  BY <1>8, EmitCaInv, EmitWicInv
<1>9. CASE \E caKey \in CaKeys, key \in WorkloadKeys, uris \in OtherUris :
             OtherToolIssues(caKey, key, uris)
  BY <1>9, OtherToolInv
<1>10. CASE \E cert \in files[WicPem] : \E changed \in CertificateEdits(cert) :
              EditWic(cert, changed)
  BY <1>10, EditWicInv
<1>11. CASE \E r \in Runs : VerifyReadWic(r) \/ VerifyReadCa(r)
  BY <1>11, VerifyReadWicInv, VerifyReadCaInv
<1>12. CASE \E r \in Runs : Stop(r)
  <2>1. PICK r \in Runs : Stop(r)
    BY <1>12
  <2>2. RunsOk(run', issued)
    BY <2>1, RunGoes, RunIdles DEF Inv, Stop
  <2>3. QED
    BY <2>1, <2>2 DEF Inv, Stop
<1>13. CASE Tick
  BY <1>13, CommandsAssumption DEF Inv, Tick
<1>14. CASE UNCHANGED vars
  BY <1>14 DEF Inv, vars
<1>15. QED
  BY <1>1, <1>2, <1>3, <1>4, <1>5, <1>6, <1>7, <1>8, <1>9, <1>10, <1>11, <1>12, <1>13,
     <1>14 DEF Next

LEMMA SpecInv == Spec => []Inv
  BY InitInv, NextInv, PTL DEF Spec

(***************************************************************************)
(* The theorems.                                                           *)
(***************************************************************************)
(* However the key files were edited and whichever was read, the public    *)
(* key that `key public` writes for a private one verifies what that one   *)
(* signs: JwkKey::signing_key refuses a private half that is not beside    *)
(* its own public half, before anything is exported.                       *)
THEOREM ExportsItsOwnKey == Spec => []AdvertisesItsKey
<1>1. Inv => AdvertisesItsKey
  <2> SUFFICES ASSUME Inv, NEW e \in exported, NEW d \in e.from.d,
                      NEW key \in VerifyingKey(e.to)
               PROVE  key.secret = d
    BY DEF AdvertisesItsKey
  <2>1. Exportable(e.from) /\ IsKeyFile(e.from) /\ e.to = ToPublic(e.from)
    BY DEF Inv, ExportedOk
  <2>2. PICK own : own \in SigningKey(e.from)
    BY <2>1 DEF Exportable
  <2>3. X(own) = e.from.x /\ own.secret \in e.from.d
    BY <2>2, SigningKeyOfX
  <2>4. e.to.x = e.from.x
    BY <2>1 DEF ToPublic, WithD
  <2>5. key = own
    BY <2>3, <2>4, VerifyingKeyOfX, SameX
  <2>6. QED
    BY <2>1, <2>3, <2>5 DEF IsKeyFile
<1>2. QED
  BY SpecInv, <1>1, PTL

(* No certificate is accepted but one that a CA signed with the very key   *)
(* in the CA certificate at hand, for the one identifier it names and in   *)
(* both windows: although the two files are read one after the other, and  *)
(* may have been edited and written again in between                       *)
(* (wimsey_mtls::verify, wimsey wic verify).                               *)
THEOREM AcceptsOnlyItsOwn == Spec => []WicAuthentic
<1>1. Inv => WicAuthentic
  BY DEF Inv, AcceptedOk, AcceptedFrom, WicAuthentic
<1>2. QED
  BY SpecInv, <1>1, PTL

(* Whatever CA certificate was built from a key, at whichever start, each  *)
(* certificate that key signed for one identifier passes under it as long  *)
(* as both are valid (WorkloadCa::from_signing_key, wimsey_mtls::verify).  *)
THEOREM AcceptsTheIntact == Spec => []IntactWicAccepted
<1>1. Inv => IntactWicAccepted
  <2> SUFFICES ASSUME Inv, NEW i \in issued, NEW j \in issued, i.signer = j.signer,
                      Len(i.wic.tbs.uris) = 1, i.wic.tbs.uris[1] \in Identifiers,
                      now \in j.ca.tbs.notBefore .. j.ca.tbs.notAfter,
                      now \in i.wic.tbs.notBefore .. i.wic.tbs.notAfter
               PROVE  VerifyWic(i.wic, j.ca, now) = "Ok"
    BY DEF IntactWicAccepted
  <2>1. /\ SignedBy(i.wic, j.signer) /\ SignedBy(j.ca, j.signer)
        /\ j.ca.tbs.key = j.signer /\ j.signer.alg \in Algorithms
        /\ WindowOk(i.wic) /\ WindowOk(j.ca)
    BY CommandsAssumption DEF Inv, IssuedOk
  <2>2. UriSan(i.wic) = "Ok"
    <3>1. i.wic.tbs.uris # <<>>
      BY DEF Inv, IssuedOk
    <3>2. QED
      BY <3>1 DEF UriSan
  <2>3. BothValid(i.wic, j.ca, now)
    BY <2>1, CommandsAssumption DEF BothValid, ValidAt, WindowOk
  <2>4. ToTime(now) # {}
    BY <2>1, CommandsAssumption DEF ToTime, WindowOk
  <2>5. i.wic.wellFormed /\ j.ca.wellFormed
    BY <2>1 DEF SignedBy
  <2>6. /\ i.wic.alg = j.ca.tbs.key.alg /\ i.wic.tbs.alg = j.ca.tbs.key.alg
        /\ i.wic.sig = [key |-> j.ca.tbs.key, over |-> i.wic.tbs]
    BY <2>1 DEF SignedBy
  <2>7. QED
    BY <2>1, <2>2, <2>3, <2>4, <2>5, <2>6 DEF VerifyWic
<1>2. QED
  BY SpecInv, <1>1, PTL

(* The state keeps its kinds, and no certificate that was signed names a   *)
(* time it cannot carry or ends before it begins (to_time).                *)
THEOREM KeepsTypes == Spec => []TypeOK
<1>1. Inv => TypeOK
  <2> SUFFICES ASSUME Inv PROVE TypeOK
    OBVIOUS
  <2>1. ASSUME NEW p \in Paths PROVE Cardinality(files[p]) <= 1
    <3>1. CASE files[p] = {}
      BY <3>1, FS_EmptySet
    <3>2. CASE files[p] # {}
      <4>1. PICK c : c \in files[p]
        BY <3>2
      <4>2. files[p] = {c}
        BY <4>1 DEF Inv, FilesOk
      <4>3. QED
        BY <4>2, FS_Singleton
    <3>3. QED
      BY <3>1, <3>2
  <2>2. ASSUME NEW r \in Runs
        PROVE  run[r].pc \in {"idle", "public", "load-key", "emit-ca", "emit-wic", "read-ca"}
    <3>1. RunOk(run[r], issued)
      BY DEF Inv, RunsOk
    <3>2. QED
      BY <3>1 DEF RunOk, Idle
  <2>3. \A i \in issued : \A cert \in {i.wic, i.ca} :
          /\ cert.tbs.notBefore \in 0..TimeMax
          /\ cert.tbs.notAfter \in cert.tbs.notBefore .. TimeMax
    BY DEF Inv, IssuedOk, WindowOk
  <2>4. QED
    BY <2>1, <2>2, <2>3 DEF Inv, TypeOK
<1>2. QED
  BY SpecInv, <1>1, PTL
=============================================================================
