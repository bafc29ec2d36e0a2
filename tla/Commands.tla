------------------------------ MODULE Commands ------------------------------
(***************************************************************************)
(* `wimsey key` and `wimsey wic` on shared files: keys generated, edited   *)
(* by hand and exported, certificates issued and verified.  Commands run   *)
(* at the same time, read the files one by one, write each output file as  *)
(* one atomic step (DurableFiles), and may stop between any two of these.  *)
(*                                                                         *)
(* The certificate that a peer presents may also come from elsewhere: made *)
(* by another tool of the CA, or changed on the way.                       *)
(***************************************************************************)
EXTENDS Wic, KeyFile, Integers, FiniteSets

CONSTANTS
  Runs,              \* the commands running at a time
  CaKeys, WorkloadKeys,
  Subjects,
  Ttls, CaTtls,      \* lifetimes asked for
  OtherUris,         \* URI SANs that another tool of the CA may sign
  MaxTime, MaxIssued, MaxExports, MaxEdits, MaxAccepted  \* bounds

ASSUME CommandsAssumption ==
  /\ CaKeys \cup WorkloadKeys \subseteq Keys
  /\ CaKeys \cap WorkloadKeys = {}  \* who has a CA's key is the CA
  /\ \A key \in CaKeys : key.alg \in Algorithms
  /\ Subjects \subseteq Identifiers
  /\ Identifiers \subseteq STRING /\ OtherUris \subseteq Seq(STRING)
  /\ Ttls \subseteq Nat /\ CaTtls \subseteq Nat
  /\ TimeMax \in Nat /\ MaxTime \in Nat /\ MaxEdits \in Nat

VARIABLES
  now,
  files,     \* files[p]: what the file at path p holds, if it is there
  run,       \* run[r]: what command r is at
  edits,     \* how often files were edited by hand or changed on the way
  exported,  \* the keys exported: [from, to]
  issued,    \* the certificates signed: [wic, ca, signer]
  accepted   \* the certificates accepted: [wic, ca, sub, at]

vars == <<now, files, run, edits, exported, issued, accepted>>

CaKeyFile  == "ca.jwk"
KeyFileOf  == "workload.jwk"
PublicFile == "workload.pub.jwk"
CaPem      == "ca.pem"
WicPem     == "wic.pem"
JwkPaths   == {CaKeyFile, KeyFileOf, PublicFile}
Paths      == JwkPaths \cup {CaPem, WicPem}

Idle == [pc |-> "idle"]

Emit(p, content) == files' = [files EXCEPT ![p] = {content}]

Goes(r, state) == run' = [run EXCEPT ![r] = state]

(* A command fails, or is killed: what it has written stays. *)
Stop(r) ==
  /\ run[r] # Idle
  /\ Goes(r, Idle)
  /\ UNCHANGED <<now, files, edits, exported, issued, accepted>>

(***************************************************************************)
(* run_key.                                                                *)
(***************************************************************************)
Generate(p, key) ==
  /\ Emit(p, FromSigningKey(key))
  /\ UNCHANGED <<now, run, edits, exported, issued, accepted>>

PublicLoad(r, p) ==
  /\ run[r] = Idle
  /\ Cardinality(exported) < MaxExports
  /\ \E file \in files[p] : /\ Exportable(file)
                            /\ Goes(r, [pc |-> "public", from |-> file])
  /\ UNCHANGED <<now, files, edits, exported, issued, accepted>>

PublicEmit(r) ==
  /\ run[r].pc = "public"
  /\ Emit(PublicFile, ToPublic(run[r].from))
  /\ exported' = exported \cup {[from |-> run[r].from, to |-> ToPublic(run[r].from)]}
  /\ Goes(r, Idle)
  /\ UNCHANGED <<now, edits, issued, accepted>>

(* A key file is edited: its private half or its alg. *)
EditKey(p, file, changed) ==
  /\ edits < MaxEdits /\ file \in files[p]
  /\ Emit(p, changed)
  /\ edits' = edits + 1
  /\ UNCHANGED <<now, run, exported, issued, accepted>>

KeyEdits(file) ==
  {WithD([file EXCEPT !.alg = {}], file.d)} \cup
  {WithD(file, {key.secret}) : key \in Keys} \cup
  {WithD([file EXCEPT !.alg = {alg}], file.d) : alg \in Algorithms}

(***************************************************************************)
(* run_wic.                                                                *)
(***************************************************************************)
IssueLoadCa(r) ==
  /\ run[r] = Idle
  /\ \E file \in files[CaKeyFile] : \E caKey \in SigningKey(file) :
       Goes(r, [pc |-> "load-key", caKey |-> caKey])
  /\ UNCHANGED <<now, files, edits, exported, issued, accepted>>

(* The workload's key, public or private, and then the rest up to the      *)
(* first write: the CA is rebuilt from its key and the window from now on. *)
IssueSign(r, p, sub, ttl, caTtl) ==
  /\ run[r].pc = "load-key"
  /\ Cardinality(issued) < MaxIssued
  /\ \E file \in files[p] : \E key \in VerifyingKey(file) :
       \E notBefore \in ToTime(now), notAfter \in ToTime(now + ttl),
          caNotAfter \in ToTime(now + caTtl) :
         LET caKey == run[r].caKey
             ca    == CaCertificate(caKey, notBefore, caNotAfter)
             wic   == IssueWic(caKey, sub, key, notBefore, notAfter)
         IN  /\ Goes(r, [pc |-> "emit-ca", ca |-> ca, wic |-> wic])
             /\ issued' = issued \cup {[wic |-> wic, ca |-> ca, signer |-> caKey]}
  /\ UNCHANGED <<now, files, edits, exported, accepted>>

(* --ca-out may be left out. *)
EmitCa(r) ==
  /\ run[r].pc = "emit-ca"
  /\ Emit(CaPem, run[r].ca) \/ UNCHANGED files
  /\ Goes(r, [pc |-> "emit-wic", wic |-> run[r].wic])
  /\ UNCHANGED <<now, edits, exported, issued, accepted>>

EmitWic(r) ==
  /\ run[r].pc = "emit-wic"
  /\ Emit(WicPem, run[r].wic)
  /\ Goes(r, Idle)
  /\ UNCHANGED <<now, edits, exported, issued, accepted>>

(* Another tool signs with a CA's key, naming other URIs or several. *)
OtherToolIssues(caKey, key, uris) ==
  /\ edits < MaxEdits
  /\ LET wic == Certificate(key, uris, 0, TimeMax, caKey)
     IN  /\ Emit(WicPem, wic)
         /\ issued' = issued \cup
              {[wic |-> wic, ca |-> CaCertificate(caKey, 0, TimeMax), signer |-> caKey]}
  /\ edits' = edits + 1
  /\ UNCHANGED <<now, run, exported, accepted>>

(* A certificate is changed on the way; its signature cannot be remade. *)
CertificateEdits(cert) ==
  {[cert EXCEPT !.wellFormed = FALSE]} \cup
  {[cert EXCEPT !.alg = alg, !.tbs.alg = alg] : alg \in Algorithms} \cup
  {[cert EXCEPT !.tbs.uris = <<sub>>] : sub \in Subjects} \cup
  {[cert EXCEPT !.tbs.notAfter = TimeMax]} \cup
  {[cert EXCEPT !.sig = [key |-> key, over |-> cert.tbs]] : key \in WorkloadKeys}

EditWic(cert, changed) ==
  /\ edits < MaxEdits /\ cert \in files[WicPem]
  /\ Emit(WicPem, changed)
  /\ edits' = edits + 1
  /\ UNCHANGED <<now, run, exported, issued, accepted>>

VerifyReadWic(r) ==
  /\ run[r] = Idle
  /\ Cardinality(accepted) < MaxAccepted
  /\ \E wic \in files[WicPem] : Goes(r, [pc |-> "read-ca", wic |-> wic])
  /\ UNCHANGED <<now, files, edits, exported, issued, accepted>>

VerifyReadCa(r) ==
  /\ run[r].pc = "read-ca"
  /\ \E ca \in files[CaPem] :
       /\ VerifyWic(run[r].wic, ca, now) = "Ok"
       /\ accepted' = accepted \cup {[wic |-> run[r].wic, ca |-> ca,
                                      sub |-> Identifier(run[r].wic), at |-> now]}
  /\ Goes(r, Idle)
  /\ UNCHANGED <<now, files, edits, exported, issued>>

Tick == now < MaxTime /\ now' = now + 1 /\ UNCHANGED <<files, run, edits, exported, issued, accepted>>

(***************************************************************************)
(* The specification.                                                      *)
(***************************************************************************)
Init ==
  /\ now = 0 /\ files = [p \in Paths |-> {}] /\ run = [r \in Runs |-> Idle]
  /\ edits = 0 /\ exported = {} /\ issued = {} /\ accepted = {}

Next ==
  \/ \E key \in CaKeys : Generate(CaKeyFile, key)
  \/ \E key \in WorkloadKeys : Generate(KeyFileOf, key)
  \/ \E r \in Runs, p \in JwkPaths : PublicLoad(r, p)
  \/ \E r \in Runs : PublicEmit(r)
  \/ \E p \in JwkPaths : \E file \in files[p] : \E changed \in KeyEdits(file) :
       EditKey(p, file, changed)
  \/ \E r \in Runs : IssueLoadCa(r)
  \/ \E r \in Runs, p \in JwkPaths, sub \in Subjects, ttl \in Ttls, caTtl \in CaTtls :
       IssueSign(r, p, sub, ttl, caTtl)
  \/ \E r \in Runs : EmitCa(r) \/ EmitWic(r)
  \/ \E caKey \in CaKeys, key \in WorkloadKeys, uris \in OtherUris :
       OtherToolIssues(caKey, key, uris)
  \/ \E cert \in files[WicPem] : \E changed \in CertificateEdits(cert) : EditWic(cert, changed)
  \/ \E r \in Runs : VerifyReadWic(r) \/ VerifyReadCa(r)
  \/ \E r \in Runs : Stop(r)
  \/ Tick

Spec == Init /\ [][Next]_vars

-----------------------------------------------------------------------------
(***************************************************************************)
(* Properties.                                                             *)
(***************************************************************************)
(* Whatever the files went through, the public key that `key public` hands *)
(* out for a private one is that one's: no workload advertises a key other *)
(* than the one it signs with (JwkKey::signing_key).                       *)
AdvertisesItsKey ==
  \A e \in exported : \A d \in e.from.d : \A key \in VerifyingKey(e.to) : key.secret = d

(* An identifier is accepted only from a certificate signed with the key   *)
(* of the trusted CA, naming it and nothing else, while both certificates  *)
(* are valid: though the two files were read one after the other and may   *)
(* come from different runs (wimsey_mtls::verify).                         *)
WicAuthentic ==
  \A a \in accepted : \E i \in issued :
    /\ i.wic = a.wic /\ i.signer = a.ca.tbs.key
    /\ i.wic.tbs.uris = <<a.sub>> /\ a.sub \in Identifiers
    /\ a.at \in a.ca.tbs.notBefore .. a.ca.tbs.notAfter
    /\ a.at \in i.wic.tbs.notBefore .. i.wic.tbs.notAfter

(* A CA survives a restart: under every CA certificate ever built from its *)
(* key, each certificate it signed for one identifier is accepted as long  *)
(* as both are valid, to the last second.                                  *)
IntactWicAccepted ==
  \A i, j \in issued :
    /\ i.signer = j.signer /\ Len(i.wic.tbs.uris) = 1 /\ i.wic.tbs.uris[1] \in Identifiers
    /\ now \in j.ca.tbs.notBefore .. j.ca.tbs.notAfter
    /\ now \in i.wic.tbs.notBefore .. i.wic.tbs.notAfter
    => VerifyWic(i.wic, j.ca, now) = "Ok"

(* wic.rs says that the same key yields the same CA certificate. *)
SameKeySameCa ==
  \A i, j \in issued : i.signer = j.signer => i.ca = j.ca

(* The kinds of the state; no certificate names a time that cannot be      *)
(* written in one, and none ends before it begins (to_time).               *)
TypeOK ==
  /\ now \in 0..MaxTime /\ edits \in 0..MaxEdits
  /\ \A p \in Paths : Cardinality(files[p]) <= 1
  /\ \A r \in Runs : run[r].pc \in {"idle", "public", "load-key", "emit-ca", "emit-wic", "read-ca"}
  /\ \A i \in issued : \A cert \in {i.wic, i.ca} :
       /\ cert.tbs.notBefore \in 0..TimeMax
       /\ cert.tbs.notAfter \in cert.tbs.notBefore .. TimeMax
=============================================================================
