--------------------------- MODULE MCConformance ---------------------------
(***************************************************************************)
(* A small instance of Conformance for TLC, over the suite itself: v7 and  *)
(* v6, of another format and with fewer suites, and of v7 every regression *)
(* that looks past one argument of one verification.                       *)
(***************************************************************************)
EXTENDS Conformance, Suite

(* The vector of each suite in one of the algorithms, and of the WIT in both. *)
MCVectors == {<<"identifier", "">>, <<"wit", "EdDSA">>, <<"wit", "ES256">>,
              <<"wpt", "ES256">>, <<"httpsig", "EdDSA">>, <<"mtls", "ES256">>}
MCDirOf == [p \in MCVectors |-> p[1]]
MCSuiteNames == <<"httpsig", "identifier", "mtls", "wit", "wpt">>

Release(format, part, ignores) == [format |-> format, part |-> part, ignores |-> ignores]

V6 == Release("v6", "", "")
V7 == Release("v7", "", "")

Arguments ==
  [wit      |-> {"token", "now", "key", "expectedIssuer"},
   wpt      |-> {"proof", "now", "audience", "wit", "txnToken", "otherTokens", "type"},
   request  |-> {"request", "body", "input", "sigs", "now", "maxAge", "required",
                 "audiences", "tag", "selection"},
   response |-> {"request", "signature", "wit", "reqNonce"},
   mtls     |-> {"wic", "ca", "now"}]

MCEvolving == {V6, V7}
MCRegressions == UNION {{Release("v7", part, ignored) : ignored \in Arguments[part]} :
                          part \in DOMAIN Arguments}
MCReleases == MCEvolving \cup MCRegressions

MCFormatOf == [r \in MCReleases |-> r.format]
MCKnownSuites == [r \in MCReleases |->
  IF r = V6 THEN {"identifier", "wit"} ELSE ToSet(Suites)]
MCManifestOf == [r \in MCReleases |->
  SelectSeq(ManifestEntries, LAMBDA e : e.suite \in MCKnownSuites[r])]
MCWritesOf == [r \in MCReleases |->
  SelectSeq(WriteOrder, LAMBDA p : p[1] \in MCKnownSuites[r])]

MCNegatives == [p \in MCVectors |-> NegativesAt(p)]
MCAccepted  == [p \in MCVectors |-> AcceptedAt(p)]
MCInputs    == UNION {InputsAt(p) : p \in MCVectors}

MCNegativeOf == [r \in MCReleases |-> MCNegatives]
MCAcceptedOf == [r \in MCReleases |-> IF r = V6 THEN [p \in MCVectors |-> {}] ELSE MCAccepted]
MCProduced   == [r \in MCReleases |-> [p \in MCVectors |-> PositiveName(p)]]

(* Of a regression, only what it makes of its own part is worked out anew. *)
VerdictsOn(r, inputs) == [input \in inputs |-> VerdictAt(r, input)]
Verdicts ==
  LET sound == VerdictsOn(V7, MCInputs)
  IN  [r \in MCReleases |->
         IF r \in MCEvolving THEN sound
         ELSE VerdictsOn(r, {input \in MCInputs : input.part = r.part}) @@ sound]
MCVerdict == LET verdicts == Verdicts IN verdicts
=============================================================================
