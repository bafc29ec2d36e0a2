---------------------------- MODULE Conformance ----------------------------
(***************************************************************************)
(* wimsey-conformance: the suite of vectors in a directory, its generator  *)
(* and its runner.  `generate` writes the manifest and then the vectors,   *)
(* one file after the other, each truncated and then written.  `run` reads *)
(* the manifest, looks through the directories of the suites it names for  *)
(* files it does not list, and runs what it lists.                         *)
(*                                                                         *)
(* Both may be of any release, they may run at the same time, a generator  *)
(* may stop half way, and people edit, add and remove files.  A vector is  *)
(*   [whole, by, path, loads, agrees, reworded]                            *)
(* whether its text is whole; the release that generated it and for which  *)
(* path, which tells its format, its suite, its inputs, what was issued    *)
(* from them and its cases; whether its inputs load, and what it says      *)
(* twice agrees; the cases that were given another reason since.  A case   *)
(* is [input, expect], an input that must be rejected and the reason.      *)
(***************************************************************************)
EXTENDS Integers, Sequences, SequencesExt, FiniteSets

CONSTANTS
  Releases,     \* the releases of the implementation
  Sound,        \* those that do what its verifiers are specified to do
  Evolving,     \* those whose suites are edited and generated again
  FormatOf,     \* FormatOf[r]: the format that r writes and reads
  ManifestOf,   \* ManifestOf[r]: its entries [suite, path], in run order
  WritesOf,     \* WritesOf[r]: the paths of its vectors, in writing order
  NegativeOf, AcceptedOf,  \* NegativeOf[r][p]: the cases that r records at p
  Produced,     \* Produced[r][p]: what r issues from the inputs recorded at p
  Verdict,      \* Verdict[r][input]: what r makes of an input
  KnownSuites,  \* KnownSuites[r]: the suites that r has checks for
  SuiteNames,   \* the names of the suites, in alphabetical order
  Reasons,      \* the reasons that somebody may write into a case
  VectorPaths, DirOf,           \* the vectors' paths and their directories
  MaxChanges, MaxGenerations, MaxRuns  \* bounds

ManifestPath == <<"manifest.json">>

ASSUME ConformanceAssumption ==
  /\ ManifestPath \notin VectorPaths
  /\ \A r \in Releases :
       /\ ManifestOf[r] \in Seq([suite : ToSet(SuiteNames), path : VectorPaths])
       /\ WritesOf[r] \in Seq(VectorPaths)
       /\ ToSet(WritesOf[r]) = {e.path : e \in ToSet(ManifestOf[r])}
       /\ \A e \in ToSet(ManifestOf[r]) : DirOf[e.path] = e.suite /\ e.suite \in KnownSuites[r]
  /\ Sound \subseteq Releases /\ Evolving \subseteq Releases

VARIABLES
  release,   \* the release in use
  disk,      \* disk[p]: what the file at path p holds, if it is there
  gen,       \* the generator: its release and the files it has to write
  run,       \* the runner
  reports,   \* how the runs ended
  changes, generations  \* how often people and generators changed files

vars == <<release, disk, gen, run, reports, changes, generations>>

Paths == VectorPaths \cup {ManifestPath}
Torn  == [whole |-> FALSE]
Idle  == [pc |-> "idle"]

ManifestFile(r) == [whole |-> TRUE, format |-> FormatOf[r], vectors |-> ManifestOf[r]]

Vector(r, p) ==
  [whole |-> TRUE, by |-> r, path |-> p, loads |-> TRUE, agrees |-> TRUE, reworded |-> {}]

(* What such a file says. *)
Recorded(file) == Produced[file.by][file.path]
AcceptCases(file) == AcceptedOf[file.by][file.path]
RejectCases(file) ==
  file.reworded \cup {case \in NegativeOf[file.by][file.path] :
                       \A other \in file.reworded : other.input # case.input}

Generated(r, p) == IF p = ManifestPath THEN ManifestFile(r) ELSE Vector(r, p)

(* The directory is what release r generates, and nothing else. *)
Fresh(r) ==
  \A p \in Paths :
    disk[p] = IF p = ManifestPath \/ p \in ToSet(WritesOf[r]) THEN {Generated(r, p)} ELSE {}

(* The file at p changes, and a runner at work goes on; it keeps account   *)
(* of whether the directory is fresh and of the files there all along.     *)
Put(p, file) ==
  /\ disk' = [disk EXCEPT ![p] = file]
  /\ run'  = IF run = Idle THEN Idle
             ELSE [run EXCEPT !.fresh = FALSE, !.stayed = IF file = {} THEN @ \ {p} ELSE @]

(***************************************************************************)
(* write_vectors.                                                          *)
(***************************************************************************)
GenerateStart ==
  /\ gen = Idle /\ generations < MaxGenerations
  /\ gen' = [pc |-> "truncate", release |-> release,
             left |-> <<ManifestPath>> \o WritesOf[release]]
  /\ generations' = generations + 1
  /\ UNCHANGED <<release, disk, run, reports, changes>>

Truncate ==
  /\ gen.pc = "truncate"
  /\ Put(Head(gen.left), {Torn})
  /\ gen' = [gen EXCEPT !.pc = "write"]
  /\ UNCHANGED <<release, reports, changes, generations>>

Write ==
  /\ gen.pc = "write"
  /\ Put(Head(gen.left), {Generated(gen.release, Head(gen.left))})
  /\ gen' = IF Len(gen.left) = 1 THEN Idle
            ELSE [gen EXCEPT !.pc = "truncate", !.left = Tail(@)]
  /\ UNCHANGED <<release, reports, changes, generations>>

(* It fails or is killed: what is written stays. *)
GenerateStops ==
  /\ gen # Idle
  /\ gen' = Idle
  /\ UNCHANGED <<release, disk, run, reports, changes, generations>>

(***************************************************************************)
(* run_dir.                                                                *)
(***************************************************************************)
(* Mutant: any rejection will do. *)
ExpectAnyReject(expected, actual) == actual # "Ok"

(* Rejected, and for the recorded reason. *)
ExpectReject(expected, actual) == actual = expected

(* What a vector says twice: the declared algorithm, the one that the      *)
(* description names and the key's, the WIT and its thumbprint, the body   *)
(* and its digest, the CA's key and its certificate.                       *)
ConsistencyCheck(file) == file.agrees

(* What was recorded is issued again, and accepted. *)
PositiveChecks(r, file) ==
  {Recorded(file) = Produced[r][file.path], Verdict[r][Recorded(file)] = "Ok"}

RejectChecks(r, file) ==
  {ExpectReject(case.expect, Verdict[r][case.input]) : case \in RejectCases(file)}

(* Mutant: a reader that does not know the accepted cases skips them. *)
AcceptChecksSkipped(r, file) == {}

AcceptChecks(r, file) == {Verdict[r][input] = "Ok" : input \in AcceptCases(file)}

Checks(r, file) ==
  {ConsistencyCheck(file)} \cup PositiveChecks(r, file)
    \cup RejectChecks(r, file) \cup AcceptChecks(r, file)

(* What a vector may leave on record: whether each check passed.  An input *)
(* that does not load is a failed check, with or without others that pass: *)
(* it ends the vector or one part of it, and which depends on the input.   *)
RunVector(r, file) == IF file.loads THEN {Checks(r, file)} ELSE {{FALSE}, BOOLEAN}

(* Mutant: a suite that the manifest names is taken to be listed. *)
SuiteNamed(suite, entries) == suite \in {e.suite : e \in ToSet(entries)}

(* check_listed, for one directory. *)
Listed(suite, entries) ==
  \A p \in VectorPaths :
    DirOf[p] = suite /\ disk[p] # {} => p \in {e.path : e \in ToSet(entries)}

Ends(result) ==
  /\ run' = Idle
  /\ reports' = reports \cup
       {[result |-> result, release |-> run.release, entries |-> run.entries,
         ran |-> run.ran, stayed |-> run.stayed, fresh |-> run.fresh]}

(* A manifest that is not there, not whole or of another format ends it. *)
RunStart ==
  /\ run = Idle /\ Cardinality(reports) < MaxRuns
  /\ \E m \in disk[ManifestPath] :
       /\ m.whole /\ m.format = FormatOf[release]
       /\ run' = [pc |-> "list", release |-> release, entries |-> m.vectors,
                  suites |-> {e.suite : e \in ToSet(m.vectors)}, at |-> 1,
                  ran |-> {}, checks |-> {}, fresh |-> Fresh(release),
                  stayed |-> {p \in VectorPaths : disk[p] # {}}]
  /\ UNCHANGED <<release, disk, gen, reports, changes, generations>>

(* Directories are looked through in alphabetical order. *)
NextSuite == SuiteNames[Min({i \in DOMAIN SuiteNames : SuiteNames[i] \in run.suites})]

RunList ==
  /\ run.pc = "list" /\ run.suites # {}
  /\ IF Listed(NextSuite, run.entries)
       THEN run' = [run EXCEPT !.suites = @ \ {NextSuite}] /\ UNCHANGED reports
       ELSE Ends("error")
  /\ UNCHANGED <<release, disk, gen, changes, generations>>

(* Mutant: the format of a vector is not checked. *)
ReadableWhole(r, suite, file) == file.whole /\ DirOf[file.path] = suite

(* A vector of another suite lacks what this suite's must have. *)
Readable(r, suite, file) ==
  file.whole /\ DirOf[file.path] = suite /\ FormatOf[file.by] = FormatOf[r]

(* The vector at the next entry. *)
Entry == run.entries[run.at]
ReadableAt == {file \in disk[Entry.path] : Readable(run.release, Entry.suite, file)}

RunVectorAt ==
  \E file \in ReadableAt : \E results \in RunVector(run.release, file) :
    run' = [run EXCEPT !.at = @ + 1,
                       !.ran = @ \cup {[path |-> Entry.path, file |-> file]},
                       !.checks = @ \cup results]

Entering == run.pc = "list" /\ run.suites = {} /\ run.at <= Len(run.entries)

(* Mutant: a vector that cannot be read is tried until it can. *)
RunEntryRetried ==
  /\ Entering
  /\ IF Entry.suite \notin KnownSuites[run.release] THEN Ends("error")
     ELSE RunVectorAt /\ UNCHANGED reports
  /\ UNCHANGED <<release, disk, gen, changes, generations>>

RunEntry ==
  /\ Entering
  /\ IF Entry.suite \notin KnownSuites[run.release] \/ ReadableAt = {} THEN Ends("error")
     ELSE RunVectorAt /\ UNCHANGED reports
  /\ UNCHANGED <<release, disk, gen, changes, generations>>

RunReports ==
  /\ run.pc = "list" /\ run.suites = {} /\ run.at > Len(run.entries)
  /\ Ends(IF FALSE \notin run.checks THEN "green" ELSE "red")
  /\ UNCHANGED <<release, disk, gen, changes, generations>>

(***************************************************************************)
(* The people.                                                             *)
(***************************************************************************)
Upgrade(r) ==
  /\ r # release /\ r \in Evolving /\ changes < MaxChanges
  /\ release' = r
  /\ changes' = changes + 1
  /\ UNCHANGED <<disk, gen, run, reports, generations>>

Change(p, file) ==
  /\ changes < MaxChanges
  /\ Put(p, file)
  /\ changes' = changes + 1
  /\ UNCHANGED <<release, gen, reports, generations>>

(* A vector copied to another path, removed, or edited. *)
CopyVector(p, q) == p # q /\ disk[q] = {} /\ Change(q, disk[p])
RemoveVector(p) == disk[p] # {} /\ Change(p, {})
Edits(file) ==
  {[file EXCEPT !.loads = FALSE], [file EXCEPT !.agrees = FALSE]} \cup
  {[file EXCEPT !.reworded = {[case EXCEPT !.expect = expect]}] :
     case \in RejectCases(file), expect \in Reasons}
EditVector(p) == \E file \in disk[p] : file.whole /\ \E edited \in Edits(file) : Change(p, {edited})

(* An entry of the manifest is dropped. *)
Unlist(at) ==
  \E m \in disk[ManifestPath] :
    m.whole /\ at \in DOMAIN m.vectors
    /\ Change(ManifestPath, {[m EXCEPT !.vectors = RemoveAt(@, at)]})

(***************************************************************************)
(* The specification: it begins with a directory that a release generated, *)
(* or with an empty one.                                                   *)
(***************************************************************************)
Init ==
  /\ release \in Releases
  /\ \/ disk = [p \in Paths |-> {}]
     \/ disk = [p \in Paths |-> IF p = ManifestPath \/ p \in ToSet(WritesOf[release])
                                  THEN {Generated(release, p)} ELSE {}]
  /\ gen = Idle /\ run = Idle /\ reports = {}
  /\ IF release \in Evolving THEN changes = 0 /\ generations = 0
                             ELSE changes = MaxChanges /\ generations = MaxGenerations

Next ==
  \/ GenerateStart \/ Truncate \/ Write \/ GenerateStops
  \/ RunStart \/ RunList \/ RunEntry \/ RunReports
  \/ \E r \in Releases : Upgrade(r)
  \/ \E p \in VectorPaths : RemoveVector(p) \/ EditVector(p)
  \/ \E p, q \in VectorPaths : CopyVector(p, q)
  \/ \E at \in 1..Cardinality(VectorPaths) : Unlist(at)

(* A run that was started goes on; generators and people owe nothing. *)
Running == RunList \/ RunEntry \/ RunReports

Spec == Init /\ [][Next]_vars /\ WF_vars(Running)

-----------------------------------------------------------------------------
(***************************************************************************)
(* Properties.                                                             *)
(***************************************************************************)
(* What a vector says of a release. *)
Holds(r, file) ==
  /\ file.whole /\ FormatOf[file.by] = FormatOf[r]
  /\ file.loads /\ file.agrees
  /\ Recorded(file) = Produced[r][file.path] /\ Verdict[r][Recorded(file)] = "Ok"
  /\ \A case \in RejectCases(file) : Verdict[r][case.input] = case.expect
  /\ \A input \in AcceptCases(file) : Verdict[r][input] = "Ok"

(* A green run has read every vector of its manifest, whole and in its own *)
(* format, whatever was written, edited or generated beside it; and its    *)
(* implementation rejects each case for the recorded reason, and issues    *)
(* again and accepts what each vector recorded (run_dir, expect_reject).   *)
GreenIsConformant ==
  \A rep \in reports : rep.result = "green" =>
    /\ {e.path : e \in ToSet(rep.entries)} = {v.path : v \in rep.ran}
    /\ \A v \in rep.ran : Holds(rep.release, v.file)

(* A vector that was in the directory of a suite the manifest names from   *)
(* the beginning of a green run to its end was run (check_listed).         *)
NamedSuitesRunWhole ==
  \A rep \in reports : rep.result = "green" =>
    \A p \in rep.stayed :
      DirOf[p] \in {e.suite : e \in ToSet(rep.entries)} => p \in {v.path : v \in rep.ran}

(* No false alarm: what a sound release generates and nobody touched is    *)
(* green under it.  Its verifiers turn away every negative case for the    *)
(* very reason that the generator recorded, and accept the others          *)
(* (generate.rs against the verify functions, by way of run_dir).          *)
SoundIsGreen ==
  \A rep \in reports : rep.fresh /\ rep.release \in Sound => rep.result = "green"

(* No regression hidden: a release that looks past one of the arguments of *)
(* a verification, or answers in another order, is red under its own suite *)
(* (the *_negatives of generate.rs, and httpsig_accepted).                 *)
RegressionIsRed ==
  \A rep \in reports : rep.fresh /\ rep.release \notin Sound => rep.result = "red"

(* A run that was started ends, whatever is written, torn or removed while *)
(* it reads: it waits for nothing and reads nothing twice (run_dir).       *)
RunsEnd == run # Idle ~> run = Idle

(* run.rs says that every vector file under the suite directories is       *)
(* listed in the manifest, so that none can be added and quietly never run.*)
NoVectorQuietlySkipped ==
  \A rep \in reports : rep.result = "green" =>
    \A p \in rep.stayed : DirOf[p] \in KnownSuites[rep.release] => p \in {v.path : v \in rep.ran}
=============================================================================
