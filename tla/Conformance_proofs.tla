------------------------- MODULE Conformance_proofs -------------------------
(***************************************************************************)
(* For every suite, release and interleaving: a green run has read all     *)
(* that its manifest lists, whole, and everything in it held; it has run   *)
(* all vectors of the suites it names that were there all along; and over  *)
(* a directory that a release generated and nobody touched, it is green or *)
(* red as what that release generated holds of it.                         *)
(***************************************************************************)
EXTENDS Conformance, TLAPS

Entries == [suite : ToSet(SuiteNames), path : VectorPaths]
PathsIn(entries) == {e.path : e \in ToSet(entries)}
SuitesIn(entries) == {e.suite : e \in ToSet(entries)}

(* The shapes of a vector, of a manifest and of a run at work. *)
VectorOf(r, path, loads, agrees, reworded) ==
  [whole |-> TRUE, by |-> r, path |-> path, loads |-> loads, agrees |-> agrees,
   reworded |-> reworded]

IsVector(file) ==
  /\ file = VectorOf(file.by, file.path, file.loads, file.agrees, file.reworded)
  /\ file.loads \in BOOLEAN /\ file.agrees \in BOOLEAN

ManifestOfFormat(format, entries) ==
  [whole |-> TRUE, format |-> format, vectors |-> entries]

IsManifest(file) ==
  /\ file = ManifestOfFormat(file.format, file.vectors)
  /\ file.vectors \in Seq(Entries)

RunAt(r, entries, suites, at, ran, checks, fresh, stayed) ==
  [pc |-> "list", release |-> r, entries |-> entries, suites |-> suites, at |-> at,
   ran |-> ran, checks |-> checks, fresh |-> fresh, stayed |-> stayed]

IsRun(u) ==
  /\ u = RunAt(u.release, u.entries, u.suites, u.at, u.ran, u.checks, u.fresh, u.stayed)
  /\ u.entries \in Seq(Entries)
  /\ u.at \in Nat \ {0}

(* Files of the right shape for their paths. *)
FilesOk(p, files) ==
  \A file \in files :
    file = Torn \/ (IF p = ManifestPath THEN IsManifest(file) ELSE IsVector(file))

DiskOk == DOMAIN disk = Paths /\ \A p \in Paths : FilesOk(p, disk[p])

GenOk ==
  \/ gen = Idle
  \/ /\ gen \in [pc : {"truncate", "write"}, release : Releases, left : Seq(Paths)]
     /\ Len(gen.left) > 0

(* What was there all along is there; the directories behind are listed. *)
ListedSoFar(u) ==
  \A p \in u.stayed :
    /\ p \in VectorPaths /\ disk[p] # {}
    /\ DirOf[p] \in SuitesIn(u.entries) \ u.suites => p \in PathsIn(u.entries)

(* A vector was run: some results that it may leave are on record. *)
OnRecord(r, file, checks) == \E results \in RunVector(r, file) : results \subseteq checks

(* The entries behind were run, whole, and what was checked is on record. *)
RanSoFar(r, entries, at, ran, checks) ==
  /\ at <= Len(entries) + 1
  /\ {v.path : v \in ran} = {entries[i].path : i \in 1 .. at - 1}
  /\ \A v \in ran :
       /\ IsVector(v.file)
       /\ FormatOf[v.file.by] = FormatOf[r]
       /\ OnRecord(r, v.file, checks)

HasRun(u) == RanSoFar(u.release, u.entries, u.at, u.ran, u.checks)

RunOk == run = Idle \/ (IsRun(run) /\ ListedSoFar(run) /\ HasRun(run))

Inv ==
  /\ release \in Releases /\ DiskOk /\ GenOk /\ RunOk
  /\ GreenIsConformant /\ NamedSuitesRunWhole

-----------------------------------------------------------------------------
LEMMA RunIsNotIdle == ASSUME NEW u, IsRun(u) PROVE u # Idle /\ u.pc = "list"
<1>1. u.pc = "list" BY DEF IsRun, RunAt
<1>2. Idle.pc = "idle" BY DEF Idle
<1> QED BY <1>1, <1>2

LEMMA PathsApart == ManifestPath \notin VectorPaths
BY ConformanceAssumption DEF ManifestPath

(* Torn files are none of the whole ones. *)
LEMMA TornIsNotWhole == ASSUME NEW file, file = Torn \/ IsVector(file), file.whole
                        PROVE  IsVector(file)
<1>1. ~Torn.whole BY DEF Torn
<1> QED BY <1>1

LEMMA TornIsNoManifest == ASSUME NEW file, file = Torn \/ IsManifest(file), file.whole
                          PROVE  IsManifest(file)
<1>1. ~Torn.whole BY DEF Torn
<1> QED BY <1>1

LEMMA GeneratedOk ==
  ASSUME NEW r \in Releases
  PROVE  /\ IsManifest(Generated(r, ManifestPath))
         /\ \A p \in VectorPaths : IsVector(Generated(r, p))
<1>1. IsManifest(ManifestFile(r))
  BY ConformanceAssumption DEF IsManifest, ManifestOfFormat, ManifestFile, Entries
<1>2. ASSUME NEW p \in VectorPaths PROVE IsVector(Vector(r, p))
  BY DEF IsVector, VectorOf, Vector
<1> QED BY <1>1, <1>2, PathsApart DEF Generated

(* If no check of a vector failed, then all it says holds. *)
LEMMA AllPassed ==
  ASSUME NEW r, NEW file, IsVector(file), FormatOf[file.by] = FormatOf[r],
         NEW results \in RunVector(r, file), FALSE \notin results
  PROVE  Holds(r, file)
<1>1. file.whole BY DEF IsVector, VectorOf
<1>2. file.loads
  <2>1. CASE ~file.loads
    BY <2>1 DEF RunVector
  <2> QED BY <2>1 DEF IsVector
<1>3. results = {ConsistencyCheck(file)} \cup PositiveChecks(r, file)
                  \cup RejectChecks(r, file) \cup AcceptChecks(r, file)
  BY <1>2 DEF RunVector, Checks
<1>4. file.agrees
  BY <1>3 DEF ConsistencyCheck, IsVector
<1>5. Recorded(file) = Produced[r][file.path]
  BY <1>3 DEF PositiveChecks
<1>6. ASSUME NEW case \in RejectCases(file) PROVE Verdict[r][case.input] = case.expect
  BY <1>3 DEF RejectChecks, ExpectReject
<1>7. ASSUME NEW input \in AcceptCases(file) PROVE Verdict[r][input] = "Ok"
  BY <1>3 DEF AcceptChecks
<1>8. Verdict[r][Recorded(file)] = "Ok"
  BY <1>3 DEF PositiveChecks
<1> QED BY <1>1, <1>2, <1>4, <1>5, <1>6, <1>7, <1>8 DEF Holds

-----------------------------------------------------------------------------
(* A change of one file leaves a runner where it is, and it forgets what   *)
(* is gone.                                                                *)
LEMMA PutOk ==
  ASSUME DiskOk, RunOk, NEW p \in Paths, NEW files, FilesOk(p, files), Put(p, files)
  PROVE  DiskOk' /\ RunOk'
<1>1. disk' = [disk EXCEPT ![p] = files] BY DEF Put
<1>2. DiskOk'
  <2>1. ASSUME NEW q \in Paths PROVE FilesOk(q, disk'[q])
    <3>1. CASE q = p BY <1>1, <3>1 DEF DiskOk
    <3>2. CASE q # p BY <1>1, <3>2 DEF DiskOk
    <3> QED BY <3>1, <3>2
  <2>2. DOMAIN disk' = Paths BY <1>1 DEF DiskOk
  <2> QED BY <2>1, <2>2 DEF DiskOk, FilesOk
<1>3. CASE run = Idle
  BY <1>2, <1>3 DEF Put, RunOk
<1>4. CASE run # Idle
  <2>1. IsRun(run) /\ ListedSoFar(run) /\ HasRun(run)
    BY <1>4 DEF RunOk
  <2> DEFINE stayed == IF files = {} THEN run.stayed \ {p} ELSE run.stayed
  <2>2. run' = [run EXCEPT !.fresh = FALSE, !.stayed = stayed]
    BY <1>4 DEF Put
  <2>3. /\ run' = RunAt(run.release, run.entries, run.suites, run.at, run.ran,
                         run.checks, FALSE, stayed)
        /\ run'.entries = run.entries /\ run'.suites = run.suites /\ run'.at = run.at
        /\ run'.ran = run.ran /\ run'.checks = run.checks /\ run'.release = run.release
        /\ run'.stayed = stayed
    <3>1. run' = [RunAt(run.release, run.entries, run.suites, run.at, run.ran, run.checks,
                         run.fresh, run.stayed) EXCEPT !.fresh = FALSE, !.stayed = stayed]
      BY <2>1, <2>2 DEF IsRun
    <3> HIDE DEF stayed
    <3> QED BY <3>1 DEF RunAt
  <2>7. IsRun(run')
    BY <2>1, <2>3 DEF IsRun, RunAt
  <2>4. \A q \in stayed : q \in run.stayed /\ q \in VectorPaths /\ disk'[q] # {}
    <3> SUFFICES ASSUME NEW q \in stayed
                 PROVE  q \in run.stayed /\ q \in VectorPaths /\ disk'[q] # {}
      OBVIOUS
    <3>1. q \in run.stayed OBVIOUS
    <3>2. q \in VectorPaths /\ disk[q] # {} BY <2>1, <3>1 DEF ListedSoFar
    <3>3. q \in DOMAIN disk BY <3>2 DEF DiskOk, Paths
    <3>4. disk'[q] # {}
      <4>1. CASE q = p BY <4>1, <1>1, <3>3
      <4>2. CASE q # p BY <4>2, <1>1, <3>2, <3>3
      <4> QED BY <4>1, <4>2
    <3> QED BY <3>1, <3>2, <3>4
  <2>5. ListedSoFar(run)'
    BY <2>1, <2>3, <2>4 DEF ListedSoFar
  <2>6. HasRun(run)'
    BY <2>1, <2>3 DEF HasRun
  <2> QED BY <1>2, <2>7, <2>5, <2>6 DEF RunOk
<1> QED BY <1>2, <1>3, <1>4

(* A run that ends without being green reports nothing to be held to. *)
LEMMA ErrorOk ==
  ASSUME GreenIsConformant, NamedSuitesRunWhole, Ends("error")
  PROVE  GreenIsConformant' /\ NamedSuitesRunWhole' /\ RunOk'
<1>1. /\ run' = Idle
      /\ \A rep \in reports' : rep \in reports \/ rep.result = "error"
  BY DEF Ends
<1>2. \A rep \in reports' : rep.result = "green" => rep \in reports
  BY <1>1
<1>3. GreenIsConformant' BY <1>2 DEF GreenIsConformant
<1>4. NamedSuitesRunWhole' BY <1>2 DEF NamedSuitesRunWhole
<1> QED BY <1>1, <1>3, <1>4 DEF RunOk

(* With no entry left to run, every vector of the manifest was run. *)
LEMMA AllRan ==
  ASSUME IsRun(run), HasRun(run), run.at > Len(run.entries)
  PROVE  PathsIn(run.entries) = {v.path : v \in run.ran}
<1> DEFINE RanUpTo(n) == {run.entries[i].path : i \in 1 .. n}
<1>1. run.at = Len(run.entries) + 1 /\ Len(run.entries) \in Nat
  BY DEF HasRun, RanSoFar, IsRun
<1>2. {v.path : v \in run.ran} = RanUpTo(run.at - 1)
  BY DEF HasRun, RanSoFar
<1>3. run.at - 1 = Len(run.entries) BY <1>1
<1>4. {v.path : v \in run.ran} = RanUpTo(Len(run.entries))
  BY <1>2, <1>3
<1>5. DOMAIN run.entries = 1 .. Len(run.entries) BY DEF IsRun
<1>6. PathsIn(run.entries) = RanUpTo(Len(run.entries))
  BY <1>5 DEF PathsIn, ToSet
<1> QED BY <1>4, <1>6

(* A green run has nothing left to list and nothing left to run. *)
LEMMA ReportOk ==
  ASSUME Inv, RunReports
  PROVE  GreenIsConformant' /\ NamedSuitesRunWhole' /\ RunOk'
<1>0. run.pc = "list" /\ run.suites = {} /\ run.at > Len(run.entries)
  BY DEF RunReports
<1>1. IsRun(run) /\ ListedSoFar(run) /\ HasRun(run)
  <2>1. run # Idle BY <1>0 DEF Idle
  <2> QED BY <2>1 DEF Inv, RunOk
<1>2. CASE FALSE \in run.checks
  <2>1. /\ run' = Idle
        /\ \A rep \in reports' : rep \in reports \/ rep.result = "red"
    BY <1>2 DEF RunReports, Ends
  <2>2. \A rep \in reports' : rep.result = "green" => rep \in reports
    BY <2>1
  <2> QED BY <2>1, <2>2 DEF Inv, GreenIsConformant, NamedSuitesRunWhole, RunOk
<1>3. CASE FALSE \notin run.checks
  <2> DEFINE new == [result |-> "green", release |-> run.release, entries |-> run.entries,
                     ran |-> run.ran, stayed |-> run.stayed, fresh |-> run.fresh]
  <2>1. run' = Idle /\ reports' = reports \cup {new}
    BY <1>3 DEF RunReports, Ends
  <2>2. PathsIn(new.entries) = {v.path : v \in new.ran}
    BY <1>0, <1>1, AllRan
  <2>3. ASSUME NEW v \in new.ran
        PROVE  Holds(new.release, v.file)
    <3>1. /\ IsVector(v.file) /\ FormatOf[v.file.by] = FormatOf[run.release]
          /\ OnRecord(run.release, v.file, run.checks)
      BY <1>1 DEF HasRun, RanSoFar
    <3>2. PICK results \in RunVector(run.release, v.file) : FALSE \notin results
      BY <1>3, <3>1 DEF OnRecord
    <3> QED BY <3>1, <3>2, AllPassed
  <2>4. ASSUME NEW p \in new.stayed, DirOf[p] \in SuitesIn(new.entries)
        PROVE  p \in {v.path : v \in new.ran}
    <3>1. p \in PathsIn(run.entries)
      BY <1>0, <1>1, <2>4 DEF ListedSoFar
    <3> QED BY <3>1, <2>2
  <2>5. GreenIsConformant'
    BY <2>1, <2>2, <2>3 DEF Inv, GreenIsConformant, PathsIn
  <2>6. NamedSuitesRunWhole'
    BY <2>1, <2>4 DEF Inv, NamedSuitesRunWhole, SuitesIn
  <2> QED BY <2>1, <2>5, <2>6 DEF RunOk
<1> QED BY <1>2, <1>3

(* A run starts with everything behind it still to do. *)
LEMMA StartOk ==
  ASSUME Inv, RunStart
  PROVE  RunOk'
<1>1. PICK m \in disk[ManifestPath] :
        /\ m.whole
        /\ run' = RunAt(release, m.vectors, SuitesIn(m.vectors), 1, {}, {}, Fresh(release),
                        {p \in VectorPaths : disk[p] # {}})
  BY DEF RunStart, RunAt, SuitesIn
<1>2. m.vectors \in Seq(Entries)
  <2>1. m = Torn \/ IsManifest(m) BY DEF Inv, DiskOk, FilesOk, Paths
  <2> QED BY <1>1, <2>1, TornIsNoManifest DEF IsManifest
<1>3. disk' = disk BY DEF RunStart
<1>4. /\ run'.release = release /\ run'.entries = m.vectors /\ run'.at = 1
      /\ run'.suites = SuitesIn(m.vectors) /\ run'.ran = {} /\ run'.checks = {}
      /\ run'.stayed = {p \in VectorPaths : disk[p] # {}}
      /\ run' = RunAt(run'.release, run'.entries, run'.suites, run'.at, run'.ran,
                      run'.checks, run'.fresh, run'.stayed)
  BY <1>1 DEF RunAt
<1>5. IsRun(run') BY <1>2, <1>4 DEF IsRun
<1>6. ListedSoFar(run)' BY <1>3, <1>4 DEF ListedSoFar
<1>7. RanSoFar(release, m.vectors, 1, {}, {})
  <2>1. Len(m.vectors) \in Nat BY <1>2
  <2>2. 1 .. 1 - 1 = {} OBVIOUS
  <2> QED BY <2>1, <2>2 DEF RanSoFar
<1>8. HasRun(run)' BY <1>4, <1>7 DEF HasRun
<1> QED BY <1>5, <1>6, <1>8 DEF RunOk

(* A directory is left behind only if the manifest lists what is in it. *)
LEMMA ListOk ==
  ASSUME Inv, RunList
  PROVE  GreenIsConformant' /\ NamedSuitesRunWhole' /\ RunOk'
<1>1. IsRun(run) /\ ListedSoFar(run) /\ HasRun(run)
  <2>1. run # Idle BY DEF RunList, Idle
  <2> QED BY <2>1 DEF Inv, RunOk
<1>2. CASE ~Listed(NextSuite, run.entries)
  BY <1>2, ErrorOk DEF RunList, Inv
<1>3. CASE Listed(NextSuite, run.entries)
  <2>1. /\ run' = [run EXCEPT !.suites = run.suites \ {NextSuite}]
        /\ reports' = reports /\ disk' = disk
    BY <1>3 DEF RunList
  <2> DEFINE suites == run.suites \ {NextSuite}
  <2>2. run' = [RunAt(run.release, run.entries, run.suites, run.at, run.ran, run.checks,
                      run.fresh, run.stayed) EXCEPT !.suites = suites]
    BY <2>1, <1>1 DEF IsRun
  <2>3. run' = RunAt(run.release, run.entries, suites, run.at, run.ran, run.checks,
                     run.fresh, run.stayed)
    <3> HIDE DEF suites
    <3> QED BY <2>2 DEF RunAt
  <2>4. /\ IsRun(run')
        /\ run'.entries = run.entries /\ run'.suites = suites /\ run'.at = run.at
        /\ run'.ran = run.ran /\ run'.checks = run.checks /\ run'.release = run.release
        /\ run'.stayed = run.stayed
    <3> HIDE DEF suites
    <3> QED BY <1>1, <2>3 DEF IsRun, RunAt
  <2>5. ListedSoFar(run)'
    <3> SUFFICES ASSUME NEW p \in run.stayed,
                        DirOf[p] \in SuitesIn(run.entries) \ suites
                 PROVE  p \in PathsIn(run.entries)
      BY <1>1, <2>1, <2>4 DEF ListedSoFar
    <3>1. CASE DirOf[p] = NextSuite
      BY <1>1, <1>3, <3>1 DEF ListedSoFar, Listed, PathsIn
    <3>2. CASE DirOf[p] # NextSuite
      BY <1>1, <3>2 DEF ListedSoFar
    <3> QED BY <3>1, <3>2
  <2>6. HasRun(run)' BY <1>1, <2>4 DEF HasRun
  <2>7. GreenIsConformant' /\ NamedSuitesRunWhole'
    BY <2>1 DEF Inv, GreenIsConformant, NamedSuitesRunWhole
  <2> QED BY <2>4, <2>5, <2>6, <2>7 DEF RunOk
<1> QED BY <1>2, <1>3

(* One more vector is run, whole, and its checks go on record. *)
LEMMA EntryOk ==
  ASSUME Inv, RunEntry
  PROVE  GreenIsConformant' /\ NamedSuitesRunWhole' /\ RunOk'
<1>1. IsRun(run) /\ ListedSoFar(run) /\ HasRun(run)
  <2>1. run # Idle BY DEF RunEntry, Entering, Idle
  <2> QED BY <2>1 DEF Inv, RunOk
<1>2. CASE Ends("error")
  BY <1>2, ErrorOk DEF Inv
<1>3. CASE RunVectorAt /\ UNCHANGED reports
  <2>1. disk' = disk /\ reports' = reports /\ run.at <= Len(run.entries)
    BY <1>3 DEF RunEntry, Entering
  <2>2a. PICK file \in ReadableAt :
           \E results \in RunVector(run.release, file) :
             run' = [run EXCEPT !.at = run.at + 1,
                                !.ran = run.ran \cup {[path |-> Entry.path, file |-> file]},
                                !.checks = run.checks \cup results]
    BY <1>3 DEF RunVectorAt
  <2>2. PICK results \in RunVector(run.release, file) :
          run' = [run EXCEPT !.at = run.at + 1,
                             !.ran = run.ran \cup {[path |-> Entry.path, file |-> file]},
                             !.checks = run.checks \cup results]
    BY <2>2a
  <2> DEFINE new    == [path |-> Entry.path, file |-> file]
             ran    == run.ran \cup {new}
             checks == run.checks \cup results
  <2>3. run' = RunAt(run.release, run.entries, run.suites, run.at + 1, ran, checks,
                     run.fresh, run.stayed)
    <3>1. run' = [RunAt(run.release, run.entries, run.suites, run.at, run.ran, run.checks,
                        run.fresh, run.stayed)
                    EXCEPT !.at = run.at + 1, !.ran = ran, !.checks = checks]
      BY <2>2, <1>1 DEF IsRun
    <3> HIDE DEF ran, checks
    <3> QED BY <3>1 DEF RunAt
  <2>4. /\ IsRun(run')
        /\ run'.entries = run.entries /\ run'.suites = run.suites /\ run'.at = run.at + 1
        /\ run'.ran = ran /\ run'.checks = checks /\ run'.release = run.release
        /\ run'.stayed = run.stayed
    <3> HIDE DEF ran, checks
    <3> QED BY <1>1, <2>3 DEF IsRun, RunAt
  <2>5. ListedSoFar(run)'
    BY <1>1, <2>1, <2>4 DEF ListedSoFar
  <2>6. Entry \in Entries
    BY <1>1, <2>1 DEF Entry, IsRun
  <2>7. IsVector(file) /\ FormatOf[file.by] = FormatOf[run.release]
    <3>1. Entry.path \in Paths /\ Entry.path # ManifestPath
      BY <2>6, PathsApart DEF Entries, Paths
    <3>2. file \in disk[Entry.path] /\ file.whole /\ FormatOf[file.by] = FormatOf[run.release]
      BY <2>2 DEF ReadableAt, Readable
    <3>3. file = Torn \/ IsVector(file)
      BY <3>1, <3>2 DEF Inv, DiskOk, FilesOk
    <3> QED BY <3>2, <3>3, TornIsNotWhole
  <2>8. RanSoFar(run.release, run.entries, run.at + 1, ran, checks)
    <3>1. RanSoFar(run.release, run.entries, run.at, run.ran, run.checks)
      BY <1>1 DEF HasRun
    <3>2. run.at \in Nat \ {0} /\ Len(run.entries) \in Nat
      BY <1>1 DEF IsRun
    <3>3. run.at + 1 <= Len(run.entries) + 1
      BY <2>1, <3>2
    <3>4. ASSUME NEW v \in ran
          PROVE  /\ IsVector(v.file) /\ FormatOf[v.file.by] = FormatOf[run.release]
                 /\ OnRecord(run.release, v.file, checks)
      <4>1. CASE v \in run.ran
        BY <3>1, <4>1 DEF RanSoFar, OnRecord
      <4>2. CASE v = new
        BY <2>2, <2>7, <4>2 DEF OnRecord
      <4> QED BY <4>1, <4>2
    <3>5. {v.path : v \in ran} = {run.entries[i].path : i \in 1 .. (run.at + 1) - 1}
      <4> DEFINE Behind(n) == {run.entries[i].path : i \in 1 .. n}
      <4>1. {v.path : v \in ran} = {v.path : v \in run.ran} \cup {run.entries[run.at].path}
        <5>1. new.path = run.entries[run.at].path BY DEF Entry
        <5> HIDE DEF new
        <5> QED BY <5>1
      <4>2. {v.path : v \in run.ran} = Behind(run.at - 1)
        BY <3>1 DEF RanSoFar
      <4>3. 1 .. run.at = 1 .. run.at - 1 \cup {run.at}
        BY <3>2
      <4>4. Behind(run.at) = Behind(run.at - 1) \cup {run.entries[run.at].path}
        BY <4>3
      <4>5. (run.at + 1) - 1 = run.at BY <3>2
      <4>6. {v.path : v \in ran} = Behind(run.at)
        <5> HIDE DEF Behind, ran
        <5> QED BY <4>1, <4>2, <4>4
      <4> QED BY <4>5, <4>6
    <3> HIDE DEF ran, checks
    <3> QED BY <3>3, <3>4, <3>5 DEF RanSoFar
  <2>9. HasRun(run)'
    <3> HIDE DEF ran, checks
    <3> QED BY <2>4, <2>8 DEF HasRun
  <2>10. GreenIsConformant' /\ NamedSuitesRunWhole'
    BY <2>1 DEF Inv, GreenIsConformant, NamedSuitesRunWhole
  <2> QED BY <2>4, <2>5, <2>9, <2>10 DEF RunOk
<1> QED BY <1>2, <1>3 DEF RunEntry

-----------------------------------------------------------------------------
(* What people make of a file still has the shape of one. *)
LEMMA EditsOk ==
  ASSUME NEW file, IsVector(file), NEW edited \in Edits(file)
  PROVE  IsVector(edited)
<1>1. PICK loads \in BOOLEAN, agrees \in BOOLEAN : \E reworded :
        edited = VectorOf(file.by, file.path, loads, agrees, reworded)
  <2>1. file = VectorOf(file.by, file.path, file.loads, file.agrees, file.reworded)
        /\ file.loads \in BOOLEAN /\ file.agrees \in BOOLEAN
    BY DEF IsVector
  <2>2. CASE edited = [file EXCEPT !.loads = FALSE]
    <3>1. edited = [VectorOf(file.by, file.path, file.loads, file.agrees, file.reworded)
                      EXCEPT !.loads = FALSE]
      BY <2>1, <2>2
    <3>2. edited = VectorOf(file.by, file.path, FALSE, file.agrees, file.reworded)
      BY <3>1 DEF VectorOf
    <3> QED BY <2>1, <3>2
  <2>3. CASE edited = [file EXCEPT !.agrees = FALSE]
    <3>1. edited = [VectorOf(file.by, file.path, file.loads, file.agrees, file.reworded)
                      EXCEPT !.agrees = FALSE]
      BY <2>1, <2>3
    <3>2. edited = VectorOf(file.by, file.path, file.loads, FALSE, file.reworded)
      BY <3>1 DEF VectorOf
    <3> QED BY <2>1, <3>2
  <2>4. CASE \E cases : edited = [file EXCEPT !.reworded = cases]
    <3>1. PICK cases : edited = [file EXCEPT !.reworded = cases] BY <2>4
    <3>2. edited = [VectorOf(file.by, file.path, file.loads, file.agrees, file.reworded)
                      EXCEPT !.reworded = cases]
      BY <2>1, <3>1
    <3>3. edited = VectorOf(file.by, file.path, file.loads, file.agrees, cases)
      BY <3>2 DEF VectorOf
    <3> QED BY <2>1, <3>3
  <2> QED BY <2>2, <2>3, <2>4 DEF Edits
<1> QED BY <1>1 DEF IsVector, VectorOf

LEMMA UnlistOk ==
  ASSUME NEW m, IsManifest(m), NEW at \in DOMAIN m.vectors
  PROVE  IsManifest([m EXCEPT !.vectors = RemoveAt(m.vectors, at)])
<1>1. RemoveAt(m.vectors, at) \in Seq(Entries)
  BY DEF IsManifest, RemoveAt
<1>2. m = ManifestOfFormat(m.format, m.vectors) BY DEF IsManifest
<1>3. [m EXCEPT !.vectors = RemoveAt(m.vectors, at)]
        = ManifestOfFormat(m.format, RemoveAt(m.vectors, at))
  <2> DEFINE entries == RemoveAt(m.vectors, at)
  <2>1. PICK changed : changed = [ManifestOfFormat(m.format, m.vectors)
                                    EXCEPT !.vectors = entries]
    OBVIOUS
  <2>2. changed = ManifestOfFormat(m.format, entries)
    <3> HIDE DEF entries
    <3> QED BY <2>1 DEF ManifestOfFormat
  <2>3. changed = [m EXCEPT !.vectors = entries] BY <1>2, <2>1
  <2> QED BY <2>2, <2>3
<1> QED BY <1>1, <1>3 DEF IsManifest, ManifestOfFormat

(* Generators and people keep the files in shape, and the runner's record. *)
LEMMA PutStep ==
  ASSUME Inv, NEW p \in Paths, NEW files, FilesOk(p, files), Put(p, files),
         UNCHANGED <<release, reports>>, GenOk'
  PROVE  Inv'
<1>1. DiskOk' /\ RunOk' BY PutOk DEF Inv
<1>2. GreenIsConformant' /\ NamedSuitesRunWhole'
  BY DEF Inv, GreenIsConformant, NamedSuitesRunWhole
<1> QED BY <1>1, <1>2 DEF Inv

LEMMA TornOk == ASSUME NEW p PROVE FilesOk(p, {Torn})
BY DEF FilesOk

LEMMA GenerateOk ==
  ASSUME Inv, GenerateStart \/ Truncate \/ Write \/ GenerateStops
  PROVE  Inv'
<1> DEFINE Gens == [pc : {"truncate", "write"}, release : Releases, left : Seq(Paths)]
<1>1. CASE GenerateStart
  <2>1. gen' \in Gens /\ Len(gen'.left) > 0
    <3> DEFINE left == <<ManifestPath>> \o WritesOf[release]
    <3>1. WritesOf[release] \in Seq(Paths) /\ <<ManifestPath>> \in Seq(Paths)
      BY ConformanceAssumption DEF Inv, Paths
    <3>2. left \in Seq(Paths) /\ Len(left) > 0 BY <3>1
    <3> HIDE DEF left
    <3> QED BY <1>1, <3>2 DEF GenerateStart, Inv, left
  <2> QED BY <1>1, <2>1 DEF GenerateStart, Inv, GenOk, DiskOk, RunOk, ListedSoFar, HasRun,
                            GreenIsConformant, NamedSuitesRunWhole
<1>2. CASE Truncate
  <2>1. gen \in Gens /\ Len(gen.left) > 0 BY <1>2 DEF Truncate, Inv, GenOk, Idle
  <2>2. Head(gen.left) \in Paths BY <2>1
  <2>3. GenOk' BY <1>2, <2>1 DEF Truncate, GenOk
  <2> QED BY <1>2, <2>2, <2>3, TornOk, PutStep DEF Truncate
<1>3. CASE Write
  <2>1. gen \in Gens /\ Len(gen.left) > 0 BY <1>3 DEF Write, Inv, GenOk, Idle
  <2>2. Head(gen.left) \in Paths BY <2>1
  <2>3. FilesOk(Head(gen.left), {Generated(gen.release, Head(gen.left))})
    BY <2>1, <2>2, GeneratedOk DEF FilesOk, Paths
  <2>4. GenOk'
    <3>1. CASE Len(gen.left) = 1 BY <1>3, <3>1 DEF Write, GenOk
    <3>2. CASE Len(gen.left) # 1
      <4>1. Tail(gen.left) \in Seq(Paths) /\ Len(Tail(gen.left)) > 0
        <5>1. /\ gen.left \in Seq(Paths)
              /\ Len(gen.left) \in Nat /\ Len(gen.left) > 0 /\ Len(gen.left) # 1
          BY <2>1, <3>2
        <5>2. /\ Tail(gen.left) \in Seq(Paths)
              /\ Len(Tail(gen.left)) = Len(gen.left) - 1
          BY <5>1
        <5> DEFINE len == Len(gen.left)
        <5>3. len - 1 > 0
          <6>1. len \in Nat /\ len > 0 /\ len # 1 BY <5>1
          <6> HIDE DEF len
          <6> QED BY <6>1
        <5> QED BY <5>2, <5>3
      <4>2. gen' = [gen EXCEPT !.pc = "truncate", !.left = Tail(gen.left)]
        BY <1>3, <3>2 DEF Write
      <4> QED BY <2>1, <4>1, <4>2 DEF GenOk
    <3> QED BY <3>1, <3>2
  <2> QED BY <1>3, <2>2, <2>3, <2>4, PutStep DEF Write
<1>4. CASE GenerateStops
  BY <1>4 DEF GenerateStops, Inv, GenOk, DiskOk, RunOk, ListedSoFar, HasRun,
              GreenIsConformant, NamedSuitesRunWhole
<1> QED BY <1>1, <1>2, <1>3, <1>4

LEMMA ChangeOk ==
  ASSUME Inv, NEW p \in Paths, NEW files, FilesOk(p, files), Change(p, files)
  PROVE  Inv'
<1>1. GenOk' BY DEF Change, Inv, GenOk
<1> QED BY <1>1, PutStep DEF Change

LEMMA PeopleOk ==
  ASSUME Inv,
         \/ \E p \in VectorPaths : RemoveVector(p) \/ EditVector(p)
         \/ \E p, q \in VectorPaths : CopyVector(p, q)
         \/ \E at \in 1 .. Cardinality(VectorPaths) : Unlist(at)
  PROVE  Inv'
<1>0. VectorPaths \subseteq Paths BY DEF Paths
<1>1. CASE \E p \in VectorPaths : RemoveVector(p)
  <2>1. PICK p \in VectorPaths : Change(p, {}) BY <1>1 DEF RemoveVector
  <2>2. FilesOk(p, {}) BY DEF FilesOk
  <2> QED BY <1>0, <2>1, <2>2, ChangeOk
<1>2. CASE \E p \in VectorPaths : EditVector(p)
  <2>1. PICK p \in VectorPaths : EditVector(p) BY <1>2
  <2>2. PICK file \in disk[p] :
          file.whole /\ \E edited \in Edits(file) : Change(p, {edited})
    BY <2>1 DEF EditVector
  <2>3. PICK edited \in Edits(file) : Change(p, {edited}) BY <2>2
  <2>4. file = Torn \/ IsVector(file)
    BY <1>0, PathsApart DEF Inv, DiskOk, FilesOk
  <2>5. IsVector(edited) BY <2>2, <2>4, TornIsNotWhole, EditsOk
  <2>6. FilesOk(p, {edited}) BY <2>5, PathsApart DEF FilesOk
  <2> QED BY <1>0, <2>3, <2>6, ChangeOk
<1>3. CASE \E p, q \in VectorPaths : CopyVector(p, q)
  <2>1. PICK p, q \in VectorPaths : Change(q, disk[p]) BY <1>3 DEF CopyVector
  <2>2. FilesOk(q, disk[p])
    BY <1>0, PathsApart DEF Inv, DiskOk, FilesOk
  <2> QED BY <1>0, <2>1, <2>2, ChangeOk
<1>4. CASE \E at \in 1 .. Cardinality(VectorPaths) : Unlist(at)
  <2>1. PICK at : Unlist(at) BY <1>4
  <2>2. PICK m \in disk[ManifestPath] :
          /\ m.whole /\ at \in DOMAIN m.vectors
          /\ Change(ManifestPath, {[m EXCEPT !.vectors = RemoveAt(m.vectors, at)]})
    BY <2>1 DEF Unlist
  <2>3. m = Torn \/ IsManifest(m) BY DEF Inv, DiskOk, FilesOk, Paths
  <2>4. IsManifest([m EXCEPT !.vectors = RemoveAt(m.vectors, at)])
    BY <2>2, <2>3, TornIsNoManifest, UnlistOk
  <2>5. FilesOk(ManifestPath, {[m EXCEPT !.vectors = RemoveAt(m.vectors, at)]})
    BY <2>4 DEF FilesOk
  <2>6. ManifestPath \in Paths BY DEF Paths
  <2> QED BY <2>2, <2>5, <2>6, ChangeOk
<1> QED BY <1>1, <1>2, <1>3, <1>4

-----------------------------------------------------------------------------
LEMMA InitOk == Init => Inv
<1> SUFFICES ASSUME Init PROVE Inv
  OBVIOUS
<1>1. DiskOk
  <2>1. DOMAIN disk = Paths BY DEF Init
  <2>2. ASSUME NEW p \in Paths PROVE FilesOk(p, disk[p])
    <3>1. FilesOk(p, {}) BY DEF FilesOk
    <3>2. FilesOk(p, {Generated(release, p)})
      BY GeneratedOk DEF Init, FilesOk, Paths
    <3>3. disk[p] = {} \/ disk[p] = {Generated(release, p)} BY DEF Init
    <3> QED BY <3>1, <3>2, <3>3
  <2> QED BY <2>1, <2>2 DEF DiskOk
<1> QED BY <1>1 DEF Init, Inv, GenOk, RunOk, GreenIsConformant, NamedSuitesRunWhole

LEMMA NextOk == Inv /\ [Next]_vars => Inv'
<1> SUFFICES ASSUME Inv, [Next]_vars PROVE Inv'
  OBVIOUS
<1>1. CASE GenerateStart \/ Truncate \/ Write \/ GenerateStops
  BY <1>1, GenerateOk
<1>2. CASE RunStart
  BY <1>2, StartOk DEF RunStart, Inv, DiskOk, GenOk, GreenIsConformant, NamedSuitesRunWhole
<1>3. CASE RunList
  BY <1>3, ListOk DEF RunList, Inv, DiskOk, GenOk
<1>4. CASE RunEntry
  BY <1>4, EntryOk DEF RunEntry, Inv, DiskOk, GenOk
<1>5. CASE RunReports
  BY <1>5, ReportOk DEF RunReports, Inv, DiskOk, GenOk
<1>6. CASE \E r \in Releases : Upgrade(r)
  BY <1>6 DEF Upgrade, Inv, DiskOk, GenOk, RunOk, ListedSoFar, HasRun,
              GreenIsConformant, NamedSuitesRunWhole
<1>7. CASE \/ \E p \in VectorPaths : RemoveVector(p) \/ EditVector(p)
           \/ \E p, q \in VectorPaths : CopyVector(p, q)
           \/ \E at \in 1 .. Cardinality(VectorPaths) : Unlist(at)
  BY <1>7, PeopleOk
<1>8. CASE UNCHANGED vars
  BY <1>8 DEF vars, Inv, DiskOk, GenOk, RunOk, ListedSoFar, HasRun,
              GreenIsConformant, NamedSuitesRunWhole
<1> QED BY <1>1, <1>2, <1>3, <1>4, <1>5, <1>6, <1>7, <1>8 DEF Next

LEMMA Invariance == Spec => []Inv
BY InitOk, NextOk, PTL DEF Spec

(* Whatever is generated, edited or removed beside it, a run is green only *)
(* if it read all that its manifest lists, whole, and all of it holds      *)
(* (run_dir).                                                              *)
THEOREM GreenMeansConformant == Spec => []GreenIsConformant
<1>1. Inv => GreenIsConformant BY DEF Inv
<1> QED BY <1>1, Invariance, PTL

(* And it has left out no vector of a suite that the manifest names and    *)
(* that was there from its beginning to its end (check_listed).            *)
THEOREM NamedSuitesAreRun == Spec => []NamedSuitesRunWhole
<1>1. Inv => NamedSuitesRunWhole BY DEF Inv
<1> QED BY <1>1, Invariance, PTL

-----------------------------------------------------------------------------
(***************************************************************************)
(* Runs over a directory that a release generated and nobody touched.      *)
(***************************************************************************)
(* Everything that release r generates holds of it. *)
HoldsOfItself(r) == \A e \in ToSet(ManifestOf[r]) : Holds(r, Vector(r, e.path))

(* The run has read that release's files and nothing else. *)
FreshOk ==
  run # Idle /\ run.fresh =>
    /\ run.release \in Releases /\ Fresh(run.release)
    /\ run.entries = ManifestOf[run.release]
    /\ \A v \in run.ran : v.file = Vector(run.release, v.path)
    /\ \A passed \in run.checks : \E v \in run.ran : passed \in UNION RunVector(run.release, v.file)

FreshTold ==
  \A rep \in reports : rep.fresh =>
    /\ rep.release \in Releases
    /\ rep.result = IF HoldsOfItself(rep.release) THEN "green" ELSE "red"

(* If all that a vector says holds, then no check of it fails. *)
LEMMA NoneFailed ==
  ASSUME NEW r, NEW file, Holds(r, file)
  PROVE  FALSE \notin UNION RunVector(r, file)
<1>1. UNION RunVector(r, file)
        = {ConsistencyCheck(file)} \cup PositiveChecks(r, file)
            \cup RejectChecks(r, file) \cup AcceptChecks(r, file)
  BY DEF RunVector, Checks, Holds
<1>2. ConsistencyCheck(file) BY DEF Holds, ConsistencyCheck
<1>3. \A passed \in PositiveChecks(r, file) : passed BY DEF Holds, PositiveChecks
<1>4. \A passed \in RejectChecks(r, file) : passed BY DEF Holds, RejectChecks, ExpectReject
<1>5. \A passed \in AcceptChecks(r, file) : passed BY DEF Holds, AcceptChecks
<1> QED BY <1>1, <1>2, <1>3, <1>4, <1>5

LEMMA FreshFiles ==
  ASSUME NEW r \in Releases, Fresh(r)
  PROVE  /\ disk[ManifestPath] = {ManifestFile(r)}
         /\ \A e \in ToSet(ManifestOf[r]) : disk[e.path] = {Vector(r, e.path)}
         /\ \A p \in VectorPaths : disk[p] # {} => p \in PathsIn(ManifestOf[r])
<1>1. disk[ManifestPath] = {ManifestFile(r)}
  BY DEF Fresh, Generated, Paths
<1>2. ASSUME NEW e \in ToSet(ManifestOf[r]) PROVE disk[e.path] = {Vector(r, e.path)}
  <2>1. e.path \in ToSet(WritesOf[r])
    BY ConformanceAssumption
  <2>2. e.path \in VectorPaths
    <3>1. WritesOf[r] \in Seq(VectorPaths)
      BY ConformanceAssumption
    <3> QED BY <2>1, <3>1 DEF ToSet
  <2> QED BY <2>1, <2>2, PathsApart DEF Fresh, Generated, Paths
<1>3. ASSUME NEW p \in VectorPaths, disk[p] # {} PROVE p \in PathsIn(ManifestOf[r])
  <2>1. p \in ToSet(WritesOf[r])
    BY <1>3, PathsApart DEF Fresh, Paths
  <2> QED BY <2>1, ConformanceAssumption DEF PathsIn
<1> QED BY <1>1, <1>2, <1>3

(* A change of a file takes the runner's directory out of account. *)
LEMMA PutFresh ==
  ASSUME RunOk, FreshTold, NEW p, NEW files, Put(p, files), UNCHANGED reports
  PROVE  FreshOk' /\ FreshTold'
<1>1. CASE run = Idle
  BY <1>1 DEF Put, FreshOk, FreshTold
<1>2. CASE run # Idle
  <2>1. IsRun(run) BY <1>2 DEF RunOk
  <2>2. ~run'.fresh
    <3> DEFINE stayed == IF files = {} THEN run.stayed \ {p} ELSE run.stayed
    <3>1. run' = [run EXCEPT !.fresh = FALSE, !.stayed = stayed]
      BY <1>2 DEF Put
    <3>2. "fresh" \in DOMAIN run
      BY <2>1 DEF IsRun, RunAt
    <3> HIDE DEF stayed
    <3> QED BY <3>1, <3>2
  <2> QED BY <2>2 DEF FreshOk, FreshTold
<1> QED BY <1>1, <1>2

LEMMA StartFresh ==
  ASSUME Inv, FreshTold, RunStart
  PROVE  FreshOk' /\ FreshTold'
<1>1. PICK m \in disk[ManifestPath] :
        run' = RunAt(release, m.vectors, SuitesIn(m.vectors), 1, {}, {}, Fresh(release),
                     {p \in VectorPaths : disk[p] # {}})
  BY DEF RunStart, RunAt, SuitesIn
<1>2. UNCHANGED <<disk, reports>> BY DEF RunStart
<1>3. /\ run'.release = release /\ run'.entries = m.vectors
      /\ run'.ran = {} /\ run'.checks = {} /\ run'.fresh = Fresh(release)
  BY <1>1 DEF RunAt
<1>4. ASSUME Fresh(release) PROVE m.vectors = ManifestOf[release]
  <2>1. m = ManifestFile(release) BY <1>4, FreshFiles DEF Inv
  <2> QED BY <2>1 DEF ManifestFile
<1>5. FreshOk'
  BY <1>2, <1>3, <1>4 DEF FreshOk, Fresh, Inv
<1> QED BY <1>2, <1>5 DEF FreshTold

(* A run that ends in an error was not over such a directory. *)
LEMMA ErrorFresh ==
  ASSUME FreshTold, Ends("error"), ~run.fresh
  PROVE  FreshOk' /\ FreshTold'
<1>1. run' = Idle BY DEF Ends
<1>2. \A rep \in reports' : rep \in reports \/ ~rep.fresh
  BY DEF Ends
<1> QED BY <1>1, <1>2 DEF FreshOk, FreshTold

LEMMA ListFresh ==
  ASSUME Inv, FreshOk, FreshTold, RunList
  PROVE  FreshOk' /\ FreshTold'
<1>1. run # Idle /\ IsRun(run)
  <2>1. run # Idle BY DEF RunList, Idle
  <2> QED BY <2>1 DEF Inv, RunOk
<1>2. CASE ~Listed(NextSuite, run.entries)
  <2>1. ASSUME run.fresh PROVE FALSE
    <3>1. \A p \in VectorPaths : disk[p] # {} => p \in PathsIn(run.entries)
      BY <1>1, <2>1, FreshFiles DEF FreshOk
    <3> QED BY <1>2, <3>1 DEF Listed, PathsIn
  <2> QED BY <1>2, <2>1, ErrorFresh DEF RunList
<1>3. CASE Listed(NextSuite, run.entries)
  <2> DEFINE suites == run.suites \ {NextSuite}
  <2>1. run' = [run EXCEPT !.suites = suites] /\ reports' = reports /\ disk' = disk
    BY <1>3 DEF RunList
  <2>2. /\ run'.entries = run.entries /\ run'.ran = run.ran /\ run'.checks = run.checks
        /\ run'.release = run.release /\ run'.fresh = run.fresh
    <3> HIDE DEF suites
    <3>1. {"entries", "ran", "checks", "release", "fresh"} \subseteq DOMAIN run
      BY <1>1 DEF IsRun, RunAt
    <3> QED BY <2>1, <3>1
  <2> QED BY <1>1, <2>1, <2>2 DEF FreshOk, FreshTold, Fresh
<1> QED BY <1>2, <1>3

LEMMA EntryFresh ==
  ASSUME Inv, FreshOk, FreshTold, RunEntry
  PROVE  FreshOk' /\ FreshTold'
<1>1. run # Idle /\ IsRun(run)
  <2>1. run # Idle BY DEF RunEntry, Entering, Idle
  <2> QED BY <2>1 DEF Inv, RunOk
<1>2. run.at \in DOMAIN run.entries
  BY <1>1 DEF RunEntry, Entering, IsRun
<1>3. ASSUME run.fresh
      PROVE  /\ Entry.suite \in KnownSuites[run.release]
             /\ ReadableAt = {Vector(run.release, Entry.path)}
  <2>1. run.release \in Releases /\ Fresh(run.release) /\ run.entries = ManifestOf[run.release]
    BY <1>1, <1>3 DEF FreshOk
  <2>2. Entry \in ToSet(ManifestOf[run.release])
    BY <1>2, <2>1 DEF Entry, ToSet
  <2>3. DirOf[Entry.path] = Entry.suite /\ Entry.suite \in KnownSuites[run.release]
    BY <2>1, <2>2, ConformanceAssumption
  <2>4. disk[Entry.path] = {Vector(run.release, Entry.path)}
    BY <2>1, <2>2, FreshFiles
  <2> DEFINE file == Vector(run.release, Entry.path)
  <2>5. file.whole /\ file.path = Entry.path /\ file.by = run.release
    BY DEF Vector
  <2>6. Readable(run.release, Entry.suite, file)
    BY <2>3, <2>5 DEF Readable
  <2> HIDE DEF file
  <2> QED BY <2>3, <2>4, <2>6 DEF ReadableAt, file
<1>4. CASE Entry.suite \notin KnownSuites[run.release] \/ ReadableAt = {}
  <2>1. ~run.fresh BY <1>3, <1>4
  <2>2. Ends("error") BY <1>4 DEF RunEntry
  <2> QED BY <2>1, <2>2, ErrorFresh
<1>5. CASE ~(Entry.suite \notin KnownSuites[run.release] \/ ReadableAt = {})
  <2>1. RunVectorAt /\ reports' = reports /\ disk' = disk
    BY <1>5 DEF RunEntry
  <2>2a. PICK file \in ReadableAt :
           \E results \in RunVector(run.release, file) :
             run' = [run EXCEPT !.at = run.at + 1,
                                !.ran = run.ran \cup {[path |-> Entry.path, file |-> file]},
                                !.checks = run.checks \cup results]
    BY <2>1 DEF RunVectorAt
  <2>2. PICK results \in RunVector(run.release, file) :
          run' = [run EXCEPT !.at = run.at + 1,
                             !.ran = run.ran \cup {[path |-> Entry.path, file |-> file]},
                             !.checks = run.checks \cup results]
    BY <2>2a
  <2> DEFINE new    == [path |-> Entry.path, file |-> file]
             ran    == run.ran \cup {new}
             checks == run.checks \cup results
  <2>3. /\ run'.entries = run.entries /\ run'.ran = ran /\ run'.checks = checks
        /\ run'.release = run.release /\ run'.fresh = run.fresh
    <3>1. run' = [run EXCEPT !.at = run.at + 1, !.ran = ran, !.checks = checks]
      BY <2>2
    <3>2. {"entries", "ran", "checks", "release", "fresh", "at"} \subseteq DOMAIN run
      BY <1>1 DEF IsRun, RunAt
    <3> HIDE DEF ran, checks
    <3> QED BY <3>1, <3>2
  <2>4. new.path = Entry.path /\ new.file = file
    OBVIOUS
  <2>5. ASSUME run.fresh
        PROVE  /\ \A v \in ran : v.file = Vector(run.release, v.path)
               /\ \A passed \in checks :
                    \E v \in ran : passed \in UNION RunVector(run.release, v.file)
    <3>1. file = Vector(run.release, Entry.path) BY <1>3, <2>2, <2>5
    <3>2. /\ \A v \in run.ran : v.file = Vector(run.release, v.path)
          /\ \A passed \in run.checks :
               \E v \in run.ran : passed \in UNION RunVector(run.release, v.file)
      BY <1>1, <2>5 DEF FreshOk
    <3> HIDE DEF new
    <3> QED BY <2>4, <3>1, <3>2
  <2>6. FreshOk'
    <3> HIDE DEF ran, checks
    <3> QED BY <1>1, <2>1, <2>3, <2>5 DEF FreshOk, Fresh
  <2> QED BY <2>1, <2>6 DEF FreshTold
<1> QED BY <1>4, <1>5

LEMMA ReportFresh ==
  ASSUME Inv, FreshOk, FreshTold, RunReports
  PROVE  FreshOk' /\ FreshTold'
<1>1. run # Idle /\ IsRun(run) /\ HasRun(run) /\ run.at > Len(run.entries)
  <2>1. run # Idle BY DEF RunReports, Idle
  <2> QED BY <2>1 DEF Inv, RunOk, RunReports
<1> DEFINE result == IF FALSE \notin run.checks THEN "green" ELSE "red"
           new == [result |-> result, release |-> run.release, entries |-> run.entries,
                   ran |-> run.ran, stayed |-> run.stayed, fresh |-> run.fresh]
<1>2. run' = Idle /\ reports' = reports \cup {new}
  BY DEF RunReports, Ends
<1>3. new.result = result /\ new.release = run.release /\ new.fresh = run.fresh
  OBVIOUS
<1>4. ASSUME run.fresh
      PROVE  /\ run.release \in Releases
             /\ FALSE \notin run.checks <=> HoldsOfItself(run.release)
  <2> DEFINE r == run.release
  <2>1. /\ r \in Releases /\ run.entries = ManifestOf[r]
        /\ \A v \in run.ran : v.file = Vector(r, v.path)
        /\ \A passed \in run.checks : \E v \in run.ran : passed \in UNION RunVector(r, v.file)
    BY <1>1, <1>4 DEF FreshOk
  <2>2. PathsIn(ManifestOf[r]) = {v.path : v \in run.ran}
    BY <1>1, <2>1, AllRan
  <2>3. ASSUME FALSE \notin run.checks PROVE HoldsOfItself(r)
    <3> SUFFICES ASSUME NEW e \in ToSet(ManifestOf[r]) PROVE Holds(r, Vector(r, e.path))
      BY DEF HoldsOfItself
    <3>1. PICK v \in run.ran : v.path = e.path
      BY <2>2 DEF PathsIn
    <3>2. v.file = Vector(r, e.path)
      BY <2>1, <3>1
    <3>3. /\ IsVector(v.file) /\ FormatOf[v.file.by] = FormatOf[r]
          /\ OnRecord(r, v.file, run.checks)
      BY <1>1, <3>1 DEF HasRun, RanSoFar
    <3>4. PICK results \in RunVector(r, v.file) : FALSE \notin results
      BY <2>3, <3>3 DEF OnRecord
    <3> QED BY <3>2, <3>3, <3>4, AllPassed
  <2>4. ASSUME HoldsOfItself(r), FALSE \in run.checks PROVE FALSE
    <3>1. PICK v \in run.ran : FALSE \in UNION RunVector(r, v.file)
      BY <2>1, <2>4
    <3>2. PICK e \in ToSet(ManifestOf[r]) : e.path = v.path
      BY <2>2, <3>1 DEF PathsIn
    <3>3. Holds(r, v.file)
      BY <2>1, <2>4, <3>1, <3>2 DEF HoldsOfItself
    <3> QED BY <3>1, <3>3, NoneFailed
  <2> QED BY <2>1, <2>3, <2>4
<1>5. ASSUME NEW rep \in reports', rep.fresh
      PROVE  /\ rep.release \in Releases
             /\ rep.result = IF HoldsOfItself(rep.release) THEN "green" ELSE "red"
  <2>1. CASE rep \in reports
    BY <1>5, <2>1 DEF FreshTold
  <2>2. CASE rep = new
    <3>1. run.fresh BY <1>3, <1>5, <2>2
    <3>2. rep.release = run.release /\ rep.result = result BY <1>3, <2>2
    <3> QED BY <1>4, <3>1, <3>2
  <2> QED BY <1>2, <1>5, <2>1, <2>2
<1> QED BY <1>2, <1>5 DEF FreshOk, FreshTold

LEMMA FreshNext == Inv /\ FreshOk /\ FreshTold /\ [Next]_vars => FreshOk' /\ FreshTold'
<1> SUFFICES ASSUME Inv, FreshOk, FreshTold, [Next]_vars PROVE FreshOk' /\ FreshTold'
  OBVIOUS
<1>0. RunOk BY DEF Inv
<1>1. ASSUME UNCHANGED <<disk, run, reports>> PROVE FreshOk' /\ FreshTold'
  BY <1>1 DEF FreshOk, FreshTold, Fresh
<1>2. CASE GenerateStart \/ GenerateStops \/ UNCHANGED vars \/ \E r \in Releases : Upgrade(r)
  BY <1>1, <1>2 DEF GenerateStart, GenerateStops, Upgrade, vars
<1>3. CASE Truncate \/ Write
  BY <1>0, <1>3, PutFresh DEF Truncate, Write
<1>4. CASE RunStart BY <1>4, StartFresh
<1>5. CASE RunList BY <1>5, ListFresh
<1>6. CASE RunEntry BY <1>6, EntryFresh
<1>7. CASE RunReports BY <1>7, ReportFresh
<1>8. ASSUME NEW p, NEW files, Change(p, files) PROVE FreshOk' /\ FreshTold'
  BY <1>0, <1>8, PutFresh DEF Change
<1>9. CASE \/ \E p \in VectorPaths : RemoveVector(p) \/ EditVector(p)
           \/ \E p, q \in VectorPaths : CopyVector(p, q)
           \/ \E at \in 1 .. Cardinality(VectorPaths) : Unlist(at)
  BY <1>8, <1>9 DEF RemoveVector, EditVector, CopyVector, Unlist
<1> QED BY <1>2, <1>3, <1>4, <1>5, <1>6, <1>7, <1>9 DEF Next

LEMMA FreshInvariance == Spec => []FreshTold
<1>1. Init => FreshOk /\ FreshTold
  BY DEF Init, FreshOk, FreshTold
<1>2. Inv /\ FreshOk /\ FreshTold /\ [Next]_vars => FreshOk' /\ FreshTold'
  BY FreshNext
<1> QED BY <1>1, <1>2, Invariance, PTL DEF Spec

(* The suite tells the sound releases from the others: a release is sound  *)
(* just when all that it generates holds of it.  For the suite of the code *)
(* and each of the regressions this is a question about a finite table.    *)
(* By FreshTold a run with SoundIsGreen and RegressionIsRed answers it, if *)
(* it lets every release read what it generated (as MCConformance does).   *)
SuiteTells == \A r \in Releases : r \in Sound <=> HoldsOfItself(r)

(* With a suite that tells, a sound release is green over what it          *)
(* generated, as long as the files stay so while it runs: no directory has *)
(* a file too many, no vector is of another suite or format, and no check  *)
(* that is made fails (generate.rs, run_dir).                              *)
THEOREM NoFalseAlarm == ASSUME SuiteTells PROVE Spec => []SoundIsGreen
<1>1. FreshTold => SoundIsGreen
  BY DEF FreshTold, SuiteTells, SoundIsGreen
<1> QED BY <1>1, FreshInvariance, PTL

(* And any other release is red, which is neither green nor an error: the  *)
(* run gets as far as the check that fails (generate.rs, run_dir).         *)
THEOREM NoRegressionHidden == ASSUME SuiteTells PROVE Spec => []RegressionIsRed
<1>1. FreshTold => RegressionIsRed
  BY DEF FreshTold, SuiteTells, RegressionIsRed
<1> QED BY <1>1, FreshInvariance, PTL
=============================================================================
