--------------------------- MODULE ServingRelease ---------------------------
(* From a checkout to a published serving wheel: build_serving_wheel.py builds a
   wheel under a receipt, build_install_serving.py installs it into a private
   environment and has qualify_serving_wheel.py judge the installation, and
   verify_serving_release.py admits a hand-collected set of assets.

   Beside them a developer edits and commits.  Content is a version number: the
   Python package and the native tree (csrc, headers, the pinned dependency)
   have one each, and an edit makes a version that never was before, so that a
   digest is what it digests.  An edit undone during a build is not modelled:
   the sources are hashed before and after, not while they are compiled.  Every
   build, installation and qualification has a new output directory.

   What pip and the import path leave is external: the package a qualification
   finds may be of any finished wheel, in the environment made for it, among the
   system's packages that environment sees, or in a checkout.  It is not replaced
   while it is being qualified.                                               *)
EXTENDS Naturals, Sequences, FiniteSets

CONSTANTS
  Target,            \* ppu10, or a target without the allocating bridge
  HostTests, FlareTests,         \* the required test files
  JunitRuns,         \* test runs: [report, file -> passed/failed/skipped/missing, rc]
  DeviceRuns,        \* device programs: [file, status, cases, complete, rc]
  Installations,     \* what pip left: [place: environment/system/checkout, planted -> red/green, abi]
  Devices,           \* devices it may run on: [family, ppu, capability]
  MaxEdits, MaxCommits, MaxBuilds, MaxQualifications,      \* bounds
  None

Phases == {"installation", "host", "serving", "aux", "public_default", "native_graph", "flare"}
Complete == "DEVICE_AND_COMPONENT_PASS_NOT_FULL_MODEL_ADMISSION"
HostOnlyPass == "HOST_PASS_DEVICE_NOT_RUN"

VARIABLES
  tree,              \* the working tree: [python, native]
  commits,           \* content of every revision; the last is HEAD
  edits,             \* bound: edits so far, and the source of versions
  build,             \* build_serving_wheel.py
  wheels,            \* result.json of every finished build, with its wheel
  release,           \* build_install_serving.py
  qualification,     \* qualify_serving_wheel.py
  summaries,         \* the summaries written: [identity, status, evidence]
  published          \* asset sets verify_serving_release.py accepted
source == <<tree, commits, edits>>
vars == <<tree, commits, edits, build, wheels, release, qualification, summaries, published>>

Idle == [pc |-> "idle"]
Tip == Len(commits)
Dirty == tree # commits[Tip]
Init ==
  /\ tree = [python |-> 0, native |-> 0] /\ commits = <<tree>> /\ edits = 0
  /\ build = Idle /\ wheels = <<>> /\ release = Idle
  /\ qualification = Idle /\ summaries = {} /\ published = {}
-----------------------------------------------------------------------------
(* The developer *)
Edit ==
  /\ edits < MaxEdits /\ edits' = edits + 1
  /\ \E part \in {"python", "native"} : tree' = [tree EXCEPT ![part] = edits + 1]
  \* The receipt's claim of cleanliness and its identity are read apart.
  /\ build' = IF build.pc = "identity" THEN [build EXCEPT !.slipped = TRUE] ELSE build
  /\ UNCHANGED <<commits, wheels, release, qualification, summaries, published>>
Commit ==
  /\ Dirty /\ Len(commits) <= MaxCommits
  /\ commits' = Append(commits, tree)
  /\ UNCHANGED <<tree, edits, build, wheels, release, qualification, summaries, published>>
-----------------------------------------------------------------------------
(* build_serving_wheel.py *)
Untouched == UNCHANGED <<source, release, qualification, summaries, published>>
Discard == build' = Idle /\ UNCHANGED wheels
Proceed(step) == build' = step /\ UNCHANGED wheels

StartBuild(for, allowDirty) ==
  /\ build = Idle /\ Len(wheels) < MaxBuilds
  /\ build' = [pc |-> "status", for |-> for, allowDirty |-> allowDirty, revision |-> Tip,
               dirty |-> FALSE, slipped |-> FALSE, identity |-> None, library |-> None,
               headers |-> None, python |-> None]
BuildAlone ==
  /\ \E allowDirty \in BOOLEAN : StartBuild("alone", allowDirty)
  /\ UNCHANGED <<source, wheels, release, qualification, summaries, published>>
Clean(dirty, allowDirty) == dirty => allowDirty
ReadStatus ==
  /\ build.pc = "status"
  /\ IF Clean(Dirty, build.allowDirty)
     THEN Proceed([build EXCEPT !.pc = "identity", !.dirty = Dirty]) ELSE Discard
  /\ Untouched
SourceIdentity == tree
Identify ==
  /\ build.pc = "identity"
  /\ Proceed([build EXCEPT !.pc = "compile", !.identity = SourceIdentity])
  /\ Untouched
\* cmake, the relocatability of its products, and the ABI of the library built.
Compile ==
  /\ build.pc = "compile"
  /\ Proceed([build EXCEPT !.pc = "bundle", !.library = tree.native])
  /\ Untouched
CopyBundle ==
  /\ build.pc = "bundle"
  /\ Proceed([build EXCEPT !.pc = "recheck", !.headers = tree.native])
  /\ Untouched
\* Both checks: after the native build and after the wheel's.
\* Mutant: the sources are compared, the revision is not.
MutantSourceUnchanged(identity, revision) == SourceIdentity = identity
SourceUnchanged(identity, revision) == SourceIdentity = identity /\ Tip = revision
RecheckSource ==
  /\ build.pc = "recheck"
  /\ IF SourceUnchanged(build.identity, build.revision)
     THEN Proceed([build EXCEPT !.pc = "wheel"]) ELSE Discard
  /\ Untouched
\* setup.py and ServingBuildPy: the payloads are the bundle's, the package is the
\* tree's, and the manifest hashes both.
BuildWheel ==
  /\ build.pc = "wheel"
  /\ Proceed([build EXCEPT !.pc = "result", !.python = tree.python])
  /\ Untouched
Result ==
  [revision |-> build.revision, dirty |-> build.dirty, slipped |-> build.slipped,
   identity |-> build.identity, library |-> build.library, headers |-> build.headers,
   python |-> build.python]
FinishBuild ==
  /\ build.pc = "result"
  /\ IF SourceUnchanged(build.identity, build.revision)
     THEN /\ wheels' = Append(wheels, Result)
          /\ build' = [pc |-> "built", for |-> build.for, wheel |-> Len(wheels')]
     ELSE Discard
  /\ Untouched
\* A failing command or a kill leaves a directory without a result.
StopBuild ==
  /\ build.pc \notin {"idle", "built"} /\ Discard /\ Untouched
-----------------------------------------------------------------------------
(* qualify_serving_wheel.py.  Each phase is a process of its own; an option is
   chosen where it is read.                                                   *)
Outcomes(run, required) == {run.results[f] : f \in required}
\* Mutant: a required file that never ran is not missed.
MutantJunitVerdict(run, required) ==
  IF ~run.report \/ "failed" \in Outcomes(run, required) \/ run.rc \notin {0, 5} THEN "FAIL"
  ELSE IF "skipped" \in Outcomes(run, required) \/ "passed" \notin Outcomes(run, required)
  THEN "NOT_RUN" ELSE "PASS"
JunitVerdict(run, required) ==
  IF ~run.report \/ "failed" \in Outcomes(run, required) \/ run.rc \notin {0, 5} THEN "FAIL"
  ELSE IF Outcomes(run, required) # {"passed"} THEN "NOT_RUN" ELSE "PASS"

\* A device program's verdict; the public default's also needs every case of
\* the public and prepared denominator.
PublicDefaultComplete(run) == run.status = "PASS" /\ run.complete
DeviceVerdict(name, run) ==
  IF ~run.file THEN "FAIL"
  ELSE IF run.rc = 0 /\ run.status = "PASS" /\ run.cases > 0
  THEN IF name = "public_default" /\ ~PublicDefaultComplete(run) THEN "FAIL" ELSE "PASS"
  ELSE IF run.rc = 3 \/ run.status = "SKIP" THEN "NOT_RUN" ELSE "FAIL"

Runs(name) == IF name \in {"host", "flare"} THEN JunitRuns ELSE DeviceRuns
Verdict(name, run) ==
  CASE name = "host"  -> JunitVerdict(run, HostTests)
    [] name = "flare" -> JunitVerdict(run, FlareTests)
    [] OTHER          -> DeviceVerdict(name, run)

\* The order of the phases; the bridge's is skipped where there is no bridge.
After(name) ==
  CASE name = "installation" -> "host" [] name = "host" -> "device"
    [] name = "device" -> "serving"    [] name = "serving" -> "aux"
    [] name = "aux" -> IF Target = "ppu10" THEN "public_default" ELSE "native_graph"
    [] name = "public_default" -> "native_graph"
    [] name = "native_graph" -> "flare?" [] OTHER -> "flare"

\* The summary is written in the finally clause, whatever ends the run.
Write(status, evidence, rc) ==
  /\ summaries' = summaries \union
       {[identity |-> qualification.identity, status |-> status, evidence |-> evidence]}
  /\ qualification' = [pc |-> "ended", rc |-> rc, for |-> qualification.for,
                       status |-> status, identity |-> qualification.identity]
Elsewhere == UNCHANGED <<source, build, wheels, release, published>>

\* get_library_info of the package that is imported, whose manifest names the
\* wheel's revision; it is asked for Target, and raises for a package of another.
Places == {installed.place : installed \in Installations}
StartQualification(for) ==
  /\ qualification = Idle /\ Cardinality(summaries) < MaxQualifications
  /\ \E wheel \in 1..Len(wheels), place \in Places :
       qualification' = [pc |-> "installation", identity |-> [wheel |-> wheel, place |-> place],
                         for |-> for, evidence |-> <<>>]
QualifyAlone ==
  /\ StartQualification("alone")
  /\ UNCHANGED <<source, build, wheels, release, summaries, published>>

Advances(verdict) == verdict = "PASS"
\* verify_installed_serving.py: an isolated interpreter finds the package in some
\* site-packages, without a module from elsewhere.
CheckDiscovery(installed) == installed.place \in {"environment", "system"}
\* Every defect planted in a copy is refused: the inspection itself is judged.
Negatives(installed) == \A d \in DOMAIN installed.planted : installed.planted[d] = "red"
Intact(installed) ==
  CheckDiscovery(installed) /\ Negatives(installed) /\ installed.abi = Target
Installation ==
  /\ qualification.pc = "installation"
  /\ \E installed \in {i \in Installations : i.place = qualification.identity.place} :
       LET evidence == <<[name |-> "installation", run |-> installed]>> IN
       IF Intact(installed)
       THEN /\ qualification' = [qualification EXCEPT !.pc = After("installation"),
                                                      !.evidence = evidence]
            /\ UNCHANGED summaries
       ELSE Write("FAIL", evidence, 1)
  /\ Elsewhere
Phase ==
  /\ qualification.pc \in {"host", "serving", "aux", "public_default", "flare"}
  /\ LET name == qualification.pc IN
     \E run \in Runs(name) :
       LET evidence == Append(qualification.evidence, [name |-> name, run |-> run])
           verdict  == Verdict(name, run) IN
       IF name = "flare"
       THEN IF Advances(verdict) THEN Write(Complete, evidence, 0)
            ELSE Write("NOT_ADMITTED", evidence, IF verdict = "NOT_RUN" THEN 3 ELSE 1)
       ELSE IF Advances(verdict)
            THEN /\ qualification' = [qualification EXCEPT !.pc = After(name), !.evidence = evidence]
                 /\ UNCHANGED summaries
            ELSE Write("FAIL", evidence, 1)
  /\ Elsewhere
\* serving/device.py: the family a PPU's name tells, or a native SM120.
ValidateDeviceTarget(device) ==
  IF Target \in {"ppu10", "ppu15"} THEN device.family = Target
  ELSE device.family = None /\ ~device.ppu /\ device.capability = <<12, 0>>
\* No device, or --host-only: the rest is NOT_RUN.  Another device raises.
Device ==
  /\ qualification.pc = "device"
  /\ \/ Write(HostOnlyPass, qualification.evidence, 3)
     \/ \E device \in Devices :
          IF ValidateDeviceTarget(device)
          THEN qualification' = [qualification EXCEPT !.pc = After("device")] /\ UNCHANGED summaries
          ELSE Write("FAIL", qualification.evidence, 1)
  /\ Elsewhere
NativeGraph ==
  /\ qualification.pc = "native_graph"
  /\ \E ok \in BOOLEAN :
       LET evidence == Append(qualification.evidence, [name |-> "native_graph", run |-> ok]) IN
       IF ok THEN /\ qualification' = [qualification EXCEPT !.pc = After("native_graph"),
                                                            !.evidence = evidence]
                  /\ UNCHANGED summaries
       ELSE Write("FAIL", evidence, 1)
  /\ Elsewhere
ChooseFlare ==
  /\ qualification.pc = "flare?"
  /\ \/ qualification' = [qualification EXCEPT !.pc = "flare"] /\ UNCHANGED summaries
     \/ Write("OPERATOR_PASS_FLARE_NOT_RUN", qualification.evidence, 3)
  /\ Elsewhere
\* An exception still writes what there is; a kill writes nothing.
Raise ==
  /\ qualification.pc \notin {"idle", "ended"}
  /\ \/ Write("FAIL", qualification.evidence, 1)
     \/ /\ qualification' = [pc |-> "ended", rc |-> 9, for |-> qualification.for, status |-> None,
                             identity |-> qualification.identity]
        /\ UNCHANGED summaries
  /\ Elsewhere
Dismiss ==
  /\ qualification.pc = "ended" /\ qualification.for = "alone"
  /\ qualification' = Idle
  /\ UNCHANGED <<source, build, wheels, release, summaries, published>>
-----------------------------------------------------------------------------
(* build_install_serving.py: one after the other, never over an old output.   *)
StartRelease ==
  /\ release = Idle /\ StartBuild("release", FALSE)
  /\ release' = [pc |-> "build", wheel |-> None, status |-> "FAIL"]
  /\ UNCHANGED <<source, wheels, qualification, summaries, published>>
\* built_wheel: the wheel of a clean receipt, or no release.
BuiltWheel ==
  /\ release.pc = "build" /\ (build = Idle \/ (build.pc = "built" /\ build.for = "release"))
  /\ release' = IF build = Idle \/ wheels[build.wheel].dirty THEN [release EXCEPT !.pc = "ended"]
                ELSE [release EXCEPT !.pc = "install", !.wheel = build.wheel]
  /\ build' = Idle
  /\ UNCHANGED <<source, wheels, qualification, summaries, published>>
Install ==
  /\ release.pc = "install"
  /\ StartQualification("release")
  /\ release' = [release EXCEPT !.pc = "qualification"]
  /\ UNCHANGED <<source, build, wheels, summaries, published>>
\* Mutant: a private package of any source is taken.
MutantOfThisBuild(identity) == identity.place = "environment"
\* The summary's identity against the receipt and the environment made here.
OfThisBuild(identity) ==
  /\ wheels[identity.wheel].revision = wheels[release.wheel].revision
  /\ identity.place = "environment"
\* The verdict is the summary's; exit zero without the full one is a failure.
Concluded(q) ==
  IF q.status # None /\ OfThisBuild(q.identity) /\ (q.rc = 0 => q.status = Complete)
  THEN q.status ELSE "FAIL"
ConcludeRelease ==
  /\ release.pc = "qualification" /\ qualification.pc = "ended" /\ qualification.for = "release"
  /\ release' = [release EXCEPT !.pc = "ended", !.status = Concluded(qualification)]
  /\ qualification' = Idle
  /\ UNCHANGED <<source, build, wheels, summaries, published>>
TakeWheel ==
  /\ build.pc = "built" /\ build.for = "alone" /\ build' = Idle
  /\ UNCHANGED <<source, wheels, release, qualification, summaries, published>>
NewRelease ==
  /\ release.pc = "ended" /\ release' = Idle
  /\ UNCHANGED <<source, build, wheels, qualification, summaries, published>>
-----------------------------------------------------------------------------
(* verify_serving_release.py, in a clean checkout of the tag.  Someone collected
   a wheel, the qualification of a wheel and a manifest naming both.           *)
\* Mutant: the qualification is not tied to the wheel.
MutantCheckedAssets(revision, wheel, qualified) == qualified.status = HostOnlyPass
CheckedAssets(revision, wheel, qualified) ==
  /\ qualified.status = HostOnlyPass
  /\ wheels[qualified.identity.wheel].revision = revision
  /\ qualified.identity.wheel = wheel
\* The wheel's own manifest, and every packaged Python file against the tag's.
Bound(revision, wheel) ==
  /\ wheels[wheel].revision = revision /\ ~wheels[wheel].dirty
  /\ wheels[wheel].python = commits[revision].python
Publish ==
  /\ \E revision \in 1..Tip, wheel \in 1..Len(wheels), qualified \in summaries :
       /\ CheckedAssets(revision, wheel, qualified) /\ Bound(revision, wheel)
       /\ published' = published \union {[revision |-> revision, wheel |-> wheel]}
  /\ UNCHANGED <<source, build, wheels, release, qualification, summaries>>

Build == BuildAlone \/ ReadStatus \/ Identify \/ Compile \/ CopyBundle \/ RecheckSource
         \/ BuildWheel \/ FinishBuild \/ StopBuild \/ TakeWheel
Qualify == QualifyAlone \/ Installation \/ Phase \/ Device \/ NativeGraph \/ ChooseFlare
           \/ Raise \/ Dismiss
Release == StartRelease \/ BuiltWheel \/ Install \/ ConcludeRelease \/ NewRelease \/ Publish
Next == Edit \/ Commit \/ Build \/ Qualify \/ Release
Spec == Init /\ [][Next]_vars
-----------------------------------------------------------------------------
(* Properties *)
FromRevision(w) ==
  LET content == commits[w.revision] IN
  w.library = content.native /\ w.headers = content.native /\ w.python = content.python

\* A receipt that says source_dirty=false names the revision its library, its
\* headers and its Python files were all built from, whatever was edited or
\* committed meanwhile.  Exempt is an edit between `git status` and the hashes:
\* the receipt then hashes the edited tree and still calls it clean.
\* (build_serving_wheel.py main)
CleanReceiptNamesRevision ==
  \A i \in 1..Len(wheels) : ~wheels[i].dirty /\ ~wheels[i].slipped => FromRevision(wheels[i])

\* No verdict exceeds its evidence.  A summary that claims device and component
\* success comes from an intact installation in which every phase ran and every
\* required file and case passed; one that claims host success has the host's.
\* A release claims what a summary claims of a package in its own environment
\* that names the revision the release built, clean, and is the same in content
\* unless one of the two wheels slipped or the qualified one is dirty: the
\* release compares revisions, never the wheels themselves.
\* (qualify_serving_wheel.py main, serving_qualification.py, build_install_serving.py)
Shown(name, run) ==
  CASE name = "host"  -> \A f \in HostTests : run.results[f] = "passed"
    [] name = "flare" -> \A f \in FlareTests : run.results[f] = "passed"
    [] name = "installation" ->
         run.place # "checkout" /\ run.abi = Target
         /\ \A d \in DOMAIN run.planted : run.planted[d] # "green"
    [] name = "native_graph" -> run
    [] OTHER -> run.status = "PASS" /\ run.rc = 0 /\ run.cases > 0
                /\ (name = "public_default" => run.complete)
Passed(evidence, name) ==
  \E i \in 1..Len(evidence) : evidence[i].name = name /\ Shown(name, evidence[i].run)
Claimed(status) ==
  CASE status = Complete -> Phases
    [] status = "OPERATOR_PASS_FLARE_NOT_RUN" -> Phases \ {"flare"}
    [] status = HostOnlyPass -> {"installation", "host"}
    [] OTHER -> {}
SameContent(w, v) == w.library = v.library /\ w.headers = v.headers /\ w.python = v.python
\* Summary s is of the wheel w or of one a release cannot tell from it.
Qualifies(s, w) ==
  LET v == wheels[s.identity.wheel] IN
  /\ s.identity.place = "environment" /\ v.revision = w.revision
  /\ v.dirty \/ v.slipped \/ w.slipped \/ SameContent(v, w)
VerdictHasEvidence ==
  /\ \A s \in summaries, name \in Phases :
       name \in Claimed(s.status) =>
         Passed(s.evidence, name) \/ (name = "public_default" /\ Target # "ppu10")
  /\ release.pc = "ended" /\ release.status # "FAIL" =>
       LET w == wheels[release.wheel] IN
       ~w.dirty /\ \E s \in summaries : s.status = release.status /\ Qualifies(s, w)

\* What is published was built clean from the tagged revision, native part
\* included unless its receipt slipped, and is itself the wheel whose host
\* qualification passed.  (verify_serving_release.py verify)
PublishedQualified ==
  \A p \in published :
    LET w == wheels[p.wheel] IN
    /\ w.revision = p.revision /\ ~w.dirty
    /\ w.python = commits[p.revision].python
    /\ w.slipped \/ FromRevision(w)
    /\ \E s \in summaries : s.identity.wheel = p.wheel
                              /\ Passed(s.evidence, "installation") /\ Passed(s.evidence, "host")
=============================================================================
