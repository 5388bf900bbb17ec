------------------------ MODULE ServingReleaseProofs ------------------------
(***************************************************************************)
(* Theorems about ServingRelease, for every target, every set of required  *)
(* tests, every outcome of tests, programs, installations and devices, and *)
(* any number of edits, commits, builds and qualifications.                *)
(*                                                                         *)
(* CleanReceiptsNameRevisions   what a clean wheel was built from          *)
(* VerdictsHaveEvidence         what a summary and a release may claim     *)
(* PublicationsAreQualified     what the published assets are              *)
(*                                                                         *)
(* The inductive invariant bounds what a build reads between its identity  *)
(* and the tree: content versions only grow, so that the two comparisons   *)
(* of the sources fix the library and headers, and the Python files, read  *)
(* in between.  Of a qualification it says which phases must have passed   *)
(* when it stands before a phase.  Whatever names a wheel names a finished *)
(* one (Named), which never changes: so a comparison of revisions that was *)
(* made when a release ended still holds, and with WheelsSound it says     *)
(* what both wheels contain.                                               *)
(***************************************************************************)
EXTENDS ServingRelease, TLAPS

-----------------------------------------------------------------------------
(***************************************************************************)
(* The inductive invariant of the builds.                                  *)
(***************************************************************************)

Content == [python : Nat, native : Nat]
For == {"alone", "release"}
Step == {"status", "identity", "compile", "bundle", "recheck", "wheel", "result"}
Running == [pc : Step, for : For, allowDirty : BOOLEAN, revision : Nat, dirty : BOOLEAN,
            slipped : BOOLEAN, identity : Content \cup {None}, library : Nat \cup {None},
            headers : Nat \cup {None}, python : Nat \cup {None}]
Built == [pc : {"built"}, for : For, wheel : Nat]
Wheel == [revision : Nat, dirty : BOOLEAN, slipped : BOOLEAN, identity : Content \cup {None},
          library : Nat \cup {None}, headers : Nat \cup {None}, python : Nat \cup {None}]

SourceTypes ==
  /\ edits \in Nat
  /\ tree \in Content /\ tree.python <= edits /\ tree.native <= edits
  /\ commits \in Seq(Content) /\ Len(commits) > 0

BuildTypes ==
  /\ build \in Running \cup Built \cup {Idle}
  /\ wheels \in Seq(Wheel)

\* The content version lies between the one hashed first and the tree's.
Between(first, version, last) == version \in Nat /\ first <= version /\ version <= last

\* What a build has read so far.  Its revision is HEAD until something is
\* committed; while it is, a clean and not slipped build has hashed it.
BuildProgress ==
  build.pc \in Step =>
    /\ build.revision \in 1..Tip
    /\ build.pc = "identity" =>
         (~build.dirty /\ ~build.slipped /\ Tip = build.revision =>
            tree = commits[build.revision])
    /\ build.pc \in Step \ {"status", "identity"} =>
         /\ build.identity \in Content
         /\ build.identity.native <= tree.native /\ build.identity.python <= tree.python
         /\ ~build.dirty /\ ~build.slipped /\ Tip = build.revision =>
              build.identity = commits[build.revision]
    /\ build.pc \in {"bundle", "recheck"} =>
         Between(build.identity.native, build.library, tree.native)
    /\ build.pc = "recheck" => Between(build.identity.native, build.headers, tree.native)
    /\ build.pc \in {"wheel", "result"} =>
         build.library = build.identity.native /\ build.headers = build.identity.native
    /\ build.pc = "result" => Between(build.identity.python, build.python, tree.python)

WheelsSound ==
  \A i \in 1..Len(wheels) :
    /\ wheels[i].revision \in 1..Tip
    /\ ~wheels[i].dirty /\ ~wheels[i].slipped => FromRevision(wheels[i])

BuildInv == SourceTypes /\ BuildTypes /\ BuildProgress /\ WheelsSound

-----------------------------------------------------------------------------
(***************************************************************************)
(* The inductive invariant of qualifications, releases and publications.   *)
(***************************************************************************)

Status == {"FAIL", "NOT_ADMITTED", "OPERATOR_PASS_FLARE_NOT_RUN", HostOnlyPass, Complete}
Entry == [name : Phases, run : JunitRuns \cup DeviceRuns \cup Installations \cup BOOLEAN]
Identity == [wheel : Nat, place : Places]
Judging == [pc : {"installation", "host", "device", "serving", "aux", "public_default",
                  "native_graph", "flare?", "flare"},
            identity : Identity, for : For, evidence : Seq(Entry)]
Judged == [pc : {"ended"}, rc : Nat, for : For, status : Status \cup {None},
           identity : Identity]
Releasing == [pc : {"build", "install", "qualification", "ended"}, wheel : Nat \cup {None},
              status : Status]

\* The phases that are over when a qualification stands before one.
Before(pc) ==
  CASE pc = "installation" -> {}
    [] pc = "host" -> {"installation"}
    [] pc \in {"device", "serving"} -> {"installation", "host"}
    [] pc = "aux" -> {"installation", "host", "serving"}
    [] pc = "public_default" -> {"installation", "host", "serving", "aux"}
    [] pc = "native_graph" -> {"installation", "host", "serving", "aux", "public_default"}
    [] OTHER -> Phases \ {"flare"}

\* A phase passed, or is the bridge's on a target without one.
Settled(evidence, name) ==
  Passed(evidence, name) \/ (name = "public_default" /\ Target # "ppu10")

QualificationTypes ==
  /\ qualification \in Judging \cup Judged \cup {Idle}
  /\ release \in Releasing \cup {Idle}

QualificationProgress ==
  /\ qualification \in Judging =>
       \A name \in Before(qualification.pc) : Settled(qualification.evidence, name)
  /\ qualification.pc = "ended" /\ qualification.status # None =>
       \E s \in summaries : /\ s.identity = qualification.identity
                           /\ s.status = qualification.status

SummariesSound ==
  \A s \in summaries : \A name \in Claimed(s.status) : Settled(s.evidence, name)

QualificationInv == QualificationTypes /\ QualificationProgress /\ SummariesSound

\* Whatever names a wheel names a finished one, and a release a clean one.
Named ==
  /\ build.pc = "built" => build.wheel \in 1..Len(wheels)
  /\ qualification.pc # "idle" => qualification.identity.wheel \in 1..Len(wheels)
  /\ \A s \in summaries : s.identity.wheel \in 1..Len(wheels)
  /\ release.pc \in {"install", "qualification"} =>
       release.wheel \in 1..Len(wheels) /\ ~wheels[release.wheel].dirty

\* A summary of a package in the release's environment, of the wheel's revision.
Admits(s, status, wheel) ==
  /\ s.status = status /\ s.identity.place = "environment"
  /\ wheels[s.identity.wheel].revision = wheels[wheel].revision

ReleaseSound ==
  /\ release.pc \in {"build", "install", "qualification"} => release.status = "FAIL"
  /\ release.pc = "ended" /\ release.status # "FAIL" =>
       /\ release.wheel \in 1..Len(wheels) /\ ~wheels[release.wheel].dirty
       /\ \E s \in summaries : Admits(s, release.status, release.wheel)

PublishedSound ==
  \A p \in published : p.wheel \in 1..Len(wheels) /\ p.revision \in 1..Tip

ReleaseInv == BuildInv /\ QualificationInv /\ Named /\ ReleaseSound
              /\ PublishedSound /\ PublishedQualified

-----------------------------------------------------------------------------
(***************************************************************************)
(* The developer and the builds.                                           *)
(***************************************************************************)

LEMMA InitBuilds == Init => BuildInv
  <1> SUFFICES ASSUME Init PROVE BuildInv
    OBVIOUS
  <1> USE DEF Init
  <1>1. tree \in Content /\ tree.python = 0 /\ tree.native = 0
    BY DEF Content
  <1>2. commits \in Seq(Content) /\ Len(commits) = 1
    BY <1>1
  <1>3. SourceTypes
    BY <1>1, <1>2 DEF SourceTypes
  <1>4. wheels \in Seq(Wheel) /\ Len(wheels) = 0
    OBVIOUS
  <1>5. build.pc = "idle"
    BY DEF Idle
  <1>6. BuildProgress
    BY <1>5 DEF BuildProgress, Step
  <1> QED
    BY <1>3, <1>4, <1>6 DEF BuildInv, BuildTypes, WheelsSound

\* A build at one of its steps is a running one.
LEMMA RunningBuild ==
  ASSUME BuildTypes, build.pc \in Step
  PROVE  build \in Running
  BY DEF BuildTypes, Built, Idle, Step

\* An edit makes a version that never was before.
LEMMA EditBuilds ==
  ASSUME BuildInv, Edit
  PROVE  BuildInv'
  <1> USE DEF BuildInv
  <1>1. /\ UNCHANGED <<commits, wheels>> /\ Tip' = Tip /\ edits' = edits + 1
        /\ build' = IF build.pc = "identity" THEN [build EXCEPT !.slipped = TRUE] ELSE build
    BY DEF Edit, Tip
  <1>2. /\ tree' \in Content /\ tree'.python <= edits' /\ tree'.native <= edits'
        /\ tree.python <= tree'.python /\ tree.native <= tree'.native
    <2> PICK part \in {"python", "native"} : tree' = [tree EXCEPT ![part] = edits + 1]
      BY DEF Edit
    <2>1. CASE part = "python"
      <3>1. tree' = [tree EXCEPT !.python = edits + 1]
        BY <2>1
      <3> QED
        BY <1>1, <3>1 DEF SourceTypes, Content
    <2>2. CASE part = "native"
      <3>1. tree' = [tree EXCEPT !.native = edits + 1]
        BY <2>2
      <3> QED
        BY <1>1, <3>1 DEF SourceTypes, Content
    <2> QED
      BY <2>1, <2>2
  <1>3. SourceTypes'
    BY <1>1, <1>2 DEF SourceTypes
  <1>4. WheelsSound'
    BY <1>1 DEF WheelsSound, FromRevision
  <1>5. CASE build.pc = "identity"
    <2>1. build \in Running
      BY <1>5, RunningBuild DEF Step
    <2>2. /\ build' \in Running /\ build'.pc = "identity" /\ build'.slipped
          /\ build'.revision = build.revision
      BY <1>1, <1>5, <2>1 DEF Running
    <2>3. BuildProgress'
      BY <1>1, <1>5, <2>2 DEF BuildProgress, Step
    <2> QED
      BY <1>1, <1>3, <1>4, <2>2, <2>3 DEF BuildTypes
  <1>6. CASE build.pc # "identity"
    <2>1. build' = build
      BY <1>1, <1>6
    <2>2. BuildProgress'
      <3> SUFFICES ASSUME build.pc \in Step PROVE BuildProgress'
        BY <2>1 DEF BuildProgress
      <3>1. build.pc \in Step \ {"status", "identity"} =>
               build.identity.native <= tree'.native /\ build.identity.python <= tree'.python
        BY <1>2 DEF BuildProgress, SourceTypes, Content
      <3>2. ASSUME NEW first \in Nat, NEW version
            PROVE  /\ Between(first, version, tree.native) => Between(first, version, tree'.native)
                   /\ Between(first, version, tree.python) => Between(first, version, tree'.python)
        BY <1>2 DEF Between, SourceTypes, Content
      <3>3. build.pc \in Step \ {"status", "identity"} =>
               build.identity.native \in Nat /\ build.identity.python \in Nat
        BY DEF BuildProgress, Content
      <3>4. build.pc \in {"bundle", "recheck"} =>
               Between(build.identity.native, build.library, tree'.native)
        BY <3>2, <3>3 DEF BuildProgress, Step
      <3>5. build.pc = "recheck" => Between(build.identity.native, build.headers, tree'.native)
        BY <3>2, <3>3 DEF BuildProgress, Step
      <3>6. build.pc = "result" => Between(build.identity.python, build.python, tree'.python)
        BY <3>2, <3>3 DEF BuildProgress, Step
      <3> QED
        BY <1>1, <1>6, <2>1, <3>1, <3>4, <3>5, <3>6 DEF BuildProgress
    <2> QED
      BY <1>1, <1>3, <1>4, <2>1, <2>2 DEF BuildTypes
  <1> QED
    BY <1>5, <1>6

LEMMA CommitsKept ==
  ASSUME SourceTypes, Commit
  PROVE  /\ commits' \in Seq(Content) /\ Tip' = Tip + 1 /\ Tip \in Nat
         /\ \A i \in 1..Tip : commits'[i] = commits[i]
  BY DEF SourceTypes, Commit, Tip

\* A commit moves HEAD away from the revision of a build that runs.
LEMMA CommitBuilds ==
  ASSUME BuildInv, Commit
  PROVE  BuildInv'
  <1> USE DEF BuildInv
  <1>1. UNCHANGED <<tree, edits, build, wheels>>
    BY DEF Commit
  <1>2. /\ commits' \in Seq(Content) /\ Tip' = Tip + 1 /\ Tip \in Nat
        /\ \A i \in 1..Tip : commits'[i] = commits[i]
    BY CommitsKept
  <1>3. SourceTypes'
    BY <1>1, <1>2 DEF SourceTypes, Tip
  <1>4. WheelsSound'
    <2> SUFFICES ASSUME NEW i \in 1..Len(wheels)
                 PROVE  /\ wheels[i].revision \in 1..Tip'
                        /\ ~wheels[i].dirty /\ ~wheels[i].slipped => FromRevision(wheels[i])'
      BY <1>1 DEF WheelsSound
    <2>1. /\ wheels[i].revision \in 1..Tip
          /\ ~wheels[i].dirty /\ ~wheels[i].slipped => FromRevision(wheels[i])
      BY DEF WheelsSound
    <2> QED
      BY <1>1, <1>2, <2>1 DEF FromRevision
  <1>5. BuildProgress'
    <2> SUFFICES ASSUME build.pc \in Step PROVE BuildProgress'
      BY <1>1 DEF BuildProgress
    <2>1. build.revision \in 1..Tip
      BY DEF BuildProgress
    <2>2. build.revision \in 1..Tip' /\ Tip' # build.revision
      BY <1>2, <2>1
    <2> QED
      BY <1>1, <2>2 DEF BuildProgress
  <1> QED
    BY <1>1, <1>3, <1>4, <1>5 DEF BuildTypes

LEMMA StartsBuilds ==
  ASSUME BuildInv, NEW for \in For, NEW allowDirty \in BOOLEAN, StartBuild(for, allowDirty),
         UNCHANGED <<source, wheels>>
  PROVE  BuildInv'
  <1> USE DEF BuildInv
  <1>1. UNCHANGED <<tree, commits, edits>> /\ Tip' = Tip
    BY DEF source, Tip
  <1>2. Tip \in Nat /\ Tip \in 1..Tip
    BY DEF SourceTypes, Tip
  <1>3. /\ build' \in Running /\ build'.pc = "status" /\ build'.revision = Tip
    BY <1>2 DEF StartBuild, Running, Step
  <1>4. BuildProgress'
    BY <1>1, <1>2, <1>3 DEF BuildProgress
  <1>5. SourceTypes' /\ WheelsSound'
    BY <1>1 DEF SourceTypes, WheelsSound, FromRevision
  <1> QED
    BY <1>3, <1>4, <1>5 DEF BuildTypes

\* A build that ends without a result leaves nothing behind.
LEMMA DiscardBuilds ==
  ASSUME BuildInv, build' = Idle, UNCHANGED <<source, wheels>>
  PROVE  BuildInv'
  <1> USE DEF BuildInv
  <1>1. UNCHANGED <<tree, commits, edits>> /\ Tip' = Tip /\ build'.pc = "idle"
    BY DEF source, Tip, Idle
  <1>2. SourceTypes' /\ WheelsSound' /\ BuildProgress'
    BY <1>1 DEF SourceTypes, WheelsSound, FromRevision, BuildProgress, Step
  <1> QED
    BY <1>2 DEF BuildTypes

\* A step reads the tree as it is; what it read stays at most as new.
LEMMA ReadingBuilds ==
  ASSUME BuildInv, ReadStatus \/ Identify \/ Compile \/ CopyBundle \/ BuildWheel
  PROVE  BuildInv'
  <1> USE DEF BuildInv
  <1>1. UNCHANGED source
    BY DEF ReadStatus, Identify, Compile, CopyBundle, BuildWheel, Untouched
  <1>2. UNCHANGED <<tree, commits, edits>> /\ Tip' = Tip
    BY <1>1 DEF source, Tip
  <1>3. build.pc \in Step /\ wheels' = wheels
    BY DEF ReadStatus, Identify, Compile, CopyBundle, BuildWheel, Step, Discard, Proceed
  <1>4. build \in Running
    BY <1>3, RunningBuild
  <1>5. SourceTypes' /\ WheelsSound'
    BY <1>2, <1>3 DEF SourceTypes, WheelsSound, FromRevision
  <1>6. tree \in Content /\ tree.native \in Nat /\ tree.python \in Nat
    BY DEF SourceTypes, Content
  <1>7. CASE ReadStatus
    <2>1. CASE Discard
      BY <1>1, <2>1, DiscardBuilds DEF Discard
    <2>2. CASE build' = [build EXCEPT !.pc = "identity", !.dirty = Dirty]
      <3>1. Dirty \in BOOLEAN
        BY DEF Dirty
      <3>2. /\ build' \in Running /\ build'.pc = "identity" /\ build'.dirty = Dirty
            /\ build'.revision = build.revision
        BY <1>4, <2>2, <3>1 DEF Running, Step
      <3>3. BuildProgress'
        BY <1>2, <1>3, <3>2 DEF BuildProgress, Dirty
      <3> QED
        BY <1>3, <1>5, <3>2, <3>3 DEF BuildTypes
    <2> QED
      BY <1>7, <2>1, <2>2 DEF ReadStatus, Proceed
  <1>8. CASE Identify
    <2>1. build' = [build EXCEPT !.pc = "compile", !.identity = tree]
      BY <1>8 DEF Identify, Proceed, SourceIdentity
    <2>2. /\ build' \in Running /\ build'.pc = "compile" /\ build'.identity = tree
          /\ build'.revision = build.revision /\ build'.dirty = build.dirty
          /\ build'.slipped = build.slipped
      BY <1>4, <1>6, <2>1 DEF Running, Step
    <2>3. BuildProgress'
      BY <1>2, <1>3, <1>6, <1>8, <2>2 DEF BuildProgress, Identify
    <2> QED
      BY <1>3, <1>5, <2>2, <2>3 DEF BuildTypes
  <1>9. CASE Compile
    <2>1. build.pc = "compile" /\ build' = [build EXCEPT !.pc = "bundle", !.library = tree.native]
      BY <1>9 DEF Compile, Proceed
    <2>2. /\ build' \in Running /\ build'.pc = "bundle" /\ build'.library = tree.native
          /\ build'.revision = build.revision /\ build'.dirty = build.dirty
          /\ build'.slipped = build.slipped /\ build'.identity = build.identity
      BY <1>4, <1>6, <2>1 DEF Running, Step
    <2>3. BuildProgress'
      BY <1>2, <1>3, <1>6, <2>1, <2>2 DEF BuildProgress, Between
    <2> QED
      BY <1>3, <1>5, <2>2, <2>3 DEF BuildTypes
  <1>10. CASE CopyBundle
    <2>1. build.pc = "bundle" /\ build' = [build EXCEPT !.pc = "recheck", !.headers = tree.native]
      BY <1>10 DEF CopyBundle, Proceed
    <2>2. /\ build' \in Running /\ build'.pc = "recheck" /\ build'.headers = tree.native
          /\ build'.revision = build.revision /\ build'.dirty = build.dirty
          /\ build'.slipped = build.slipped /\ build'.identity = build.identity
          /\ build'.library = build.library
      BY <1>4, <1>6, <2>1 DEF Running, Step
    <2>3. BuildProgress'
      BY <1>2, <1>3, <1>6, <2>1, <2>2 DEF BuildProgress, Between
    <2> QED
      BY <1>3, <1>5, <2>2, <2>3 DEF BuildTypes
  <1>11. CASE BuildWheel
    <2>1. build.pc = "wheel" /\ build' = [build EXCEPT !.pc = "result", !.python = tree.python]
      BY <1>11 DEF BuildWheel, Proceed
    <2>2. /\ build' \in Running /\ build'.pc = "result" /\ build'.python = tree.python
          /\ build'.revision = build.revision /\ build'.dirty = build.dirty
          /\ build'.slipped = build.slipped /\ build'.identity = build.identity
          /\ build'.library = build.library /\ build'.headers = build.headers
      BY <1>4, <1>6, <2>1 DEF Running, Step
    <2>3. BuildProgress'
      BY <1>2, <1>3, <1>6, <2>1, <2>2 DEF BuildProgress, Between
    <2> QED
      BY <1>3, <1>5, <2>2, <2>3 DEF BuildTypes
  <1> QED
    BY <1>7, <1>8, <1>9, <1>10, <1>11

\* The first comparison fixes the library and the headers.
LEMMA RecheckBuilds ==
  ASSUME BuildInv, RecheckSource
  PROVE  BuildInv'
  <1> USE DEF BuildInv
  <1>1. UNCHANGED <<source, tree, commits, edits, wheels>> /\ Tip' = Tip
    BY DEF RecheckSource, Untouched, Discard, Proceed, source, Tip
  <1>2. CASE Discard
    BY <1>1, <1>2, DiscardBuilds DEF Discard
  <1>3. CASE ~Discard
    <2>1. /\ build.pc = "recheck" /\ tree = build.identity
          /\ build' = [build EXCEPT !.pc = "wheel"]
      BY <1>3 DEF RecheckSource, Proceed, SourceUnchanged, SourceIdentity
    <2>2. build \in Running
      BY <2>1, RunningBuild DEF Step
    <2>3. /\ build' \in Running /\ build'.pc = "wheel"
          /\ build'.revision = build.revision /\ build'.dirty = build.dirty
          /\ build'.slipped = build.slipped /\ build'.identity = build.identity
          /\ build'.library = build.library /\ build'.headers = build.headers
      BY <2>1, <2>2 DEF Running, Step
    <2>4. build.library = tree.native /\ build.headers = tree.native
      BY <2>1 DEF BuildProgress, Step, Between, SourceTypes, Content
    <2>5. BuildProgress'
      BY <1>1, <2>1, <2>3, <2>4 DEF BuildProgress, Step
    <2>6. SourceTypes' /\ WheelsSound'
      BY <1>1 DEF SourceTypes, WheelsSound, FromRevision
    <2> QED
      BY <1>1, <2>3, <2>5, <2>6 DEF BuildTypes
  <1> QED
    BY <1>2, <1>3

\* The second one fixes the Python files, and finds HEAD at the revision.
LEMMA FinishBuilds ==
  ASSUME BuildInv, FinishBuild
  PROVE  BuildInv'
  <1> USE DEF BuildInv
  <1>1. UNCHANGED <<source, tree, commits, edits>> /\ Tip' = Tip
    BY DEF FinishBuild, Untouched, source, Tip
  <1>2. CASE Discard
    BY <1>1, <1>2, DiscardBuilds DEF Discard
  <1>3. CASE ~Discard
    <2>1. /\ build.pc = "result" /\ tree = build.identity /\ Tip = build.revision
          /\ wheels' = Append(wheels, Result)
          /\ build' = [pc |-> "built", for |-> build.for, wheel |-> Len(wheels')]
      BY <1>3 DEF FinishBuild, SourceUnchanged, SourceIdentity
    <2>2. build \in Running
      BY <2>1, RunningBuild DEF Step
    <2>3. /\ Result \in Wheel /\ Result.revision = build.revision
          /\ Result.dirty = build.dirty /\ Result.slipped = build.slipped
          /\ Result.library = build.library /\ Result.headers = build.headers
          /\ Result.python = build.python
      BY <2>2 DEF Result, Wheel, Running
    <2>4. /\ build.library = tree.native /\ build.headers = tree.native
          /\ build.python = tree.python
      BY <2>1 DEF BuildProgress, Step, Between, SourceTypes, Content
    <2>5. /\ Result.revision \in 1..Tip
          /\ ~Result.dirty /\ ~Result.slipped => FromRevision(Result)
      <3>1. /\ build.revision \in 1..Tip
            /\ ~build.dirty /\ ~build.slipped => tree = commits[build.revision]
        BY <2>1 DEF BuildProgress, Step
      <3> QED
        BY <2>3, <2>4, <3>1 DEF FromRevision
    <2> DEFINE result == Result
    <2>6. /\ wheels' \in Seq(Wheel) /\ Len(wheels') = Len(wheels) + 1
          /\ wheels'[Len(wheels')] = result
          /\ \A i \in 1..Len(wheels) : wheels'[i] = wheels[i]
      BY <2>1, <2>3 DEF BuildTypes
    <2>7. WheelsSound'
      <3> SUFFICES ASSUME NEW i \in 1..Len(wheels')
                   PROVE  /\ wheels'[i].revision \in 1..Tip
                          /\ ~wheels'[i].dirty /\ ~wheels'[i].slipped => FromRevision(wheels'[i])
        BY <1>1 DEF WheelsSound, FromRevision
      <3>1. CASE i = Len(wheels')
        BY <2>5, <2>6, <3>1
      <3>2. CASE i \in 1..Len(wheels)
        BY <2>6, <3>2 DEF WheelsSound
      <3> QED
        BY <2>6, <3>1, <3>2 DEF BuildTypes
    <2>8. build' \in Built /\ build'.pc = "built"
      BY <2>1, <2>2, <2>6 DEF Built, Running
    <2>9. SourceTypes' /\ BuildProgress'
      BY <1>1, <2>8 DEF SourceTypes, BuildProgress, Step
    <2> QED
      BY <2>6, <2>7, <2>8, <2>9 DEF BuildTypes
  <1> QED
    BY <1>2, <1>3

LEMMA BuildsStep ==
  ASSUME BuildInv, [Next]_vars
  PROVE  BuildInv'
  <1>1. CASE Edit \/ Commit
    BY <1>1, EditBuilds, CommitBuilds
  <1>2. CASE BuildAlone
    BY <1>2, StartsBuilds DEF BuildAlone, For
  <1>3. CASE StartRelease
    BY <1>3, StartsBuilds DEF StartRelease, For
  <1>4. CASE ReadStatus \/ Identify \/ Compile \/ CopyBundle \/ BuildWheel
    BY <1>4, ReadingBuilds
  <1>5. CASE RecheckSource \/ FinishBuild
    BY <1>5, RecheckBuilds, FinishBuilds
  <1>6. CASE StopBuild \/ TakeWheel \/ BuiltWheel
    <2>1. build' = Idle /\ UNCHANGED <<source, wheels>>
      BY <1>6 DEF StopBuild, TakeWheel, BuiltWheel, Discard, Untouched
    <2> QED
      BY <2>1, DiscardBuilds
  <1>7. CASE Qualify \/ Install \/ ConcludeRelease \/ NewRelease \/ Publish \/ UNCHANGED vars
    <2>1. UNCHANGED <<tree, commits, edits, build, wheels>>
      BY <1>7 DEF Qualify, QualifyAlone, Installation, Phase, Device, NativeGraph, ChooseFlare,
         Raise, Dismiss, Elsewhere, Install, ConcludeRelease, NewRelease, Publish, source, vars
    <2> QED
      BY <2>1 DEF BuildInv, SourceTypes, BuildTypes, BuildProgress, WheelsSound, FromRevision, Tip
  <1> QED
    BY <1>1, <1>2, <1>3, <1>4, <1>5, <1>6, <1>7 DEF Next, Build, Release

-----------------------------------------------------------------------------
(***************************************************************************)
(* Verdicts and evidence.                                                  *)
(***************************************************************************)

LEMMA JunitPassed ==
  ASSUME NEW run, NEW required, JunitVerdict(run, required) = "PASS"
  PROVE  \A f \in required : run.results[f] = "passed"
  <1>1. Outcomes(run, required) = {"passed"}
    BY DEF JunitVerdict
  <1>2. ASSUME NEW f \in required PROVE run.results[f] \in Outcomes(run, required)
    BY DEF Outcomes
  <1> QED
    BY <1>1, <1>2

LEMMA DevicePassed ==
  ASSUME NEW run, NEW name, DeviceVerdict(name, run) = "PASS"
  PROVE  /\ run.status = "PASS" /\ run.rc = 0 /\ run.cases > 0
         /\ name = "public_default" => run.complete
  BY DEF DeviceVerdict, PublicDefaultComplete

\* A phase whose verdict is PASS is evidence of itself.
LEMMA VerdictShown ==
  ASSUME NEW name \in {"host", "serving", "aux", "public_default", "flare"}, NEW run,
         Verdict(name, run) = "PASS"
  PROVE  Shown(name, run)
  <1>1. CASE name = "host"
    BY <1>1, JunitPassed DEF Verdict, Shown
  <1>2. CASE name = "flare"
    BY <1>2, JunitPassed DEF Verdict, Shown
  <1>3. CASE name \in {"serving", "aux", "public_default"}
    BY <1>3, DevicePassed DEF Verdict, Shown
  <1> QED
    BY <1>1, <1>2, <1>3

\* Evidence is only added to.
LEMMA SettledKept ==
  ASSUME NEW evidence \in Seq(Entry), NEW entry \in Entry, NEW name, Settled(evidence, name)
  PROVE  Settled(Append(evidence, entry), name)
  <1> DEFINE more == Append(evidence, entry)
  <1>1. CASE Passed(evidence, name)
    <2>1. PICK i \in 1..Len(evidence) : /\ evidence[i].name = name
                                        /\ Shown(name, evidence[i].run)
      BY <1>1 DEF Passed
    <2>2. i \in 1..Len(more) /\ more[i] = evidence[i]
      OBVIOUS
    <2> HIDE DEF more
    <2>3. Passed(more, name)
      BY <2>1, <2>2 DEF Passed
    <2> QED
      BY <2>3 DEF Settled, more
  <1> QED
    BY <1>1 DEF Settled

LEMMA SettledLast ==
  ASSUME NEW evidence \in Seq(Entry), NEW name \in Phases, NEW run,
         [name |-> name, run |-> run] \in Entry, Shown(name, run)
  PROVE  Settled(Append(evidence, [name |-> name, run |-> run]), name)
  <1> DEFINE entry == [name |-> name, run |-> run]
             more == Append(evidence, entry)
  <1>1. entry.name = name /\ entry.run = run
    OBVIOUS
  <1> HIDE DEF entry
  <1>2. Len(more) \in 1..Len(more) /\ more[Len(more)] = entry
    BY DEF entry
  <1> HIDE DEF more
  <1>3. Passed(more, name)
    BY <1>1, <1>2 DEF Passed
  <1> QED
    BY <1>3 DEF Settled, more, entry

-----------------------------------------------------------------------------
(***************************************************************************)
(* Qualifications.                                                         *)
(***************************************************************************)

LEMMA InitQualifications == Init => QualificationInv /\ Named /\ ReleaseSound
  <1> SUFFICES ASSUME Init PROVE QualificationInv /\ Named /\ ReleaseSound
    OBVIOUS
  <1> USE DEF Init
  <1>1. /\ qualification.pc = "idle" /\ release.pc = "idle" /\ build.pc = "idle"
        /\ qualification \notin Judging
    BY DEF Idle, Judging
  <1> QED
    BY <1>1 DEF QualificationInv, QualificationTypes, QualificationProgress, SummariesSound,
       Named, ReleaseSound

\* A summary claims phases that are settled.
LEMMA WriteKeeps ==
  ASSUME QualificationInv, qualification \in Judging, release' = release,
         NEW status \in Status, NEW evidence, NEW rc \in Nat, Write(status, evidence, rc),
         \A name \in Claimed(status) : Settled(evidence, name)
  PROVE  QualificationInv'
  <1> DEFINE summary == [identity |-> qualification.identity, status |-> status, evidence |-> evidence]
             ended == [pc |-> "ended", rc |-> rc, for |-> qualification.for,
                       status |-> status, identity |-> qualification.identity]
  <1>1. summaries' = summaries \cup {summary} /\ qualification' = ended
    BY DEF Write
  <1>2. /\ summary.identity = qualification.identity /\ summary.status = status
        /\ summary.evidence = evidence
    OBVIOUS
  <1>3. /\ ended \in Judged /\ ended.pc = "ended" /\ ended.for = qualification.for
        /\ ended.status = status /\ ended.identity = qualification.identity
    BY DEF Judging, Judged
  <1>4. ended \notin Judging
    BY <1>3 DEF Judging
  <1> HIDE DEF summary, ended
  <1>5. QualificationTypes'
    BY <1>1, <1>3 DEF QualificationInv, QualificationTypes
  <1>6. QualificationProgress'
    BY <1>1, <1>2, <1>3, <1>4 DEF QualificationProgress
  <1>7. SummariesSound'
    BY <1>1, <1>2 DEF QualificationInv, SummariesSound
  <1> QED
    BY <1>5, <1>6, <1>7 DEF QualificationInv

\* The next phase begins when those before it are settled.
LEMMA AdvanceKeeps ==
  ASSUME QualificationInv, qualification \in Judging, UNCHANGED <<release, summaries>>,
         NEW pc \in {"host", "device", "serving", "aux", "public_default", "native_graph",
                     "flare?", "flare"},
         NEW evidence \in Seq(Entry),
         qualification' = [qualification EXCEPT !.pc = pc, !.evidence = evidence],
         \A name \in Before(pc) : Settled(evidence, name)
  PROVE  QualificationInv'
  <1>1. /\ qualification' \in Judging /\ qualification'.pc = pc
        /\ qualification'.evidence = evidence
    BY DEF Judging
  <1>2. QualificationProgress'
    BY <1>1 DEF QualificationProgress
  <1> QED
    BY <1>1, <1>2 DEF QualificationInv, QualificationTypes, SummariesSound

\* What stands before a phase, and when that has passed, before the next.
LEMMA AfterSettled ==
  ASSUME NEW name \in Phases \ {"flare"}, NEW pc, pc = After(name),
         NEW evidence, \A n \in Before(name) : Settled(evidence, n), Settled(evidence, name)
  PROVE  /\ pc \in {"host", "device", "serving", "aux", "public_default", "native_graph",
                    "flare?", "flare"}
         /\ \A n \in Before(pc) : Settled(evidence, n)
  <1>1. CASE name = "aux" /\ Target # "ppu10"
    <2>1. Settled(evidence, "public_default")
      BY <1>1 DEF Settled
    <2> QED
      BY <1>1, <2>1 DEF After, Before
  <1>2. CASE name = "aux" /\ Target = "ppu10"
    BY <1>2 DEF After, Before
  <1>3. CASE name # "aux"
    BY <1>3 DEF After, Before, Phases
  <1> QED
    BY <1>1, <1>2, <1>3

LEMMA JudgingTypes ==
  ASSUME QualificationInv,
         qualification.pc \in {"installation", "host", "device", "serving", "aux",
                               "public_default", "native_graph", "flare?", "flare"}
  PROVE  /\ qualification \in Judging /\ qualification.evidence \in Seq(Entry)
         /\ \A name \in Before(qualification.pc) : Settled(qualification.evidence, name)
  <1>1. qualification \in Judging
    BY DEF QualificationInv, QualificationTypes, Judged, Idle
  <1> QED
    BY <1>1 DEF Judging, QualificationInv, QualificationProgress

\* Nothing is claimed for a failure.
LEMMA FailureClaims ==
  Claimed("FAIL") = {} /\ Claimed("NOT_ADMITTED") = {}
  BY DEF Claimed, Complete, HostOnlyPass

LEMMA InstallationKeeps ==
  ASSUME QualificationInv, Installation
  PROVE  QualificationInv'
  <1>1. /\ qualification.pc = "installation" /\ release' = release
        /\ qualification \in Judging
    BY JudgingTypes DEF Installation, Elsewhere
  <1> PICK installed \in Installations :
        LET evidence == <<[name |-> "installation", run |-> installed]>> IN
        IF Intact(installed)
        THEN /\ qualification' = [qualification EXCEPT !.pc = After("installation"),
                                                       !.evidence = evidence]
             /\ UNCHANGED summaries
        ELSE Write("FAIL", evidence, 1)
    BY DEF Installation
  <1> DEFINE entry == [name |-> "installation", run |-> installed]
             evidence == <<entry>>
  <1>2. CASE ~Intact(installed)
    <2>1. Write("FAIL", evidence, 1)
      BY <1>2
    <2>2. "FAIL" \in Status
      BY DEF Status
    <2> HIDE DEF evidence
    <2> QED
      BY <1>1, <2>1, <2>2, WriteKeeps, FailureClaims
  <1>3. CASE Intact(installed)
    <2>1. /\ qualification' = [qualification EXCEPT !.pc = After("installation"),
                                                    !.evidence = evidence]
          /\ summaries' = summaries
      BY <1>3
    <2>2. entry \in Entry
      BY DEF Entry, Phases
    <2>3. Shown("installation", installed)
      BY <1>3 DEF Shown, Intact, CheckDiscovery, Negatives
    <2>4. evidence \in Seq(Entry) /\ evidence = Append(<<>>, entry) /\ <<>> \in Seq(Entry)
      BY <2>2
    <2>5. Settled(evidence, "installation")
      BY <2>2, <2>3, <2>4, SettledLast DEF Phases
    <2> HIDE DEF evidence
    <2>6. \A n \in Before("installation") : Settled(evidence, n)
      BY DEF Before
    <2> QED
      <3>1. "installation" \in Phases \ {"flare"}
        BY DEF Phases
      <3>2. /\ After("installation") \in {"host", "device", "serving", "aux", "public_default",
                                  "native_graph", "flare?", "flare"}
            /\ \A n \in Before(After("installation")) : Settled(evidence, n)
        BY <2>5, <2>6, <3>1, AfterSettled
      <3> QED
        BY <1>1, <2>1, <2>4, <3>2, AdvanceKeeps
  <1> QED
    BY <1>2, <1>3

LEMMA PhaseKeeps ==
  ASSUME QualificationInv, Phase
  PROVE  QualificationInv'
  <1> DEFINE name == qualification.pc
  <1>1. /\ name \in {"host", "serving", "aux", "public_default", "flare"}
        /\ release' = release /\ qualification \in Judging
        /\ qualification.evidence \in Seq(Entry)
        /\ \A n \in Before(name) : Settled(qualification.evidence, n)
    BY JudgingTypes DEF Phase, Elsewhere
  <1>2. PICK run \in Runs(name) :
          LET evidence == Append(qualification.evidence, [name |-> name, run |-> run])
              verdict  == Verdict(name, run) IN
          IF name = "flare"
          THEN IF Advances(verdict) THEN Write(Complete, evidence, 0)
               ELSE Write("NOT_ADMITTED", evidence, IF verdict = "NOT_RUN" THEN 3 ELSE 1)
          ELSE IF Advances(verdict)
               THEN /\ qualification' = [qualification EXCEPT !.pc = After(name),
                                                              !.evidence = evidence]
                    /\ UNCHANGED summaries
               ELSE Write("FAIL", evidence, 1)
    BY DEF Phase
  <1> DEFINE entry == [name |-> name, run |-> run]
             evidence == Append(qualification.evidence, entry)
             passes == Advances(Verdict(name, run))
  <1>3. entry \in Entry /\ name \in Phases
    BY <1>1 DEF Entry, Phases, Runs
  <1>4. evidence \in Seq(Entry)
    BY <1>1, <1>3
  <1>5. /\ name = "flare" /\ passes => Write(Complete, evidence, 0)
        /\ name = "flare" /\ ~passes => \E rc \in Nat : Write("NOT_ADMITTED", evidence, rc)
        /\ name # "flare" /\ passes =>
             /\ qualification' = [qualification EXCEPT !.pc = After(name), !.evidence = evidence]
             /\ summaries' = summaries
        /\ name # "flare" /\ ~passes => Write("FAIL", evidence, 1)
    BY <1>2
  <1>6. \A n \in Before(name) : Settled(evidence, n)
    BY <1>1, <1>3, SettledKept
  <1>7. passes => Settled(evidence, name)
    BY <1>1, <1>3, VerdictShown, SettledLast DEF Advances
  <1> HIDE DEF evidence, passes
  <1>8. Status = {"FAIL", "NOT_ADMITTED", "OPERATOR_PASS_FLARE_NOT_RUN", HostOnlyPass, Complete}
    BY DEF Status
  <1>9. CASE ~passes
    BY <1>1, <1>5, <1>8, <1>9, FailureClaims, WriteKeeps
  <1>10. CASE passes /\ name = "flare"
    <2>1. \A n \in Claimed(Complete) : Settled(evidence, n)
      <3>1. Before("flare") = Phases \ {"flare"}
        BY DEF Before
      <3>2. Claimed(Complete) = Phases
        BY DEF Claimed, Complete, HostOnlyPass
      <3> QED
        BY <1>6, <1>7, <1>10, <3>1, <3>2
    <2> QED
      BY <1>1, <1>5, <1>8, <1>10, <2>1, WriteKeeps
  <1>11. CASE passes /\ name # "flare"
    <2>1. /\ After(name) \in {"host", "device", "serving", "aux", "public_default",
                              "native_graph", "flare?", "flare"}
          /\ \A n \in Before(After(name)) : Settled(evidence, n)
      BY <1>3, <1>6, <1>7, <1>11, AfterSettled
    <2> QED
      BY <1>1, <1>4, <1>5, <1>11, <2>1, AdvanceKeeps
  <1> QED
    BY <1>9, <1>10, <1>11

LEMMA DeviceKeeps ==
  ASSUME QualificationInv, Device
  PROVE  QualificationInv'
  <1>1. /\ qualification.pc = "device" /\ release' = release
        /\ qualification \in Judging /\ qualification.evidence \in Seq(Entry)
        /\ \A n \in Before("device") : Settled(qualification.evidence, n)
    BY JudgingTypes DEF Device, Elsewhere
  <1>2. CASE Write(HostOnlyPass, qualification.evidence, 3)
    <2>1. \A n \in Claimed(HostOnlyPass) : Settled(qualification.evidence, n)
      BY <1>1 DEF Claimed, Before, HostOnlyPass, Complete
    <2> QED
      BY <1>1, <1>2, <2>1, WriteKeeps DEF Status
  <1>3. CASE Write("FAIL", qualification.evidence, 1)
    BY <1>1, <1>3, WriteKeeps, FailureClaims DEF Status
  <1>4. CASE /\ qualification' = [qualification EXCEPT !.pc = After("device")]
             /\ summaries' = summaries
    <2>1. qualification' = [qualification EXCEPT !.pc = "serving",
                                                 !.evidence = qualification.evidence]
      BY <1>1, <1>4 DEF After, Judging
    <2>2. \A n \in Before("serving") : Settled(qualification.evidence, n)
      BY <1>1 DEF Before
    <2> QED
      BY <1>1, <1>4, <2>1, <2>2, AdvanceKeeps
  <1> QED
    BY <1>2, <1>3, <1>4 DEF Device

LEMMA NativeGraphKeeps ==
  ASSUME QualificationInv, NativeGraph
  PROVE  QualificationInv'
  <1>1. /\ qualification.pc = "native_graph" /\ release' = release
        /\ qualification \in Judging /\ qualification.evidence \in Seq(Entry)
        /\ \A n \in Before("native_graph") : Settled(qualification.evidence, n)
    BY JudgingTypes DEF NativeGraph, Elsewhere
  <1> PICK ok \in BOOLEAN :
        LET evidence == Append(qualification.evidence, [name |-> "native_graph", run |-> ok]) IN
        IF ok THEN /\ qualification' = [qualification EXCEPT !.pc = After("native_graph"),
                                                             !.evidence = evidence]
                   /\ UNCHANGED summaries
        ELSE Write("FAIL", evidence, 1)
    BY DEF NativeGraph
  <1> DEFINE entry == [name |-> "native_graph", run |-> ok]
             evidence == Append(qualification.evidence, entry)
  <1>2. entry \in Entry
    BY DEF Entry, Phases
  <1>3. evidence \in Seq(Entry)
    BY <1>1, <1>2
  <1>4. CASE ~ok
    <2>1. Write("FAIL", evidence, 1)
      BY <1>4
    <2> HIDE DEF evidence
    <2> QED
      BY <1>1, <2>1, WriteKeeps, FailureClaims DEF Status
  <1>5. CASE ok
    <2>1. /\ qualification' = [qualification EXCEPT !.pc = After("native_graph"),
                                                    !.evidence = evidence]
          /\ summaries' = summaries
      BY <1>5
    <2>2. \A n \in Before("native_graph") : Settled(evidence, n)
      BY <1>1, <1>2, SettledKept
    <2>3. Shown("native_graph", ok)
      BY <1>5 DEF Shown
    <2>4. Settled(evidence, "native_graph")
      BY <1>1, <1>2, <2>3, SettledLast DEF Phases
    <2> HIDE DEF evidence
    <2> QED
      <3>1. "native_graph" \in Phases \ {"flare"}
        BY DEF Phases
      <3>2. /\ After("native_graph") \in {"host", "device", "serving", "aux", "public_default",
                                  "native_graph", "flare?", "flare"}
            /\ \A n \in Before(After("native_graph")) : Settled(evidence, n)
        BY <2>2, <2>4, <3>1, AfterSettled
      <3> QED
        BY <1>1, <1>3, <2>1, <3>2, AdvanceKeeps
  <1> QED
    BY <1>4, <1>5

LEMMA ChooseFlareKeeps ==
  ASSUME QualificationInv, ChooseFlare
  PROVE  QualificationInv'
  <1>1. /\ qualification.pc = "flare?" /\ release' = release
        /\ qualification \in Judging /\ qualification.evidence \in Seq(Entry)
        /\ \A n \in Before("flare?") : Settled(qualification.evidence, n)
    BY JudgingTypes DEF ChooseFlare, Elsewhere
  <1>2. CASE qualification' = [qualification EXCEPT !.pc = "flare"] /\ summaries' = summaries
    <2>1. qualification' = [qualification EXCEPT !.pc = "flare",
                                                 !.evidence = qualification.evidence]
      BY <1>1, <1>2 DEF Judging
    <2>2. \A n \in Before("flare") : Settled(qualification.evidence, n)
      BY <1>1 DEF Before
    <2> QED
      BY <1>1, <1>2, <2>1, <2>2, AdvanceKeeps
  <1>3. CASE Write("OPERATOR_PASS_FLARE_NOT_RUN", qualification.evidence, 3)
    <2>1. \A n \in Claimed("OPERATOR_PASS_FLARE_NOT_RUN") : Settled(qualification.evidence, n)
      BY <1>1 DEF Claimed, Before, HostOnlyPass, Complete
    <2> QED
      BY <1>1, <1>3, <2>1, WriteKeeps DEF Status
  <1> QED
    BY <1>2, <1>3 DEF ChooseFlare

LEMMA RaiseKeeps ==
  ASSUME QualificationInv, Raise
  PROVE  QualificationInv'
  <1>1. /\ qualification \in Judging /\ release' = release
    <2>1. qualification.pc \notin {"idle", "ended"} /\ release' = release
      BY DEF Raise, Elsewhere
    <2>2. Idle.pc = "idle"
      BY DEF Idle
    <2> QED
      BY <2>1, <2>2 DEF QualificationInv, QualificationTypes, Judged
  <1>2. CASE Write("FAIL", qualification.evidence, 1)
    BY <1>1, <1>2, WriteKeeps, FailureClaims DEF Status
  <1>3. CASE ~Write("FAIL", qualification.evidence, 1)
    <2> DEFINE killed == [pc |-> "ended", rc |-> 9, for |-> qualification.for, status |-> None,
                          identity |-> qualification.identity]
    <2>1. qualification' = killed /\ summaries' = summaries
      BY <1>3 DEF Raise
    <2>2. killed \in Judged /\ killed.status = None /\ killed.pc = "ended"
      BY <1>1 DEF Judged, Judging
    <2>3. killed \notin Judging
      BY <2>2 DEF Judging
    <2> HIDE DEF killed
    <2> QED
      BY <1>1, <2>1, <2>2, <2>3
         DEF QualificationInv, QualificationTypes, QualificationProgress, SummariesSound
  <1> QED
    BY <1>2, <1>3

\* A qualification starts with nothing before it.
LEMMA StartedTypes ==
  ASSUME BuildInv, NEW for \in For, StartQualification(for)
  PROVE  /\ qualification' \in Judging /\ qualification'.pc = "installation"
         /\ qualification'.identity.wheel \in 1..Len(wheels)
         /\ \A name \in Before(qualification'.pc) : Settled(qualification'.evidence, name)
  <1>1. Len(wheels) \in Nat
    BY DEF BuildInv, BuildTypes
  <1>2. PICK wheel \in 1..Len(wheels), place \in Places :
          qualification' = [pc |-> "installation", identity |-> [wheel |-> wheel, place |-> place],
                            for |-> for, evidence |-> <<>>]
    BY DEF StartQualification
  <1>3. [wheel |-> wheel, place |-> place] \in Identity
    BY <1>1 DEF Identity
  <1> QED
    BY <1>2, <1>3 DEF Judging, Before

LEMMA QualifyAloneKeeps ==
  ASSUME BuildInv, QualificationInv, QualifyAlone
  PROVE  QualificationInv'
  <1>1. UNCHANGED <<release, summaries>> /\ StartQualification("alone") /\ "alone" \in For
    BY DEF QualifyAlone, For
  <1>2. /\ qualification' \in Judging /\ qualification'.pc = "installation"
        /\ \A name \in Before(qualification'.pc) : Settled(qualification'.evidence, name)
    BY <1>1, StartedTypes
  <1> QED
    BY <1>1, <1>2 DEF QualificationInv, QualificationTypes, QualificationProgress, SummariesSound

LEMMA DismissKeeps ==
  ASSUME QualificationInv, Dismiss
  PROVE  QualificationInv'
  <1>1. UNCHANGED <<release, summaries>> /\ qualification' = Idle
    BY DEF Dismiss
  <1>2. Idle \notin Judging /\ Idle.pc = "idle"
    BY DEF Idle, Judging
  <1> QED
    BY <1>1, <1>2 DEF QualificationInv, QualificationTypes, QualificationProgress,
       SummariesSound

-----------------------------------------------------------------------------
(***************************************************************************)
(* Releases.                                                               *)
(***************************************************************************)

LEMMA ReleasingTypes ==
  ASSUME QualificationTypes, release.pc \in {"build", "install", "qualification", "ended"}
  PROVE  release \in Releasing
  BY DEF QualificationTypes, Idle

LEMMA InstallKeeps ==
  ASSUME BuildInv, QualificationInv, Install
  PROVE  QualificationInv'
  <1>1. /\ release.pc = "install" /\ StartQualification("release") /\ "release" \in For
        /\ release' = [release EXCEPT !.pc = "qualification"] /\ summaries' = summaries
    BY DEF Install, For
  <1>2. release' \in Releasing
    BY <1>1, ReleasingTypes DEF QualificationInv, Releasing
  <1>3. /\ qualification' \in Judging /\ qualification'.pc = "installation"
        /\ \A name \in Before(qualification'.pc) : Settled(qualification'.evidence, name)
    BY <1>1, StartedTypes
  <1> QED
    BY <1>1, <1>2, <1>3 DEF QualificationInv, QualificationTypes, QualificationProgress,
       SummariesSound

\* The verdict of a release is FAIL, or the summary's of a package that passed
\* the comparison of identities.
LEMMA ConcludedStatus ==
  ASSUME QualificationInv, qualification.pc = "ended"
  PROVE  /\ Concluded(qualification) \in Status
         /\ Concluded(qualification) # "FAIL" =>
              /\ qualification.status # None /\ Concluded(qualification) = qualification.status
              /\ OfThisBuild(qualification.identity)
  <1>1. qualification \in Judged
    BY DEF QualificationInv, QualificationTypes, Judging, Idle
  <1> QED
    BY <1>1 DEF Concluded, Judged, Status

LEMMA ConcludeKeeps ==
  ASSUME QualificationInv, ConcludeRelease
  PROVE  QualificationInv'
  <1>1. /\ release.pc = "qualification" /\ qualification.pc = "ended"
        /\ release' = [release EXCEPT !.pc = "ended", !.status = Concluded(qualification)]
        /\ qualification' = Idle /\ summaries' = summaries
    BY DEF ConcludeRelease
  <1>2. release' \in Releasing
    BY <1>1, ReleasingTypes, ConcludedStatus DEF QualificationInv, Releasing
  <1>3. Idle \notin Judging /\ Idle.pc = "idle"
    BY DEF Idle, Judging
  <1> QED
    BY <1>1, <1>2, <1>3
       DEF QualificationInv, QualificationTypes, QualificationProgress, SummariesSound

LEMMA OtherReleaseKeeps ==
  ASSUME BuildInv, QualificationInv, StartRelease \/ BuiltWheel \/ NewRelease
  PROVE  QualificationInv'
  <1>1. UNCHANGED <<qualification, summaries>>
    BY DEF StartRelease, BuiltWheel, NewRelease
  <1>2. QualificationProgress' /\ SummariesSound'
    BY <1>1 DEF QualificationInv, QualificationProgress, SummariesSound
  <1>3. CASE StartRelease
    <2>1. release' = [pc |-> "build", wheel |-> None, status |-> "FAIL"]
      BY <1>3 DEF StartRelease
    <2> QED
      BY <1>1, <1>2, <2>1 DEF QualificationInv, QualificationTypes, Releasing, Status
  <1>4. CASE BuiltWheel
    <2>1. release \in Releasing
      BY <1>4, ReleasingTypes DEF BuiltWheel, QualificationInv
    <2>2. build # Idle => build.wheel \in Nat
      BY <1>4 DEF BuiltWheel, BuildInv, BuildTypes, Running, Step, Built
    <2>3. \/ release' = [release EXCEPT !.pc = "ended"]
          \/ build # Idle /\ release' = [release EXCEPT !.pc = "install", !.wheel = build.wheel]
      BY <1>4 DEF BuiltWheel
    <2> QED
      BY <1>1, <1>2, <2>1, <2>2, <2>3 DEF QualificationInv, QualificationTypes, Releasing
  <1>5. CASE NewRelease
    BY <1>1, <1>2, <1>5 DEF NewRelease, QualificationInv, QualificationTypes
  <1> QED
    BY <1>3, <1>4, <1>5

LEMMA QualificationsStep ==
  ASSUME BuildInv, QualificationInv, [Next]_vars
  PROVE  QualificationInv' /\ summaries \subseteq summaries'
  <1>1. summaries \subseteq summaries'
    <2>1. CASE Qualify
      BY <2>1 DEF Qualify, QualifyAlone, Installation, Phase, Device, NativeGraph, ChooseFlare,
         Raise, Dismiss, Write
    <2>2. CASE Edit \/ Commit \/ Build \/ Release \/ UNCHANGED vars
      BY <2>2 DEF Edit, Commit, Build, BuildAlone, ReadStatus, Identify, Compile, CopyBundle,
         RecheckSource, BuildWheel, FinishBuild, StopBuild, TakeWheel, Untouched, Release,
         StartRelease, BuiltWheel, Install, ConcludeRelease, NewRelease, Publish, vars
    <2> QED
      BY <2>1, <2>2 DEF Next
  <1>2. CASE Qualify
    <2>1. CASE QualifyAlone
      BY <1>1, <2>1, QualifyAloneKeeps
    <2>2. CASE Installation
      BY <1>1, <2>2, InstallationKeeps
    <2>3. CASE Phase
      BY <1>1, <2>3, PhaseKeeps
    <2>4. CASE Device
      BY <1>1, <2>4, DeviceKeeps
    <2>5. CASE NativeGraph
      BY <1>1, <2>5, NativeGraphKeeps
    <2>6. CASE ChooseFlare
      BY <1>1, <2>6, ChooseFlareKeeps
    <2>7. CASE Raise
      BY <1>1, <2>7, RaiseKeeps
    <2>8. CASE Dismiss
      BY <1>1, <2>8, DismissKeeps
    <2> QED
      BY <1>2, <2>1, <2>2, <2>3, <2>4, <2>5, <2>6, <2>7, <2>8 DEF Qualify
  <1>3. CASE StartRelease \/ BuiltWheel \/ Install \/ ConcludeRelease \/ NewRelease
    <2>1. CASE StartRelease \/ BuiltWheel \/ NewRelease
      BY <1>1, <2>1, OtherReleaseKeeps
    <2>2. CASE Install
      BY <1>1, <2>2, InstallKeeps
    <2>3. CASE ConcludeRelease
      BY <1>1, <2>3, ConcludeKeeps
    <2> QED
      BY <1>3, <2>1, <2>2, <2>3
  <1>4. CASE Edit \/ Commit \/ Build \/ Publish \/ UNCHANGED vars
    <2>1. UNCHANGED <<qualification, summaries, release>>
      BY <1>4 DEF Edit, Commit, Build, BuildAlone, ReadStatus, Identify, Compile, CopyBundle,
         RecheckSource, BuildWheel, FinishBuild, StopBuild, TakeWheel, Untouched, Publish, vars
    <2> QED
      BY <2>1 DEF QualificationInv, QualificationTypes, QualificationProgress, SummariesSound
  <1> QED
    BY <1>1, <1>2, <1>3, <1>4 DEF Next, Release

-----------------------------------------------------------------------------
(***************************************************************************)
(* What stays.                                                             *)
(***************************************************************************)

\* Finished builds and commits stay as they are.
LEMMA RecordsKept ==
  ASSUME BuildInv, [Next]_vars
  PROVE  /\ Tip <= Tip' /\ \A i \in 1..Tip : i \in 1..Tip' /\ commits'[i] = commits[i]
         /\ Len(wheels) <= Len(wheels')
         /\ \A i \in 1..Len(wheels) : i \in 1..Len(wheels') /\ wheels'[i] = wheels[i]
  <1>1. wheels \in Seq(Wheel) /\ commits \in Seq(Content)
    BY DEF BuildInv, BuildTypes, SourceTypes
  <1>2. CASE Commit
    <2>1. wheels' = wheels
      BY <1>2 DEF Commit
    <2> QED
      BY <1>1, <1>2, <2>1, CommitsKept DEF BuildInv
  <1>3. CASE FinishBuild
    <2>1. commits' = commits /\ Tip' = Tip
      BY <1>3 DEF FinishBuild, Untouched, source, Tip
    <2> DEFINE result == Result
    <2>2. wheels' = wheels \/ (wheels' = Append(wheels, result) /\ build.pc = "result")
      BY <1>3 DEF FinishBuild, Discard
    <2> HIDE DEF result
    <2> QED
      BY <1>1, <2>1, <2>2 DEF Tip
  <1>4. ASSUME Next, ~Commit, ~FinishBuild PROVE commits' = commits /\ wheels' = wheels
    <2>1. CASE Edit \/ Qualify \/ Release
      BY <2>1 DEF Edit, Qualify, QualifyAlone, Installation, Phase, Device, NativeGraph,
         ChooseFlare, Raise, Dismiss, Elsewhere, Release, StartRelease, BuiltWheel, Install,
         ConcludeRelease, NewRelease, Publish, source
    <2>2. CASE Build
      BY <1>4, <2>2 DEF Build, BuildAlone, ReadStatus, Identify, Compile, CopyBundle,
         RecheckSource, BuildWheel, StopBuild, TakeWheel, Untouched, Discard, Proceed, source
    <2> QED
      BY <1>4, <2>1, <2>2 DEF Next
  <1>5. CASE UNCHANGED vars
    BY <1>1, <1>5 DEF vars, Tip
  <1>6. CASE commits' = commits /\ wheels' = wheels
    BY <1>1, <1>6 DEF Tip
  <1> QED
    BY <1>2, <1>3, <1>4, <1>5, <1>6

-----------------------------------------------------------------------------
(***************************************************************************)
(* What names a wheel, and what a release claims of it.                    *)
(***************************************************************************)

\* A new summary carries the identity of the qualification that wrote it.
LEMMA NewSummary ==
  ASSUME [Next]_vars, NEW s \in summaries', s \notin summaries
  PROVE  qualification.pc # "idle" /\ s.identity = qualification.identity
  <1>1. CASE Installation \/ Phase \/ Device \/ NativeGraph \/ ChooseFlare \/ Raise
    <2>1. qualification.pc # "idle"
      BY <1>1 DEF Installation, Phase, Device, NativeGraph, ChooseFlare, Raise
    <2>2. \E status, evidence, rc : Write(status, evidence, rc)
      <3>1. CASE Installation \/ Phase
        BY <3>1 DEF Installation, Phase
      <3>2. CASE Device \/ NativeGraph \/ ChooseFlare \/ Raise
        BY <3>2 DEF Device, NativeGraph, ChooseFlare, Raise
      <3> QED
        BY <1>1, <3>1, <3>2
    <2> QED
      BY <2>1, <2>2 DEF Write
  <1>2. CASE ~(Installation \/ Phase \/ Device \/ NativeGraph \/ ChooseFlare \/ Raise)
    BY <1>2 DEF Next, Edit, Commit, Build, BuildAlone, ReadStatus, Identify, Compile, CopyBundle,
       RecheckSource, BuildWheel, FinishBuild, StopBuild, TakeWheel, Untouched, Qualify,
       QualifyAlone, Dismiss, Release, StartRelease, BuiltWheel, Install, ConcludeRelease,
       NewRelease, Publish, vars
  <1> QED
    BY <1>1, <1>2

\* A qualification keeps the identity it read when it started.
LEMMA IdentityKept ==
  ASSUME BuildInv, QualificationInv, [Next]_vars, qualification'.pc # "idle"
  PROVE  \/ qualification'.identity.wheel \in 1..Len(wheels)
         \/ qualification.pc # "idle" /\ qualification'.identity = qualification.identity
  <1>1. CASE QualifyAlone \/ Install
    BY <1>1, StartedTypes DEF QualifyAlone, Install, For
  <1>2. CASE Installation \/ Phase \/ Device \/ NativeGraph \/ ChooseFlare \/ Raise
    <2>1. qualification.pc # "idle"
      BY <1>2 DEF Installation, Phase, Device, NativeGraph, ChooseFlare, Raise
    <2>2. qualification \in Judging
      <3>1. qualification.pc # "ended"
        BY <1>2 DEF Installation, Phase, Device, NativeGraph, ChooseFlare, Raise
      <3> QED
        BY <2>1, <3>1 DEF QualificationInv, QualificationTypes, Judged, Idle
    <2>3. \/ \E status, evidence, rc : Write(status, evidence, rc)
          \/ \E pc, evidence : qualification' = [qualification EXCEPT !.pc = pc,
                                                                      !.evidence = evidence]
          \/ \E pc : qualification' = [qualification EXCEPT !.pc = pc]
          \/ qualification' = [pc |-> "ended", rc |-> 9, for |-> qualification.for,
                               status |-> None, identity |-> qualification.identity]
      <3>1. CASE Installation
        BY <3>1 DEF Installation
      <3>2. CASE Phase
        BY <3>2 DEF Phase
      <3>3. CASE Device \/ ChooseFlare
        BY <3>3 DEF Device, ChooseFlare
      <3>4. CASE NativeGraph
        BY <3>4 DEF NativeGraph
      <3>5. CASE Raise
        BY <3>5 DEF Raise
      <3> QED
        BY <1>2, <3>1, <3>2, <3>3, <3>4, <3>5
    <2>4. CASE \E status, evidence, rc : Write(status, evidence, rc)
      BY <2>1, <2>4 DEF Write
    <2>5. CASE \E pc, evidence : qualification' = [qualification EXCEPT !.pc = pc,
                                                                       !.evidence = evidence]
      BY <2>1, <2>2, <2>5 DEF Judging
    <2>6. CASE \E pc : qualification' = [qualification EXCEPT !.pc = pc]
      BY <2>1, <2>2, <2>6 DEF Judging
    <2>7. CASE qualification' = [pc |-> "ended", rc |-> 9, for |-> qualification.for,
                                 status |-> None, identity |-> qualification.identity]
      BY <2>1, <2>7
    <2> QED
      BY <2>3, <2>4, <2>5, <2>6, <2>7
  <1>3. CASE Dismiss \/ ConcludeRelease
    BY <1>3 DEF Dismiss, ConcludeRelease, Idle
  <1>4. CASE Edit \/ Commit \/ Build \/ StartRelease \/ BuiltWheel \/ NewRelease \/ Publish
             \/ UNCHANGED vars
    BY <1>4 DEF Edit, Commit, Build, BuildAlone, ReadStatus, Identify, Compile, CopyBundle,
       RecheckSource, BuildWheel, FinishBuild, StopBuild, TakeWheel, Untouched, StartRelease,
       BuiltWheel, NewRelease, Publish, vars
  <1> QED
    BY <1>1, <1>2, <1>3, <1>4 DEF Next, Qualify, Release

\* A build that has ended names the wheel it appended.
LEMMA BuiltNamed ==
  ASSUME BuildInv, Named, [Next]_vars, build'.pc = "built"
  PROVE  build'.wheel \in 1..Len(wheels')
  <1>1. wheels \in Seq(Wheel)
    BY DEF BuildInv, BuildTypes
  <1>2. CASE FinishBuild
    <2> DEFINE result == Result
    <2>1. /\ wheels' = Append(wheels, result)
          /\ build' = [pc |-> "built", for |-> build.for, wheel |-> Len(wheels')]
      BY <1>2 DEF FinishBuild, Discard, Idle
    <2> HIDE DEF result
    <2> QED
      BY <1>1, <2>1
  <1>3. CASE build' = build
    BY <1>3, RecordsKept DEF Named
  <1>4. CASE Edit
    <2>1. CASE build.pc = "identity"
      <3>1. build \in Running
        BY <2>1, RunningBuild DEF BuildInv, Step
      <3> QED
        BY <1>4, <2>1, <3>1 DEF Edit, Running
    <2> QED
      BY <1>3, <1>4, <2>1 DEF Edit
  <1>5. CASE ReadStatus \/ Identify \/ Compile \/ CopyBundle \/ RecheckSource \/ BuildWheel
    <2>1. build.pc \in Step
      BY <1>5 DEF ReadStatus, Identify, Compile, CopyBundle, RecheckSource, BuildWheel, Step
    <2>2. build \in Running
      BY <2>1, RunningBuild DEF BuildInv
    <2>3. CASE Discard
      BY <2>3 DEF Discard, Idle
    <2>4. CASE ReadStatus /\ ~Discard
      BY <2>2, <2>4 DEF ReadStatus, Proceed, Running
    <2>5. CASE RecheckSource /\ ~Discard
      BY <2>2, <2>5 DEF RecheckSource, Proceed, Running
    <2>6. CASE Identify \/ Compile
      BY <2>2, <2>6 DEF Identify, Compile, Proceed, Running
    <2>7. CASE CopyBundle \/ BuildWheel
      BY <2>2, <2>7 DEF CopyBundle, BuildWheel, Proceed, Running
    <2> QED
      BY <1>5, <2>3, <2>4, <2>5, <2>6, <2>7
  <1>6. CASE BuildAlone \/ StartRelease
    BY <1>6 DEF BuildAlone, StartRelease, StartBuild
  <1>7. CASE StopBuild \/ TakeWheel \/ BuiltWheel
    BY <1>7 DEF StopBuild, TakeWheel, BuiltWheel, Discard, Idle
  <1>8. CASE Commit \/ Qualify \/ Install \/ ConcludeRelease \/ NewRelease \/ Publish
             \/ UNCHANGED vars
    <2>1. build' = build
      BY <1>8 DEF Commit, Qualify, QualifyAlone, Installation, Phase, Device, NativeGraph,
         ChooseFlare, Raise, Dismiss, Elsewhere, Install, ConcludeRelease, NewRelease, Publish, vars
    <2> QED
      BY <1>3, <2>1
  <1> QED
    BY <1>2, <1>4, <1>5, <1>6, <1>7, <1>8 DEF Next, Build, Release

\* A release waits with a clean wheel of its own.
LEMMA ReleaseNamed ==
  ASSUME BuildInv, QualificationInv, Named, [Next]_vars,
         release'.pc \in {"install", "qualification"}
  PROVE  release'.wheel \in 1..Len(wheels') /\ ~wheels'[release'.wheel].dirty
  <1>1. CASE release' = release
    BY <1>1, RecordsKept DEF Named
  <1>2. CASE Install
    <2>1. release.pc = "install" /\ release' = [release EXCEPT !.pc = "qualification"]
      BY <1>2 DEF Install
    <2>2. release'.wheel = release.wheel
      BY <2>1, ReleasingTypes DEF QualificationInv, Releasing
    <2> QED
      BY <2>1, <2>2, RecordsKept DEF Named
  <1>3. CASE BuiltWheel
    <2>1. release.pc = "build" /\ release \in Releasing
      BY <1>3, ReleasingTypes DEF BuiltWheel, QualificationInv
    <2>2. /\ build.pc = "built" /\ ~wheels[build.wheel].dirty
          /\ release' = [release EXCEPT !.pc = "install", !.wheel = build.wheel]
      BY <1>3, <2>1 DEF BuiltWheel, Releasing
    <2>3. release'.wheel = build.wheel
      BY <2>1, <2>2 DEF Releasing
    <2> QED
      BY <2>2, <2>3, RecordsKept DEF Named
  <1>4. CASE StartRelease \/ ConcludeRelease \/ NewRelease
    <2>1. CASE ConcludeRelease
      BY <2>1, ReleasingTypes DEF ConcludeRelease, QualificationInv, Releasing
    <2>2. CASE StartRelease
      <3>1. release' = [pc |-> "build", wheel |-> None, status |-> "FAIL"]
        BY <2>2 DEF StartRelease
      <3> QED
        BY <3>1
    <2>3. CASE NewRelease
      BY <2>3 DEF NewRelease, Idle
    <2> QED
      BY <1>4, <2>1, <2>2, <2>3
  <1>5. CASE Edit \/ Commit \/ Build \/ Qualify \/ Publish \/ UNCHANGED vars
    <2>1. release' = release
      BY <1>5 DEF Edit, Commit, Build, BuildAlone, ReadStatus, Identify, Compile, CopyBundle,
         RecheckSource, BuildWheel, FinishBuild, StopBuild, TakeWheel, Untouched, Qualify,
         QualifyAlone, Installation, Phase, Device, NativeGraph, ChooseFlare, Raise, Dismiss,
         Elsewhere, Publish, vars
    <2> QED
      BY <1>1, <2>1
  <1> QED
    BY <1>2, <1>3, <1>4, <1>5 DEF Next, Release

LEMMA NamedStep ==
  ASSUME BuildInv, QualificationInv, Named, [Next]_vars
  PROVE  Named'
  <1>1. \A i \in 1..Len(wheels) : i \in 1..Len(wheels')
    BY RecordsKept
  <1>2. build'.pc = "built" => build'.wheel \in 1..Len(wheels')
    BY BuiltNamed
  <1>3. qualification'.pc # "idle" => qualification'.identity.wheel \in 1..Len(wheels')
    BY <1>1, IdentityKept DEF Named
  <1>4. ASSUME NEW s \in summaries' PROVE s.identity.wheel \in 1..Len(wheels')
    BY <1>1, NewSummary DEF Named
  <1>5. release'.pc \in {"install", "qualification"} =>
          release'.wheel \in 1..Len(wheels') /\ ~wheels'[release'.wheel].dirty
    BY ReleaseNamed
  <1> QED
    BY <1>2, <1>3, <1>4, <1>5 DEF Named

\* A release ends with the status of a summary whose identity it compared.
LEMMA ConcludeSound ==
  ASSUME BuildInv, QualificationInv, Named, ReleaseSound, ConcludeRelease
  PROVE  ReleaseSound'
  <1> DEFINE status == Concluded(qualification)
  <1>1. /\ release.pc = "qualification" /\ qualification.pc = "ended"
        /\ release' = [release EXCEPT !.pc = "ended", !.status = status]
        /\ UNCHANGED <<summaries, wheels>>
    BY DEF ConcludeRelease
  <1>2. /\ status \in Status
        /\ status # "FAIL" => /\ qualification.status # None /\ status = qualification.status
                              /\ OfThisBuild(qualification.identity)
    BY <1>1, ConcludedStatus
  <1> HIDE DEF status
  <1>3. release'.pc = "ended" /\ release'.status = status /\ release'.wheel = release.wheel
    BY <1>1, ReleasingTypes DEF QualificationInv, Releasing
  <1>4. release.wheel \in 1..Len(wheels) /\ ~wheels[release.wheel].dirty
    BY <1>1 DEF Named
  <1>5. ASSUME status # "FAIL" PROVE \E s \in summaries : Admits(s, status, release.wheel)
    <2>1. PICK s \in summaries : /\ s.identity = qualification.identity
                                 /\ s.status = qualification.status
      BY <1>1, <1>2, <1>5 DEF QualificationInv, QualificationProgress
    <2> QED
      BY <1>2, <1>5, <2>1 DEF Admits, OfThisBuild
  <1> QED
    BY <1>1, <1>3, <1>4, <1>5 DEF ReleaseSound, Admits

LEMMA ReleaseSoundStep ==
  ASSUME BuildInv, QualificationInv, Named, ReleaseSound, [Next]_vars
  PROVE  ReleaseSound'
  <1>1. CASE ConcludeRelease
    BY <1>1, ConcludeSound
  <1>2. CASE StartRelease \/ NewRelease
    <2>1. CASE StartRelease
      <3>1. release' = [pc |-> "build", wheel |-> None, status |-> "FAIL"]
        BY <2>1 DEF StartRelease
      <3>2. release'.pc = "build" /\ release'.status = "FAIL"
        BY <3>1
      <3> QED
        BY <3>2 DEF ReleaseSound
    <2>2. CASE NewRelease
      <3>1. release'.pc = "idle"
        BY <2>2 DEF NewRelease, Idle
      <3> QED
        BY <3>1 DEF ReleaseSound
    <2> QED
      BY <1>2, <2>1, <2>2
  <1>3. CASE Install
    <2>1. release.pc = "install" /\ release' = [release EXCEPT !.pc = "qualification"]
      BY <1>3 DEF Install
    <2>2. release'.pc = "qualification" /\ release'.status = release.status
      BY <2>1, ReleasingTypes DEF QualificationInv, Releasing
    <2> QED
      BY <2>1, <2>2 DEF ReleaseSound
  <1>4. CASE BuiltWheel
    <2>1. release.pc = "build" /\ release \in Releasing
      BY <1>4, ReleasingTypes DEF BuiltWheel, QualificationInv
    <2>2. \/ release' = [release EXCEPT !.pc = "ended"]
          \/ release' = [release EXCEPT !.pc = "install", !.wheel = build.wheel]
      BY <1>4 DEF BuiltWheel
    <2>3. release'.status = "FAIL"
      BY <2>1, <2>2 DEF ReleaseSound, Releasing
    <2> QED
      BY <2>3 DEF ReleaseSound
  <1>5. CASE release' = release
    <2>1. ASSUME release.pc = "ended", release.status # "FAIL"
          PROVE  /\ release.wheel \in 1..Len(wheels') /\ ~wheels'[release.wheel].dirty
                 /\ \E s \in summaries' : Admits(s, release.status, release.wheel)'
      <3>1. PICK s \in summaries : Admits(s, release.status, release.wheel)
        BY <2>1 DEF ReleaseSound
      <3>2. s.identity.wheel \in 1..Len(wheels) /\ release.wheel \in 1..Len(wheels)
        BY <2>1 DEF Named, ReleaseSound
      <3>3. /\ wheels'[s.identity.wheel] = wheels[s.identity.wheel]
            /\ release.wheel \in 1..Len(wheels') /\ wheels'[release.wheel] = wheels[release.wheel]
        BY <3>2, RecordsKept
      <3>4. s \in summaries'
        BY QualificationsStep
      <3> QED
        BY <1>5, <2>1, <3>1, <3>3, <3>4 DEF ReleaseSound, Admits
    <2> QED
      BY <1>5, <2>1 DEF ReleaseSound, Admits
  <1>6. CASE Edit \/ Commit \/ Build \/ Qualify \/ Publish \/ UNCHANGED vars
    <2>1. release' = release
      BY <1>6 DEF Edit, Commit, Build, BuildAlone, ReadStatus, Identify, Compile, CopyBundle,
         RecheckSource, BuildWheel, FinishBuild, StopBuild, TakeWheel, Untouched, Qualify,
         QualifyAlone, Installation, Phase, Device, NativeGraph, ChooseFlare, Raise, Dismiss,
         Elsewhere, Publish, vars
    <2> QED
      BY <1>5, <2>1
  <1> QED
    BY <1>1, <1>2, <1>3, <1>4, <1>6 DEF Next, Release

-----------------------------------------------------------------------------
(***************************************************************************)
(* What is published.                                                      *)
(***************************************************************************)

Qualified(p) ==
  LET w == wheels[p.wheel] IN
  /\ w.revision = p.revision /\ ~w.dirty
  /\ w.python = commits[p.revision].python
  /\ w.slipped \/ FromRevision(w)
  /\ \E s \in summaries : /\ s.identity.wheel = p.wheel
                           /\ Passed(s.evidence, "installation") /\ Passed(s.evidence, "host")

\* The published assets, once qualified, stay so.
LEMMA QualifiedKept ==
  ASSUME BuildInv, [Next]_vars, summaries \subseteq summaries',
         NEW p, p.wheel \in 1..Len(wheels), p.revision \in 1..Tip, Qualified(p)
  PROVE  p.wheel \in 1..Len(wheels') /\ p.revision \in 1..Tip' /\ Qualified(p)'
  <1>1. /\ p.wheel \in 1..Len(wheels') /\ wheels'[p.wheel] = wheels[p.wheel]
        /\ p.revision \in 1..Tip' /\ commits'[p.revision] = commits[p.revision]
    BY RecordsKept
  <1>2. wheels[p.wheel].revision = p.revision
    BY DEF Qualified
  <1>3. FromRevision(wheels[p.wheel]) => FromRevision(wheels[p.wheel])'
    BY <1>1, <1>2 DEF FromRevision
  <1> QED
    BY <1>1, <1>2, <1>3 DEF Qualified, FromRevision

\* What verify_serving_release.py accepts is qualified.
LEMMA AcceptedQualified ==
  ASSUME BuildInv, QualificationInv,
         NEW revision \in 1..Tip, NEW wheel \in 1..Len(wheels), NEW qualified \in summaries,
         CheckedAssets(revision, wheel, qualified), Bound(revision, wheel)
  PROVE  Qualified([revision |-> revision, wheel |-> wheel])
  <1> DEFINE p == [revision |-> revision, wheel |-> wheel]
  <1>1. p.revision = revision /\ p.wheel = wheel
    OBVIOUS
  <1> HIDE DEF p
  <1>2. /\ wheels[wheel].revision = revision /\ ~wheels[wheel].dirty
        /\ wheels[wheel].python = commits[revision].python
        /\ qualified.status = HostOnlyPass /\ qualified.identity.wheel = wheel
    BY DEF CheckedAssets, Bound
  <1>3. wheels[wheel].slipped \/ FromRevision(wheels[wheel])
    BY <1>2 DEF BuildInv, WheelsSound
  <1>4. {"installation", "host"} \subseteq Claimed(HostOnlyPass)
    BY DEF Claimed, HostOnlyPass, Complete
  <1>5. Passed(qualified.evidence, "installation") /\ Passed(qualified.evidence, "host")
    BY <1>2, <1>4 DEF QualificationInv, SummariesSound, Settled
  <1>6. Qualified(p)
    BY <1>1, <1>2, <1>3, <1>5 DEF Qualified
  <1> QED
    BY <1>6 DEF p

LEMMA ReleaseStep ==
  ASSUME ReleaseInv, [Next]_vars
  PROVE  ReleaseInv'
  <1> USE DEF ReleaseInv
  <1>1. /\ BuildInv' /\ QualificationInv' /\ summaries \subseteq summaries'
        /\ Named' /\ ReleaseSound'
    BY BuildsStep, QualificationsStep, NamedStep, ReleaseSoundStep
  <1>2. ASSUME NEW p \in published
        PROVE  p.wheel \in 1..Len(wheels') /\ p.revision \in 1..Tip' /\ Qualified(p)'
    <2>1. p.wheel \in 1..Len(wheels) /\ p.revision \in 1..Tip /\ Qualified(p)
      BY DEF PublishedSound, PublishedQualified, Qualified
    <2> QED
      BY <1>1, <2>1, QualifiedKept
  <1>3. CASE Publish
    <2> PICK revision \in 1..Tip, wheel \in 1..Len(wheels), qualified \in summaries :
          /\ CheckedAssets(revision, wheel, qualified) /\ Bound(revision, wheel)
          /\ published' = published \union {[revision |-> revision, wheel |-> wheel]}
      BY <1>3 DEF Publish
    <2> DEFINE q == [revision |-> revision, wheel |-> wheel]
    <2>1. q.wheel \in 1..Len(wheels) /\ q.revision \in 1..Tip /\ Qualified(q)
      BY AcceptedQualified
    <2> HIDE DEF q
    <2>2. q.wheel \in 1..Len(wheels') /\ q.revision \in 1..Tip' /\ Qualified(q)'
      BY <1>1, <2>1, QualifiedKept
    <2>3. published' = published \cup {q}
      BY DEF q
    <2> QED
      BY <1>1, <1>2, <2>2, <2>3 DEF PublishedSound, PublishedQualified, Qualified
  <1>4. CASE ~Publish
    <2>1. published' = published
      BY <1>4 DEF Next, Edit, Commit, Build, BuildAlone, ReadStatus, Identify, Compile, CopyBundle,
         RecheckSource, BuildWheel, FinishBuild, StopBuild, TakeWheel, Untouched, Qualify,
         QualifyAlone, Installation, Phase, Device, NativeGraph, ChooseFlare, Raise, Dismiss,
         Elsewhere, Release, StartRelease, BuiltWheel, Install, ConcludeRelease, NewRelease, vars
    <2> QED
      BY <1>1, <1>2, <2>1 DEF PublishedSound, PublishedQualified, Qualified
  <1> QED
    BY <1>3, <1>4

LEMMA InitRelease == Init => ReleaseInv
  <1>1. Init => PublishedSound /\ PublishedQualified
    BY DEF Init, PublishedSound, PublishedQualified
  <1> QED
    BY <1>1, InitBuilds, InitQualifications DEF ReleaseInv

THEOREM ReleaseInvariant == Spec => []ReleaseInv
  <1>1. ReleaseInv /\ [Next]_vars => ReleaseInv'
    BY ReleaseStep
  <1> QED
    BY <1>1, InitRelease, PTL DEF Spec

-----------------------------------------------------------------------------
(***************************************************************************)
(* What the invariant says of receipts, verdicts and publications.         *)
(***************************************************************************)

\* A receipt that says source_dirty=false names the revision its library, its
\* headers and its Python files were all built from, whatever was edited or
\* committed meanwhile, unless the edit fell between `git status` and the hashes.
\* (build_serving_wheel.py main)
THEOREM CleanReceiptsNameRevisions == Spec => []CleanReceiptNamesRevision
  <1>1. ReleaseInv => CleanReceiptNamesRevision
    BY DEF ReleaseInv, BuildInv, WheelsSound, CleanReceiptNamesRevision
  <1> QED
    BY <1>1, ReleaseInvariant, PTL

\* Two clean receipts of one revision that did not slip are of one content.
LEMMA SameRevisionSameContent ==
  ASSUME WheelsSound, NEW i \in 1..Len(wheels), NEW j \in 1..Len(wheels),
         wheels[i].revision = wheels[j].revision,
         ~wheels[i].dirty, ~wheels[i].slipped, ~wheels[j].dirty, ~wheels[j].slipped
  PROVE  SameContent(wheels[i], wheels[j])
  BY DEF WheelsSound, FromRevision, SameContent

\* No verdict exceeds its evidence: every phase a summary claims ran and passed.
\* A release that does not fail built a clean wheel and claims what a summary
\* claims of a package in the release's own environment that names the revision
\* it built, and has the same content unless a receipt slipped or the qualified
\* wheel is dirty (revisions are compared, not wheels).
\* (qualify_serving_wheel.py main, serving_qualification.py, build_install_serving.py)
THEOREM VerdictsHaveEvidence == Spec => []VerdictHasEvidence
  <1>1. ASSUME ReleaseInv PROVE VerdictHasEvidence
    <2>1. \A s \in summaries, name \in Phases :
             name \in Claimed(s.status) =>
               Passed(s.evidence, name) \/ (name = "public_default" /\ Target # "ppu10")
      BY <1>1 DEF ReleaseInv, QualificationInv, SummariesSound, Settled
    <2>2. ASSUME release.pc = "ended", release.status # "FAIL"
          PROVE  /\ ~wheels[release.wheel].dirty
                 /\ \E s \in summaries : /\ s.status = release.status
                                          /\ Qualifies(s, wheels[release.wheel])
      <3>1. release.wheel \in 1..Len(wheels) /\ ~wheels[release.wheel].dirty
        BY <1>1, <2>2 DEF ReleaseInv, ReleaseSound
      <3>2. PICK s \in summaries : Admits(s, release.status, release.wheel)
        BY <1>1, <2>2 DEF ReleaseInv, ReleaseSound
      <3>3. s.identity.wheel \in 1..Len(wheels)
        BY <1>1 DEF ReleaseInv, Named
      <3>4. Qualifies(s, wheels[release.wheel])
        BY <1>1, <3>1, <3>2, <3>3, SameRevisionSameContent
           DEF ReleaseInv, BuildInv, Admits, Qualifies
      <3> QED
        BY <3>1, <3>2, <3>4 DEF Admits
    <2> QED
      BY <2>1, <2>2 DEF VerdictHasEvidence
  <1> QED
    BY <1>1, ReleaseInvariant, PTL

\* What is published was built clean from the tagged revision, native part
\* included unless its receipt slipped, and is itself the wheel whose host
\* qualification passed.  (verify_serving_release.py verify)
THEOREM PublicationsAreQualified == Spec => []PublishedQualified
  <1>1. ReleaseInv => PublishedQualified
    BY DEF ReleaseInv
  <1> QED
    BY <1>1, ReleaseInvariant, PTL
=============================================================================
