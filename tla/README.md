# TLA+ models of actlizeLA

actlizeLA runs the linear-attention layers of a speculative serving loop on CUDA
and PPU devices. The loop hands the library *device* vectors (packed row starts,
state slots, accepted counts, epochs) and calls it many times per round; the
library validates them on the device, reports through error vectors, and must
never let one bad row, one retried call or one failed launch spoil the recurrent
state of another request. Around it stands a Python side that prepares the calls,
puts them into graphs, finds and loads the right binary, and builds, qualifies and
releases it. Those protocols are what is modelled here. The floating-point
arithmetic is not: a recurrent state is the sequence of inputs it absorbed, a
record is the round and the base state it was computed from.

Paths below are relative to the repository root.

## 1. Inventory

| part | code | state it keeps | operations |
|---|---|---|---|
| GDN transaction V2 | `csrc/serving/gdn.cu`, `gdn_transaction_v2.h`, `actlize_la/serving/gdn_transaction.py` | state pool, record windows (keys, decays, deltas), recorded length/slot, ready and consumed epochs, errors | `ala_gdn_verify_v2`, `ala_gdn_commit_v2` |
| GDN launches | `gdn.cu`, `prefill.cu`, `serving/gdn.py`, `gdn_core.py` | state pool, outputs, records, errors | `ala_gdn_run`, `ala_gdn_commit`, `ala_gdn_checked_v2`, `ala_prefill_run`, `ala_prefill_checked_v2` |
| Short convolution V1 | `aux_shortconv.cu`, `serving/auxiliary.py` | per-slot windows, snapshots, slot stamps | prefill, verify, snapshot, restore-zero |
| Legacy conv history | `conv_history.cu`, `serving/conv_history.py` | snapshots, recorded slots | capture, rollback-zero |
| PLE hash, pointwise | `aux_hash.cu`, `aux_pointwise.cu`, `serving/geometry.py` | none (one kernel each) | hash, norms, gates |
| Paged QSA | `csrc/serving/qsa.cu`, `serving/qsa.py` | paged KV and compressed caches, raw ring with tags, anchors | `ala_qsa_run` (seven kernels) |
| Prepared bridge | `serving/_native.py`, `gdn.py`, `gdn_transaction.py`, `gdn_core.py`, `conv_history.py`, `auxiliary.py`, `qsa.py`, `flare.py` | weak table of plans by handle, operands bound at preparation | bind, prepare, trace, collect, rebind, launch |
| Loading and dispatch | `_library.py`, `backends/*.py`, `gdn_route.py`, `gdn_interface.py`, `_gdn_ppu10.py`, `serving/_abi.py` | cached modules and paths, image identities | forward, load, audit, report a route |
| SM90 build and bundle | `tools/build_gdn_sm90.py`, `tools/build_sm90_bundle.py`, `sm90.py`, `sm90_auto.py`, `sm90_policy.py` | build directories with receipts, bundle, registration, caches | build, assemble, register, load, dispatch |
| Wheel, qualification, release | `tools/build_serving_wheel.py`, `qualify_serving_wheel.py`, `build_install_serving.py`, `verify_*.py`, `serving/device.py` | wheels with receipts, summaries, published assets | build, qualify, release, publish |
| SM90 fused kernel | `csrc/backends/sm90` | shared-memory pipelines, named barriers | one persistent kernel |
| Chunk GDN, PPU backends | `csrc/gdn_chunk`, `csrc/backends/ppu*`, `include/gdn_qsa` | none between calls | tuned chunk kernels |
| Dense QSA, output gate | `csrc/qsa_core`, `csrc/qsa_indexer`, `csrc/output_gate` | none between calls | attention, top-k, gate |

How they interact: every serving call is a short sequence of kernels on one
stream. The first validates each row and writes the row's error; later kernels
read that error vector and skip failed rows. Calls are chained by passing one
call's errors as the next call's `upstream_errors`, so a convolution fault
suppresses the row's verification, and that its commit. The serving loop owns
slots, acceptance, `previous_accepted` and epochs; the library makes no acceptance
decision. Python prepares a plan once (shapes, aliasing, pointers); a graph holds its
handle and two operand lists, which the launch cuts up again by position. The
binary under it comes from one of several providers chosen by environment,
request and device, each with its own loader and cache, while other processes may
rebuild or upgrade the files. Those files come out of the two build chains, whose
receipts the loader, the qualification and the publisher trust.

What is hard: rows of one kernel run concurrently and in any order; a verification
and its commit are separated by a host decision, during which the row may go
inactive, be verified again by mistake, or be retried; any kernel of a call may
fail to launch, leaving the earlier ones enqueued; history is recovered by an
*offset* instead of a copy, so an error shows several rounds later. On the host side
nothing is atomic: a hash, an open and an audit are separate reads of files that
change; a build that stops leaves half of what it was making; an edit lands in
the middle of a build that takes minutes.

What makes each part correct:

* Transaction: the records of a round are consumed once, in the round and slot
  they were made for, on the state they were computed from; nothing loses records
  that are outstanding; rounds can always be resolved.
* Launches: whatever passes the admission checks is independent of how row blocks
  interleave; a rejected row writes nothing.
* Short convolution: each convolution starts from exactly the last `H` inputs its
  request consumed; a round that accepted nothing leaves no trace.
* Paged QSA: the caches hold the sequence, whatever was drafted, rejected or
  refused; a caller that is right is admitted; a refused request loses nothing.
* Prepared bridge: every kernel gets the operands that were prepared, a graph may
  reorder nodes without changing what they read, an expired handle stays dead.
* Loading: what runs is what the environment selects, for the right backend, and
  what is reported is what is mapped.
* SM90 build: a complete receipt is true, a bundle is one build, a shape runs the
  configuration that was measured for it.
* Release: no receipt, verdict or published asset claims more than its evidence.

## 2. Modules

| module | models | role |
|---|---|---|
| `GdnGuards` | `validate_gdn`, `validate_commit` | pure operators on the operands of a launch: which error a row gets, which stamps are kept |
| `GdnTransaction` | verify/commit V2, kernel by kernel | state machine; EXTENDS `GdnGuards` |
| `VerificationRounds` | - | abstract specification: rows open rounds on slots, resolving one appends its prefix once |
| `GdnLaunch` | V1 and checked runs, native prefill, V1 commit | state machine of row blocks; EXTENDS `GdnGuards` |
| `ShortConv` | `aux_shortconv.cu`, `conv_history.cu` | state machine of rounds with snapshot, convolution, acceptance, restore |
| `PagedQsa` | `qsa.cu` | state machine of launches, sequences and their pages |
| `ServingOperands` | operand lists of `serving/*.py` | pure operators: what each operator checks, lists, unmarshals; what its kernels touch |
| `PreparedPlan` | `_native.py`, `PreparedAuxiliary` | pure operators: signatures, aliasing, re-checks at launch |
| `ServingGraph` | `flare.py`, `_native.py` | state machine of preparation, graph and replay; EXTENDS both |
| `NativeImages` | loading and dispatch | state machine of one process and its files |
| `Sm90Bundle` | SM90 build, bundle, dispatch | state machine of a builder and a loading process |
| `ServingRelease` | wheel, qualification, release | state machine of checkout, builds, verdicts |
| `GdnTransactionProofs` | - | theorems on `GdnTransaction`, and that it implements `VerificationRounds` |
| `GdnLaunchProofs`, `ShortConvProofs`, `PagedQsaProofs` | - | theorems on the other device protocols |
| `ServingGraphProofs` | - | theorems on every operator's operand lists and on the graph that runs them |
| `NativeImagesProofs`, `Sm90BundleProofs`, `ServingReleaseProofs` | - | theorems on loading and on the build chains |
| `MC*` | - | operands for TLC |

### GdnGuards

A launch is a record of its device vectors. `LaunchError` is `validate_gdn`
without a V2 guard, `CheckedError` adds overlapping intervals and the upstream
error, `VerifyError` adds the epoch test, `KeepRecords` is the condition under
which V2 leaves record stamps alone. `PrefixError` and `CommitError` are
`validate_commit` without and with a guard. The order of the tests, and the
later ones overriding the earlier (`Conflict` over `Slot` and `Prefix` in a commit),
is the code's.

### GdnTransaction

| variable | code |
|---|---|
| `state[s]` | recurrent state of slot `s`, as the prefixes replayed on it |
| `epochs`, `ready`, `consumed` | the caller's and the library's epoch vectors |
| `recLen`, `recSlot` | `recorded_lengths`, `recorded_slots` |
| `work[r]` | record window: the round of its keys/decays, of its deltas, length, base state |
| `errors` | the verification's error vector |
| `call`, `next` | operands of the call in progress, its next kernel |

`VerifyV2` is the call with its validation kernel, then `Prepare`, `Recurrent`,
`StampReady`; `CommitV2` is the call with `validate_commit`, then `Apply`,
`StampConsumed`. `LaunchFails` ends a call at any kernel in `FailingLaunches`, with
what was enqueued before it done. A launch that fails before the validation
kernel does nothing, and so does a rejected descriptor (return -1): no action.
Calls do not overlap: they are issued to one stream by one loop.

`AdvanceEpochs` and `SlotsOwned` are the caller. Rounds only grow; two rows of a
call are on different slots, and a row is not put on a slot another row has
outstanding records on (docs/FLARE_FLASHNEXT_AUX.md:99-100; no kernel checks it).
Everything else the caller passes is arbitrary: live counts, intervals, null
slots, upstream errors, commits of the wrong slot, round or length.

`VerificationRounds` has no epochs, windows or kernels: a row has at most one round
open, on a slot no other row has a round open on, and resolving it appends one
prefix. The refinement maps a row's open round to its outstanding records
(`Pending`), until `Apply` has run for a row that `StampConsumed` will stamp; that is
where the round is resolved (`Resolved`).

### GdnLaunch

Each row's block loads (`LoadState`, `GatherState`, `LoadCommit`) and stores
(`StoreState`, `ScatterPrefill`, `StoreCommit`) in separate steps, interleaved
with all other rows. One (head, value) block stands for all blocks of a row: they
touch disjoint parts of a slot and read the same metadata. The native prefill
(PPU) is three kernels, each of which starts when the one before is done;
other targets run the fused recurrence, which is the nondeterministic `native`.
The chunk forward touches dense scratch only, so it is `ForwardPrefill`.

### ShortConv

A window is exact: `H + Drafts` entries, inputs numbered and never reused. `Capture`,
`Verify`, `Restore` (acceptance by the loop), `RestoreZero` are the calls;
`CaptureRow`, `Convolve`, `RestoreRow` the row blocks in any order. `num_tokens` is
taken at its maximum `Tokens`; a smaller one only rejects more rows. `SlotsOwned`
is what the serving loop passes: a row's own slot, one that is null or out of range,
or the own slot of another row present in the same call. `LaunchFails`
drops a round before acceptance and repeats a restore after it. `Legacy` selects
the admission and stamps of `conv_history.cu`; the convolution between legacy
capture and rollback belongs to Flare/b12x and is taken to be this repository's
own. `found` is a history variable: the window as the round found it.
`AnyPrefill = FALSE` keeps prefills to rows whose last verification accepted one
input (or that have none): see the second finding.

### PagedQsa

A key is named by slot, position and launch, so that a rejected draft and the key
that replaces it differ. `keys`, `pooled`, `ring`, `tags`, `anchors` are the caches
of `qsa_cache_specs`; `tables` and `supplied` are the caller's page lists and the
sequence it means. `Admitted` is `validate_qsa` part by part. A launch is one action
that runs the first `n` of the seven kernels (`Ran`): no kernel of one call is
concurrent with another, and rows of one kernel write disjoint cells once
`Exclusive` holds, which `CacheHoldsSequence` would notice otherwise. `Start`, `Serve`,
`FailingLaunch` and `WrongCaller` are the serving loop: it restarts slots (also behind
a shared prefix page), repeats, rejects, and gets a count, slot, page, length or
position wrong. An honest caller claims at most what it supplied and takes nothing
back of a prefill, whose count is 1 (`Askable`; docs/FLARE_SERVING.md:176-180). Where
its next interval may begin is `Resumes`: anywhere from the start of a verified interval,
only behind the end of a prefilled one (`verified`). The same bounds what may be
shared: a sequence begins behind a page only once the other can no longer rewrite it.
An accepted count above what was supplied is caught by the tags only while the missing keys belong
to the incomplete group; a larger claim is undetected and out of the model. After
a launch that failed behind `retain_ring`, the caller is taken to read the anchor
back: a blind retry with the old count is refused (`qsa.cu:60`).
What protects a sequence from a wrong page is `Exclusive` (`qsa.cu:108-132`), and it compares the
pages a row appends to with those visible to the other non-empty requests of the *same*
launch. A wrong page that belongs to a sequence outside the launch is seen by no check: not to
hand one out is the caller's contract, and `WrongCaller` keeps to it.

### ServingOperands, PreparedPlan, ServingGraph

An operator is its kind, mode, target and the optional operands it has. For each of
the fourteen kinds `ServingOperands` gives the structure's fields, the two lists in
binding order, the way back from the lists to named arguments, and, from the CUDA
sources, what the kernels read and write. A tensor is a view of cells, so aliasing is
exact; `PreparedPlan` has the interval merge of `reject_aliases` as it is written, step by
step (`Pass`).
`ServingGraph` prepares a program of Flare calls (`Prepare`), captures it (`Capture`
keeps only handles), may collect owners and prepare others (`Collect`,
`PrepareAgain`), and launches nodes in every order that keeps declared conflicts
(`LaunchNext`), with the operands of the capture or with others (`Offered`).
`ProgramAssumption` says what a program is: a list of bindings that `flare.py` has, each
with the parameters it takes (`Callable`), and of the caller's own operators.

### NativeImages

One process makes calls (`Begin`) that resolve a route and a provider, hit a cache or
load: `ReadSeal`, `ReadDigest`, `ReadManifest`, `ReadResources` are the reads of
`_inspect`, `Hash`, `Open`, `Remember`, `Construct` the rest. `Replace` puts a new inode
under a name between any two of them. `Opened` is the dynamic linker: a path mapped
before is not read again, a needed library is the mapped one of its name. In-place
rewriting of a mapped file is not modelled (linkers and pip replace), nor are
libraries that share a SONAME under other names. The wheel's files are upgraded to builds
made later (`made`): a wheel that is replaced and then put back within one load would
carry the digest compared first. PPU chunk and WY extensions are built for PPU1.0
only (`ExtensionTargets`, cmake/backends/ppu_aiu.cmake:2).

### Sm90Bundle

Versions stand for hashes. A builder writes receipt, object, extension and complete
receipt in that order, for one member or for a bundle; `Stop` ends it anywhere, `Edit`
changes source or headers, `AdmitReuse` decides whether an object is kept. `Assemble`
and `Register` publish. A loading process reads receipts and extensions member by
member beside all this and dispatches by shape; `Restart` is a new process.

### ServingRelease

A checkout is edited and committed while a wheel is built; each read of the tree
(`ReadStatus`, `Identify`, `Compile`, `CopyBundle`, `RecheckSource`, `BuildWheel`) is an
action. A qualification runs the phases of `qualify_serving_wheel.py` with whatever
the environment presents: the package of any finished wheel, found in the
environment made for it, among the system's packages that environment also sees, or
outside site-packages; test reports with
skipped or missing files, device programs that pass without having run their cases,
another device. What it found is the summary's `identity`, read once at the start
(`StartQualification`); pip and the import path are external, and the package is not
replaced while it is qualified. `Release` is `build_install_serving.py`, which compares
that identity with the receipt before it takes the verdict (`OfThisBuild`): the revision
and the private environment. The target is not compared in the model, since the identity
is asked for by target and raises for another. Neither `source_dirty` nor
`manifest_sha256` is compared there, so two builds of one revision are not told
apart. `Publish` is
`verify_serving_release.py` over any collected wheel, summary and revision. It asks
for `HOST_PASS_DEVICE_NOT_RUN` here; the publisher's own manifest spells that status
`HOST_QUALIFIED_DEVICE_NOT_RUN`, because its qualification file is written by hand from
the summary, and the copy is taken to be faithful.

## 3. Runs

| run | checks | size |
|---|---|---|
| `MCGdnTransaction` | `TypeOK`, `ConsumedOnce`, `RecordsCommittable`, `RoundsResolvable`, `OutstandingRetained`, `ImplementsRounds`, `StrandedForGood` | 1.3 M states, 80 s |
| `MCGdnRecovery` | `RecordsCommittable`, `OutstandingRetained`, `ImplementsRounds`, `RoundsResolved` | 162 k states, 17 s |
| `MCGdnStampFails` | `ConsumedOnce`, violated | finding 1 |
| `MCGdnLaunch` | `TypeOK`, `StateScheduleFree`, `OutputsOwned`, `CommitScheduleFree` | 18 k states, 19 s |
| `MCShortConv` | `TypeOK`, `HistoryExact`, `ZeroRoundUndone` | 1.25 M states, 73 s |
| `MCConvHistory` | `HistoryExact`, `ZeroRoundUndone` | 55 k states, 5 s |
| `MCPrefillAfterVerify` | `HistoryExact`, violated | finding 2 |
| `MCPagedQsa` | `CacheHoldsSequence`, `RightCallerAdmitted`, `RefusedChangeNothing` | 46 k states (symmetry), 100 s |
| `MCServingGraph` | `DataFlowPreserved`, `OperandsArrive`, `UpstreamHonoured`, `OverlapOnlyByRestride`, `PreparedIsAdmitted`, `ExpiredForGood` | 5.7 k states, 20 s |
| `MCNativeImages` | `ReportTruthful`, `ReportMatchesManifest`, `SelectionHonoured`, `RightBinaryRuns` | 2.8 M states, 85 s |
| `MCSm90Bundle` | `ReceiptTruthful`, `OneBuild`, `DispatchedConfiguration`, `PublishedWhole` | 3.5 M states, 120 s |
| `MCServingRelease` | `CleanReceiptNamesRevision`, `VerdictHasEvidence`, `PublishedQualified` | 6.5 M states, 100 s |

*MCGdnTransaction.* Two rows, two live slots and the null slot, windows of two,
two epochs per row, and calls with at most one irregular operand. Every guard
compares one row with at most one other, so two rows meet every case; two epochs
give a finished round, an open one and stale ones; `EarlyRounds` lets the caller
advance a round whose records are outstanding: such a row is stranded, which
`StrandedForGood` describes, and until that happens `RoundsResolvable` says that a
commit in the round of the records is accepted, for every vector of counts. Unused
workspaces hold arbitrary stamps (`Leftovers = {5}`, a slot and length that are both out of range).

*MCGdnRecovery.* One row, three epochs, every combination of operands, and any
kernel but the consumed stamp may fail to launch. Liveness is checked here:
`RoundsResolved` says that outstanding records are consumed in the end.

*MCGdnLaunch.* Three rows, because overlapping intervals need a malformed row
between two good ones. Source and destination slots cover shared, chained, null
and out-of-range cases for each mode; the model stops after one run, or after a
verification and its commit (`CHECK_DEADLOCK FALSE`: the state space of a launch is
acyclic, and the loop is in `GdnTransaction`).

*MCShortConv, MCConvHistory.* Two requests, three slots, `H = 3` (dilation 1),
two drafts, so intervals of one to three inputs and offsets zero to two; at most
`MaxInputs` inputs are issued, in packs of `Tokens = 4`: three rounds (two for the
legacy transport). An offset is wrong at the earliest in the round after the one
it was set in, and a stale snapshot needs one round to be taken, one to be spoilt
and one to be read; a round dropped by a failed launch issues no inputs. The legacy capture
stamps before it copies (`conv_history.cu:26`), but no round is restored from such a stamp: a failed
capture drops the round, and the next one stamps every row again. Deadlock is
not checked, since the input bound stops the run.

*MCPagedQsa.* Groups of two keys, pages and ring of four, tables of two pages, two
slots and two requests, three launches. That keeps the proportions that matter:
a page holds several groups, the ring holds an incomplete group, the accepted keys
and one more (`Geometry`), a prefill of five is longer than the ring and wraps it,
and four pages force two sequences to share or exchange pages. A wrong anchor or a
lost raw key shows in the launch after the next, hence three; one failing launch or
one mistake of the caller per behaviour, in either place. Two slots are symmetric.

*MCServingGraph.* Five programs of Flare calls (a transactional layer with
convolution history, the legacy round, prefill with checkpoints, hash and QSA, the
retained core) are replayed in every order their declarations allow; every
operator alone has each operand's shape, pitch or address varied; geometries go
around every bound, no heads included; one program loses and replaces its owners. Programs fix the
operator set, so orders of more than two calls of one family add nothing.

*MCNativeImages.* Two extensions in two directories under one relative path, each
with a device library of the same name; serving libraries of the right and the wrong
target; PPU1.5 extensions of both; and the wheel. Three replacements of one group
(extension and its library, or seal, manifest and library) reach every torn mix of
an upgrade, to a later wheel and to one for another target, whose library may so come under
the manifest of the first between two reads. There two checks overlap: without the target test
of `InspectAbi` for the wheel, the second inspection still refuses; the mutant shows the
test on the library a variable names, which is inspected only once. Two module objects reach a cache hit and a reload. `ReportTruthful` and
`ReportMatchesManifest` leave out a module whose path was already mapped before its
load began (`fresh`): after a failed first load or a cleared cache, the linker
returns the old mapping and the new record describes the new file.

*MCSm90Bundle.* Two configurations, two versions of source and of headers: a member
of each version is enough to mix builds. `OneBuild` leaves out a load during which
a member was linked (`overtaken`: `sm90.py:62` opens after it hashed) and a process
that had mapped a member before.

*MCServingRelease.* Two edits, one commit, two wheels, one qualification: an edit
before and one during a build, and a pair of wheels, of two revisions too, whose assets
can be mixed and of which a release can meet the wrong one. `VerdictHasEvidence` ties a
release to a summary of a package in its own environment and of its own revision; that
both wheels are then of one content needs both receipts clean and not slipped, and is
claimed only then. Its mutant leaves the comparison of revisions out; one that misses a
required test file which never ran (`MutantJunitVerdict`) violates its first part.
`CleanReceiptNamesRevision` leaves out an edit that falls between `git status` and the
hashing of the tree (`slipped`); one that is undone within the build is seen by
neither. The publisher compares Python files with the tag, and the native part only
through the receipt, so `PublishedQualified` has the same exemption.

These five state safety only. A loader, a build or a release that stops owes
nothing to anyone: each is a script that the next one repeats. A launch of QSA that
fails is the caller's to repeat, as in the transaction. Where deadlock is not
checked, a bound on launches, replacements or builds ends the run.

### Fairness

`RoundsResolved` assumes weak fairness of each kernel (a stream executes what was
launched) and strong fairness of two joint steps: a commit of the outstanding
records with operands that are in order, and its replay. They say that the caller
does not abandon records and that a launch does not fail every time it is tried.
Both are outside the library; without them nothing resolves a round. The
interesting half is the library's: that such a commit stays *acceptable* whatever
happened in between. That half is a safety property, `RoundsResolvable`, and is proved
for every caller. `EarlyRounds = FALSE` in the liveness run, since a caller that advances the
epoch of outstanding records has made them uncommittable for good (`gdn.cu:238`).

### Findings

1. **A commit is replayed twice when its last launch fails** (`gdn.cu:428`).
   `ala_gdn_commit_v2` enqueues the replay, then launches the consumed stamp. If only
   that launch fails, the caller sees an error, the state is changed and the
   epoch is still open; the retry passes every check. The safety theorems about what
   a replay does therefore assume `"stampConsumed" \notin FailingLaunches`.
   `RoundsStayResolvable` does not: that the retry is accepted is what it says, and
   after this failure it is accepted once too often.
2. **A prefill does not skip an accepted prefix** (`aux_shortconv.cu:93`). After a
   verification with `previous_accepted > 1`, only another verification finds the right
   history. The document promises the offset for "the next call".

## 4. Proofs

Each theorem holds for every value of the constants: any number of rows, slots, tokens,
pages, files, configurations or edits, any operands, any bound. They rest on the named
assumptions in the modules (TLC evaluates them in every run) and on the caller's
contracts that are guards of the models: `SlotsOwned` in `GdnTransaction` and
`ShortConv`, `Askable` in `PagedQsa`, `Callable` in `ServingGraph`. TLC checked each
inductive invariant on an instance before it was proved.

| theorem | statement | assumes |
|---|---|---|
| *GdnTransactionProofs* | | |
| `TypeCorrect` | `Spec => []TypeOK` | - |
| `RoundsOrdered` | `Spec => []RoundInv` | - |
| `RecordsStayCommittable` | `Spec => []RecordsCommittable` | consumed stamp launches |
| `RecordsRetained` | `Spec => OutstandingRetained` | - |
| `RoundsStayResolvable` | `Spec => []RoundsResolvable` | - |
| `StrandedRowsStay` | `Spec => StrandedForGood` | - |
| `RoundsConsumedOnce` | `Spec => []ConsumedOnce` | consumed stamp launches |
| `KernelsImplementRounds` | `Spec => ImplementsRounds` | consumed stamp launches |
| *GdnLaunchProofs* | | |
| `LaunchInvariant` | `Spec => []LaunchInv` | - |
| `LaunchTypes` | `Spec => []TypeOK` | - |
| `RunsAreScheduleFree` | `Spec => []StateScheduleFree` | - |
| `GuardedOutputsAreOwned` | `Spec => []OutputsOwned` | - |
| `CommitsAreScheduleFree` | `Spec => []CommitScheduleFree` | - |
| *ShortConvProofs* | | |
| `WindowTypes` | `Spec => []TypeOK` | - |
| `ZeroRoundsAreUndone` | `Spec => []ZeroRoundUndone` | - |
| `HistoriesAreExact` | `Spec => []HistoryExact` | `~AnyPrefill` (finding 2) |
| *PagedQsaProofs* | | |
| `PagedInvariant` | `Spec => []PagedInv` | - |
| `SequencesAreCached` | `Spec => []CacheHoldsSequence` | - |
| `RightCallersAdmitted` | `Spec => []RightCallerAdmitted` | - |
| `BystandersAreKept` | `Spec => RefusedChangeNothing` | - |
| *ServingGraphProofs* | | |
| `GraphInvariant` | `Spec => []Inv` | - |
| `DataFlowIsPreserved` | `Spec => []DataFlowPreserved` | - |
| `OperandsDoArrive` | `Spec => []OperandsArrive` | - |
| `UpstreamIsHonoured` | `Spec => []UpstreamHonoured` | - |
| `PreparedStaysAdmitted` | `Spec => []PreparedIsAdmitted` | - |
| `ExpiredStaysExpired` | `Spec => ExpiredForGood` | - |
| `AliasCheckIsExact` | `RejectsAliases` holds exactly of operands that alias | views of at least one cell |
| `OverlapsOnlyByRestride` | `Spec => []OverlapOnlyByRestride` | - |
| *NativeImagesProofs* | | |
| `NativeInvariant` | `Spec => []NativeInv` | - |
| `ReportsNameTheMapped` | `Spec => []ReportTruthful` | - |
| `DigestsBindTheMapped` | `Spec => []ReportMatchesManifest` | - |
| `CallsUseTheSelected` | `Spec => []SelectionHonoured` | - |
| `ForwardsRunTheirBackend` | `Spec => []RightBinaryRuns` | - |
| *Sm90BundleProofs* | | |
| `BundleInvariant` | `Spec => []BundleInv` | - |
| `ReceiptsNameTheirBinary` | `Spec => []ReceiptTruthful` | - |
| `ForwardRunsItsPolicy` | `Spec => []DispatchedConfiguration` | - |
| `CandidatesAreOneBuild` | `Spec => []OneBuild` | - |
| `PublicationsAreWhole` | `Spec => PublishedWhole` | - |
| *ServingReleaseProofs* | | |
| `ReleaseInvariant` | `Spec => []ReleaseInv` | - |
| `CleanReceiptsNameRevisions` | `Spec => []CleanReceiptNamesRevision` | - |
| `VerdictsHaveEvidence` | `Spec => []VerdictHasEvidence` | - |
| `PublicationsAreQualified` | `Spec => []PublishedQualified` | - |

### GDN transaction

`RecordsCommittable` is not inductive: it says nothing of a call that
is between two kernels. `RoundInv` supplies that: epochs are ordered
(`RoundOrder`), outstanding rows have different slots (`SlotsApart`), the rows a
verification in progress computes are not outstanding and carry the stamps of
this call (`VerifyInProgress`), the rows a commit accepted are outstanding in the
epoch it will stamp (`CommitInProgress`). The lemma that does the work is
`OutstandingKept`: for an outstanding row, `validate_gdn` either returns an error or
finds the row inactive, and in both cases `KeepRecords` holds. A replay changes
only slots of rows it accepted, so by `SlotsApart` it never moves the base of
another row's records. `ConsumedOnce` needs one more part, `RoundsSpent`: what a
slot absorbed is of a round already consumed, or of the round about to be stamped.
A replay is of the ready round, which is above the consumed one, so it is new.

`RoundsResolvable` follows from `RoundInv` and `StampsHeld`, the part of `RecordsCommittable`
that is about stamps alone: the length and slot of outstanding records are in range.
Unlike the rest, `StampsHeld` survives a failing launch of the consumed stamp, because it
says nothing of the state. The commit then passes test by test: the slot is the recorded
one; no other row of the commit names it, by `SlotsApart`, or because rows without
records name slot 0; and the epoch is the ready one, which is above the consumed one. For
a stranded row (epoch above ready) `CommitInProgress` excludes the stamp and the
replay, and `VerifyInProgress` a new ready epoch, which is `StrandedForGood`.

The refinement uses `RefineInv`, that is `RoundInv` with `RecordsCommittable`. Each step
maps to one abstract step or to none: `StampReady` opens the rounds it stamps; `Apply`
resolves those of the rows it replays, and by `RecordsCommittable` appends exactly the
prefix that the round of that row makes; verification kernels, the stamps after a
replay and failing launches are stutters.

### GDN launches

What a row loads is right if no row that stores before it writes that slot.
`AdmissionInv` keeps what the checks established for accepted rows (in range, no clash, no
overlap under a guard); `BlockInv` says what the rows still at work have loaded;
`PoolInv` says that a slot is as the call found it until its one writer has stored, and
what that writer computed from then on. The prefill's chains of slots need
`BlockInv` in a second form: `gather` ends before any `scatter`, so that registers hold
what the call found although the pool changes below them. `OutputInv`, `RecordInv`,
`PrefixInv` and `ReplayInv` are the same for packed outputs, for the records a
verification leaves, and for the commit that replays them. A row of no inputs passes the
checks whatever slots it names, so nothing is claimed of what it loads.

### Short convolution

`RoundInv` says whose window a round may have changed: only the row that was convolved,
whose snapshot and stamp are of this round and of its own slot, so that a
restore finds them; it asks nothing of histories and needs no assumption. `HistoryInv`
says where the history lies: `prev - 1` entries into the window as the round found it
while the round is open, and into the window itself otherwise. The step that
matters is an accepted count `n`: an interval of `L` inputs was appended behind `H`
older entries, and skipping `n - 1` of that leaves exactly the last `H` inputs of the
accepted prefix, also for `L < H` where older entries remain behind it.

### Paged QSA

`CacheHoldsSequence` says nothing of rejected keys, yet the next launch pools the group they
interrupt from the ring. `PagedInv` adds four parts. `SharingInv`: two sequences share at
most the first page, and both resume behind it, so neither writes it again. `RingInv`: a
tag in the group being completed, or behind it in the sequence, names the key supplied
for that position; rejected keys carry such tags too, and are overwritten before they can be
read because an interval rewrites every position from where it resumes. `TailInv`:
wherever the next interval may begin, the ring still has its incomplete group,
which is where `Geometry` is needed (`RingSize` holds an incomplete group, the accepted
keys and one more) and why a wrapping prefill must keep its *last* rows. `AnchorInv`
relates anchors to what was supplied. `RightCallersAdmitted` then goes through
`validate_qsa` test by test; `BystandersAreKept` shows that no
page of a sequence that is not served is among the cells the launch writes.

The first attempt failed for a reason that was in the model of the caller: a
sequence that began behind a shared page could take back the last position of the
prefix and rewrite it under the other sequence. With two starts TLC does not reach the
third sequence that shows it. The code's caller passes a count of 1 there
(docs/FLARE_SERVING.md:176-180), which `Resumes` now says. The proof also made three
assumptions explicit: finitely many pages, intervals that fit the kinds of call
(`IntervalsFit`), and that the absent value is none of the present ones (`NoneIsNone`).

### Prepared operators and their graph

The work is in the operators. `Sound(op)` says of one operator that its kernels
write only what is in the list declared mutable, read only what is in one of the two
lists, touch only operands the constructor compared, and that the arguments taken back
from the positions of the two lists have every field a kernel touches, and in each field
the operand of that name. It is proved binding by
binding, for all modes, targets and combinations of optional operands. Optional
operands shift positions, so two lemmas carry most of it: `Chosen` keeps the order of
the names it keeps, and unmarshalling by the same names returns the operand of each.
An operator bound twice (a transaction extends the lists of its base) needs in addition that its
own operands are the first of both lists.

Given `Sound`, the state machine needs three invariants. `HandlesIssued`: every handle is
below a counter that only grows and a captured one names the plan of its own
node, hence `ExpiredForGood`. `RunsInOrder`: the nodes that ran are closed under
conflicts with earlier nodes, and the last writer of a tensor is the greatest that ran;
with declared writes containing the kernels', that is `DataFlowPreserved`.
`LaunchChecked`: what ran was compared with what was prepared. `PreparedIsAdmitted` was
false as first stated: `gdn.py:358-361` takes a commit of no value heads (0 % hk is 0),
which `gdn.cu` refuses (`hv > 0`). TLC had only positive head counts; it now has 0 too, and the
property names the case. A caller's node that reads nothing did not count as run either
(`HasRun` is now the domain of `seen`).

`OverlapOnlyByRestride` needs to know what `reject_aliases` decides for any number of
operands and rows, and its merge is a recursion. An induction rule over predicates is
out of the prover's reach, but a first-order form of it is not: a non-empty set of numbers
has a least element (`LeastNatural`, from the well-foundedness of `<`), so a set of steps at
which something fails has a first one, whose predecessor is in order (`FirstOutside`).
With it the merge exists at every length (`MergeExists`), it only moves forward and
stops for good at the first meeting pair (`MergePositions`), and it
never passes an interval that a later one of the other list meets, since both lists
are in order (`MergeWaits`); hence `OverlapExact`. On the other side a cell is in
a view exactly if it is in one of its spans (`SpansAreCells`; a cell has one row
and one column by `Division`), and spans are in order unless rows overlap
(`SpansInOrder`). Together: `AliasCheckIsExact`, no alias is missed and none is invented.
The invariant `PlansTyped` says that views recorded at preparation are tensors. A launch
over operands that alias can then not have been checked at its own addresses
(`CheckOperands` skips the check when no pointer moved, auxiliaries never do), and with
the recorded pitches it would occupy the cells that were checked at preparation: so
a strided view has another pitch.

### Loading

A file only gets newer inodes, so an image that is read twice was there in between, and
what the linker mapped stays. `NativeInv` dates what a load has read: the image it
hashed is still on disk or gone; a manifest whose digest it compared is there or, because
upgrades are later builds, gone for good; the library a manifest lists is the one on
disk unless one of the two was replaced. Each later comparison of the load
excludes the second alternative. `CacheInv` says that a cache entry belongs to the key it
is stored under, and a key determines its file, which gives `SelectionHonoured`.

### SM90 build and bundle

`BuilderInv`: a build's identity (sources and headers hashed first) is at most as new as the
object it compiled, the host object and the trees; when the last check finds the
trees as the identity lists them, everything between was the same version. A reused object
was compiled from what its receipt lists because every receipt with an object is
sound, complete or not. `LoaderInv`: a load that was not overtaken by a link reads the
receipt its bundle sealed, or that of a build under way, which it refuses.
`BundleAssumption` asks for what the tools have: at least one version, and an order
that names every configuration.

### Release

`BuildInv` bounds what a wheel build has read: content versions only grow, so the
comparison of the sources after the build, and that of their hashes with the identity,
fix the library, headers and Python files that were read in between. `QualificationInv` says
which phases lie behind a qualification that stands before a given one. A qualification
may be of any wheel, so nothing ties it to the release that waits for it until `OfThisBuild`
compares identities. `ReleaseSound` keeps the outcome of that comparison: it stays true
because finished wheels never change (`RecordsKept`) and because every wheel that a build,
qualification, summary or release names is finished (`Named`). With `WheelsSound` equal
revisions are then equal contents, for clean receipts that did not slip
(`SameRevisionSameContent`). `PublishedQualified` follows from `BuildInv` and
`QualificationInv` at the moment of publishing.

### Only model-checked

* `RoundsResolved`: liveness under fairness, which the prover does not reach. Its safety
  half, `RoundsResolvable`, is proved. All other properties of
  passing runs are theorems.
* That `HistoryExact` fails with `AnyPrefill` and `ConsumedOnce` with a failing
  consumed stamp: those are findings, shown by a run each.

## 5. Not modelled

* Arithmetic: recurrence, convolution taps, normalisation, attention, tensor-core
  kernels. TLC cannot evaluate floating point, and no property here is about it.
* Static descriptor checks (`valid`, `valid_conv`, `valid_transaction`, shape and alias
  tests in Python): a rejected descriptor launches nothing.
* A failing chunk forward in the native prefill: returns before `scatter_prefill`, so
  nothing is written; only the error vector stays clean.
* Two streams using one workspace at once: the contract of every call is one stream.
* Which groups QSA selects (top 512 by score, `qsa.cu:326`) and what attention makes
  of them: scores are floating-point data; the model shows that whatever is selected
  is read correctly.
* PLE hash arithmetic, norms and gates: one kernel each, a pure function of its row.
  How their operands reach them is modelled.
* The SM90 fused kernel (barriers, pipelines), chunk, PPU, dense QSA and gate kernels:
  no state outlives a launch, and their correctness is arithmetic or a matter of the
  GPU's memory model.
* Compilers, pip, pytest and git in the build chains: external; what they may return
  is enumerated.
* Profiler collection (`tools/collect_ppu_gdn_acu.py`), binary checks under `dev/ppu`,
  benchmarks, tests and vendored CUTLASS: scripts that run once and keep nothing.
* Decode and prefill in between an open round of the same slot, and one serving round
  that spans convolution and recurrence: the caller's contract separates them, and
  the parts are modelled one by one.

## 6. Plan

1. `ServingRound`: convolution snapshot, convolution, GDN verify, commit, restore,
   chained by error vectors, with rows that sit rounds out; the stamps that one
   side resets and the other retains meet here.
2. `OrderedPair`: barrier arrival counts and alternation of the two SM90 state
   warpgroups, deadlock freedom.
3. Pure algorithms against reference definitions: top-k carry merge, chunk-state
   scan, PLE hash arithmetic at reduced width.
