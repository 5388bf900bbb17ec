---------------------------- MODULE NativeImages ----------------------------
(* The process side of native loading: which binary a forward call runs, and
   what the preparation-time route inspector says about it.

   A call resolves its route from the request and the environment
   (gdn_interface._resolve_forward), selects a provider (a development
   extension, an explicit serving library or the packaged wheel), loads it
   unless a cache has it, and either runs it (gdn_forward) or audits it and
   reports the images in use (get_gdn_route_info).  Between any two file reads
   of a load another process may replace a file: a rebuild of an extension or
   an upgrade of the wheel.  Files are replaced the way linkers and installers
   do it, by a new inode under the old name; the wheel's files are upgraded to
   builds made later, so that none of them is ever the same build twice.

   The dynamic linker is external: a path that is already mapped is not read
   again, and a needed device library is the mapped one of that name, wherever
   it lies.  An extension built under another module name has no such init
   symbol and cannot be imported.                                           *)
EXTENDS Naturals, FiniteSets, Sequences

CONSTANTS
  Files,            \* every file the process may map or hash
  DeviceName,       \* [device library file -> its library name]
  Needs,            \* [extension or serving file -> needed device file beside it, or None]
  Packaged,         \* the wheel's files: [seal, manifest, library]
  BuildOf,          \* initial build of each file
  Rebuilds,         \* [replaceable file -> builds a replacement may bring]
  Group,            \* bound: only one group of files is replaced in a behaviour
  Built,            \* [build -> [init, target, entries, abi, version, targets, made]]
  Place,            \* [<<cwd or "", value>> -> file or None]
  Absolute,         \* the absolute path values
  Environments,     \* the environments a caller sets up
  Cwds,             \* the working directories it changes to
  Requests,         \* the calls it makes
  TensorBackend,    \* what tensor metadata selects: the device's backend
  ResidualDeliveries, WyDeliveries,
  RunningVersion,   \* __version__ of the imported package
  MaxReplaced, MaxModules      \* bounds on replacements and module objects

None == "none"
Blank == "blank"
NoImage == [inode |-> 0, build |-> None]
Builds == DOMAIN Built
Variables == {"GDN_QSA_PPU_EXTENSION", "GDN_QSA_WY_EXTENSION", "GDN_QSA_PPU15_EXTENSION",
              "ACTLIZE_LA_SERVING_LIBRARY"}
ASSUME LoadingAssumption ==
  /\ MaxReplaced \in Nat /\ MaxModules \in Nat
  /\ DOMAIN DeviceName \subseteq Files /\ DOMAIN Rebuilds \subseteq Files
  /\ Needs \in [Files -> DOMAIN DeviceName \union {None}]
  /\ {Packaged.seal, Packaged.manifest, Packaged.library} \subseteq Files
  /\ BuildOf \in [Files -> Builds] /\ \A f \in DOMAIN Rebuilds : Rebuilds[f] \subseteq Builds
  /\ None \notin Files /\ \A b \in Builds : Built[b].made \in Nat
  /\ \A e \in Environments, c \in Cwds, v \in Variables :
       e[v] \notin {None, Blank} =>
         Place[<<IF e[v] \in Absolute THEN "" ELSE c, e[v]>>] \in Files \union {None}
\* cmake/backends/ppu_aiu.cmake:2 refuses to build these for another target.
ASSUME ExtensionTargets ==
  \A b \in Builds : Built[b].init \in {"_gdn_chunk_ppu", "_gdn_wy_ppu"} => Built[b].target = "ppu10"

VARIABLES
  disk,       \* file -> the image on disk: its inode and its build
  mapped,     \* file -> the image this process mapped under that path
  modules,    \* every module object created, in order
  cached,     \* those the lru_caches still hand out
  recorded,   \* those with a record in _loaded_images
  resolved,   \* cache of _resolve_path: <<variable, value, cwd, file>>
  environ, cwd,
  call,       \* the call in progress
  answer,     \* what the last completed call ran or reported
  replaced    \* bound: replacements so far
vars == <<disk, mapped, modules, cached, recorded, resolved, environ, cwd,
          call, answer, replaced>>
files == <<disk, replaced>>
selection == <<environ, cwd>>

Idle == [pc |-> "idle"]
NoAnswer == [kind |-> None]
Init ==
  /\ disk = [f \in Files |-> [inode |-> 1, build |-> BuildOf[f]]]
  /\ mapped = [f \in Files |-> NoImage]
  /\ modules = <<>> /\ cached = {} /\ recorded = {} /\ resolved = {}
  /\ environ \in Environments /\ cwd \in Cwds
  /\ call = Idle /\ answer = NoAnswer /\ replaced = 0
-----------------------------------------------------------------------------
(* Route policy *)
Catalog == [original   |-> {"cuda_sm80", "ppu10"}, wy |-> {"ppu10"},
            residual   |-> {"ppu10", "ppu15"},
            fused_sm90 |-> {"cuda_sm90", "ppu17"}]
Backends == UNION {Catalog[a] : a \in DOMAIN Catalog}
RequireImplementation(algorithm, backend) ==
  backend \in Backends /\ algorithm \in DOMAIN Catalog /\ backend \in Catalog[algorithm]

ValidProfileOptions(r) ==
  IF r.mode = "device" THEN r.sms = 0 ELSE r.backend \in Backends /\ r.sms > 0

Set(variable) == environ[variable] # None
Legacy == Set("GDN_QSA_PPU_EXTENSION")

Backend(r) ==
  IF r.backend # None THEN r.backend
  ELSE IF r.algorithm = "auto" THEN TensorBackend
  ELSE IF r.algorithm # "original" \/ Legacy THEN "ppu10" ELSE "cuda_sm80"
Algorithm(r) ==
  IF r.algorithm # "auto" THEN r.algorithm
  ELSE IF Backend(r) \in {"ppu10", "ppu15"} THEN "residual" ELSE "original"
\* Both sm90 routes leave this module: their bundles have loaders of their own.
Hopper(r) == (r.algorithm = "auto" /\ Backend(r) = "cuda_sm90") \/ Algorithm(r) = "fused_sm90"

Resolves(r) ==
  /\ ValidProfileOptions(r)
  /\ ~Hopper(r)
  /\ r.configuration = None
  /\ RequireImplementation(Algorithm(r), Backend(r))
  /\ r.initial => Algorithm(r) # "original"
  /\ Algorithm(r) = "original" =>
       r.delivery = None /\ Backend(r) = (IF Legacy THEN "ppu10" ELSE "cuda_sm80")

Delivery(r) ==
  IF r.delivery # None \/ Algorithm(r) = "original" THEN r.delivery
  ELSE CASE Algorithm(r) = "wy" -> "scalar"
         [] Backend(r) = "ppu10" -> "full-chunk"
         [] OTHER -> "native"
KnownDelivery(r) ==
  CASE Algorithm(r) = "original" -> TRUE
    [] Algorithm(r) = "wy" -> Delivery(r) \in WyDeliveries
    [] Backend(r) = "ppu15" -> Delivery(r) = "native"
    [] OTHER -> Delivery(r) \in ResidualDeliveries
\* The entry point of the loaded binary: RESIDUAL_ENTRYPOINTS gives every delivery
\* a name of its own, so an entry is named by its delivery.
Entry(r) ==
  CASE Algorithm(r) = "original" -> "forward_gdn_chunk_auto"
    [] Algorithm(r) = "residual" /\ Backend(r) = "ppu10" -> Delivery(r)
    [] OTHER -> "forward"
-----------------------------------------------------------------------------
(* Selecting a provider.  A key names what the caches are keyed by.          *)
Extension(name, variable) == [provider |-> "extension", name |-> name, variable |-> variable]
Serving == [provider |-> "explicit-serving", name |-> "serving",
            variable |-> "ACTLIZE_LA_SERVING_LIBRARY"]
PackagedServing == [provider |-> "packaged-serving", name |-> "serving", variable |-> None]
Builtin == [provider |-> "builtin", name |-> "_gdn_chunk", variable |-> None]

\* At most one provider: none when both variables are set, which is an error.
ResidualProvider ==
  IF Set("GDN_QSA_WY_EXTENSION")
  THEN IF Set("ACTLIZE_LA_SERVING_LIBRARY") THEN {}
       ELSE {Extension("_gdn_wy_ppu", "GDN_QSA_WY_EXTENSION")}
  ELSE {IF Set("ACTLIZE_LA_SERVING_LIBRARY") THEN Serving ELSE PackagedServing}

Providers(r) ==
  CASE Algorithm(r) = "original" ->
         {IF Legacy THEN Extension("_gdn_chunk_ppu", "GDN_QSA_PPU_EXTENSION") ELSE Builtin}
    [] Algorithm(r) = "wy" -> {Extension("_gdn_wy_ppu", "GDN_QSA_WY_EXTENSION")}
    [] Backend(r) = "ppu15" -> {Extension("_gdn_residual_ppu15", "GDN_QSA_PPU15_EXTENSION")}
    [] OTHER -> ResidualProvider

\* The working directory is part of the key of a relative path only.
\* Mutant: the directory is left out of the key.
MutantPathKey(variable) == <<variable, environ[variable], "">>
PathKey(variable) ==
  <<variable, environ[variable], IF environ[variable] \in Absolute THEN "" ELSE cwd>>

\* _resolve_path caches what it found; a missing or blank value is an error.
Locate(p) ==
  LET value == environ[p.variable] IN
  IF value \in {None, Blank} THEN None
  ELSE Place[<<IF value \in Absolute THEN "" ELSE cwd, value>>]
Path(p) ==
  LET hits == IF p.provider # "extension" THEN {}
              ELSE {entry \in resolved : entry.key = PathKey(p.variable)} IN
  CASE p.provider = "packaged-serving" -> Packaged.library
    [] hits # {} -> (CHOOSE entry \in hits : TRUE).file
    [] OTHER -> Locate(p)
Remembered(p) ==
  IF p.provider = "extension" THEN {[key |-> PathKey(p.variable), file |-> Path(p)]} ELSE {}

\* What the lru_cache of the provider is keyed by: _load by the resolved file,
\* explicit_backend by the spelling of the path.
Key(p) == IF p.provider = "explicit-serving" THEN PathKey(p.variable) ELSE <<p.name, Path(p)>>
Hits(p) == {i \in cached : modules[i].provider = p.provider /\ modules[i].key = Key(p)}

\* Start a forward, or the inspection of its route, which covers ppu10 only.
\* The one call without a file is the packaged cuda_sm80 extension's.
Begin(kind, r) ==
  /\ call = Idle
  /\ Resolves(r) /\ KnownDelivery(r)
  /\ kind = "route" => Backend(r) = "ppu10"
  /\ \E p \in Providers(r) :
       /\ p # Builtin /\ Path(p) # None
       /\ resolved' = resolved \union Remembered(p)
       /\ LET base == [pc |-> "begin", stage |-> "first", kind |-> kind, request |-> r,
                       provider |-> p.provider, name |-> p.name, file |-> Path(p), key |-> Key(p),
                       module |-> 0, seal |-> None, digest |-> None, manifest |-> None,
                       sealed |-> None, image |-> NoImage, fresh |-> FALSE] IN
          IF Hits(p) # {}
          THEN call' = [base EXCEPT !.pc = "loaded", !.module = CHOOSE i \in Hits(p) : TRUE]
          ELSE call' = [base EXCEPT !.pc = IF p = PackagedServing THEN "seal" ELSE "hash"]
  /\ answer' = NoAnswer
  /\ UNCHANGED <<files, mapped, modules, cached, recorded, selection>>
-----------------------------------------------------------------------------
(* Loading.  An exception ends the call and caches nothing; a mapping stays.
   get_library_info turns whatever a malformed wheel raises into an exception. *)
Continue(step) == call' = step
Refuse == call' = Idle
OnlyReads == UNCHANGED <<disk, replaced, mapped, modules, cached, recorded, resolved,
                         environ, cwd, answer>>

\* A resource is read whole, by its name in the package; it is never a link.
Content(f) == disk[f].build

\* get_library_info reads the seal, the manifest's digest, the manifest and
\* every resource, one after the other.
ReadSeal ==
  /\ call.pc = "seal"
  /\ Continue([call EXCEPT !.pc = "digest", !.seal = Content(Packaged.seal)])
  /\ OnlyReads
ReadDigest ==
  /\ call.pc = "digest"
  /\ LET digest == Content(Packaged.manifest) IN
     IF call.seal = digest
     THEN Continue([call EXCEPT !.pc = "manifest", !.digest = digest]) ELSE Refuse
  /\ OnlyReads
ReadManifest ==
  /\ call.pc = "manifest"
  /\ LET manifest == Content(Packaged.manifest) IN
     IF Built[manifest].version = RunningVersion /\ "ppu10" \in Built[manifest].targets
     THEN Continue([call EXCEPT !.pc = "resources", !.manifest = manifest]) ELSE Refuse
  /\ OnlyReads
ReadResources ==
  /\ call.pc = "resources"
  /\ IF Content(Packaged.library) # call.manifest THEN Refuse
     ELSE IF call.stage = "first" THEN Continue([call EXCEPT !.pc = "hash", !.sealed = call.digest])
     ELSE Continue([call EXCEPT !.pc = "compare"])
  /\ OnlyReads

\* _file_image of the file about to be opened.
Hash ==
  /\ call.pc = "hash"
  /\ Continue([call EXCEPT !.pc = "open", !.image = disk[call.file]])
  /\ OnlyReads

\* dlopen (external): the mappings the process ends up with.
Holds(f) == mapped[f] # NoImage
Loaded(name) == {f \in DOMAIN DeviceName : Holds(f) /\ DeviceName[f] = name}
Opened(file) ==
  LET need == Needs[file]
      new  == {file} \union IF need # None /\ ~Holds(file) /\ Loaded(DeviceName[need]) = {}
                            THEN {need} ELSE {} IN
  [f \in Files |-> IF f \in new /\ ~Holds(f) THEN disk[f] ELSE mapped[f]]

\* The init symbol of an extension; the target, ABI version, exports, struct
\* sizes and native prefill entries of a serving library.
\* Mutant: the target a serving library reports is not compared.
MutantInspectAbi(build) ==
  IF call.provider = "extension" THEN Built[build].init = call.name ELSE Built[build].abi
InspectAbi(build) ==
  IF call.provider = "extension" THEN Built[build].init = call.name
  ELSE Built[build].abi /\ Built[build].target = "ppu10"

\* What is read again, of an extension and of a serving library.
Reinspection(provider) ==
  CASE provider = "extension" -> "remember" [] provider = "packaged-serving" -> "seal"
    [] OTHER -> "compare"
Open ==
  /\ call.pc = "open"
  /\ mapped' = Opened(call.file)
  /\ IF ~InspectAbi(mapped'[call.file].build) THEN Refuse
     ELSE Continue([call EXCEPT !.pc = Reinspection(call.provider), !.stage = "second",
                                !.fresh = ~Holds(call.file)])
  /\ UNCHANGED <<files, modules, cached, recorded, resolved, selection, answer>>

\* /proc/self/maps marks a mapping whose inode lost its name as deleted.
Mapped == {f \in DOMAIN DeviceName : Holds(f)}
\* Mutant: the mark is stripped with the rest of the line.
MutantDeleted == FALSE
Deleted == \E f \in Mapped : mapped[f].inode # disk[f].inode

Create(devices, digest) ==
  /\ Len(modules) < MaxModules
  /\ modules' = Append(modules,
       [provider |-> call.provider, key |-> call.key, file |-> call.file,
        image |-> call.image, devices |-> devices, digest |-> digest, fresh |-> call.fresh])
  /\ cached' = cached \union {Len(modules')}
  /\ Continue([call EXCEPT !.pc = "loaded", !.module = Len(modules')])

\* _remember_image hashes the binding again and the device libraries mapped.
Remember ==
  /\ call.pc = "remember"
  /\ IF disk[call.file] # call.image \/ Deleted
     THEN Refuse /\ UNCHANGED <<modules, cached, recorded>>
     ELSE /\ Create([f \in Mapped |-> disk[f]], None)
          /\ recorded' = recorded \union {Len(modules')}
  /\ UNCHANGED <<files, mapped, resolved, selection, answer>>

\* PPU10Backend.image_info, at the end of the constructor and of an audit: the
\* library is the file that was hashed and the manifest the one inspected.
\* Mutant: only the library is compared.
MutantSameImage(image, digest) == disk[call.file] = image
SameImage(image, digest) ==
  disk[call.file] = image /\ (call.provider = "packaged-serving" => call.digest = digest)
Sealed == IF call.provider = "packaged-serving" THEN call.sealed ELSE None
Construct ==
  /\ call.pc = "compare" /\ call.stage = "second"
  /\ IF SameImage(call.image, Sealed) THEN Create(<<>>, Sealed)
     ELSE Refuse /\ UNCHANGED <<modules, cached>>
  /\ UNCHANGED <<files, mapped, recorded, resolved, selection, answer>>
-----------------------------------------------------------------------------
(* Answers *)
Module == modules[call.module]
Binary == Built[mapped[call.file].build]
\* A serving backend has the full-chunk entry alone.
HasEntry ==
  IF call.provider = "extension"
  THEN /\ Entry(call.request) \in Binary.entries
       /\ Backend(call.request) = "ppu15" => Binary.target = "ppu15"
  ELSE Entry(call.request) = "full-chunk"
Finish(images) ==
  /\ call' = Idle
  /\ answer' = [kind |-> call.kind, request |-> call.request, module |-> call.module,
                images |-> images]

Forward ==
  /\ call.pc = "loaded" /\ call.kind = "forward"
  /\ IF HasEntry THEN Finish(<<>>) ELSE Refuse /\ UNCHANGED answer
  /\ UNCHANGED <<files, mapped, modules, cached, recorded, resolved, selection>>

\* loaded_image_info: the record is this module's, exactly one library of the
\* name is recorded and mapped, and no file changed since.
Dependency == IF Algorithm(call.request) = "original" THEN "libgdn_qsa_ppu.so" ELSE "libgdn_wy_ppu.so"
Selected == {f \in DOMAIN Module.devices : DeviceName[f] = Dependency}
LoadedImageInfo ==
  /\ call.module \in recorded
  /\ ~Deleted
  /\ Cardinality(Selected) = 1 /\ Loaded(Dependency) = Selected
  /\ disk[call.file] = Module.image
  /\ \A f \in Selected : disk[f] = Module.devices[f]

Route ==
  /\ call.pc = "loaded" /\ call.kind = "route"
  /\ CASE ~HasEntry -> Refuse /\ UNCHANGED answer
       [] HasEntry /\ call.provider = "extension" ->
            IF LoadedImageInfo
            THEN Finish([f \in {call.file} \union Selected |->
                           IF f = call.file THEN Module.image ELSE Module.devices[f]])
            ELSE Refuse /\ UNCHANGED answer
       [] OTHER -> /\ Continue([call EXCEPT !.stage = "audit", !.pc = Reinspection(call.provider)])
                   /\ UNCHANGED answer
  /\ UNCHANGED <<files, mapped, modules, cached, recorded, resolved, selection>>
RouteServing ==
  /\ call.pc = "compare" /\ call.stage = "audit"
  /\ IF SameImage(Module.image, Module.digest) THEN Finish([f \in {call.file} |-> Module.image])
     ELSE Refuse /\ UNCHANGED answer
  /\ UNCHANGED <<files, mapped, modules, cached, recorded, resolved, selection>>
-----------------------------------------------------------------------------
(* The caller and its surroundings *)
Select ==
  /\ call = Idle
  /\ environ' \in Environments /\ cwd' \in Cwds
  /\ answer' = NoAnswer
  /\ UNCHANGED <<files, mapped, modules, cached, recorded, resolved, call>>

\* clear_backend_cache: empties the extension caches, unloads nothing.
ClearBackendCache ==
  /\ call = Idle /\ recorded # {}
  /\ cached' = {i \in cached : modules[i].provider # "extension"}
  /\ recorded' = {} /\ resolved' = {} /\ answer' = NoAnswer
  /\ UNCHANGED <<files, mapped, modules, selection, call>>

\* Another process replaces a file: an extension by any build, the wheel's
\* files by later ones.
Replace(f) ==
  /\ replaced < MaxReplaced /\ replaced' = replaced + 1
  /\ \A g \in Files : disk[g].inode > 1 => Group[g] = Group[f]
  /\ \E build \in Rebuilds[f] \ {disk[f].build} :
       /\ f \in {Packaged.seal, Packaged.manifest, Packaged.library} =>
            Built[build].made > Built[disk[f].build].made
       /\ disk' = [disk EXCEPT ![f] = [inode |-> disk[f].inode + 1, build |-> build]]
  /\ UNCHANGED <<mapped, modules, cached, recorded, resolved, selection, call, answer>>

Load == ReadSeal \/ ReadDigest \/ ReadManifest \/ ReadResources \/ Hash \/ Open \/ Remember
        \/ Construct
Next ==
  \/ \E kind \in {"forward", "route"}, r \in Requests : Begin(kind, r)
  \/ Load \/ Forward \/ Route \/ RouteServing
  \/ Select \/ ClearBackendCache
  \/ \E f \in DOMAIN Rebuilds : Replace(f)
Spec == Init /\ [][Next]_vars
-----------------------------------------------------------------------------
(* Properties *)
Answered(kind) == answer.kind = kind
Answering == modules[answer.module]

\* What gdn_route reports as the native images of a call are the images the
\* process has mapped, byte for byte, whatever was rebuilt before, during and
\* after the load.  The binding is exempt when its path was mapped before the
\* load began (a retry after a failed load, a cleared cache, another spelling
\* of the path): the linker then returns the old mapping under a new record.
\* (gdn_route.py, loading.py, _gdn_ppu10.py)
ReportTruthful ==
  Answered("route") =>
    \A f \in DOMAIN answer.images :
      (f = Answering.file => Answering.fresh) => answer.images[f] = mapped[f]

\* The manifest digest a route report of the packaged wheel carries is the one
\* that binds the library in use, although an upgrade replaces seal, manifest
\* and library one by one while they are read.  Exempt is a library whose path
\* was mapped before its load began (`fresh`): the linker then returns the old
\* mapping, and the digest is of the new file.  A forward has no such promise:
\* _inspect digests the manifest in one read and parses it in another, and only
\* the report's own inspection exposes a construction that straddled the two.
\* (_library.py _inspect, _gdn_ppu10.py image_info)
ReportMatchesManifest ==
  Answered("route") /\ Answering.digest # None /\ Answering.fresh =>
    mapped[Answering.file].build = Answering.digest

\* A call uses the file its environment and directory select now, never one
\* an earlier selection left in a cache, and the wheel only when no variable
\* selects anything.  (loading.py _explicit_path, gdn_residual_interface.py)
SelectionHonoured ==
  answer.kind # None =>
    \E p \in Providers(answer.request) :
      /\ Answering.provider = p.provider
      /\ Answering.file = IF p = PackagedServing THEN Packaged.library ELSE Locate(p)
      /\ p = PackagedServing => ~Set("GDN_QSA_WY_EXTENSION") /\ ~Set("ACTLIZE_LA_SERVING_LIBRARY")

\* A forward runs only a binary built for the backend it resolved to.
\* (serving/_abi.py, loading.py load_ppu15)
RightBinaryRuns ==
  Answered("forward") =>
    Built[mapped[Answering.file].build].target = Backend(answer.request)
=============================================================================
