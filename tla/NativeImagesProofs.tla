------------------------- MODULE NativeImagesProofs -------------------------
(***************************************************************************)
(* Theorems about NativeImages, for every set of files, environments and   *)
(* requests, and any number of replacements and modules.                   *)
(*                                                                         *)
(* ReportsNameTheMapped      a route report names the images mapped        *)
(* DigestsBindTheMapped      its manifest digest binds the library in use  *)
(* CallsUseTheSelected       no cache outlives the selection it was for    *)
(* ForwardsRunTheirBackend   a forward runs a binary of its backend        *)
(*                                                                         *)
(* A file only ever gets newer inodes, so an image read twice was there in *)
(* between; what the linker mapped stays.  The inductive invariant dates   *)
(* what a load has read so far: the image it hashed is still on disk or is *)
(* gone, a manifest whose digest it compared is still there or is gone for *)
(* good, and the library it listed is the manifest's unless one of the two *)
(* was replaced.  The next comparison of the load excludes the second      *)
(* alternative of each.                                                    *)
(***************************************************************************)
EXTENDS NativeImages, SequenceTheorems, TLAPS

-----------------------------------------------------------------------------
(***************************************************************************)
(* The inductive invariant.                                                *)
(***************************************************************************)

Image == [inode : Nat, build : Builds \union {None}]

\* An image read from f earlier: it is still there, or was replaced since.
Past(image, f) == image = disk[f] \/ image.inode < disk[f].inode
FileInv ==
  /\ disk \in [Files -> Image] /\ \A f \in Files : disk[f].inode > 0 /\ disk[f].build \in Builds
  /\ mapped \in [Files -> Image]
  /\ \A f \in Files : Past(mapped[f], f) /\ (Holds(f) => mapped[f].build \in Builds)
  /\ environ \in Environments /\ cwd \in Cwds

\* The manifest was d once and will never be again.
Gone(d) == Built[d].made < Built[disk[Packaged.manifest].build].made

ProviderNames == {"extension", "explicit-serving", "packaged-serving"}
\* What InspectAbi found out about a build mapped for a provider.
Fits(provider, key, build) ==
  IF provider = "extension" THEN Built[build].init = key[1] ELSE Built[build].target = "ppu10"
\* A key determines the file.
Keyed(provider, key, file) ==
  CASE provider = "extension" -> key[2] = file
    [] provider = "explicit-serving" -> file = Place[<<key[3], key[2]>>]
    [] OTHER -> file = Packaged.library
ModuleInv(m) ==
  /\ m.provider \in ProviderNames /\ m.file \in Files /\ Keyed(m.provider, m.key, m.file)
  /\ Holds(m.file) /\ Fits(m.provider, m.key, mapped[m.file].build)
  /\ m.fresh => m.image = mapped[m.file]
  /\ IF m.provider = "packaged-serving"
     THEN m.digest \in Builds /\ (m.image.build = m.digest \/ Gone(m.digest))
     ELSE m.digest = None
EntryInv(entry) ==
  entry.file = Place[<<entry.key[3], entry.key[2]>>] /\ entry.key[2] \notin {None, Blank}
Created == {modules[i] : i \in 1..Len(modules)}
CacheInv ==
  /\ modules \in Seq(Created) /\ \A i \in 1..Len(modules) : ModuleInv(modules[i])
  /\ cached \subseteq 1..Len(modules)
  /\ \A entry \in resolved : EntryInv(entry)

Names == {"_gdn_chunk_ppu", "_gdn_wy_ppu", "_gdn_residual_ppu15", "serving"}
Values == {e[v] : e \in Environments, v \in Variables}
Keys == (Names \X Files) \union (Variables \X Values \X (Cwds \union {""}))
Calls ==
  [pc : {"seal", "digest", "manifest", "resources", "hash", "open", "remember", "compare",
         "loaded"},
   stage : {"first", "second", "audit"}, kind : {"forward", "route"}, request : Requests,
   provider : ProviderNames, name : Names, file : Files, key : Keys, module : Nat,
   seal : Builds \union {None}, digest : Builds \union {None},
   manifest : Builds \union {None}, sealed : Builds \union {None}, image : Image,
   fresh : BOOLEAN]

\* The file and the key of a call are those its environment and directory select.
Chosen(p) == IF p = PackagedServing THEN Packaged.library ELSE Locate(p)
KeyOf(p) ==
  IF p.provider = "explicit-serving" THEN PathKey(p.variable) ELSE <<p.name, Chosen(p)>>
Aims(p, c) ==
  /\ p # Builtin /\ c.provider = p.provider /\ c.name = p.name
  /\ c.file = Chosen(p) /\ c.key = KeyOf(p)
Aimed ==
  /\ Resolves(call.request) /\ Keyed(call.provider, call.key, call.file)
  /\ \E p \in Providers(call.request) : Aims(p, call)

StageInv ==
  /\ call.pc \in {"seal", "digest", "manifest", "resources"} => call.provider = "packaged-serving"
  /\ call.pc \in {"hash", "open"} => call.stage = "first"
  /\ call.pc = "remember" => call.stage = "second" /\ call.provider = "extension"
  /\ call.pc = "compare" => call.stage # "first" /\ call.provider # "extension"
  /\ call.pc \in {"manifest", "resources"} => call.digest \in Builds
  /\ call.provider = "packaged-serving" /\ (call.pc \in {"hash", "open"} \/ call.stage = "second") =>
       call.sealed \in Builds
  /\ call.stage = "audit" => call.kind = "route"
\* Between the hash of the file and the second inspection.
LoadInv ==
  /\ call.pc = "open" \/ (call.stage = "second" /\ call.pc # "loaded") =>
       Past(call.image, call.file)
  /\ call.stage = "second" /\ call.pc # "loaded" =>
       /\ Holds(call.file) /\ Fits(call.provider, call.key, mapped[call.file].build)
       /\ call.fresh => mapped[call.file] = call.image \/ call.image.inode < disk[call.file].inode
       /\ call.pc = "manifest" => call.digest = disk[Packaged.manifest].build \/ Gone(call.digest)
       /\ call.pc = "resources" => call.manifest = call.digest \/ Gone(call.digest)
       /\ call.pc = "compare" /\ call.provider = "packaged-serving" =>
            \/ call.image.inode < disk[call.file].inode
            \/ call.digest \in Builds /\ (call.image.build = call.digest \/ Gone(call.digest))
\* With a module in hand, and during the audit of one.
UseInv ==
  /\ call.pc = "loaded" \/ call.stage = "audit" =>
       /\ call.module \in 1..Len(modules)
       /\ Module.provider = call.provider /\ Module.file = call.file /\ Module.key = call.key
  /\ call.stage = "audit" /\ call.pc \in {"manifest", "resources", "compare"} =>
       (call.provider = "packaged-serving" /\ call.digest = Module.digest =>
          Module.image.build = Module.digest)
CallInv == call # Idle => call \in Calls /\ Aimed /\ StageInv /\ LoadInv /\ UseInv

AnswerInv ==
  /\ answer # NoAnswer =>
       call = Idle /\ answer.module \in 1..Len(modules) /\ answer.kind \in {"forward", "route"}
  /\ ReportTruthful /\ ReportMatchesManifest /\ SelectionHonoured /\ RightBinaryRuns
NativeInv == FileInv /\ CacheInv /\ CallInv /\ AnswerInv

LEMMA IdleIsNoCall == Idle.pc = "idle" /\ Idle \notin Calls
  <1>1. Idle.pc = "idle"
    BY DEF Idle
  <1>2. \A c \in Calls : c.pc # "idle"
    BY DEF Calls
  <1> QED
    BY <1>1, <1>2

LEMMA InitNative == Init => NativeInv
  <1> SUFFICES ASSUME Init PROVE NativeInv
    OBVIOUS
  <1> USE DEF Init
  <1>1. FileInv
    <2>1. ASSUME NEW f \in Files
          PROVE  disk[f] \in Image /\ mapped[f] \in Image /\ disk[f].inode = 1
                 /\ disk[f].build \in Builds /\ mapped[f].inode = 0
      BY LoadingAssumption DEF Image, NoImage
    <2> QED
      BY <2>1 DEF FileInv, Past, Holds
  <1>2. CacheInv
    BY DEF CacheInv, Created
  <1>3. AnswerInv
    <2>1. answer.kind = None /\ answer = NoAnswer
      BY DEF NoAnswer
    <2> QED
      BY <2>1 DEF AnswerInv, ReportTruthful, ReportMatchesManifest, SelectionHonoured,
         RightBinaryRuns, Answered, None
  <1> QED
    BY <1>1, <1>2, <1>3 DEF NativeInv, CallInv

-----------------------------------------------------------------------------
(***************************************************************************)
(* Files and mappings.                                                     *)
(***************************************************************************)

\* What any step but a replacement and a dlopen leaves alone.
LEMMA OthersKeepFiles ==
  ASSUME [Next]_vars, ~Open, ~(\E f \in DOMAIN Rebuilds : Replace(f))
  PROVE  UNCHANGED <<disk, mapped>>
  BY DEF Next, Load, Begin, ReadSeal, ReadDigest, ReadManifest, ReadResources, Hash, OnlyReads,
     Remember, Construct, Forward, Route, RouteServing, Select, ClearBackendCache, files, vars

\* A replaced file has a newer inode, a replaced manifest a later build.
LEMMA ReplaceFiles ==
  ASSUME FileInv, NEW g \in DOMAIN Rebuilds, Replace(g)
  PROVE  /\ disk' \in [Files -> Image] /\ UNCHANGED <<mapped, environ, cwd>>
         /\ \A f \in Files :
              /\ disk'[f] = disk[f] \/ disk[f].inode < disk'[f].inode
              /\ disk'[f].inode > 0 /\ disk'[f].build \in Builds
         /\ \/ disk'[Packaged.manifest] = disk[Packaged.manifest]
            \/ Built[disk[Packaged.manifest].build].made < Built[disk'[Packaged.manifest].build].made
  <1> PICK build \in Rebuilds[g] \ {disk[g].build} :
        /\ g \in {Packaged.seal, Packaged.manifest, Packaged.library} =>
             Built[build].made > Built[disk[g].build].made
        /\ disk' = [disk EXCEPT ![g] = [inode |-> disk[g].inode + 1, build |-> build]]
    BY DEF Replace
  <1> DEFINE image == [inode |-> disk[g].inode + 1, build |-> build]
  <1>1. g \in Files /\ build \in Builds
    BY LoadingAssumption
  <1>2. disk[g] \in Image /\ disk[g].inode \in Nat
    BY <1>1 DEF FileInv, Image
  <1>3. image \in Image /\ image.inode = disk[g].inode + 1 /\ image.build = build
    BY <1>1, <1>2 DEF Image
  <1>4. disk' = [disk EXCEPT ![g] = image]
    OBVIOUS
  <1> HIDE DEF image
  <1>5. disk' \in [Files -> Image]
    BY <1>1, <1>3, <1>4 DEF FileInv
  <1>6. \A f \in Files : disk'[f] = IF f = g THEN image ELSE disk[f]
    BY <1>1, <1>4 DEF FileInv
  <1>7. \A f \in Files :
          /\ disk'[f] = disk[f] \/ disk[f].inode < disk'[f].inode
          /\ disk'[f].inode > 0 /\ disk'[f].build \in Builds
    BY <1>1, <1>2, <1>3, <1>6 DEF FileInv
  <1>8. \/ disk'[Packaged.manifest] = disk[Packaged.manifest]
        \/ Built[disk[Packaged.manifest].build].made < Built[disk'[Packaged.manifest].build].made
    <2>1. Packaged.manifest \in Files
      BY LoadingAssumption
    <2>2. CASE g = Packaged.manifest
      <3>1. Built[build].made > Built[disk[g].build].made /\ disk'[g].build = build
        BY <1>1, <1>3, <1>6, <2>2
      <3>2. Built[build].made \in Nat /\ Built[disk[g].build].made \in Nat
        BY <1>1, LoadingAssumption DEF FileInv
      <3> QED
        BY <2>2, <3>1, <3>2
    <2>3. CASE g # Packaged.manifest
      BY <1>6, <2>1, <2>3
    <2> QED
      BY <2>2, <2>3
  <1> QED
    BY <1>5, <1>7, <1>8 DEF Replace, selection

\* dlopen maps what is on disk, where nothing is mapped yet.
LEMMA OpenFiles ==
  ASSUME FileInv, CallInv, Open
  PROVE  /\ mapped' \in [Files -> Image] /\ UNCHANGED <<disk, environ, cwd>>
         /\ \A f \in Files : mapped'[f] = mapped[f] \/ (~Holds(f) /\ mapped'[f] = disk[f])
         /\ call.file \in Files
         /\ mapped'[call.file] = IF Holds(call.file) THEN mapped[call.file] ELSE disk[call.file]
         /\ mapped'[call.file] # NoImage
  <1>1. call.file \in Files
    BY IdleIsNoCall DEF Open, CallInv, Calls
  <1> PICK new \in SUBSET Files :
        /\ call.file \in new
        /\ mapped' = [f \in Files |-> IF f \in new /\ ~Holds(f) THEN disk[f] ELSE mapped[f]]
    <2> DEFINE opened == {call.file} \union
                 IF Needs[call.file] # None /\ ~Holds(call.file)
                    /\ Loaded(DeviceName[Needs[call.file]]) = {}
                 THEN {Needs[call.file]} ELSE {}
    <2>1. opened \in SUBSET Files /\ call.file \in opened
      BY <1>1, LoadingAssumption
    <2>2. mapped' = [f \in Files |-> IF f \in opened /\ ~Holds(f) THEN disk[f] ELSE mapped[f]]
      BY DEF Open, Opened
    <2> HIDE DEF opened
    <2> QED
      BY <2>1, <2>2
  <1>2. mapped' \in [Files -> Image] /\ UNCHANGED <<disk, environ, cwd>>
    BY DEF FileInv, Open, files, selection
  <1>3. \A f \in Files : mapped'[f] = mapped[f] \/ (~Holds(f) /\ mapped'[f] = disk[f])
    BY DEF FileInv
  <1>4. mapped'[call.file] = IF Holds(call.file) THEN mapped[call.file] ELSE disk[call.file]
    BY <1>1
  <1>5. NoImage.inode = 0 /\ disk[call.file].inode > 0
    BY <1>1 DEF NoImage, FileInv
  <1> QED
    BY <1>1, <1>2, <1>3, <1>4, <1>5 DEF Holds

LEMMA FilesAdvance ==
  ASSUME FileInv, CallInv, [Next]_vars
  PROVE  /\ \A f \in Files : disk'[f] = disk[f] \/ disk[f].inode < disk'[f].inode
         /\ \A f \in Files : Holds(f) => mapped'[f] = mapped[f]
         /\ \/ disk'[Packaged.manifest] = disk[Packaged.manifest]
            \/ Built[disk[Packaged.manifest].build].made
                 < Built[disk'[Packaged.manifest].build].made
         /\ FileInv'
  <1>1. CASE Open
    <2>1. FileInv'
      BY <1>1, OpenFiles DEF FileInv, Past, Holds
    <2> QED
      BY <1>1, <2>1, OpenFiles
  <1>2. ASSUME NEW g \in DOMAIN Rebuilds, Replace(g)
        PROVE  /\ \A f \in Files : disk'[f] = disk[f] \/ disk[f].inode < disk'[f].inode
               /\ mapped' = mapped
               /\ \/ disk'[Packaged.manifest] = disk[Packaged.manifest]
                  \/ Built[disk[Packaged.manifest].build].made
                       < Built[disk'[Packaged.manifest].build].made
               /\ FileInv'
    <2>1. ASSUME NEW f \in Files
          PROVE  Past(mapped[f], f)'
      <3>1. Past(mapped[f], f) /\ mapped'[f] = mapped[f]
        BY <1>2, ReplaceFiles DEF FileInv
      <3>2. /\ mapped[f].inode \in Nat /\ disk[f].inode \in Nat /\ disk'[f].inode \in Nat
            /\ disk'[f] = disk[f] \/ disk[f].inode < disk'[f].inode
        BY <1>2, ReplaceFiles DEF FileInv, Image
      <3> QED
        BY <3>1, <3>2 DEF Past
    <2> QED
      BY <1>2, <2>1, ReplaceFiles DEF FileInv, Holds
  <1>3. CASE ~Open /\ ~(\E g \in DOMAIN Rebuilds : Replace(g))
    <2>1. UNCHANGED <<disk, mapped>>
      BY <1>3, OthersKeepFiles
    <2>2. environ' \in Environments /\ cwd' \in Cwds
      BY <1>3 DEF FileInv, Next, Load, Begin, ReadSeal, ReadDigest, ReadManifest, ReadResources,
         Hash, OnlyReads, Remember, Construct, Forward, Route, RouteServing, Select,
         ClearBackendCache, selection, vars
    <2> QED
      BY <2>1, <2>2 DEF FileInv, Past, Holds
  <1> QED
    BY <1>1, <1>2, <1>3

\* A build of the manifest that is gone stays away.
LEMMA GoneForGood ==
  ASSUME FileInv, CallInv, [Next]_vars, NEW d \in Builds
  PROVE  /\ Gone(d) => Gone(d)'
         /\ d = disk[Packaged.manifest].build =>
              d = disk'[Packaged.manifest].build \/ Gone(d)'
  <1>1. Packaged.manifest \in Files
    BY LoadingAssumption
  <1>2. /\ Built[d].made \in Nat /\ Built[disk[Packaged.manifest].build].made \in Nat
        /\ Built[disk'[Packaged.manifest].build].made \in Nat
    BY <1>1, FilesAdvance, LoadingAssumption DEF FileInv
  <1>3. \/ disk'[Packaged.manifest] = disk[Packaged.manifest]
        \/ Built[disk[Packaged.manifest].build].made
             < Built[disk'[Packaged.manifest].build].made
    BY FilesAdvance
  <1> QED
    BY <1>2, <1>3 DEF Gone

-----------------------------------------------------------------------------
(***************************************************************************)
(* Providers, paths and keys.                                              *)
(***************************************************************************)

\* What a provider is, apart from the built-in one.
LEMMA ProviderShapes ==
  ASSUME NEW r, NEW p \in Providers(r), p # Builtin
  PROVE  /\ p.provider \in ProviderNames /\ p.name \in Names
         /\ p = PackagedServing <=> p.provider = "packaged-serving"
         /\ p # PackagedServing => p.variable \in Variables
         /\ p.provider # "extension" => p.name = "serving"
  <1>1. \/ p = Serving \/ p = PackagedServing
        \/ \E name \in Names, v \in Variables : p = Extension(name, v)
    BY DEF Providers, ResidualProvider, Names, Variables
  <1>2. /\ Serving.provider = "explicit-serving" /\ Serving.name = "serving"
        /\ Serving.variable = "ACTLIZE_LA_SERVING_LIBRARY"
    BY DEF Serving
  <1>3. PackagedServing.provider = "packaged-serving" /\ PackagedServing.name = "serving"
    BY DEF PackagedServing
  <1>4. \A name, v : LET e == Extension(name, v) IN
          e.provider = "extension" /\ e.name = name /\ e.variable = v
    BY DEF Extension
  <1>5. "serving" \in Names /\ "ACTLIZE_LA_SERVING_LIBRARY" \in Variables
    BY DEF Names, Variables
  <1> QED
    BY <1>1, <1>2, <1>3, <1>4, <1>5 DEF ProviderNames

\* A path found is where the selection says, from the cache or not.
LEMMA PathChosen ==
  ASSUME FileInv, CacheInv, NEW r, NEW p \in Providers(r), p # Builtin, Path(p) # None
  PROVE  /\ Path(p) = Chosen(p) /\ Path(p) \in Files
         /\ p # PackagedServing =>
              /\ environ[p.variable] \notin {None, Blank}
              /\ Path(p) = Place[<<IF environ[p.variable] \in Absolute THEN "" ELSE cwd,
                                  environ[p.variable]>>]
  <1> DEFINE value == environ[p.variable]
             dir == IF value \in Absolute THEN "" ELSE cwd
             key == PathKey(p.variable)
             hits == {entry \in resolved : entry.key = key}
  <1>1. key[2] = value /\ key[3] = dir
    BY DEF PathKey
  <1>2. CASE p = PackagedServing
    BY <1>2, LoadingAssumption, ProviderShapes DEF Path, Chosen
  <1>3. CASE p # PackagedServing
    <2>1. p.provider \in {"extension", "explicit-serving"} /\ p.variable \in Variables
      BY <1>3, ProviderShapes DEF ProviderNames
    <2>2. value \notin {None, Blank} /\ Path(p) = Place[<<dir, value>>]
      <3>1. CASE p.provider = "extension" /\ hits # {}
        <4> PICK entry \in hits : Path(p) = entry.file
          BY <3>1 DEF Path
        <4>1. EntryInv(entry) /\ entry.key = key
          BY DEF CacheInv
        <4> QED
          BY <1>1, <4>1 DEF EntryInv
      <3>2. CASE ~(p.provider = "extension" /\ hits # {})
        <4>1. Path(p) = Locate(p)
          BY <2>1, <3>2 DEF Path
        <4> QED
          BY <4>1 DEF Locate
      <3> QED
        BY <3>1, <3>2
    <2>3. Path(p) = Locate(p)
      BY <2>2 DEF Locate
    <2>4. Path(p) \in Files
      <3>1. environ \in Environments /\ cwd \in Cwds
        BY DEF FileInv
      <3>2. Place[<<dir, value>>] \in Files \union {None}
        BY <2>1, <2>2, <3>1, LoadingAssumption, Zenon
      <3> QED
        BY <2>2, <3>2
    <2> QED
      BY <1>3, <2>2, <2>3, <2>4 DEF Chosen
  <1> QED
    BY <1>2, <1>3

\* The route of a request and what it selects depend on the selection alone.
LEMMA SelectionDetermines ==
  ASSUME UNCHANGED selection, NEW r
  PROVE  /\ Resolves(r)' = Resolves(r) /\ Providers(r)' = Providers(r)
         /\ \A p : Chosen(p)' = Chosen(p) /\ KeyOf(p)' = KeyOf(p)
  <1>1. environ' = environ /\ cwd' = cwd
    BY DEF selection
  <1>2. Legacy' = Legacy /\ \A v : Set(v)' = Set(v)
    BY <1>1 DEF Legacy, Set
  <1>3. Backend(r)' = Backend(r)
    BY <1>2 DEF Backend
  <1>4. Algorithm(r)' = Algorithm(r)
    BY <1>3 DEF Algorithm
  <1>5. Resolves(r)' = Resolves(r)
    BY <1>2, <1>3, <1>4 DEF Resolves, Hopper
  <1>6. ResidualProvider' = ResidualProvider
    BY <1>2 DEF ResidualProvider
  <1>7. Providers(r)' = Providers(r)
    BY <1>2, <1>3, <1>4, <1>6 DEF Providers
  <1>8. ASSUME NEW p
        PROVE  Locate(p)' = Locate(p) /\ PathKey(p.variable)' = PathKey(p.variable)
    BY <1>1 DEF Locate, PathKey
  <1> QED
    BY <1>5, <1>7, <1>8 DEF Chosen, KeyOf

-----------------------------------------------------------------------------
(***************************************************************************)
(* The call in progress.                                                   *)
(***************************************************************************)

\* Keys are of their types, and tell the file.
LEMMA KeyTypes ==
  ASSUME FileInv, CacheInv, NEW r, NEW p \in Providers(r), p # Builtin, Path(p) # None
  PROVE  /\ Key(p) \in Keys /\ Key(p) = KeyOf(p) /\ Keyed(p.provider, Key(p), Path(p))
         /\ p.provider = "extension" => Key(p)[1] = p.name
  <1>1. Path(p) = Chosen(p) /\ Path(p) \in Files /\ p.name \in Names
        /\ p.provider \in ProviderNames
    BY PathChosen, ProviderShapes
  <1>2. CASE p.provider = "explicit-serving"
    <2>1. p # PackagedServing /\ p.variable \in Variables
      BY <1>2, ProviderShapes
    <2>2. PathKey(p.variable) \in Keys
      <3>1. environ[p.variable] \in Values /\ cwd \in Cwds
        BY <2>1 DEF FileInv, Values
      <3> QED
        BY <2>1, <3>1 DEF PathKey, Keys
    <2>3. Path(p) = Place[<<PathKey(p.variable)[3], PathKey(p.variable)[2]>>]
      BY <2>1, PathChosen DEF PathKey
    <2> QED
      BY <1>2, <2>2, <2>3 DEF Key, KeyOf, Keyed
  <1>3. CASE p.provider # "explicit-serving"
    <2> DEFINE key == <<p.name, Path(p)>>
    <2>1. key \in Keys /\ key[1] = p.name /\ key[2] = Path(p)
      BY <1>1 DEF Keys
    <2>2. Key(p) = key /\ KeyOf(p) = key
      BY <1>1, <1>3 DEF Key, KeyOf
    <2> HIDE DEF key
    <2>3. p.provider = "packaged-serving" => Path(p) = Packaged.library
      BY <1>1, ProviderShapes DEF Chosen
    <2> QED
      BY <1>1, <1>3, <2>1, <2>2, <2>3 DEF Keyed, ProviderNames
  <1> QED
    BY <1>2, <1>3

LEMMA BeginKeeps ==
  ASSUME FileInv, CacheInv, NEW kind \in {"forward", "route"}, NEW r \in Requests, Begin(kind, r)
  PROVE  CallInv' /\ \A entry \in resolved' : EntryInv(entry)
  <1> PICK p \in Providers(r) :
        /\ p # Builtin /\ Path(p) # None
        /\ resolved' = resolved \union Remembered(p)
        /\ LET base == [pc |-> "begin", stage |-> "first", kind |-> kind, request |-> r,
                        provider |-> p.provider, name |-> p.name, file |-> Path(p),
                        key |-> Key(p), module |-> 0, seal |-> None, digest |-> None,
                        manifest |-> None, sealed |-> None, image |-> NoImage,
                        fresh |-> FALSE] IN
           IF Hits(p) # {}
           THEN call' = [base EXCEPT !.pc = "loaded", !.module = CHOOSE i \in Hits(p) : TRUE]
           ELSE call' = [base EXCEPT !.pc = IF p = PackagedServing THEN "seal" ELSE "hash"]
    BY DEF Begin
  <1>1. Resolves(r) /\ UNCHANGED <<disk, mapped, modules, cached, environ, cwd>>
    BY DEF Begin, files, selection
  <1>2. /\ Path(p) = Chosen(p) /\ Path(p) \in Files /\ Key(p) \in Keys /\ Key(p) = KeyOf(p)
        /\ Keyed(p.provider, Key(p), Path(p))
        /\ p.provider \in ProviderNames /\ p.name \in Names
        /\ p = PackagedServing <=> p.provider = "packaged-serving"
    BY PathChosen, KeyTypes, ProviderShapes
  <1>3. \A entry \in resolved' : EntryInv(entry)
    <2>1. ASSUME p.provider = "extension"
          PROVE  EntryInv([key |-> PathKey(p.variable), file |-> Path(p)])
      <3> DEFINE entry == [key |-> PathKey(p.variable), file |-> Path(p)]
      <3>1. entry.key = PathKey(p.variable) /\ entry.file = Path(p)
        OBVIOUS
      <3> HIDE DEF entry
      <3>2. /\ PathKey(p.variable)[2] = environ[p.variable]
            /\ PathKey(p.variable)[3] = IF environ[p.variable] \in Absolute THEN "" ELSE cwd
        BY DEF PathKey
      <3>3. p # PackagedServing
        BY <1>2, <2>1
      <3>4. /\ environ[p.variable] \notin {None, Blank}
            /\ Path(p) = Place[<<IF environ[p.variable] \in Absolute THEN "" ELSE cwd,
                                environ[p.variable]>>]
        BY <3>3, PathChosen
      <3>5. EntryInv(entry)
        BY <3>1, <3>2, <3>4 DEF EntryInv
      <3> QED
        BY <3>5 DEF entry
    <2> QED
      BY <2>1 DEF Remembered, CacheInv
  <1>4. /\ call'.kind = kind /\ call'.request = r /\ call'.provider = p.provider
        /\ call'.name = p.name /\ call'.file = Path(p) /\ call'.key = Key(p)
        /\ call'.stage = "first"
        /\ call'.pc = (IF Hits(p) # {} THEN "loaded"
                       ELSE IF p = PackagedServing THEN "seal" ELSE "hash")
        /\ call'.module = IF Hits(p) # {} THEN CHOOSE i \in Hits(p) : TRUE ELSE 0
    OBVIOUS
  <1>5. ASSUME Hits(p) # {}
        PROVE  LET m == modules[CHOOSE i \in Hits(p) : TRUE] IN
               /\ (CHOOSE i \in Hits(p) : TRUE) \in 1..Len(modules)
               /\ m.provider = p.provider /\ m.key = Key(p) /\ m.file = Path(p)
    <2> PICK i \in Hits(p) : i = CHOOSE j \in Hits(p) : TRUE
      BY <1>5
    <2>1. /\ i \in 1..Len(modules) /\ modules[i].provider = p.provider
          /\ modules[i].key = Key(p) /\ ModuleInv(modules[i])
      BY DEF Hits, CacheInv
    <2>2. modules[i].file = Path(p)
      BY <1>2, <2>1 DEF ModuleInv, Keyed, ProviderNames
    <2> QED
      BY <2>1, <2>2
  <1>6. call' \in Calls
    <2>1. NoImage \in Image
      BY DEF NoImage, Image
    <2>2. (IF Hits(p) # {} THEN CHOOSE i \in Hits(p) : TRUE ELSE 0) \in Nat
      BY <1>5 DEF CacheInv
    <2> QED
      BY <1>2, <2>1, <2>2 DEF Calls
  <1>7. Aimed'
    <2>1. Resolves(r)' /\ Providers(r)' = Providers(r) /\ Chosen(p)' = Chosen(p)
          /\ KeyOf(p)' = KeyOf(p)
      BY <1>1, SelectionDetermines DEF selection
    <2> QED
      BY <1>2, <1>4, <2>1 DEF Aimed, Aims
  <1>8. StageInv' /\ LoadInv'
    BY <1>2, <1>4 DEF StageInv, LoadInv
  <1>9. UseInv'
    BY <1>1, <1>4, <1>5 DEF UseInv, Module
  <1> QED
    BY <1>3, <1>6, <1>7, <1>8, <1>9 DEF CallInv

\* A step of a load keeps what the call is for.
LEMMA AimKept ==
  ASSUME CallInv, call # Idle, UNCHANGED selection, call'.request = call.request,
         call'.provider = call.provider, call'.name = call.name, call'.file = call.file,
         call'.key = call.key
  PROVE  Aimed'
  <1>1. Aimed
    BY DEF CallInv
  <1> PICK p \in Providers(call.request) : Aims(p, call)
    BY <1>1 DEF Aimed
  <1>2. /\ Resolves(call.request)' /\ Providers(call.request)' = Providers(call.request)
        /\ Chosen(p)' = Chosen(p) /\ KeyOf(p)' = KeyOf(p)
    <2> PICK q : q = call.request
      OBVIOUS
    <2>1. Resolves(q)' = Resolves(q) /\ Providers(q)' = Providers(q)
          /\ Chosen(p)' = Chosen(p) /\ KeyOf(p)' = KeyOf(p)
      BY SelectionDetermines
    <2> QED
      BY <1>1, <2>1 DEF Aimed
  <1> QED
    BY <1>1, <1>2 DEF Aimed, Aims

\* Giving up is always sound: there is no call any more.
LEMMA RefuseKeeps ==
  ASSUME call' = Idle
  PROVE  CallInv'
  BY DEF CallInv, Idle

LEMMA CallTypes ==
  ASSUME CallInv, call.pc # "idle"
  PROVE  call # Idle /\ call \in Calls /\ Aimed /\ StageInv /\ LoadInv /\ UseInv
  BY IdleIsNoCall DEF CallInv

LEMMA SealKeeps ==
  ASSUME CallInv, FileInv, ReadSeal
  PROVE  CallInv'
  <1>1. /\ call.pc = "seal" /\ UNCHANGED <<disk, mapped, modules, environ, cwd>>
        /\ call' = [call EXCEPT !.pc = "digest", !.seal = disk[Packaged.seal].build]
    BY DEF ReadSeal, OnlyReads, Continue, Content
  <1>2. call # Idle /\ call \in Calls /\ StageInv /\ LoadInv /\ UseInv
    BY <1>1, CallTypes
  <1>3. disk[Packaged.seal].build \in Builds
    BY LoadingAssumption DEF FileInv
  <1>4. /\ call' \in Calls /\ call'.pc = "digest" /\ call'.stage = call.stage
        /\ call'.request = call.request /\ call'.provider = call.provider
        /\ call'.kind = call.kind /\ call'.name = call.name
        /\ call'.file = call.file /\ call'.key = call.key
        /\ call'.module = call.module /\ call'.sealed = call.sealed
        /\ call'.image = call.image /\ call'.fresh = call.fresh
    BY <1>1, <1>2, <1>3 DEF Calls
  <1>5. Aimed'
    BY <1>1, <1>2, <1>4, AimKept DEF selection
  <1>6. StageInv' /\ UseInv'
    BY <1>1, <1>2, <1>4 DEF StageInv, UseInv, Module
  <1>7. LoadInv'
    BY <1>1, <1>2, <1>4 DEF LoadInv, Past, Holds, Fits
  <1> QED
    BY <1>4, <1>5, <1>6, <1>7 DEF CallInv

\* The digest of an audit is of the manifest on disk, which is not gone.
LEMMA DigestKeeps ==
  ASSUME CallInv, FileInv, CacheInv, ReadDigest
  PROVE  CallInv'
  <1> DEFINE d == disk[Packaged.manifest].build
  <1>1. /\ call.pc = "digest" /\ UNCHANGED <<disk, mapped, modules, environ, cwd>>
        /\ call' = [call EXCEPT !.pc = "manifest", !.digest = d] \/ call' = Idle
    BY DEF ReadDigest, OnlyReads, Continue, Refuse, Content
  <1>2. call # Idle /\ call \in Calls /\ StageInv /\ LoadInv /\ UseInv
    BY <1>1, CallTypes
  <1>3. d \in Builds /\ ~Gone(d)
    <2>1. d \in Builds
      BY LoadingAssumption DEF FileInv
    <2>2. Built[d].made \in Nat
      BY <2>1, LoadingAssumption
    <2> QED
      BY <2>1, <2>2 DEF Gone
  <1> SUFFICES ASSUME call' # Idle PROVE CallInv'
    BY RefuseKeeps
  <1>4. /\ call' \in Calls /\ call'.pc = "manifest" /\ call'.stage = call.stage
        /\ call'.request = call.request /\ call'.provider = call.provider
        /\ call'.kind = call.kind /\ call'.name = call.name
        /\ call'.file = call.file /\ call'.key = call.key
        /\ call'.module = call.module /\ call'.sealed = call.sealed
        /\ call'.image = call.image /\ call'.fresh = call.fresh /\ call'.digest = d
    BY <1>1, <1>2, <1>3 DEF Calls
  <1>5. Aimed'
    BY <1>1, <1>2, <1>4, AimKept DEF selection
  <1>6. StageInv'
    BY <1>1, <1>2, <1>3, <1>4 DEF StageInv
  <1>7. LoadInv'
    BY <1>1, <1>2, <1>4 DEF LoadInv, Past, Holds, Fits
  <1>8. UseInv'
    <2>1. ASSUME call.stage = "audit", call.provider = "packaged-serving", d = Module.digest
          PROVE  Module.image.build = d
      <3>1. ModuleInv(Module) /\ Module.provider = "packaged-serving"
        BY <1>2, <2>1 DEF UseInv, CacheInv, Module
      <3> QED
        BY <1>3, <2>1, <3>1 DEF ModuleInv
    <2> QED
      BY <1>1, <1>2, <1>4, <2>1 DEF UseInv, Module
  <1> QED
    BY <1>4, <1>5, <1>6, <1>7, <1>8 DEF CallInv

LEMMA ManifestKeeps ==
  ASSUME CallInv, FileInv, ReadManifest
  PROVE  CallInv'
  <1> DEFINE m == disk[Packaged.manifest].build
  <1>1. /\ call.pc = "manifest" /\ UNCHANGED <<disk, mapped, modules, environ, cwd>>
        /\ call' = [call EXCEPT !.pc = "resources", !.manifest = m] \/ call' = Idle
    BY DEF ReadManifest, OnlyReads, Continue, Refuse, Content
  <1>2. call # Idle /\ call \in Calls /\ StageInv /\ LoadInv /\ UseInv
    BY <1>1, CallTypes
  <1>3. m \in Builds
    BY LoadingAssumption DEF FileInv
  <1> SUFFICES ASSUME call' # Idle PROVE CallInv'
    BY RefuseKeeps
  <1>4. /\ call' \in Calls /\ call'.pc = "resources" /\ call'.stage = call.stage
        /\ call'.request = call.request /\ call'.provider = call.provider
        /\ call'.kind = call.kind /\ call'.name = call.name
        /\ call'.file = call.file /\ call'.key = call.key
        /\ call'.module = call.module /\ call'.sealed = call.sealed
        /\ call'.image = call.image /\ call'.fresh = call.fresh /\ call'.digest = call.digest
        /\ call'.manifest = m
    BY <1>1, <1>2, <1>3 DEF Calls
  <1>5. Aimed'
    BY <1>1, <1>2, <1>4, AimKept DEF selection
  <1>6. StageInv' /\ UseInv'
    BY <1>1, <1>2, <1>4 DEF StageInv, UseInv, Module
  <1>7. LoadInv'
    BY <1>1, <1>2, <1>4 DEF LoadInv, Past, Holds, Fits, Gone
  <1> QED
    BY <1>4, <1>5, <1>6, <1>7 DEF CallInv

\* The library is the manifest's now; if it is still the file hashed, so was that.
LEMMA ResourcesKeep ==
  ASSUME CallInv, FileInv, ReadResources
  PROVE  CallInv'
  <1>1. /\ call.pc = "resources" /\ UNCHANGED <<disk, mapped, modules, environ, cwd>>
        /\ \/ call' = Idle
           \/ /\ disk[Packaged.library].build = call.manifest
              /\ IF call.stage = "first"
                 THEN call' = [call EXCEPT !.pc = "hash", !.sealed = call.digest]
                 ELSE call' = [call EXCEPT !.pc = "compare"]
    BY DEF ReadResources, OnlyReads, Continue, Refuse, Content
  <1>2. call # Idle /\ call \in Calls /\ StageInv /\ LoadInv /\ UseInv /\ Aimed
    BY <1>1, CallTypes
  <1> SUFFICES ASSUME call' # Idle PROVE CallInv'
    BY RefuseKeeps
  <1>3. call.provider = "packaged-serving" /\ call.digest \in Builds
        /\ call.file = Packaged.library
    BY <1>1, <1>2 DEF StageInv, Aimed, Keyed
  <1>4. /\ call' \in Calls /\ call'.stage = call.stage
        /\ call'.request = call.request /\ call'.provider = call.provider
        /\ call'.kind = call.kind /\ call'.name = call.name
        /\ call'.file = call.file /\ call'.key = call.key
        /\ call'.module = call.module
        /\ call'.image = call.image /\ call'.fresh = call.fresh /\ call'.digest = call.digest
        /\ IF call.stage = "first" THEN call'.pc = "hash" /\ call'.sealed = call.digest
           ELSE call'.pc = "compare" /\ call'.sealed = call.sealed
    <2>1. CASE call.stage = "first"
      BY <1>1, <1>2, <1>3, <2>1 DEF Calls
    <2>2. CASE call.stage # "first"
      BY <1>1, <1>2, <1>3, <2>2 DEF Calls
    <2> QED
      BY <2>1, <2>2
  <1>5. Aimed'
    BY <1>1, <1>2, <1>4, AimKept DEF selection
  <1>6. StageInv'
    BY <1>1, <1>2, <1>3, <1>4 DEF StageInv
  <1>7. UseInv'
    BY <1>1, <1>2, <1>4 DEF UseInv, Module
  <1>8. LoadInv'
    <2>1. CASE call.stage = "second"
      <3>1. \/ call.image.inode < disk[call.file].inode
            \/ call.image.build = call.digest \/ Gone(call.digest)
        BY <1>1, <1>2, <1>3, <2>1 DEF LoadInv, Past
      <3> QED
        BY <1>1, <1>2, <1>3, <1>4, <2>1, <3>1 DEF LoadInv, Past, Holds, Fits, Gone
    <2>2. CASE call.stage # "second"
      BY <1>4, <2>2 DEF LoadInv
    <2> QED
      BY <2>1, <2>2
  <1> QED
    BY <1>4, <1>5, <1>6, <1>7, <1>8 DEF CallInv

LEMMA HashKeeps ==
  ASSUME CallInv, FileInv, Hash
  PROVE  CallInv'
  <1>1. /\ call.pc = "hash" /\ UNCHANGED <<disk, mapped, modules, environ, cwd>>
        /\ call' = [call EXCEPT !.pc = "open", !.image = disk[call.file]]
    BY DEF Hash, OnlyReads, Continue
  <1>2. call # Idle /\ call \in Calls /\ StageInv /\ LoadInv /\ UseInv /\ call.file \in Files
    BY <1>1, CallTypes DEF Calls
  <1>3. disk[call.file] \in Image
    BY <1>2 DEF FileInv
  <1>4. /\ call' \in Calls /\ call'.pc = "open" /\ call'.stage = call.stage
        /\ call'.request = call.request /\ call'.provider = call.provider
        /\ call'.kind = call.kind /\ call'.name = call.name
        /\ call'.file = call.file /\ call'.key = call.key
        /\ call'.module = call.module /\ call'.sealed = call.sealed
        /\ call'.image = disk[call.file]
    BY <1>1, <1>2, <1>3 DEF Calls
  <1>5. Aimed'
    BY <1>1, <1>2, <1>4, AimKept DEF selection
  <1>6. StageInv' /\ UseInv'
    BY <1>1, <1>2, <1>4 DEF StageInv, UseInv, Module
  <1>7. LoadInv'
    BY <1>1, <1>2, <1>4 DEF LoadInv, StageInv, Past
  <1> QED
    BY <1>4, <1>5, <1>6, <1>7 DEF CallInv

\* What dlopen returned fits, and is what was hashed unless the file changed since
\* or was mapped before.
LEMMA OpenKeeps ==
  ASSUME CallInv, FileInv, Open
  PROVE  CallInv'
  <1> DEFINE m == mapped'[call.file]
  <1>1. /\ call.pc = "open" /\ UNCHANGED <<disk, modules, environ, cwd>>
        /\ m = (IF Holds(call.file) THEN mapped[call.file] ELSE disk[call.file])
        /\ m # NoImage
        /\ \/ call' = Idle
           \/ /\ InspectAbi(m.build)
              /\ call' = [call EXCEPT !.pc = Reinspection(call.provider), !.stage = "second",
                                      !.fresh = ~Holds(call.file)]
    BY OpenFiles DEF Open, Continue, Refuse, files, selection
  <1>2. call # Idle /\ call \in Calls /\ Aimed /\ StageInv /\ LoadInv /\ UseInv
    BY <1>1, CallTypes
  <1> SUFFICES ASSUME call' # Idle PROVE CallInv'
    BY RefuseKeeps
  <1>3. /\ call.stage = "first" /\ Past(call.image, call.file)
        /\ call.provider = "packaged-serving" => call.sealed \in Builds
    BY <1>1, <1>2 DEF StageInv, LoadInv
  <1>4. Reinspection(call.provider) =
          IF call.provider = "extension" THEN "remember"
          ELSE IF call.provider = "packaged-serving" THEN "seal" ELSE "compare"
    BY DEF Reinspection
  <1>5. /\ call' \in Calls /\ call'.pc = Reinspection(call.provider) /\ call'.stage = "second"
        /\ call'.request = call.request /\ call'.provider = call.provider
        /\ call'.kind = call.kind /\ call'.name = call.name
        /\ call'.file = call.file /\ call'.key = call.key
        /\ call'.module = call.module /\ call'.sealed = call.sealed
        /\ call'.image = call.image /\ call'.fresh = ~Holds(call.file)
    BY <1>1, <1>2, <1>4 DEF Calls
  <1>6. Aimed'
    BY <1>1, <1>2, <1>5, AimKept DEF selection
  <1>7. StageInv'
    BY <1>3, <1>4, <1>5 DEF StageInv
  <1>8. UseInv'
    BY <1>4, <1>5 DEF UseInv
  <1>9. Fits(call.provider, call.key, m.build)
    <2>1. CASE call.provider = "extension"
      <3>1. PICK p \in Providers(call.request) : Aims(p, call)
        BY <1>2 DEF Aimed
      <3>2. call.key = <<call.name, Chosen(p)>>
        BY <2>1, <3>1 DEF Aims, KeyOf
      <3> QED
        BY <1>1, <2>1, <3>2, IdleIsNoCall DEF InspectAbi, Fits
    <2>2. CASE call.provider # "extension"
      BY <1>1, <2>2 DEF InspectAbi, Fits
    <2> QED
      BY <2>1, <2>2
  <1>10. ~Holds(call.file) => m = call.image \/ call.image.inode < disk[call.file].inode
    BY <1>1, <1>3 DEF Past
  <1>11. LoadInv'
    <2>1. Past(call.image, call.file)'
      BY <1>1, <1>3, <1>5 DEF Past
    <2>2. Holds(call.file)' /\ Fits(call.provider, call.key, mapped[call.file].build)'
      BY <1>1, <1>5, <1>9 DEF Holds, Fits
    <2>3. call'.fresh => \/ mapped'[call'.file] = call'.image
                         \/ call'.image.inode < disk'[call'.file].inode
      BY <1>1, <1>5, <1>10
    <2> QED
      BY <1>4, <1>5, <2>1, <2>2, <2>3 DEF LoadInv
  <1> QED
    BY <1>5, <1>6, <1>7, <1>8, <1>11 DEF CallInv

\* What a load read so far stays read, whatever is replaced meanwhile.
LEMMA ReplaceKeeps ==
  ASSUME CallInv, FileInv, NEW g \in DOMAIN Rebuilds, Replace(g)
  PROVE  CallInv'
  <1>1. UNCHANGED <<call, modules, mapped, environ, cwd>> /\ [Next]_vars
    BY DEF Replace, selection, Next
  <1> SUFFICES ASSUME call # Idle PROVE CallInv'
    BY <1>1 DEF CallInv
  <1>2. call \in Calls /\ Aimed /\ StageInv /\ LoadInv /\ UseInv
    BY DEF CallInv
  <1>3. Aimed'
    BY <1>1, AimKept DEF selection
  <1>4. StageInv' /\ UseInv'
    BY <1>1, <1>2 DEF StageInv, UseInv, Module
  <1>5. /\ call.file \in Files /\ call.image.inode \in Nat
        /\ disk[call.file].inode \in Nat /\ disk'[call.file].inode \in Nat
        /\ disk'[call.file] = disk[call.file] \/ disk[call.file].inode < disk'[call.file].inode
    BY <1>2, ReplaceFiles DEF Calls, FileInv, Image
  <1>6. /\ Past(call.image, call.file) => Past(call.image, call.file)'
        /\ call.image.inode < disk[call.file].inode =>
             call'.image.inode < disk'[call'.file].inode
    BY <1>1, <1>5 DEF Past
  <1>7. ASSUME call.digest \in Builds
        PROVE  /\ Gone(call.digest) => Gone(call.digest)'
               /\ call.digest = disk[Packaged.manifest].build =>
                    call'.digest = disk'[Packaged.manifest].build \/ Gone(call.digest)'
    <2> PICK d \in Builds : d = call.digest
      BY <1>7
    <2>1. /\ Gone(d) => Gone(d)'
          /\ d = disk[Packaged.manifest].build =>
               d = disk'[Packaged.manifest].build \/ Gone(d)'
      BY <1>1, GoneForGood
    <2> QED
      BY <1>1, <2>1 DEF Gone
  <1>8. LoadInv'
    <2>1. CASE call.stage = "second" /\ call.pc # "loaded"
      <3>1. Holds(call.file)' /\ Fits(call.provider, call.key, mapped[call.file].build)'
        BY <1>1, <1>2, <2>1 DEF LoadInv, Holds, Fits
      <3>2. Past(call.image, call.file)'
        BY <1>2, <1>6, <2>1 DEF LoadInv
      <3>3. call'.fresh => \/ mapped'[call'.file] = call'.image
                           \/ call'.image.inode < disk'[call'.file].inode
        BY <1>1, <1>2, <1>6, <2>1 DEF LoadInv
      <3>4. call.pc = "manifest" =>
              call'.digest = disk'[Packaged.manifest].build \/ Gone(call.digest)'
        BY <1>2, <1>7, <2>1 DEF LoadInv, StageInv
      <3>5. call.pc = "resources" => call'.manifest = call'.digest \/ Gone(call.digest)'
        BY <1>1, <1>2, <1>7, <2>1 DEF LoadInv, StageInv
      <3>6. call.pc = "compare" /\ call.provider = "packaged-serving" =>
              \/ call'.image.inode < disk'[call'.file].inode
              \/ call'.digest \in Builds
                 /\ (call'.image.build = call'.digest \/ Gone(call.digest)')
        BY <1>1, <1>2, <1>6, <1>7, <2>1 DEF LoadInv
      <3> QED
        BY <1>1, <3>1, <3>2, <3>3, <3>4, <3>5, <3>6 DEF LoadInv
    <2>2. CASE ~(call.stage = "second" /\ call.pc # "loaded")
      BY <1>1, <1>2, <1>6, <2>2 DEF LoadInv
    <2> QED
      BY <2>1, <2>2
  <1> QED
    BY <1>1, <1>2, <1>3, <1>4, <1>8 DEF CallInv, Calls

-----------------------------------------------------------------------------
(***************************************************************************)
(* Modules.                                                                *)
(***************************************************************************)

\* A module stays what it is: its mapping is for good, its manifest or gone.
LEMMA ModuleKept ==
  ASSUME FileInv, CallInv, [Next]_vars, NEW i \in 1..Len(modules), ModuleInv(modules[i]),
         modules'[i] = modules[i]
  PROVE  ModuleInv(modules[i])'
  <1> PICK m : m = modules[i]
    OBVIOUS
  <1>1. ModuleInv(m) /\ m.file \in Files
    BY DEF ModuleInv
  <1>2. mapped'[m.file] = mapped[m.file] /\ m.file \in Files
    BY <1>1, FilesAdvance DEF ModuleInv
  <1>3. m.digest \in Builds /\ Gone(m.digest) => Gone(m.digest)'
    <2> SUFFICES ASSUME m.digest \in Builds PROVE Gone(m.digest) => Gone(m.digest)'
      OBVIOUS
    <2> PICK d \in Builds : d = m.digest
      OBVIOUS
    <2> QED
      BY GoneForGood
  <1>4. ModuleInv(m)'
    BY <1>1, <1>2, <1>3 DEF ModuleInv, Holds, Fits
  <1> QED
    BY <1>4

\* A module created is of the image the comparison found unchanged.
LEMMA CreateKeeps ==
  ASSUME FileInv, CacheInv, CallInv, call.pc \in {"remember", "compare"}, call.stage = "second",
         disk[call.file] = call.image, [Next]_vars,
         NEW devices, NEW digest, Create(devices, digest), UNCHANGED <<disk, mapped, selection>>,
         call.provider = "packaged-serving" => digest = call.digest,
         call.provider # "packaged-serving" => digest = None
  PROVE  /\ CallInv'
         /\ modules' \in Seq(Created)' /\ Len(modules') = Len(modules) + 1
         /\ cached' = cached \union {Len(modules')}
         /\ \A i \in 1..Len(modules) : modules'[i] = modules[i]
         /\ \A i \in 1..Len(modules') : ModuleInv(modules[i])'
  <1> DEFINE m == [provider |-> call.provider, key |-> call.key, file |-> call.file,
                   image |-> call.image, devices |-> devices, digest |-> digest,
                   fresh |-> call.fresh]
             n == Len(modules) + 1
  <1>1. call # Idle /\ call \in Calls /\ Aimed /\ StageInv /\ LoadInv /\ UseInv
    BY CallTypes
  <1>2. modules' = Append(modules, m) /\ modules \in Seq(Created)
    BY DEF Create, CacheInv
  <1>3. /\ m.provider = call.provider /\ m.key = call.key /\ m.file = call.file
        /\ m.image = call.image /\ m.digest = digest /\ m.fresh = call.fresh
    OBVIOUS
  <1> HIDE DEF m
  <1>4. /\ Len(modules) \in Nat /\ Len(modules') = n /\ modules'[n] = m
        /\ \A i \in 1..Len(modules) : modules'[i] = modules[i]
    BY <1>2
  <1>5. modules' \in Seq(Created)'
    <2>1. \A i \in 1..n : modules'[i] \in Created'
      BY <1>4 DEF Created
    <2>2. modules' \in Seq(Created \union {m})
      BY <1>2, AppendProperties
    <2>3. modules' \in [1..n -> Created \union {m}]
      BY <1>4, <2>2, LenProperties
    <2>4. modules' \in [1..n -> Created']
      BY <2>1, <2>3
    <2> QED
      BY <1>4, <2>4, SeqDef
  <1>6. ModuleInv(m)
    <2>1. /\ Holds(call.file) /\ Fits(call.provider, call.key, mapped[call.file].build)
          /\ Keyed(call.provider, call.key, call.file)
          /\ call.file \in Files /\ call.provider \in ProviderNames
      BY <1>1 DEF LoadInv, Aimed, Calls
    <2>2. disk[call.file].inode \in Nat
      BY <2>1 DEF FileInv, Image
    <2>3. call.fresh => mapped[call.file] = call.image
      BY <1>1, <2>2 DEF LoadInv
    <2>4. call.provider = "packaged-serving" =>
            digest \in Builds /\ (call.image.build = digest \/ Gone(digest))
      BY <1>1, <2>2 DEF LoadInv, StageInv
    <2> QED
      BY <1>3, <2>1, <2>3, <2>4 DEF ModuleInv
  <1>7. ASSUME NEW i \in 1..n
        PROVE  ModuleInv(modules[i])'
    <2>1. CASE i \in 1..Len(modules)
      BY <1>4, <2>1, ModuleKept DEF CacheInv
    <2>2. CASE i = n
      <3>1. modules'[i] = m
        BY <1>4, <2>2
      <3> QED
        BY <1>6, <3>1 DEF ModuleInv, Holds, Fits, Gone
    <2> QED
      BY <1>4, <2>1, <2>2
  <1>8. /\ call' \in Calls /\ call'.pc = "loaded" /\ call'.stage = "second" /\ call'.module = n
        /\ call'.request = call.request /\ call'.provider = call.provider
        /\ call'.kind = call.kind /\ call'.name = call.name
        /\ call'.file = call.file /\ call'.key = call.key
        /\ call'.sealed = call.sealed
    <2>1. call' = [call EXCEPT !.pc = "loaded", !.module = n]
      BY <1>4 DEF Create, Continue
    <2>2. n \in Nat
      BY <1>4
    <2> HIDE DEF n
    <2> QED
      BY <1>1, <2>1, <2>2 DEF Calls
  <1>9. Aimed'
    BY <1>1, <1>8, AimKept
  <1>10. StageInv' /\ LoadInv'
    BY <1>1, <1>8 DEF StageInv, LoadInv
  <1>11. UseInv'
    BY <1>3, <1>4, <1>8 DEF UseInv, Module
  <1> QED
    BY <1>4, <1>5, <1>7, <1>8, <1>9, <1>10, <1>11 DEF CallInv, Create

-----------------------------------------------------------------------------
(***************************************************************************)
(* Answers.                                                                *)
(***************************************************************************)

LEMMA NoAnswerKeeps ==
  ASSUME answer' = NoAnswer
  PROVE  AnswerInv'
  <1>1. answer'.kind = None
    BY DEF NoAnswer
  <1> QED
    BY <1>1 DEF AnswerInv, ReportTruthful, ReportMatchesManifest, SelectionHonoured,
       RightBinaryRuns, Answered, None

\* The module a call has in hand.
LEMMA InHand ==
  ASSUME FileInv, CacheInv, CallInv,
         call.pc = "loaded" \/ (call.pc = "compare" /\ call.stage = "audit")
  PROVE  /\ call # Idle /\ call \in Calls /\ Aimed /\ StageInv /\ UseInv
         /\ call.module \in 1..Len(modules) /\ ModuleInv(Module)
         /\ Module.provider = call.provider /\ Module.file = call.file /\ Module.key = call.key
  <1>1. call # Idle /\ call \in Calls /\ Aimed /\ StageInv /\ UseInv
    BY CallTypes
  <1>2. /\ call.module \in 1..Len(modules)
        /\ Module.provider = call.provider /\ Module.file = call.file /\ Module.key = call.key
    BY <1>1 DEF UseInv
  <1> QED
    BY <1>1, <1>2 DEF CacheInv, Module

\* What is answered comes from the file selected.
LEMMA AnswersSelected ==
  ASSUME FileInv, CacheInv, CallInv,
         call.pc = "loaded" \/ (call.pc = "compare" /\ call.stage = "audit"),
         answer'.request = call.request, answer'.module = call.module,
         UNCHANGED <<modules, environ, cwd>>
  PROVE  SelectionHonoured'
  <1>1. PICK p \in Providers(call.request) : Aims(p, call)
    BY InHand DEF Aimed
  <1>2. p = PackagedServing => ~Set("GDN_QSA_WY_EXTENSION") /\ ~Set("ACTLIZE_LA_SERVING_LIBRARY")
    BY DEF Providers, ResidualProvider, Extension, Serving, PackagedServing, Builtin
  <1>3. Module.provider = p.provider /\ Module.file = Chosen(p)
    BY <1>1, InHand DEF Aims
  <1>4. Answering' = Module
    BY DEF Answering, Module
  <1>5. p \in Providers(answer.request)' /\ Chosen(p)' = Chosen(p)
    <2> PICK r : r = call.request
      OBVIOUS
    <2>1. Providers(r)' = Providers(r) /\ Chosen(p)' = Chosen(p)
      BY SelectionDetermines DEF selection
    <2> QED
      BY <1>1, <2>1
  <1>6. p = PackagedServing =>
          ~Set("GDN_QSA_WY_EXTENSION")' /\ ~Set("ACTLIZE_LA_SERVING_LIBRARY")'
    BY <1>2 DEF Set
  <1> QED
    BY <1>3, <1>4, <1>5, <1>6 DEF SelectionHonoured, Chosen

\* An entry of the algorithm is found only in a binary of its backend.
LEMMA RightTarget ==
  ASSUME FileInv, CacheInv, CallInv, call.pc = "loaded", HasEntry
  PROVE  Built[mapped[call.file].build].target = Backend(call.request)
  <1> DEFINE r == call.request
             build == mapped[call.file].build
  <1>1. PICK p \in Providers(r) : Aims(p, call)
    BY InHand DEF Aimed
  <1>2. /\ Resolves(r) /\ Fits(call.provider, call.key, build)
        /\ call.provider = p.provider /\ call.key = KeyOf(p) /\ p # Builtin
    BY <1>1, InHand DEF Aimed, ModuleInv, Aims
  <1>3. build \in Builds
    BY InHand DEF ModuleInv, FileInv
  <1>4. /\ RequireImplementation(Algorithm(r), Backend(r)) /\ ~Hopper(r)
        /\ Algorithm(r) = "original" =>
             Backend(r) = (IF Legacy THEN "ppu10" ELSE "cuda_sm80")
    BY <1>2 DEF Resolves
  <1>5. /\ Algorithm(r) \in {"original", "wy", "residual"}
        /\ Algorithm(r) = "wy" => Backend(r) = "ppu10"
        /\ Algorithm(r) = "residual" => Backend(r) \in {"ppu10", "ppu15"}
    BY <1>4 DEF RequireImplementation, Catalog, Hopper
  <1>6. ASSUME NEW name, NEW v, p = Extension(name, v)
        PROVE  call.provider = "extension" /\ Built[build].init = name
    <2>1. p.provider = "extension" /\ p.name = name
      BY <1>6 DEF Extension
    <2>2. call.key = <<name, Chosen(p)>>
      BY <1>2, <2>1 DEF KeyOf
    <2> QED
      BY <1>2, <2>1, <2>2 DEF Fits
  <1>7. p \in {Serving, PackagedServing} => Built[build].target = "ppu10"
    BY <1>2 DEF Fits, Serving, PackagedServing
  <1>8. CASE Algorithm(r) = "original"
    <2>1. p = Extension("_gdn_chunk_ppu", "GDN_QSA_PPU_EXTENSION") /\ Legacy
      BY <1>1, <1>2, <1>4, <1>8 DEF Providers
    <2> QED
      BY <1>3, <1>4, <1>6, <1>8, <2>1, ExtensionTargets
  <1>9. CASE Algorithm(r) = "wy"
    <2>1. p = Extension("_gdn_wy_ppu", "GDN_QSA_WY_EXTENSION")
      BY <1>1, <1>5, <1>9 DEF Providers
    <2> QED
      BY <1>3, <1>5, <1>6, <1>9, <2>1, ExtensionTargets
  <1>10. CASE Algorithm(r) = "residual" /\ Backend(r) = "ppu15"
    <2>1. p = Extension("_gdn_residual_ppu15", "GDN_QSA_PPU15_EXTENSION")
      BY <1>1, <1>10 DEF Providers
    <2> QED
      BY <1>6, <1>10, <2>1 DEF HasEntry, Binary
  <1>11. CASE Algorithm(r) = "residual" /\ Backend(r) = "ppu10"
    <2>1. p \in ResidualProvider
      BY <1>1, <1>11 DEF Providers
    <2>2. p = Extension("_gdn_wy_ppu", "GDN_QSA_WY_EXTENSION") \/ p \in {Serving, PackagedServing}
      BY <2>1 DEF ResidualProvider
    <2> QED
      BY <1>3, <1>6, <1>7, <1>11, <2>2, ExtensionTargets
  <1> QED
    BY <1>5, <1>8, <1>9, <1>10, <1>11

\* What is reported is what is mapped.
LEMMA ReportedIsMapped ==
  ASSUME FileInv, CacheInv, CallInv, call.pc = "loaded", LoadedImageInfo,
         NEW f \in {call.file} \union Selected, f = call.file => Module.fresh
  PROVE  (IF f = call.file THEN Module.image ELSE Module.devices[f]) = mapped[f]
  <1>1. CASE f = call.file
    BY <1>1, InHand DEF ModuleInv
  <1>2. CASE f # call.file
    <2>1. f \in Selected /\ f \in Loaded(Dependency) /\ disk[f] = Module.devices[f]
      BY <1>2 DEF LoadedImageInfo
    <2>2. f \in Mapped /\ f \in Files
      BY <2>1, LoadingAssumption DEF Loaded, Mapped
    <2>3. mapped[f].inode = disk[f].inode
      BY <2>2 DEF LoadedImageInfo, Deleted
    <2>4. mapped[f] = disk[f]
      BY <2>2, <2>3 DEF FileInv, Past, Image
    <2> QED
      BY <1>2, <2>1, <2>4
  <1> QED
    BY <1>1, <1>2

LEMMA ForwardAnswers ==
  ASSUME NativeInv, Forward
  PROVE  CallInv' /\ AnswerInv'
  <1> USE DEF NativeInv
  <1>1. call.pc = "loaded" /\ UNCHANGED <<mapped, modules, environ, cwd>> /\ call' = Idle
    BY DEF Forward, Finish, Refuse, selection
  <1>2. answer = NoAnswer
    BY <1>1, IdleIsNoCall DEF AnswerInv
  <1>3. CASE HasEntry
    <2>1. answer' = [kind |-> call.kind, request |-> call.request, module |-> call.module,
                     images |-> <<>>]
      BY <1>3 DEF Forward, Finish
    <2>2. /\ answer'.kind = "forward" /\ answer'.request = call.request
          /\ answer'.module = call.module
      BY <2>1 DEF Forward
    <2>3. /\ call.module \in 1..Len(modules) /\ Module.file = call.file
          /\ Answering' = Module
      BY <1>1, <2>2, InHand DEF Answering, Module
    <2>4. SelectionHonoured'
      BY <1>1, <2>2, AnswersSelected
    <2>5. RightBinaryRuns'
      <3> PICK r : r = call.request
        OBVIOUS
      <3>1. Built[mapped[call.file].build].target = Backend(r)
        BY <1>1, <1>3, RightTarget
      <3>2. Backend(r)' = Backend(r)
        BY <1>1 DEF Backend, Legacy, Set
      <3> QED
        BY <1>1, <2>2, <2>3, <3>1, <3>2 DEF RightBinaryRuns
    <2>6. ReportTruthful' /\ ReportMatchesManifest'
      BY <2>2 DEF ReportTruthful, ReportMatchesManifest, Answered
    <2> QED
      BY <1>1, <2>2, <2>3, <2>4, <2>5, <2>6, RefuseKeeps DEF AnswerInv
  <1>4. CASE ~HasEntry
    BY <1>1, <1>2, <1>4, NoAnswerKeeps, RefuseKeeps DEF Forward
  <1> QED
    BY <1>3, <1>4

\* The report of an extension, or the start of a serving library's audit.
LEMMA RouteAnswers ==
  ASSUME NativeInv, Route
  PROVE  CallInv' /\ AnswerInv'
  <1> USE DEF NativeInv
  <1>1. call.pc = "loaded" /\ UNCHANGED <<disk, mapped, modules, environ, cwd>>
    BY DEF Route, files, selection
  <1>2. answer = NoAnswer
    BY <1>1, IdleIsNoCall DEF AnswerInv
  <1>3. call.kind = "route"
    BY DEF Route
  <1>4. CASE HasEntry /\ call.provider = "extension" /\ LoadedImageInfo
    <2> DEFINE images == [f \in {call.file} \union Selected |->
                            IF f = call.file THEN Module.image ELSE Module.devices[f]]
    <2>1. call' = Idle /\ answer' = [kind |-> call.kind, request |-> call.request,
                                     module |-> call.module, images |-> images]
      BY <1>4 DEF Route, Finish
    <2> HIDE DEF images
    <2>2. /\ answer'.kind = "route" /\ answer'.request = call.request
          /\ answer'.module = call.module /\ answer'.images = images
      BY <1>3, <2>1
    <2>3. /\ call.module \in 1..Len(modules) /\ Module.file = call.file
          /\ Answering' = Module /\ Module.digest = None
      BY <1>1, <1>4, <2>2, InHand DEF Answering, Module, ModuleInv
    <2>4. SelectionHonoured'
      BY <1>1, <2>2, AnswersSelected
    <2>5. ReportTruthful'
      <3>1. ASSUME NEW f \in DOMAIN images, f = call.file => Module.fresh
            PROVE  images[f] = mapped[f]
        BY <1>1, <1>4, <3>1, ReportedIsMapped DEF images
      <3> QED
        BY <1>1, <2>2, <2>3, <3>1 DEF ReportTruthful
    <2>6. RightBinaryRuns' /\ ReportMatchesManifest'
      BY <2>2, <2>3 DEF RightBinaryRuns, ReportMatchesManifest, Answered
    <2> QED
      BY <2>1, <2>2, <2>3, <2>4, <2>5, <2>6, <1>1, RefuseKeeps DEF AnswerInv
  <1>5. CASE ~HasEntry \/ (call.provider = "extension" /\ ~LoadedImageInfo)
    BY <1>2, <1>5, NoAnswerKeeps, RefuseKeeps DEF Route, Refuse
  <1>6. CASE HasEntry /\ call.provider # "extension"
    <2>1. /\ call' = [call EXCEPT !.stage = "audit", !.pc = Reinspection(call.provider)]
          /\ answer' = answer
      BY <1>6 DEF Route, Continue
    <2>2. call # Idle /\ call \in Calls /\ StageInv /\ UseInv
          /\ call.module \in 1..Len(modules) /\ ModuleInv(Module)
          /\ Module.provider = call.provider /\ Module.file = call.file /\ Module.key = call.key
      BY <1>1, InHand
    <2>3. Reinspection(call.provider) =
            IF call.provider = "packaged-serving" THEN "seal" ELSE "compare"
      BY <1>6 DEF Reinspection
    <2>4. /\ call' \in Calls /\ call'.pc = Reinspection(call.provider) /\ call'.stage = "audit"
          /\ call'.request = call.request /\ call'.provider = call.provider
          /\ call'.kind = call.kind /\ call'.name = call.name
          /\ call'.file = call.file /\ call'.key = call.key
          /\ call'.module = call.module
      BY <2>1, <2>2, <2>3 DEF Calls
    <2>5. Aimed'
      BY <1>1, <2>2, <2>4, AimKept DEF selection
    <2>6. StageInv' /\ LoadInv'
      BY <1>3, <1>6, <2>2, <2>3, <2>4 DEF StageInv, LoadInv
    <2>7. UseInv'
      BY <1>1, <2>2, <2>3, <2>4 DEF UseInv, Module
    <2> QED
      BY <1>2, <2>1, <2>4, <2>5, <2>6, <2>7, NoAnswerKeeps DEF CallInv
  <1> QED
    BY <1>4, <1>5, <1>6

\* The report of a serving library after its audit.
LEMMA RouteServingAnswers ==
  ASSUME NativeInv, RouteServing
  PROVE  CallInv' /\ AnswerInv'
  <1> USE DEF NativeInv
  <1>1. /\ call.pc = "compare" /\ call.stage = "audit" /\ call' = Idle
        /\ UNCHANGED <<mapped, modules, environ, cwd>>
    BY DEF RouteServing, Finish, Refuse, selection
  <1>2. answer = NoAnswer
    BY <1>1, IdleIsNoCall DEF AnswerInv
  <1>3. CASE SameImage(Module.image, Module.digest)
    <2> DEFINE images == [f \in {call.file} |-> Module.image]
    <2>1. answer' = [kind |-> call.kind, request |-> call.request,
                     module |-> call.module, images |-> images]
      BY <1>3 DEF RouteServing, Finish
    <2> HIDE DEF images
    <2>2. /\ answer'.kind = call.kind /\ answer'.request = call.request
          /\ answer'.module = call.module /\ answer'.images = images
      BY <2>1
    <2>3. /\ call.module \in 1..Len(modules) /\ Module.file = call.file
          /\ Answering' = Module /\ ModuleInv(Module) /\ UseInv /\ call.kind \in {"forward", "route"}
          /\ Module.provider = call.provider
      BY <1>1, <2>2, InHand DEF Answering, Module, Calls
    <2>4. SelectionHonoured'
      BY <1>1, <2>2, AnswersSelected
    <2>5. ReportTruthful'
      BY <1>1, <2>2, <2>3 DEF ReportTruthful, ModuleInv, images
    <2>6. ReportMatchesManifest'
      <3>1. Module.digest # None => Module.image.build = Module.digest
        BY <1>1, <1>3, <2>3 DEF ModuleInv, UseInv, SameImage
      <3> QED
        BY <1>1, <2>2, <2>3, <3>1 DEF ReportMatchesManifest, ModuleInv
    <2>7. RightBinaryRuns'
      BY <1>1, <2>2, InHand DEF StageInv, RightBinaryRuns, Answered
    <2> QED
      BY <1>1, <2>2, <2>3, <2>4, <2>5, <2>6, <2>7, RefuseKeeps DEF AnswerInv
  <1>4. CASE ~SameImage(Module.image, Module.digest)
    BY <1>1, <1>2, <1>4, NoAnswerKeeps, RefuseKeeps DEF RouteServing
  <1> QED
    BY <1>3, <1>4

-----------------------------------------------------------------------------
(***************************************************************************)
(* Every step, and the theorems.                                           *)
(***************************************************************************)

\* The steps of a load that create no module.
LEMMA ReadsKeep ==
  ASSUME NativeInv, ReadSeal \/ ReadDigest \/ ReadManifest \/ ReadResources \/ Hash \/ Open
  PROVE  CallInv' /\ AnswerInv' /\ UNCHANGED <<modules, cached, resolved>>
  <1>1. CallInv'
    BY SealKeeps, DigestKeeps, ManifestKeeps, ResourcesKeep, HashKeeps, OpenKeeps DEF NativeInv
  <1>2. answer' = NoAnswer
    <2>1. call.pc # "idle" /\ answer' = answer
      BY DEF ReadSeal, ReadDigest, ReadManifest, ReadResources, Hash, Open, OnlyReads
    <2> QED
      BY <2>1, IdleIsNoCall DEF NativeInv, AnswerInv
  <1>3. UNCHANGED <<modules, cached, resolved>>
    BY DEF ReadSeal, ReadDigest, ReadManifest, ReadResources, Hash, Open, OnlyReads
  <1> QED
    BY <1>1, <1>2, <1>3, NoAnswerKeeps

LEMMA CreationsKeep ==
  ASSUME NativeInv, [Next]_vars, Remember \/ Construct
  PROVE  CallInv' /\ AnswerInv' /\ CacheInv'
  <1> USE DEF NativeInv
  <1>1. /\ call.pc \in {"remember", "compare"}
        /\ call.pc = "compare" => call.stage = "second"
        /\ UNCHANGED <<disk, mapped, environ, cwd, resolved, answer>>
    BY DEF Remember, Construct, files, selection
  <1>2. call # Idle /\ StageInv
    BY <1>1, CallTypes
  <1>3. call.stage = "second"
    BY <1>1, <1>2 DEF StageInv
  <1>4. AnswerInv'
    BY <1>1, <1>2, NoAnswerKeeps DEF AnswerInv
  <1>5. CASE call' = Idle /\ UNCHANGED <<modules, cached>>
    <2>1. \A i \in 1..Len(modules) : ModuleInv(modules[i])'
      BY <1>5, ModuleKept DEF CacheInv
    <2> QED
      BY <1>1, <1>4, <1>5, <2>1, RefuseKeeps DEF CacheInv, Created, EntryInv
  <1>6. CASE /\ Remember /\ disk[call.file] = call.image
             /\ Create([f \in Mapped |-> disk[f]], None)
    <2>1. call.provider # "packaged-serving"
      BY <1>2, <1>6 DEF StageInv, Remember
    <2>2. /\ CallInv'
          /\ modules' \in Seq(Created)' /\ Len(modules') = Len(modules) + 1
          /\ cached' = cached \union {Len(modules')}
          /\ \A i \in 1..Len(modules') : ModuleInv(modules[i])'
      BY <1>1, <1>3, <1>6, <2>1, CreateKeeps DEF selection
    <2>3. cached' \subseteq 1..Len(modules')
      <3>1. PICK n \in Nat : n = Len(modules)
        BY DEF CacheInv
      <3>2. cached \subseteq 1..n
        BY <3>1 DEF CacheInv
      <3>3. Len(modules') = n + 1 /\ cached' = cached \union {n + 1}
        BY <2>2, <3>1
      <3> QED
        BY <3>2, <3>3
    <2>4. \A entry \in resolved' : EntryInv(entry)'
      BY <1>1 DEF CacheInv, EntryInv
    <2> QED
      BY <1>4, <2>2, <2>3, <2>4 DEF CacheInv
  <1>7. CASE Construct /\ SameImage(call.image, Sealed) /\ Create(<<>>, Sealed)
    <2>1. /\ disk[call.file] = call.image
          /\ call.provider = "packaged-serving" => Sealed = call.digest
          /\ call.provider # "packaged-serving" => Sealed = None
      BY <1>7 DEF SameImage, Sealed
    <2>2. /\ CallInv'
          /\ modules' \in Seq(Created)' /\ Len(modules') = Len(modules) + 1
          /\ cached' = cached \union {Len(modules')}
          /\ \A i \in 1..Len(modules') : ModuleInv(modules[i])'
      BY <1>1, <1>3, <1>7, <2>1, CreateKeeps DEF selection
    <2>3. cached' \subseteq 1..Len(modules')
      <3>1. PICK n \in Nat : n = Len(modules)
        BY DEF CacheInv
      <3>2. cached \subseteq 1..n
        BY <3>1 DEF CacheInv
      <3>3. Len(modules') = n + 1 /\ cached' = cached \union {n + 1}
        BY <2>2, <3>1
      <3> QED
        BY <3>2, <3>3
    <2>4. \A entry \in resolved' : EntryInv(entry)'
      BY <1>1 DEF CacheInv, EntryInv
    <2> QED
      BY <1>4, <2>2, <2>3, <2>4 DEF CacheInv
  <1> QED
    BY <1>5, <1>6, <1>7 DEF Remember, Construct, Refuse

\* Steps that leave the modules alone leave the caches sound.
LEMMA CachesKept ==
  ASSUME NativeInv, [Next]_vars, modules' = modules, cached' \subseteq cached,
         \A entry \in resolved' : EntryInv(entry)
  PROVE  CacheInv'
  <1>1. \A i \in 1..Len(modules) : ModuleInv(modules[i])'
    BY ModuleKept DEF NativeInv, CacheInv
  <1> QED
    BY <1>1 DEF NativeInv, CacheInv, Created, EntryInv

\* An answer stays right while nothing is loaded and nothing selected.
LEMMA AnswersKept ==
  ASSUME AnswerInv, UNCHANGED <<mapped, modules, environ, cwd, call, answer>>
  PROVE  AnswerInv'
  <1>1. SelectionHonoured'
    <2> SUFFICES ASSUME answer.kind # None PROVE SelectionHonoured'
      BY DEF SelectionHonoured
    <2> PICK r : r = answer.request
      OBVIOUS
    <2>1. PICK p \in Providers(r) :
            /\ Answering.provider = p.provider
            /\ Answering.file = IF p = PackagedServing THEN Packaged.library ELSE Locate(p)
            /\ p = PackagedServing => /\ ~Set("GDN_QSA_WY_EXTENSION")
                                      /\ ~Set("ACTLIZE_LA_SERVING_LIBRARY")
      BY DEF AnswerInv, SelectionHonoured
    <2>2. Providers(r)' = Providers(r)
      BY SelectionDetermines DEF selection
    <2> QED
      BY <2>1, <2>2 DEF SelectionHonoured, Answering, Locate, Set
  <1>2. RightBinaryRuns'
    <2> PICK r : r = answer.request
      OBVIOUS
    <2>1. Backend(r)' = Backend(r)
      BY DEF Backend, Legacy, Set
    <2> QED
      BY <2>1 DEF AnswerInv, RightBinaryRuns, Answered, Answering
  <1>3. ReportTruthful' /\ ReportMatchesManifest'
    BY DEF AnswerInv, ReportTruthful, ReportMatchesManifest, Answered, Answering
  <1> QED
    BY <1>1, <1>2, <1>3 DEF AnswerInv

LEMMA NativeStep ==
  ASSUME NativeInv, [Next]_vars
  PROVE  NativeInv'
  <1> USE DEF NativeInv
  <1>1. FileInv'
    BY FilesAdvance
  <1> SUFFICES CacheInv' /\ CallInv' /\ AnswerInv'
    BY <1>1
  <1>2. ASSUME NEW kind \in {"forward", "route"}, NEW r \in Requests, Begin(kind, r)
        PROVE  CacheInv' /\ CallInv' /\ AnswerInv'
    <2>1. UNCHANGED <<modules, cached>> /\ answer' = NoAnswer
      BY <1>2 DEF Begin
    <2> QED
      BY <1>2, <2>1, BeginKeeps, CachesKept, NoAnswerKeeps
  <1>3. CASE Load
    <2>1. CASE ReadSeal \/ ReadDigest \/ ReadManifest \/ ReadResources \/ Hash \/ Open
      BY <2>1, ReadsKeep, CachesKept DEF CacheInv
    <2>2. CASE Remember \/ Construct
      BY <2>2, CreationsKeep
    <2> QED
      BY <1>3, <2>1, <2>2 DEF Load
  <1>4. CASE Forward \/ Route \/ RouteServing
    <2>1. UNCHANGED <<modules, cached, resolved>>
      BY <1>4 DEF Forward, Route, RouteServing
    <2>2. CallInv' /\ AnswerInv'
      BY <1>4, ForwardAnswers, RouteAnswers, RouteServingAnswers
    <2> QED
      BY <2>1, <2>2, CachesKept DEF CacheInv
  <1>5. CASE Select \/ ClearBackendCache
    <2>1. /\ call = Idle /\ call' = Idle /\ modules' = modules /\ cached' \subseteq cached
          /\ resolved' \subseteq resolved /\ answer' = NoAnswer
      BY <1>5 DEF Select, ClearBackendCache
    <2> QED
      BY <2>1, CachesKept, RefuseKeeps, NoAnswerKeeps DEF CacheInv
  <1>6. ASSUME NEW g \in DOMAIN Rebuilds, Replace(g)
        PROVE  CacheInv' /\ CallInv' /\ AnswerInv'
    <2>1. UNCHANGED <<mapped, modules, cached, resolved, environ, cwd, call, answer>>
      BY <1>6 DEF Replace, selection
    <2>2. CallInv'
      BY <1>6, ReplaceKeeps
    <2>3. AnswerInv'
      BY <2>1, AnswersKept
    <2> QED
      BY <2>1, <2>2, <2>3, CachesKept DEF CacheInv
  <1>7. CASE UNCHANGED vars
    <2>1. UNCHANGED <<disk, mapped, modules, cached, resolved, environ, cwd, call, answer>>
      BY <1>7 DEF vars
    <2>2. CASE call # Idle
      <3>1. Aimed'
        BY <2>1, <2>2, AimKept DEF selection
      <3> QED
        BY <2>1, <2>2, <3>1, AnswersKept, CachesKept
           DEF CallInv, CacheInv, StageInv, LoadInv, UseInv, Past, Holds, Fits, Gone, Module
    <2>3. CASE call = Idle
      BY <2>1, <2>3, RefuseKeeps, AnswersKept, CachesKept DEF CacheInv
    <2> QED
      BY <2>2, <2>3
  <1> QED
    BY <1>1, <1>2, <1>3, <1>4, <1>5, <1>6, <1>7 DEF Next

THEOREM NativeInvariant == Spec => []NativeInv
  <1>1. NativeInv /\ [Next]_vars => NativeInv'
    BY NativeStep
  <1> QED
    BY <1>1, InitNative, PTL DEF Spec

\* What gdn_route reports as the native images of a call are the images the
\* process has mapped, unless the binding's path was mapped before the load began.
\* (gdn_route.py, loading.py, _gdn_ppu10.py)
THEOREM ReportsNameTheMapped == Spec => []ReportTruthful
  <1>1. NativeInv => ReportTruthful
    BY DEF NativeInv, AnswerInv
  <1> QED
    BY <1>1, NativeInvariant, PTL

\* The manifest digest a route report of the packaged wheel carries is the one
\* that binds the library in use, although an upgrade replaces the files one by
\* one while they are read, unless the library's path was mapped before the load
\* began.  (_library.py _inspect, _gdn_ppu10.py image_info)
THEOREM DigestsBindTheMapped == Spec => []ReportMatchesManifest
  <1>1. NativeInv => ReportMatchesManifest
    BY DEF NativeInv, AnswerInv
  <1> QED
    BY <1>1, NativeInvariant, PTL

\* A call uses the file its environment and directory select now, never one an
\* earlier selection left in a cache.
\* (loading.py _explicit_path, gdn_residual_interface.py)
THEOREM CallsUseTheSelected == Spec => []SelectionHonoured
  <1>1. NativeInv => SelectionHonoured
    BY DEF NativeInv, AnswerInv
  <1> QED
    BY <1>1, NativeInvariant, PTL

\* A forward runs only a binary built for the backend it resolved to.
\* (serving/_abi.py, loading.py load_ppu15)
THEOREM ForwardsRunTheirBackend == Spec => []RightBinaryRuns
  <1>1. NativeInv => RightBinaryRuns
    BY DEF NativeInv, AnswerInv
  <1> QED
    BY <1>1, NativeInvariant, PTL
=============================================================================
