----------------------------- MODULE Sm90Bundle -----------------------------
(* The Hopper candidates: build_gdn_sm90.py compiles one configuration into a
   member directory under a receipt, build_sm90_bundle.py publishes and registers
   a set of members, and sm90_auto.py loads the registered set and dispatches a
   forward to one of them by its shape.

   Sources and dependency headers are edited while a build runs; a build stops
   at any step, by an error or a kill, and is run again in the same directory;
   the process that loads runs beside the builder.  Edits only go forward: an
   edit undone before a build's last check leaves no trace a hash could show.
   A digest is the thing it digests.                                          *)
EXTENDS Naturals, Sequences, FiniteSets

CONSTANTS
  Configurations,        \* policy()["configurations"]; a member directory each
  Order,                 \* the order of that list
  Default,               \* policy()["default"]
  Rows,                  \* [measured shape -> configuration]
  Shapes,                \* the shapes callers bring, measured or not
  MaxVersion,            \* bound on edits of the source and of the headers
  None                   \* no file, nothing mapped
ASSUME BundleAssumption ==
  /\ Default \in Configurations /\ MaxVersion \in Nat \ {0}
  /\ Order \in Seq(Configurations) /\ Len(Order) = Cardinality(Configurations)
  /\ \A c \in Configurations : \E i \in 1..Len(Order) : Order[i] = c
  /\ \A s \in DOMAIN Rows : Rows[s] \in Configurations

VARIABLES
  source, headers,       \* the trees a compiler reads, by version
  receipt,               \* member -> build.json
  object, extension,     \* member -> launch.o, _gdn_fused_sm90*.so
  bundle, registration,  \* bundle.json, _sm90_bundle.json
  build,                 \* the build process, or idle
  mapped,                \* member -> the extension the loading process mapped
  load,                  \* its load in progress
  operator,              \* what the last default_forward returned, cached
  ran                    \* the binary of the last forward, and its shape
trees == <<source, headers>>
members == <<receipt, object, extension>>
published == <<bundle, registration>>
builder == <<source, headers, receipt, object, extension, bundle, registration, build>>
loader == <<mapped, load, operator, ran>>
vars == <<builder, loader>>

Idle == [pc |-> "idle"]
Empty == [c \in Configurations |-> None]
Init ==
  /\ source = 1 /\ headers = 1
  /\ receipt = Empty /\ object = Empty /\ extension = Empty
  /\ bundle = None /\ registration = None /\ build = Idle
  /\ mapped = Empty /\ load = Idle /\ operator = None /\ ran = None
-----------------------------------------------------------------------------
(* build_gdn_sm90.py *)
Identity(configuration) ==
  [source |-> source, headers |-> headers, configuration |-> configuration,
   object |-> None, extension |-> None, complete |-> FALSE]

\* The flags carry the configuration; target, mode and compiler are fixed here.
SameBuild(prior, identity) == prior # None => prior.configuration = identity.configuration

\* Mutant: an object is reused for its hash alone.
MutantAdmitReuse(prior, identity, obj) == obj # None /\ prior.object = obj
AdmitReuse(prior, identity, obj) ==
  /\ prior.source = identity.source /\ prior.headers = identity.headers
  /\ prior.configuration = identity.configuration
  /\ obj # None /\ prior.object = obj

\* A build of a configuration into a member directory: on its own, into any
\* directory, or as the next of the bundle's.  The receipt is written at once,
\* without a hash of the object and not complete.
Starts(member, configuration, reuse, deviceOnly, bundled, rest) ==
  /\ SameBuild(receipt[member], Identity(configuration))
  /\ reuse => receipt[member] # None
              /\ AdmitReuse(receipt[member], Identity(configuration), object[member])
  /\ receipt' = [receipt EXCEPT ![member] = Identity(configuration)]
  /\ build' = [pc |-> IF reuse THEN "link" ELSE "device", member |-> member, reuse |-> reuse,
               identity |-> [Identity(configuration) EXCEPT
                               !.object = IF reuse THEN object[member] ELSE None],
               deviceOnly |-> deviceOnly, bundled |-> bundled, rest |-> rest]
  /\ UNCHANGED <<trees, object, extension, published, loader>>

BuildMember ==
  /\ build = Idle
  /\ \E m, c \in Configurations, reuse, deviceOnly \in BOOLEAN :
       Starts(m, c, reuse, deviceOnly, FALSE, <<>>)
BuildBundle ==
  /\ build = Idle
  /\ \E reuse \in BOOLEAN : Starts(Head(Order), Head(Order), reuse, FALSE, TRUE, Tail(Order))
BuildNext ==
  /\ build.pc = "next" /\ build.rest # <<>>
  /\ Starts(Head(build.rest), Head(build.rest), build.reuse, FALSE, TRUE, Tail(build.rest))

CompileDevice ==
  /\ build.pc = "device"
  /\ LET compiled == [source |-> source, headers |-> headers,
                      configuration |-> build.identity.configuration] IN
     /\ object' = [object EXCEPT ![build.member] = compiled]
     /\ build' = [build EXCEPT !.pc = "link", !.identity.object = compiled]
  /\ UNCHANGED <<trees, receipt, extension, published, loader>>

\* Host compile, link and import; the link puts a new file under the name.
\* A load that runs meanwhile may pair the new file with what it read before.
Overtake == IF load = Idle THEN load ELSE [load EXCEPT !.overtaken = TRUE]
Link ==
  /\ build.pc = "link"
  /\ IF build.deviceOnly
     THEN build' = [build EXCEPT !.pc = "check"] /\ UNCHANGED <<extension, load>>
     ELSE LET linked == [object |-> object[build.member], host |-> source,
                         configuration |-> build.identity.configuration] IN
          /\ extension' = [extension EXCEPT ![build.member] = linked]
          /\ build' = [build EXCEPT !.pc = "check", !.identity.extension = linked]
          /\ load' = Overtake
  /\ UNCHANGED <<trees, receipt, object, published, mapped, operator, ran>>

\* The trees are hashed again; only then is the receipt complete.
\* Mutant: the headers are not hashed again.
MutantUnchangedTrees(identity) == identity.source = source
UnchangedTrees(identity) == identity.source = source /\ identity.headers = headers
Complete ==
  /\ build.pc = "check"
  /\ IF UnchangedTrees(build.identity)
     THEN /\ receipt' = [receipt EXCEPT ![build.member] = [build.identity EXCEPT !.complete = TRUE]]
          /\ build' = IF build.bundled THEN [build EXCEPT !.pc = "next"] ELSE Idle
     ELSE build' = Idle /\ UNCHANGED receipt
  /\ UNCHANGED <<trees, object, extension, published, loader>>
-----------------------------------------------------------------------------
(* build_sm90_bundle.py: assemble, register.  --assemble-only starts here.    *)
LoadableReceipt(r) == r # None /\ r.complete /\ r.extension # None
Fields(r) == <<r.source, r.headers>>
\* Mutant: a candidate is trusted to be what its directory is named after.
MutantPlaced(r, name) == TRUE
Placed(r, name) == r.configuration = name
Assembles ==
  /\ \A c \in Configurations :
       /\ LoadableReceipt(receipt[c])
       /\ receipt[c].extension = extension[c]
       /\ extension[c].configuration = receipt[c].configuration
       /\ Placed(receipt[c], c)
  /\ \A c, d \in Configurations : Fields(receipt[c]) = Fields(receipt[d])
\* One builder at a time, so the members stand still: one step, published by a
\* rename.  A failed assembly leaves the published bundle as it was.
Assemble ==
  /\ build = Idle \/ (build.pc = "next" /\ build.rest = <<>>)
  /\ IF Assembles THEN bundle' = receipt /\ build' = [pc |-> "register"]
     ELSE bundle' = bundle /\ build' = Idle
  /\ UNCHANGED <<trees, members, registration, loader>>
Register ==
  /\ build.pc = "register"
  /\ registration' = bundle /\ build' = Idle
  /\ UNCHANGED <<trees, members, bundle, loader>>

\* A failed command, an exception or a kill ends the build where it is.
Stop ==
  /\ build # Idle /\ build' = Idle
  /\ UNCHANGED <<trees, members, published, loader>>
Edit ==
  /\ \/ source < MaxVersion /\ source' = source + 1 /\ headers' = headers
     \/ headers < MaxVersion /\ headers' = headers + 1 /\ source' = source
  /\ UNCHANGED <<members, published, build, loader>>
-----------------------------------------------------------------------------
(* sm90_auto.py and sm90.py, in the loading process.  An exception ends the
   load; what it mapped stays mapped.                                         *)
Failed == load' = Idle /\ UNCHANGED operator
At(pc) == load.pc = pc
Member == Order[load.at]
Reading == UNCHANGED <<builder, mapped, ran>>

\* The registered bundle, if bundle.json is still the one registered; the
\* override names the same directory and compares nothing.
LoadBundle(override) ==
  /\ load = Idle /\ operator = None
  /\ bundle # None
  /\ override \/ (registration # None /\ registration = bundle)
  /\ load' = [pc |-> "digest", at |-> 1, rows |-> bundle, fields |-> None, receipt |-> None,
              overtaken |-> FALSE, fresh |-> TRUE]
  /\ UNCHANGED <<builder, mapped, operator, ran>>

\* Mutant: the receipt's digest is not compared with the bundle's.
MutantSealedReceipt(c) == TRUE
SealedReceipt(c) == receipt[c] = load.rows[c]
DigestReceipt ==
  /\ At("digest")
  /\ IF SealedReceipt(Member) THEN load' = [load EXCEPT !.pc = "identity"] /\ UNCHANGED operator
     ELSE Failed
  /\ Reading
CompareIdentity ==
  /\ At("identity")
  /\ LET fields == Fields(receipt[Member]) IN
     IF load.fields \in {None, fields}
     THEN load' = [load EXCEPT !.pc = "receipt", !.fields = fields] /\ UNCHANGED operator
     ELSE Failed
  /\ Reading

\* load_sm90 of a member reads the receipt once more and hashes the extension.
ReadReceipt ==
  /\ At("receipt")
  /\ IF LoadableReceipt(receipt[Member])
     THEN load' = [load EXCEPT !.pc = "hash", !.receipt = receipt[Member]] /\ UNCHANGED operator
     ELSE Failed
  /\ Reading
HashExtension ==
  /\ At("hash")
  /\ IF extension[Member] = load.receipt.extension
     THEN load' = [load EXCEPT !.pc = "open"] /\ UNCHANGED operator
     ELSE Failed
  /\ Reading

\* _load: a path that is mapped already is not read again by the linker.  The
\* module then has to name the configuration of its receipt, and of its place.
Configured(binary, c) ==
  binary.configuration = load.receipt.configuration /\ Placed(load.receipt, c)
OpenExtension ==
  /\ At("open")
  /\ LET binary == IF mapped[Member] = None THEN extension[Member] ELSE mapped[Member]
         fresh  == load.fresh /\ mapped[Member] = None IN
     /\ mapped' = [mapped EXCEPT ![Member] = binary]
     /\ CASE ~Configured(binary, Member) -> Failed
          [] Configured(binary, Member) /\ load.at < Len(Order) ->
               load' = [load EXCEPT !.pc = "digest", !.at = @ + 1, !.receipt = None, !.fresh = fresh]
               /\ UNCHANGED operator
          [] OTHER -> /\ operator' = [rows |-> load.rows, fresh |-> fresh,
                                      overtaken |-> load.overtaken]
                      /\ load' = Idle
  /\ UNCHANGED <<builder, ran>>

\* sm90_policy.select: the measured row of the shape, or the default.
Select(shape) == IF shape \in DOMAIN Rows THEN Rows[shape] ELSE Default
Forward ==
  /\ operator # None
  /\ \E s \in Shapes : ran' = [shape |-> s, binary |-> mapped[Select(s)]]
  /\ UNCHANGED <<builder, mapped, load, operator>>

Restart ==
  /\ mapped' = Empty /\ load' = Idle /\ operator' = None /\ ran' = None
  /\ UNCHANGED builder

Build == BuildMember \/ BuildBundle \/ BuildNext \/ CompileDevice \/ Link \/ Complete
         \/ Assemble \/ Register \/ Stop
Load == (\E override \in BOOLEAN : LoadBundle(override)) \/ DigestReceipt \/ CompareIdentity
        \/ ReadReceipt \/ HashExtension \/ OpenExtension
Next == Build \/ Edit \/ Load \/ Forward \/ Restart
Spec == Init /\ [][Next]_vars
-----------------------------------------------------------------------------
(* Properties *)
BuiltFrom(binary, r) ==
  /\ binary.host = r.source
  /\ binary.object = [source |-> r.source, headers |-> r.headers,
                      configuration |-> r.configuration]

\* A complete receipt names a binary that was compiled from exactly the sources
\* and headers it lists, although they are edited during the build, the build is
\* cut short and run again, and objects of earlier builds are reused.
\* (build_gdn_sm90.py main, admit_reuse)
ReceiptTruthful ==
  \A c \in Configurations :
    LoadableReceipt(receipt[c]) => BuiltFrom(receipt[c].extension, receipt[c])

\* The candidates behind the automatic forward are one build of one tree, the
\* one the bundle was assembled from: never a mix of an old build and the part
\* of a new one that got done.  Exempt are a load during which a member was
\* linked, and a process that had already mapped a member: its retry is given the
\* old mapping.  (sm90_auto.py load_bundle, sm90.py load_sm90)
OneBuild ==
  operator # None /\ ~operator.overtaken /\ operator.fresh =>
    \E s, h \in 1..MaxVersion : \A c \in Configurations :
      /\ Fields(operator.rows[c]) = <<s, h>>
      /\ BuiltFrom(mapped[c], operator.rows[c])

\* A forward of a measured shape runs the kernel compiled for the configuration
\* the policy measured, wherever builds were put by hand.
\* (sm90_auto.py AutoSm90Forward, sm90_policy.py select)
DispatchedConfiguration ==
  ran # None => ran.binary.object.configuration = Select(ran.shape)

\* The published bundle never names an unfinished or half-rebuilt set, whatever
\* step a builder stops at.  (build_sm90_bundle.py assemble)
PublishedWhole ==
  [][bundle' # bundle =>
       \A c \in Configurations :
         /\ bundle'[c].complete /\ BuiltFrom(extension[c], bundle'[c])
         /\ extension[c].object.configuration = c]_vars
=============================================================================
