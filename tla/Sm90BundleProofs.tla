-------------------------- MODULE Sm90BundleProofs --------------------------
(***************************************************************************)
(* Theorems about Sm90Bundle, for every set of configurations, every       *)
(* policy, every number of edits and every set of shapes.                  *)
(*                                                                         *)
(* ReceiptsNameTheirBinary   a complete receipt is of what was compiled    *)
(* PublicationsAreWhole      only whole sets are published                 *)
(* ForwardRunsItsPolicy      the binary that runs is the policy's          *)
(* CandidatesAreOneBuild     an unhindered load maps one build             *)
(*                                                                         *)
(* The inductive invariant says what holds between the steps of a build    *)
(* and of a load.  A build's identity is at most as new as the object it   *)
(* compiled, the host object, and the trees: when the last check finds the *)
(* trees as the identity lists them, so was everything between.  A load    *)
(* that was not overtaken by a link still reads the receipt its bundle     *)
(* sealed, or finds the one of a build under way, which it refuses.        *)
(***************************************************************************)
EXTENDS Sm90Bundle, TLAPS

-----------------------------------------------------------------------------
(***************************************************************************)
(* The inductive invariant of the builder.                                 *)
(***************************************************************************)

Version == 1..MaxVersion
Object == [source : Version, headers : Version, configuration : Configurations]
Extension == [object : Object, host : Version, configuration : Configurations]
Receipt == [source : Version, headers : Version, configuration : Configurations,
            object : Object \cup {None}, extension : Extension \cup {None},
            complete : BOOLEAN]
Working == [pc : {"device", "link", "check", "next"}, member : Configurations,
            reuse : BOOLEAN, identity : Receipt, deviceOnly : BOOLEAN,
            bundled : BOOLEAN, rest : Seq(Configurations)]
Registering == [pc |-> "register"]

BuilderTypes ==
  /\ source \in Version /\ headers \in Version
  /\ receipt \in [Configurations -> Receipt \cup {None}]
  /\ object \in [Configurations -> Object \cup {None}]
  /\ extension \in [Configurations -> Extension \cup {None}]
  /\ build \in Working \cup {Idle, Registering}

\* What the object of a receipt was compiled from.
Compiled(r) == [source |-> r.source, headers |-> r.headers, configuration |-> r.configuration]

ReceiptSound(r) ==
  r # None =>
    /\ r.object # None => r.object = Compiled(r)
    /\ r.complete /\ r.extension # None => BuiltFrom(r.extension, r)

\* An extension says which configuration its device code was compiled for.
Linked(x) == x # None => x.object.configuration = x.configuration

Building == build.pc \in {"device", "link", "check"}

\* A build under way has withdrawn the receipt of its member, and everything it
\* compiled is at least as new as its identity and at most as new as the trees.
BuildProgress ==
  Building =>
    /\ receipt[build.member] \in Receipt
    /\ ~receipt[build.member].complete /\ receipt[build.member].object = None
    /\ ~build.identity.complete
    /\ build.identity.source <= source /\ build.identity.headers <= headers
    /\ build.pc # "check" => build.identity.extension = None
    /\ build.pc # "device" =>
         /\ object[build.member] \in Object
         /\ build.identity.object = object[build.member]
         /\ object[build.member].configuration = build.identity.configuration
         /\ build.identity.source <= object[build.member].source
         /\ object[build.member].source <= source
         /\ build.identity.headers <= object[build.member].headers
         /\ object[build.member].headers <= headers
    /\ build.pc = "check" =>
         \/ build.deviceOnly /\ build.identity.extension = None
         \/ /\ build.identity.extension \in Extension
            /\ build.identity.extension.object = object[build.member]
            /\ build.identity.source <= build.identity.extension.host
            /\ build.identity.extension.host <= source

\* A whole set: each member's binary was built from what its receipt lists, for
\* the configuration of its place, and all from one tree.
Whole(rows) ==
  /\ rows \in [Configurations -> Receipt]
  /\ \A c \in Configurations :
       /\ rows[c].complete /\ rows[c].extension \in Extension
       /\ BuiltFrom(rows[c].extension, rows[c])
       /\ rows[c].configuration = c
  /\ \A c, d \in Configurations : Fields(rows[c]) = Fields(rows[d])

BuilderInv ==
  /\ BuilderTypes
  /\ \A c \in Configurations : ReceiptSound(receipt[c]) /\ Linked(extension[c])
  /\ BuildProgress
  /\ bundle # None => Whole(bundle)

-----------------------------------------------------------------------------
(***************************************************************************)
(* The inductive invariant of the loading process.                         *)
(***************************************************************************)

Loading == [pc : {"digest", "identity", "receipt", "hash", "open"}, at : 1..Len(Order),
            rows : [Configurations -> Receipt], fields : (Version \X Version) \cup {None},
            receipt : Receipt \cup {None}, overtaken : BOOLEAN, fresh : BOOLEAN]

LoaderTypes ==
  /\ load \in Loading \cup {Idle}
  /\ mapped \in [Configurations -> Extension \cup {None}]
  /\ operator # None => load = Idle

\* The member is mapped and was compiled for the configuration of its place.
Placeable(x, c) == x.configuration = c /\ x.object.configuration = c

\* The receipt of the member is the one the bundle sealed, or that of a build
\* which has not linked: completed, it still has no extension to load.
StillSealed(c) ==
  \/ receipt[c] = load.rows[c]
  \/ /\ ~LoadableReceipt(receipt[c])
     /\ build.pc = "check" /\ build.member = c => build.identity.extension = None

LoadProgress ==
  load # Idle =>
    /\ Whole(load.rows)
    /\ \A i \in 1..(load.at - 1) :
         /\ Placeable(mapped[Order[i]], Order[i])
         /\ ~load.overtaken /\ load.fresh =>
              mapped[Order[i]] = load.rows[Order[i]].extension
    /\ load.pc \in {"identity", "receipt"} =>
         /\ receipt[Member] \in Receipt
         /\ ~load.overtaken => StillSealed(Member)
    /\ load.pc \in {"hash", "open"} =>
         /\ load.receipt \in Receipt /\ LoadableReceipt(load.receipt)
         /\ ~load.overtaken => load.receipt = load.rows[Member]
    /\ load.pc = "open" =>
         /\ extension[Member] \in Extension
         /\ extension[Member].object.configuration = extension[Member].configuration
         /\ ~load.overtaken => extension[Member] = load.receipt.extension

OperatorSound ==
  operator # None =>
    /\ \A c \in Configurations : Placeable(mapped[c], c)
    /\ Whole(operator.rows)
    /\ ~operator.overtaken /\ operator.fresh =>
         \A c \in Configurations : mapped[c] = operator.rows[c].extension

LoaderInv ==
  /\ LoaderTypes
  /\ \A c \in Configurations : Linked(mapped[c])
  /\ LoadProgress
  /\ OperatorSound
  /\ DispatchedConfiguration

BundleInv == BuilderInv /\ LoaderInv

-----------------------------------------------------------------------------
(***************************************************************************)
(* The builder.                                                            *)
(***************************************************************************)

LEMMA InitBuilder == Init => BuilderInv
  <1> SUFFICES ASSUME Init PROVE BuilderInv
    OBVIOUS
  <1> USE DEF Init
  <1>1. \A c \in Configurations : receipt[c] = None /\ extension[c] = None
    BY DEF Empty
  <1>2. build.pc = "idle"
    BY DEF Idle
  <1>3. BuilderTypes
    BY BundleAssumption DEF BuilderTypes, Empty, Version
  <1>4. BuildProgress
    BY <1>2 DEF BuildProgress, Building
  <1> QED
    BY <1>1, <1>3, <1>4 DEF BuilderInv, ReceiptSound, Linked

\* A build that starts takes the trees as they are and withdraws the receipt; an
\* object it reuses is of exactly those trees.
LEMMA StartsBuilder ==
  ASSUME BuilderInv, NEW m \in Configurations, NEW c \in Configurations,
         NEW reuse \in BOOLEAN, NEW deviceOnly \in BOOLEAN, NEW bundled \in BOOLEAN,
         NEW rest \in Seq(Configurations),
         Starts(m, c, reuse, deviceOnly, bundled, rest)
  PROVE  BuilderInv' /\ load' = load /\ build'.pc \in {"device", "link"}
         /\ build'.member = m /\ ~LoadableReceipt(receipt'[m]) /\ receipt'[m] \in Receipt
         /\ \A d \in Configurations \ {m} : receipt'[d] = receipt[d]
  <1> DEFINE fresh == Identity(c)
             identity == [fresh EXCEPT !.object = IF reuse THEN object[m] ELSE None]
  <1> USE DEF BuilderInv
  <1>1. /\ UNCHANGED <<source, headers, object, extension, bundle, load>>
        /\ receipt' = [receipt EXCEPT ![m] = fresh]
        /\ build' = [pc |-> IF reuse THEN "link" ELSE "device", member |-> m, reuse |-> reuse,
                     identity |-> identity, deviceOnly |-> deviceOnly, bundled |-> bundled,
                     rest |-> rest]
    BY DEF Starts, trees, published, loader
  <1>2. /\ fresh \in Receipt /\ fresh.source = source /\ fresh.headers = headers
        /\ fresh.configuration = c /\ fresh.object = None /\ fresh.extension = None
        /\ fresh.complete = FALSE
    BY DEF Identity, Receipt, BuilderTypes
  <1>3. reuse => /\ receipt[m] # None
                 /\ AdmitReuse(receipt[m], fresh, object[m])
    BY DEF Starts
  <1> HIDE DEF fresh
  <1>4. /\ identity \in Receipt /\ identity.source = source /\ identity.headers = headers
        /\ identity.configuration = c /\ identity.extension = None /\ identity.complete = FALSE
        /\ identity.object = IF reuse THEN object[m] ELSE None
    <2>1. object[m] \in Object \cup {None}
      BY DEF BuilderTypes
    <2> QED
      BY <1>2, <2>1 DEF Receipt
  <1> HIDE DEF identity
  <1>5. /\ receipt'[m] = fresh
        /\ \A d \in Configurations \ {m} : receipt'[d] = receipt[d]
        /\ receipt' \in [Configurations -> Receipt \cup {None}]
    BY <1>1, <1>2 DEF BuilderTypes
  <1>6. /\ build' \in Working /\ build'.member = m /\ build'.identity = identity
        /\ build'.pc = IF reuse THEN "link" ELSE "device"
    BY <1>1, <1>4 DEF Working
  <1>7. BuilderTypes'
    BY <1>1, <1>5, <1>6 DEF BuilderTypes
  <1>8. ASSUME NEW d \in Configurations
        PROVE  ReceiptSound(receipt'[d]) /\ Linked(extension'[d])
    BY <1>1, <1>2, <1>5 DEF ReceiptSound
  <1>9. ASSUME reuse
        PROVE  /\ object[m] \in Object /\ object[m].configuration = c
               /\ object[m].source = source /\ object[m].headers = headers
    <2>1. /\ receipt[m] # None /\ receipt[m].object = object[m] /\ object[m] # None
          /\ receipt[m].source = source /\ receipt[m].headers = headers
          /\ receipt[m].configuration = c
      BY <1>2, <1>3, <1>9 DEF AdmitReuse
    <2>2. object[m] = Compiled(receipt[m])
      BY <2>1 DEF ReceiptSound
    <2> QED
      BY <2>1, <2>2 DEF Compiled, BuilderTypes
  <1>10. BuildProgress'
    <2>1. source <= source /\ headers <= headers
      BY DEF BuilderTypes, Version
    <2>2. ASSUME build'.pc # "device"
          PROVE  reuse
      BY <1>6, <2>2
    <2> QED
      BY <1>1, <1>2, <1>4, <1>5, <1>6, <1>9, <2>1, <2>2 DEF BuildProgress
  <1>11. ~LoadableReceipt(receipt'[m])
    BY <1>2, <1>5 DEF LoadableReceipt
  <1> QED
    BY <1>1, <1>2, <1>5, <1>6, <1>7, <1>8, <1>10, <1>11

\* The compiler reads the trees as they are by then.
LEMMA CompileDeviceBuilder ==
  ASSUME BuilderInv, CompileDevice
  PROVE  BuilderInv'
  <1> DEFINE m == build.member
             compiled == [source |-> source, headers |-> headers,
                          configuration |-> build.identity.configuration]
             identity == [build.identity EXCEPT !.object = compiled]
  <1> USE DEF BuilderInv
  <1>1. /\ UNCHANGED <<source, headers, receipt, extension, bundle>>
        /\ build.pc = "device" /\ Building
        /\ object' = [object EXCEPT ![m] = compiled]
        /\ build' = [build EXCEPT !.pc = "link", !.identity.object = compiled]
    BY DEF CompileDevice, trees, published, Building
  <1>2. build \in Working /\ m \in Configurations /\ build.identity \in Receipt
    <2>1. build \in Working
      BY <1>1 DEF BuilderTypes, Idle, Registering
    <2> QED
      BY <2>1 DEF Working
  <1>3. /\ compiled \in Object /\ compiled.source = source /\ compiled.headers = headers
        /\ compiled.configuration = build.identity.configuration
    BY <1>2 DEF Object, Receipt, BuilderTypes
  <1> HIDE DEF compiled
  <1>4. /\ identity \in Receipt /\ identity.object = compiled
        /\ identity.source = build.identity.source /\ identity.headers = build.identity.headers
        /\ identity.configuration = build.identity.configuration
        /\ identity.extension = build.identity.extension
        /\ identity.complete = build.identity.complete
    BY <1>2, <1>3 DEF Receipt
  <1>5. /\ build' = [build EXCEPT !.pc = "link", !.identity = identity]
        /\ object'[m] = compiled /\ object' \in [Configurations -> Object \cup {None}]
    BY <1>1, <1>2, <1>3 DEF BuilderTypes
  <1> HIDE DEF identity
  <1>6. /\ build' \in Working /\ build'.pc = "link" /\ build'.member = m
        /\ build'.identity = identity
    BY <1>2, <1>4, <1>5 DEF Working
  <1>7. BuilderTypes'
    BY <1>1, <1>5, <1>6 DEF BuilderTypes
  <1>8. BuildProgress'
    BY <1>1, <1>3, <1>4, <1>5, <1>6 DEF BuildProgress, BuilderTypes, Version
  <1> QED
    BY <1>1, <1>7, <1>8

\* The host compiler reads the source once more, and the linker the object.
LEMMA LinkBuilder ==
  ASSUME BuilderInv, Link
  PROVE  BuilderInv'
  <1> DEFINE m == build.member
             linked == [object |-> object[m], host |-> source,
                        configuration |-> build.identity.configuration]
             identity == [build.identity EXCEPT !.extension = linked]
  <1> USE DEF BuilderInv
  <1>1. /\ UNCHANGED <<source, headers, receipt, object, bundle>>
        /\ build.pc = "link" /\ Building
    BY DEF Link, trees, published, Building
  <1>2. build \in Working /\ m \in Configurations /\ build.identity \in Receipt
    <2>1. build \in Working
      BY <1>1 DEF BuilderTypes, Idle, Registering
    <2> QED
      BY <2>1 DEF Working
  <1>3. CASE build.deviceOnly
    <2>1. /\ build' = [build EXCEPT !.pc = "check"] /\ extension' = extension
      BY <1>3 DEF Link
    <2>2. /\ build' \in Working /\ build'.pc = "check" /\ build'.member = m
          /\ build'.identity = build.identity /\ build'.deviceOnly
      BY <1>2, <1>3, <2>1 DEF Working
    <2>3. BuilderTypes'
      BY <1>1, <2>1, <2>2 DEF BuilderTypes
    <2>4. BuildProgress'
      BY <1>1, <2>2 DEF BuildProgress
    <2> QED
      BY <1>1, <2>1, <2>3, <2>4
  <1>4. CASE ~build.deviceOnly
    <2>1. /\ extension' = [extension EXCEPT ![m] = linked]
          /\ build' = [build EXCEPT !.pc = "check", !.identity.extension = linked]
      BY <1>4 DEF Link
    <2>2. object[m] \in Object /\ object[m].configuration = build.identity.configuration
      BY <1>1 DEF BuildProgress
    <2>3. /\ linked \in Extension /\ linked.object = object[m] /\ linked.host = source
          /\ linked.configuration = build.identity.configuration
      BY <1>2, <2>2 DEF Extension, Receipt, BuilderTypes
    <2> HIDE DEF linked
    <2>4. /\ identity \in Receipt /\ identity.extension = linked
          /\ identity.object = build.identity.object
          /\ identity.source = build.identity.source /\ identity.headers = build.identity.headers
          /\ identity.configuration = build.identity.configuration
          /\ identity.complete = build.identity.complete
      BY <1>2, <2>3 DEF Receipt
    <2>5. /\ build' = [build EXCEPT !.pc = "check", !.identity = identity]
          /\ extension' \in [Configurations -> Extension \cup {None}]
          /\ extension'[m] = linked
          /\ \A c \in Configurations \ {m} : extension'[c] = extension[c]
      BY <1>2, <2>1, <2>3 DEF BuilderTypes
    <2> HIDE DEF identity
    <2>6. /\ build' \in Working /\ build'.pc = "check" /\ build'.member = m
          /\ build'.identity = identity
      BY <1>2, <2>4, <2>5 DEF Working
    <2>7. BuilderTypes'
      BY <1>1, <2>5, <2>6 DEF BuilderTypes
    <2>8. ASSUME NEW c \in Configurations
          PROVE  Linked(extension'[c])
      BY <2>2, <2>3, <2>5 DEF Linked
    <2>9. BuildProgress'
      BY <1>1, <2>3, <2>4, <2>6 DEF BuildProgress, BuilderTypes, Version
    <2> QED
      BY <1>1, <2>7, <2>8, <2>9
  <1> QED
    BY <1>3, <1>4

\* When the trees are still the ones of the identity, the object and the host
\* object were compiled from them: they lie between the two.
LEMMA CompleteBuilder ==
  ASSUME BuilderInv, Complete
  PROVE  BuilderInv'
  <1> DEFINE m == build.member
             identity == build.identity
             finished == [build.identity EXCEPT !.complete = TRUE]
  <1> USE DEF BuilderInv
  <1>1. /\ UNCHANGED <<source, headers, object, extension, bundle>>
        /\ build.pc = "check" /\ Building
    BY DEF Complete, trees, published, Building
  <1>2. build \in Working /\ m \in Configurations /\ identity \in Receipt
    <2>1. build \in Working
      BY <1>1 DEF BuilderTypes, Idle, Registering
    <2> QED
      BY <2>1 DEF Working
  <1>3. /\ build' \in Working \cup {Idle, Registering} /\ build'.pc \in {"next", "idle"}
    <2> DEFINE nextOne == [build EXCEPT !.pc = "next"]
    <2>1. build' = nextOne \/ build' = Idle
      BY DEF Complete
    <2>2. nextOne \in Working /\ nextOne.pc = "next"
      BY <1>2 DEF Working
    <2>3. Idle.pc = "idle"
      BY DEF Idle
    <2> HIDE DEF nextOne
    <2> QED
      BY <2>1, <2>2, <2>3
  <1>4. BuildProgress'
    BY <1>3 DEF BuildProgress, Building
  <1>5. CASE ~UnchangedTrees(identity)
    <2>1. receipt' = receipt
      BY <1>5 DEF Complete
    <2> QED
      BY <1>1, <1>3, <1>4, <2>1 DEF BuilderTypes
  <1>6. CASE UnchangedTrees(identity)
    <2>1. receipt' = [receipt EXCEPT ![m] = finished]
      BY <1>6 DEF Complete
    <2>2. /\ finished \in Receipt /\ finished.source = identity.source
          /\ finished.headers = identity.headers /\ finished.object = identity.object
          /\ finished.configuration = identity.configuration
          /\ finished.extension = identity.extension
      BY <1>2 DEF Receipt
    <2> HIDE DEF finished
    <2>3. /\ receipt' \in [Configurations -> Receipt \cup {None}]
          /\ receipt'[m] = finished
          /\ \A c \in Configurations \ {m} : receipt'[c] = receipt[c]
      BY <1>2, <2>1, <2>2 DEF BuilderTypes
    <2>4. /\ object[m] \in Object /\ identity.object = object[m]
          /\ object[m].source = identity.source /\ object[m].headers = identity.headers
          /\ object[m].configuration = identity.configuration
      <3>1. /\ object[m] \in Object /\ identity.object = object[m]
            /\ object[m].configuration = identity.configuration
            /\ identity.source <= object[m].source /\ object[m].source <= source
            /\ identity.headers <= object[m].headers /\ object[m].headers <= headers
        BY <1>1 DEF BuildProgress
      <3>2. identity.source = source /\ identity.headers = headers
        BY <1>6 DEF UnchangedTrees
      <3> QED
        BY <3>1, <3>2 DEF Object, Version, BuilderTypes
    <2>5. object[m] = Compiled(identity)
      BY <2>4 DEF Object, Compiled
    <2>6. ASSUME finished.extension # None
          PROVE  BuiltFrom(finished.extension, finished)
      <3>1. /\ identity.extension \in Extension /\ identity.extension.object = object[m]
            /\ identity.source <= identity.extension.host
            /\ identity.extension.host <= source
        BY <1>1, <2>2, <2>6 DEF BuildProgress
      <3>2. identity.extension.host = identity.source
        BY <1>6, <3>1 DEF UnchangedTrees, Extension, Version, BuilderTypes
      <3> QED
        BY <2>2, <2>5, <3>1, <3>2 DEF BuiltFrom, Compiled
    <2>7. ReceiptSound(finished)
      BY <2>2, <2>4, <2>5, <2>6 DEF ReceiptSound, Compiled
    <2>8. \A c \in Configurations : ReceiptSound(receipt'[c])
      BY <2>3, <2>7
    <2> QED
      BY <1>1, <1>3, <1>4, <2>3, <2>8 DEF BuilderTypes
  <1> QED
    BY <1>5, <1>6

\* What is assembled is whole: every check of assemble(), and what a complete
\* receipt says of its extension.
LEMMA AssembledWhole ==
  ASSUME BuilderInv, Assembles
  PROVE  Whole(receipt)
  <1> USE DEF BuilderInv
  <1>1. ASSUME NEW c \in Configurations
        PROVE  /\ receipt[c] \in Receipt /\ receipt[c].complete
               /\ receipt[c].extension \in Extension
               /\ BuiltFrom(receipt[c].extension, receipt[c])
               /\ receipt[c].configuration = c
    <2>1. /\ receipt[c] # None /\ receipt[c].complete /\ receipt[c].extension # None
          /\ receipt[c].configuration = c
      BY DEF Assembles, LoadableReceipt, Placed
    <2>2. receipt[c] \in Receipt
      BY <2>1 DEF BuilderTypes
    <2>3. receipt[c].extension \in Extension
      BY <2>1, <2>2 DEF Receipt
    <2> QED
      BY <2>1, <2>2, <2>3 DEF ReceiptSound
  <1>2. receipt \in [Configurations -> Receipt]
    BY <1>1 DEF BuilderTypes
  <1> QED
    BY <1>1, <1>2 DEF Whole, Assembles

LEMMA BuilderStep ==
  ASSUME BuilderInv, [Next]_vars
  PROVE  BuilderInv'
  <1> USE DEF BuilderInv
  <1>1. CASE BuildMember
    <2>1. <<>> \in Seq(Configurations)
      OBVIOUS
    <2> QED
      BY <1>1, <2>1, StartsBuilder DEF BuildMember
  <1>2. CASE BuildBundle
    <2>1. Order # <<>>
      BY BundleAssumption
    <2>2. Head(Order) \in Configurations /\ Tail(Order) \in Seq(Configurations)
      BY <2>1, BundleAssumption
    <2> QED
      BY <1>2, <2>2, StartsBuilder DEF BuildBundle
  <1>3. CASE BuildNext
    <2>1. build \in Working /\ build.rest # <<>>
      BY <1>3 DEF BuildNext, BuilderTypes, Idle, Registering
    <2>2. /\ Head(build.rest) \in Configurations /\ Tail(build.rest) \in Seq(Configurations)
          /\ build.reuse \in BOOLEAN
      BY <2>1 DEF Working
    <2> QED
      BY <1>3, <2>2, StartsBuilder DEF BuildNext
  <1>4. CASE CompileDevice \/ Link \/ Complete
    BY <1>4, CompileDeviceBuilder, LinkBuilder, CompleteBuilder
  <1>5. CASE Assemble
    <2>1. /\ UNCHANGED <<source, headers, receipt, object, extension>>
          /\ build' \in {Idle, Registering} /\ build'.pc \in {"idle", "register"}
      BY <1>5 DEF Assemble, trees, members, Registering, Idle
    <2>2. bundle' = bundle \/ (Assembles /\ bundle' = receipt)
      BY <1>5 DEF Assemble
    <2>3. bundle' # None => Whole(bundle')
      BY <2>2, AssembledWhole
    <2>4. BuilderTypes' /\ BuildProgress'
      BY <2>1 DEF BuilderTypes, BuildProgress, Building
    <2> QED
      BY <2>1, <2>3, <2>4
  <1>6. CASE Register \/ Stop
    <2>1. /\ UNCHANGED <<source, headers, receipt, object, extension, bundle>>
          /\ build' = Idle /\ build'.pc = "idle"
      BY <1>6 DEF Register, Stop, trees, members, published, Idle
    <2>2. BuilderTypes' /\ BuildProgress'
      BY <2>1 DEF BuilderTypes, BuildProgress, Building
    <2> QED
      BY <2>1, <2>2
  <1>7. CASE Edit
    <2>1. /\ UNCHANGED <<receipt, object, extension, bundle, build>>
          /\ source' \in Version /\ headers' \in Version
          /\ source <= source' /\ headers <= headers'
      BY <1>7, BundleAssumption DEF Edit, members, published, Version, BuilderTypes
    <2>2. BuilderTypes'
      BY <2>1 DEF BuilderTypes
    <2>3. BuildProgress'
      <3> SUFFICES ASSUME Building PROVE BuildProgress'
        BY <2>1 DEF BuildProgress, Building
      <3>1. build.identity \in Receipt
        BY DEF BuilderTypes, Building, Idle, Registering, Working
      <3>2. build.identity.source <= source' /\ build.identity.headers <= headers'
        BY <2>1, <3>1 DEF BuildProgress, BuilderTypes, Version, Receipt
      <3>3. ASSUME build.pc # "device"
            PROVE  /\ object[build.member].source <= source'
                   /\ object[build.member].headers <= headers'
        BY <2>1, <3>3 DEF BuildProgress, BuilderTypes, Version, Object
      <3>4. ASSUME build.pc = "check", build.identity.extension \in Extension,
                   build.identity.extension.host <= source
            PROVE  build.identity.extension.host <= source'
        BY <2>1, <3>4 DEF BuilderTypes, Version, Extension
      <3> QED
        BY <2>1, <3>2, <3>3, <3>4 DEF BuildProgress, Building
    <2> QED
      BY <2>1, <2>2, <2>3
  <1>8. CASE Load \/ Forward \/ Restart \/ UNCHANGED vars
    <2>1. UNCHANGED builder
      BY <1>8 DEF Load, LoadBundle, DigestReceipt, CompareIdentity, ReadReceipt, HashExtension,
         OpenExtension, Forward, Restart, Reading, vars
    <2> QED
      BY <2>1 DEF builder, BuilderTypes, BuildProgress, Building
  <1> QED
    BY <1>1, <1>2, <1>3, <1>4, <1>5, <1>6, <1>7, <1>8 DEF Next, Build

-----------------------------------------------------------------------------
(***************************************************************************)
(* The loading process.                                                    *)
(***************************************************************************)

LEMMA InitLoader == Init => LoaderInv
  <1> SUFFICES ASSUME Init PROVE LoaderInv
    OBVIOUS
  <1> USE DEF Init
  <1>1. LoaderTypes
    BY DEF LoaderTypes, Empty
  <1>2. \A c \in Configurations : mapped[c] = None
    BY DEF Empty
  <1> QED
    BY <1>1, <1>2 DEF LoaderInv, Linked, LoadProgress, OperatorSound, DispatchedConfiguration

\* A load that is under way has a member, and no operator was returned.
LEMMA LoadUnderWay ==
  ASSUME BundleInv, load # Idle
  PROVE  /\ load \in Loading /\ operator = None
         /\ load.at \in 1..Len(Order) /\ Member \in Configurations
         /\ load.rows \in [Configurations -> Receipt] /\ Whole(load.rows)
         /\ load.rows[Member] \in Receipt
  <1> USE DEF BundleInv, LoaderInv
  <1>1. load \in Loading /\ operator = None
    BY DEF LoaderTypes
  <1>2. load.at \in 1..Len(Order) /\ load.rows \in [Configurations -> Receipt]
    BY <1>1 DEF Loading
  <1>3. Member \in Configurations
    BY <1>2, BundleAssumption DEF Member
  <1> QED
    BY <1>1, <1>2, <1>3 DEF LoadProgress

\* The builder leaves what is mapped alone.  A load that it overtook is marked;
\* one it did not still finds the receipt it expects, or none it would load.
LEMMA BuilderKeepsLoader ==
  ASSUME BundleInv, UNCHANGED <<mapped, load, operator, ran>>,
         extension' = extension,
         \A c \in Configurations : receipt[c] \in Receipt => receipt'[c] \in Receipt,
         \A c \in Configurations : StillSealed(c) => StillSealed(c)'
  PROVE  LoaderInv'
  <1> USE DEF BundleInv, LoaderInv
  <1>1. LoaderTypes' /\ OperatorSound' /\ DispatchedConfiguration'
    BY DEF LoaderTypes, OperatorSound, DispatchedConfiguration
  <1>2. LoadProgress'
    <2> SUFFICES ASSUME load # Idle PROVE LoadProgress'
      BY DEF LoadProgress
    <2>1. Member \in Configurations /\ Member' = Member
      BY LoadUnderWay DEF Member
    <2> QED
      BY <2>1 DEF LoadProgress
  <1> QED
    BY <1>1, <1>2

\* A build that starts withdraws the receipt of its member.
LEMMA StartsLoader ==
  ASSUME BundleInv, NEW m \in Configurations, NEW c \in Configurations,
         NEW reuse \in BOOLEAN, NEW deviceOnly \in BOOLEAN, NEW bundled \in BOOLEAN,
         NEW rest \in Seq(Configurations), ~Building,
         Starts(m, c, reuse, deviceOnly, bundled, rest)
  PROVE  LoaderInv'
  <1>1. /\ UNCHANGED <<mapped, load, operator, ran, extension>>
        /\ build'.pc # "check"
        /\ ~LoadableReceipt(receipt'[m]) /\ receipt'[m] \in Receipt
        /\ \A d \in Configurations \ {m} : receipt'[d] = receipt[d]
    BY StartsBuilder DEF BundleInv, Starts, loader
  <1>2. ASSUME NEW d \in Configurations, StillSealed(d)
        PROVE  StillSealed(d)'
    BY <1>1, <1>2 DEF StillSealed, LoadableReceipt
  <1> QED
    BY <1>1, <1>2, BuilderKeepsLoader

LEMMA LinkLoader ==
  ASSUME BundleInv, Link
  PROVE  LoaderInv'
  <1> DEFINE m == build.member
  <1> USE DEF BundleInv, LoaderInv
  <1>1. /\ UNCHANGED <<receipt, mapped, operator, ran>>
        /\ build.pc = "link" /\ Building
    BY DEF Link, Building
  <1>2. build \in Working /\ m \in Configurations
    <2>1. build \in Working
      BY <1>1 DEF BuilderInv, BuilderTypes, Idle, Registering
    <2> QED
      BY <2>1 DEF Working
  <1>3. CASE build.deviceOnly
    <2>1. UNCHANGED <<extension, load>> /\ build' = [build EXCEPT !.pc = "check"]
      BY <1>3 DEF Link
    <2>2. build'.member = m /\ build'.identity.extension = None
      BY <1>1, <1>2, <2>1 DEF Working, BuilderInv, BuildProgress
    <2>3. ASSUME NEW d \in Configurations, StillSealed(d)
          PROVE  StillSealed(d)'
      BY <1>1, <2>1, <2>2, <2>3 DEF StillSealed
    <2> QED
      BY <1>1, <2>1, <2>3, BuilderKeepsLoader
  <1>4. CASE ~build.deviceOnly
    <2>1. /\ extension'[m] \in Extension
          /\ extension'[m].object.configuration = extension'[m].configuration
          /\ \A c \in Configurations \ {m} : extension'[c] = extension[c]
      <3> DEFINE linked == [object |-> object[m], host |-> source,
                            configuration |-> build.identity.configuration]
      <3>1. extension' = [extension EXCEPT ![m] = linked]
        BY <1>4 DEF Link
      <3>2. object[m] \in Object /\ object[m].configuration = build.identity.configuration
        BY <1>1 DEF BuilderInv, BuildProgress
      <3>3. linked \in Extension /\ linked.object.configuration = linked.configuration
        BY <1>2, <3>2 DEF Extension, Working, Receipt, BuilderInv, BuilderTypes
      <3> HIDE DEF linked
      <3> QED
        BY <1>2, <3>1, <3>3 DEF BuilderInv, BuilderTypes
    <2>2. load' = Overtake
      BY <1>4 DEF Link
    <2>3. CASE load = Idle
      <3>1. load' = load
        BY <2>2, <2>3 DEF Overtake
      <3> QED
        BY <1>1, <2>3, <3>1
           DEF LoaderTypes, LoadProgress, OperatorSound, DispatchedConfiguration
    <2>4. CASE load # Idle
      <3>1. load' = [load EXCEPT !.overtaken = TRUE] /\ load \in Loading
            /\ Member \in Configurations
        BY <2>2, <2>4, LoadUnderWay DEF Overtake
      <3>2. /\ load' \in Loading /\ load'.overtaken /\ load'.pc = load.pc /\ load'.at = load.at
            /\ load'.rows = load.rows /\ load'.receipt = load.receipt
        BY <3>1 DEF Loading
      <3>3. Member' = Member
        BY <3>2 DEF Member
      <3>4. LoadProgress'
        BY <1>1, <2>1, <2>4, <3>1, <3>2, <3>3 DEF LoadProgress
      <3>5. operator = None
        BY <2>4, LoadUnderWay
      <3> QED
        BY <1>1, <3>2, <3>4, <3>5
           DEF LoaderTypes, OperatorSound, DispatchedConfiguration
    <2> QED
      BY <2>3, <2>4
  <1> QED
    BY <1>3, <1>4

\* A receipt that is completed while a load reads its member is one the load
\* knows was rebuilt, or one without an extension.
LEMMA CompleteLoader ==
  ASSUME BundleInv, Complete
  PROVE  LoaderInv'
  <1> DEFINE m == build.member
             finished == [build.identity EXCEPT !.complete = TRUE]
  <1> USE DEF BundleInv
  <1>1. /\ UNCHANGED <<mapped, load, operator, ran, extension>>
        /\ build.pc = "check" /\ Building
        /\ receipt' = receipt \/ receipt' = [receipt EXCEPT ![m] = finished]
        /\ build' = Idle \/ build' = [build EXCEPT !.pc = "next"]
    BY DEF Complete, loader, Building
  <1>2. build \in Working /\ m \in Configurations /\ build.identity \in Receipt
    <2>1. build \in Working
      BY <1>1 DEF BuilderInv, BuilderTypes, Idle, Registering
    <2> QED
      BY <2>1 DEF Working
  <1>3. build'.pc # "check"
    BY <1>1, <1>2 DEF Idle, Working
  <1>4. finished \in Receipt /\ finished.extension = build.identity.extension
    BY <1>2 DEF Receipt
  <1>5. ~receipt[m].complete
    BY <1>1 DEF BuilderInv, BuildProgress
  <1> HIDE DEF finished
  <1>6. ASSUME NEW c \in Configurations, receipt[c] \in Receipt
        PROVE  receipt'[c] \in Receipt
    BY <1>1, <1>2, <1>4, <1>6 DEF BuilderInv, BuilderTypes
  <1>7. ASSUME NEW d \in Configurations, StillSealed(d), load # Idle
        PROVE  StillSealed(d)'
    <2>1. load.rows[d].complete
      BY <1>7, LoadUnderWay DEF Whole
    <2>2. CASE d # m
      <3>1. receipt'[d] = receipt[d]
        BY <1>1, <1>2, <2>2 DEF BuilderInv, BuilderTypes
      <3> QED
        BY <1>1, <1>3, <1>7, <3>1 DEF StillSealed, LoadableReceipt
    <2>3. CASE d = m
      <3>1. receipt[d] # load.rows[d]
        BY <1>5, <2>1, <2>3
      <3>2. ~LoadableReceipt(receipt[d]) /\ build.identity.extension = None
        BY <1>1, <1>7, <2>3, <3>1 DEF StillSealed
      <3>3. receipt'[d] = receipt[d] \/ receipt'[d] = finished
        BY <1>1, <1>2, <2>3 DEF BuilderInv, BuilderTypes
      <3>4. ~LoadableReceipt(receipt'[d])
        BY <1>4, <3>2, <3>3 DEF LoadableReceipt
      <3> QED
        BY <1>3, <3>4 DEF StillSealed, LoadableReceipt
    <2> QED
      BY <2>2, <2>3
  <1>8. CASE load # Idle
    BY <1>1, <1>6, <1>7, <1>8, BuilderKeepsLoader
  <1>9. CASE load = Idle
    BY <1>1, <1>9 DEF LoaderInv, LoaderTypes, LoadProgress, OperatorSound,
       DispatchedConfiguration
  <1> QED
    BY <1>8, <1>9

\* The other steps of a builder, and edits, touch neither receipts nor binaries.
LEMMA RestOfBuilderLoader ==
  ASSUME BundleInv, CompileDevice \/ Assemble \/ Register \/ Stop \/ Edit
  PROVE  LoaderInv'
  <1>1. UNCHANGED <<receipt, extension, mapped, load, operator, ran>>
    BY DEF CompileDevice, Assemble, Register, Stop, Edit, loader, members
  <1>2. build'.pc = "check" => build' = build
    <2>1. CASE CompileDevice
      <3>1. build \in Working /\ build.pc = "device"
        BY <2>1 DEF BundleInv, BuilderInv, BuilderTypes, CompileDevice, Idle, Registering
      <3>2. build'.pc = "link"
        BY <2>1, <3>1 DEF CompileDevice, Working
      <3> QED
        BY <3>2
    <2>2. CASE Assemble \/ Register \/ Stop \/ Edit
      BY <2>2 DEF Assemble, Register, Stop, Edit, Idle
    <2> QED
      BY <2>1, <2>2
  <1>3. ASSUME NEW c \in Configurations, StillSealed(c)
        PROVE  StillSealed(c)'
    BY <1>1, <1>2, <1>3 DEF StillSealed, LoadableReceipt
  <1> QED
    BY <1>1, <1>3, BuilderKeepsLoader

\* A load that ends without an operator leaves its mappings.
LEMMA FailedLoader ==
  ASSUME BundleInv, Failed, UNCHANGED <<builder, ran>>,
         mapped' \in [Configurations -> Extension \cup {None}],
         \A c \in Configurations : Linked(mapped'[c]),
         operator = None
  PROVE  LoaderInv'
  BY DEF BundleInv, LoaderInv, Failed, LoaderTypes, LoadProgress, OperatorSound,
     DispatchedConfiguration

LEMMA LoadBundleLoader ==
  ASSUME BundleInv, NEW override \in BOOLEAN, LoadBundle(override)
  PROVE  LoaderInv'
  <1> USE DEF BundleInv, LoaderInv
  <1>1. /\ Whole(bundle) /\ operator = None /\ UNCHANGED <<builder, mapped, operator, ran>>
        /\ load' = [pc |-> "digest", at |-> 1, rows |-> bundle, fields |-> None,
                    receipt |-> None, overtaken |-> FALSE, fresh |-> TRUE]
    BY DEF LoadBundle, BuilderInv
  <1>2. 1 \in 1..Len(Order) /\ bundle \in [Configurations -> Receipt]
    BY <1>1, BundleAssumption DEF Whole
  <1>3. load' \in Loading /\ load'.pc = "digest" /\ load'.at = 1 /\ load'.rows = bundle
    BY <1>1, <1>2 DEF Loading
  <1>4. LoadProgress'
    BY <1>1, <1>3 DEF LoadProgress
  <1> QED
    BY <1>1, <1>3, <1>4 DEF LoaderTypes, OperatorSound, DispatchedConfiguration

\* The digest, the identity and the receipt of a member are read one by one.
LEMMA ReadingLoader ==
  ASSUME BundleInv, DigestReceipt \/ CompareIdentity \/ ReadReceipt \/ HashExtension
  PROVE  LoaderInv'
  <1> USE DEF BundleInv, LoaderInv
  <1>1. load # Idle
    BY DEF DigestReceipt, CompareIdentity, ReadReceipt, HashExtension, At, Idle
  <1>2. /\ load \in Loading /\ operator = None /\ Member \in Configurations
        /\ Whole(load.rows) /\ load.rows[Member] \in Receipt
    BY <1>1, LoadUnderWay
  <1>3. UNCHANGED <<builder, mapped, ran, receipt, extension, build>>
    BY DEF DigestReceipt, CompareIdentity, ReadReceipt, HashExtension, Reading, builder
  <1>4. CASE Failed
    BY <1>2, <1>3, <1>4, FailedLoader DEF LoaderTypes
  <1>5. CASE DigestReceipt /\ ~Failed
    <2>1. /\ load' = [load EXCEPT !.pc = "identity"] /\ operator' = operator
          /\ receipt[Member] = load.rows[Member]
      BY <1>5 DEF DigestReceipt, SealedReceipt
    <2>2. /\ load' \in Loading /\ load'.pc = "identity" /\ load'.at = load.at
          /\ load'.rows = load.rows /\ load'.overtaken = load.overtaken
          /\ load'.fresh = load.fresh
      BY <1>2, <2>1 DEF Loading
    <2>3. Member' = Member
      BY <2>2 DEF Member
    <2>4. StillSealed(Member)'
      BY <1>3, <2>1, <2>2, <2>3 DEF StillSealed
    <2>5. LoadProgress'
      BY <1>1, <1>2, <1>3, <2>1, <2>2, <2>3, <2>4 DEF LoadProgress
    <2> QED
      BY <1>2, <1>3, <2>1, <2>2, <2>5
         DEF LoaderTypes, OperatorSound, DispatchedConfiguration
  <1>6. CASE CompareIdentity /\ ~Failed
    <2> DEFINE fields == Fields(receipt[Member])
    <2>1. /\ load.pc = "identity" /\ operator' = operator
          /\ load' = [load EXCEPT !.pc = "receipt", !.fields = fields]
      BY <1>6 DEF CompareIdentity, At
    <2>2. receipt[Member] \in Receipt /\ (~load.overtaken => StillSealed(Member))
      BY <1>1, <2>1 DEF LoadProgress
    <2>3. fields \in Version \X Version
      BY <2>2 DEF Fields, Receipt
    <2> HIDE DEF fields
    <2>4. /\ load' \in Loading /\ load'.pc = "receipt" /\ load'.at = load.at
          /\ load'.rows = load.rows /\ load'.overtaken = load.overtaken
          /\ load'.fresh = load.fresh
      BY <1>2, <2>1, <2>3 DEF Loading
    <2>5. Member' = Member
      BY <2>4 DEF Member
    <2>6. ~load'.overtaken => StillSealed(Member)'
      BY <1>3, <2>2, <2>4, <2>5 DEF StillSealed, LoadableReceipt
    <2>7. LoadProgress'
      BY <1>1, <1>2, <1>3, <2>2, <2>4, <2>5, <2>6 DEF LoadProgress
    <2> QED
      BY <1>2, <1>3, <2>1, <2>4, <2>7
         DEF LoaderTypes, OperatorSound, DispatchedConfiguration
  <1>7. CASE ReadReceipt /\ ~Failed
    <2>1. /\ load.pc = "receipt" /\ operator' = operator
          /\ LoadableReceipt(receipt[Member])
          /\ load' = [load EXCEPT !.pc = "hash", !.receipt = receipt[Member]]
      BY <1>7 DEF ReadReceipt, At
    <2>2. /\ receipt[Member] \in Receipt
          /\ ~load.overtaken => receipt[Member] = load.rows[Member]
      BY <1>1, <2>1 DEF LoadProgress, StillSealed, LoadableReceipt, Receipt
    <2>3. /\ load' \in Loading /\ load'.pc = "hash" /\ load'.at = load.at
          /\ load'.rows = load.rows /\ load'.overtaken = load.overtaken
          /\ load'.fresh = load.fresh /\ load'.receipt = receipt[Member]
      BY <1>2, <2>1, <2>2 DEF Loading
    <2>4. Member' = Member
      BY <2>3 DEF Member
    <2>5. LoadProgress'
      BY <1>1, <1>2, <1>3, <2>1, <2>2, <2>3, <2>4 DEF LoadProgress, LoadableReceipt
    <2> QED
      BY <1>2, <1>3, <2>1, <2>3, <2>5
         DEF LoaderTypes, OperatorSound, DispatchedConfiguration
  <1>8. CASE HashExtension /\ ~Failed
    <2>1. /\ load.pc = "hash" /\ operator' = operator
          /\ extension[Member] = load.receipt.extension
          /\ load' = [load EXCEPT !.pc = "open"]
      BY <1>8 DEF HashExtension, At
    <2>2. /\ load.receipt \in Receipt /\ load.receipt.extension # None
          /\ LoadableReceipt(load.receipt)
          /\ ~load.overtaken => load.receipt = load.rows[Member]
      BY <1>1, <2>1 DEF LoadProgress, LoadableReceipt
    <2>3. /\ load' \in Loading /\ load'.pc = "open" /\ load'.at = load.at
          /\ load'.rows = load.rows /\ load'.overtaken = load.overtaken
          /\ load'.fresh = load.fresh /\ load'.receipt = load.receipt
      BY <1>2, <2>1 DEF Loading
    <2>4. Member' = Member
      BY <2>3 DEF Member
    <2>5. /\ extension[Member] \in Extension
          /\ extension[Member].object.configuration = extension[Member].configuration
      BY <1>2, <2>1, <2>2 DEF BuilderInv, BuilderTypes, Linked
    <2>6. LoadProgress'
      BY <1>1, <1>2, <1>3, <2>1, <2>2, <2>3, <2>4, <2>5 DEF LoadProgress
    <2> QED
      BY <1>2, <1>3, <2>1, <2>3, <2>6
         DEF LoaderTypes, OperatorSound, DispatchedConfiguration
  <1> QED
    BY <1>4, <1>5, <1>6, <1>7, <1>8

\* The linker returns the member as it is mapped already, or as it lies in the
\* directory; it is kept when it names the configuration of its place.
LEMMA OpenLoader ==
  ASSUME BundleInv, OpenExtension
  PROVE  LoaderInv'
  <1> DEFINE m == Member
             binary == IF mapped[m] = None THEN extension[m] ELSE mapped[m]
             fresh  == load.fresh /\ mapped[m] = None
  <1> USE DEF BundleInv, LoaderInv
  <1>1. load # Idle /\ load.pc = "open" /\ UNCHANGED <<builder, receipt, extension, build, ran>>
    BY DEF OpenExtension, At, Idle, builder
  <1>2. /\ load \in Loading /\ operator = None /\ m \in Configurations
        /\ load.at \in 1..Len(Order) /\ load.fresh \in BOOLEAN
        /\ Whole(load.rows) /\ load.rows[m] \in Receipt
    BY <1>1, LoadUnderWay DEF Loading
  <1>3. /\ load.receipt \in Receipt /\ LoadableReceipt(load.receipt)
        /\ extension[m] \in Extension
        /\ extension[m].object.configuration = extension[m].configuration
        /\ ~load.overtaken => extension[m] = load.rows[m].extension
    BY <1>1 DEF LoadProgress
  <1>4. /\ binary \in Extension /\ binary.object.configuration = binary.configuration
        /\ ~load.overtaken /\ fresh => binary = load.rows[m].extension
    BY <1>2, <1>3 DEF LoaderTypes, Linked
  <1>5. mapped' = [mapped EXCEPT ![m] = binary]
    BY DEF OpenExtension
  <1>6. fresh \in BOOLEAN /\ (fresh => load.fresh)
    BY <1>2
  <1>7. /\ Configured(binary, m) /\ load.at < Len(Order) =>
             /\ load' = [load EXCEPT !.pc = "digest", !.at = @ + 1, !.receipt = None,
                                     !.fresh = fresh]
             /\ operator' = operator
        /\ Configured(binary, m) /\ ~(load.at < Len(Order)) =>
             /\ operator' = [rows |-> load.rows, fresh |-> fresh, overtaken |-> load.overtaken]
             /\ load' = Idle
        /\ ~Configured(binary, m) => Failed
    BY DEF OpenExtension
  <1> HIDE DEF binary
  <1>8. /\ mapped' \in [Configurations -> Extension \cup {None}]
        /\ mapped'[m] = binary
        /\ \A c \in Configurations \ {m} : mapped'[c] = mapped[c]
    BY <1>2, <1>4, <1>5 DEF LoaderTypes
  <1>9. \A c \in Configurations : Linked(mapped'[c])
    BY <1>4, <1>8 DEF Linked
  <1>10. CASE ~Configured(binary, m)
    BY <1>1, <1>2, <1>7, <1>8, <1>9, <1>10, FailedLoader
  <1>11. ASSUME Configured(binary, m)
         PROVE  /\ \A i \in 1..load.at : Placeable(mapped'[Order[i]], Order[i])
                /\ ~load.overtaken /\ fresh =>
                     \A i \in 1..load.at : mapped'[Order[i]] = load.rows[Order[i]].extension
    <2>1. Placeable(binary, m)
      BY <1>4, <1>11 DEF Configured, Placed, Placeable
    <2>2. ASSUME NEW i \in 1..load.at
          PROVE  /\ Placeable(mapped'[Order[i]], Order[i])
                 /\ ~load.overtaken /\ fresh => mapped'[Order[i]] = load.rows[Order[i]].extension
      <3>1. Order[i] \in Configurations
        BY <1>2, BundleAssumption
      <3>2. CASE Order[i] = m
        BY <1>4, <1>8, <2>1, <3>2
      <3>3. CASE Order[i] # m
        <4>1. i \in 1..(load.at - 1)
          BY <1>2, <3>3 DEF Member
        <4> QED
          BY <1>1, <1>6, <1>8, <3>1, <3>3, <4>1 DEF LoadProgress
      <3> QED
        BY <3>2, <3>3
    <2> QED
      BY <2>2
  <1> HIDE DEF fresh
  <1>12. CASE Configured(binary, m) /\ load.at < Len(Order)
    <2>1. /\ load' \in Loading /\ load'.pc = "digest" /\ load'.at = load.at + 1
          /\ load'.rows = load.rows /\ load'.fresh = fresh
          /\ load'.overtaken = load.overtaken
      <3>1. /\ load.at + 1 \in 1..Len(Order)
            /\ load' = [load EXCEPT !.pc = "digest", !.at = load.at + 1, !.receipt = None,
                                    !.fresh = fresh]
        BY <1>2, <1>7, <1>12, BundleAssumption
      <3> QED
        BY <1>2, <1>6, <3>1 DEF Loading
    <2>2. load'.at - 1 = load.at
      BY <1>2, <2>1
    <2>3. LoadProgress'
      BY <1>2, <1>11, <1>12, <2>1, <2>2 DEF LoadProgress
    <2> QED
      BY <1>1, <1>2, <1>7, <1>8, <1>9, <1>12, <2>1, <2>3
         DEF LoaderTypes, OperatorSound, DispatchedConfiguration
  <1>13. CASE Configured(binary, m) /\ ~(load.at < Len(Order))
    <2> DEFINE loaded == [rows |-> load.rows, fresh |-> fresh, overtaken |-> load.overtaken]
    <2>1. operator' = loaded /\ load' = Idle
      BY <1>7, <1>13
    <2>2. loaded.rows = load.rows /\ loaded.fresh = fresh /\ loaded.overtaken = load.overtaken
      OBVIOUS
    <2> HIDE DEF loaded
    <2>3. load.at = Len(Order)
      BY <1>2, <1>13, BundleAssumption
    <2>4. ASSUME NEW c \in Configurations
          PROVE  /\ Placeable(mapped'[c], c)
                 /\ ~load.overtaken /\ fresh => mapped'[c] = load.rows[c].extension
      <3>1. PICK i \in 1..Len(Order) : Order[i] = c
        BY BundleAssumption
      <3> QED
        BY <1>11, <1>13, <2>3, <3>1
    <2>5. OperatorSound'
      BY <1>2, <2>1, <2>2, <2>4 DEF OperatorSound
    <2> QED
      BY <1>1, <1>8, <1>9, <2>1, <2>5
         DEF LoaderTypes, LoadProgress, DispatchedConfiguration
  <1> QED
    BY <1>10, <1>12, <1>13

LEMMA SelectedConfiguration ==
  ASSUME NEW s PROVE Select(s) \in Configurations
  BY BundleAssumption DEF Select

LEMMA BundleStep ==
  ASSUME BundleInv, [Next]_vars
  PROVE  BundleInv'
  <1> USE DEF BundleInv, LoaderInv
  <1>1. BuilderInv'
    BY BuilderStep
  <1>2. CASE BuildMember \/ BuildBundle \/ BuildNext
    <2>1. ~Building
      <3>1. CASE BuildMember \/ BuildBundle
        <4>1. build = Idle
          BY <3>1 DEF BuildMember, BuildBundle
        <4>2. Idle.pc = "idle"
          BY DEF Idle
        <4> QED
          BY <4>1, <4>2 DEF Building
      <3>2. CASE BuildNext
        BY <3>2 DEF Building, BuildNext
      <3> QED
        BY <1>2, <3>1, <3>2
    <2>2. CASE BuildMember
      <3>1. <<>> \in Seq(Configurations)
        OBVIOUS
      <3> QED
        BY <1>1, <2>1, <2>2, <3>1, StartsLoader DEF BuildMember
    <2>3. CASE BuildBundle
      <3>1. Order # <<>>
        BY BundleAssumption
      <3>2. Head(Order) \in Configurations /\ Tail(Order) \in Seq(Configurations)
        BY <3>1, BundleAssumption
      <3> QED
        BY <1>1, <2>1, <2>3, <3>2, StartsLoader DEF BuildBundle
    <2>4. CASE BuildNext
      <3>1. build \in Working /\ build.rest # <<>>
        BY <2>4 DEF BuildNext, BuilderInv, BuilderTypes, Idle, Registering
      <3>2. /\ Head(build.rest) \in Configurations /\ Tail(build.rest) \in Seq(Configurations)
            /\ build.reuse \in BOOLEAN
        BY <3>1 DEF Working
      <3> QED
        BY <1>1, <2>1, <2>4, <3>2, StartsLoader DEF BuildNext
    <2> QED
      BY <1>2, <2>2, <2>3, <2>4
  <1>3. CASE CompileDevice \/ Assemble \/ Register \/ Stop \/ Edit
    BY <1>1, <1>3, RestOfBuilderLoader
  <1>4. CASE Link \/ Complete
    BY <1>1, <1>4, LinkLoader, CompleteLoader
  <1>5. CASE Load
    BY <1>1, <1>5, LoadBundleLoader, ReadingLoader, OpenLoader DEF Load
  <1>6. CASE Forward
    <2>1. /\ operator # None /\ UNCHANGED <<builder, receipt, extension, build, mapped, load, operator>>
          /\ \E s \in Shapes : ran' = [shape |-> s, binary |-> mapped[Select(s)]]
      BY <1>6 DEF Forward, builder
    <2>2. DispatchedConfiguration'
      <3> PICK s \in Shapes : ran' = [shape |-> s, binary |-> mapped[Select(s)]]
        BY <2>1
      <3>1. ran'.shape = s /\ ran'.binary = mapped[Select(s)]
        OBVIOUS
      <3>2. mapped[Select(s)].object.configuration = Select(s)
        BY <2>1, SelectedConfiguration DEF OperatorSound, Placeable
      <3> QED
        BY <3>1, <3>2 DEF DispatchedConfiguration
    <2> QED
      BY <1>1, <2>1, <2>2 DEF LoaderTypes, LoadProgress, OperatorSound, StillSealed, Member
  <1>7. CASE Restart
    BY <1>1, <1>7 DEF Restart, LoaderTypes, Empty, Linked, LoadProgress, OperatorSound,
       DispatchedConfiguration
  <1>8. CASE UNCHANGED vars
    BY <1>1, <1>8 DEF vars, builder, loader, LoaderTypes, LoadProgress, OperatorSound,
       StillSealed, Member, DispatchedConfiguration
  <1> QED
    BY <1>2, <1>3, <1>4, <1>5, <1>6, <1>7, <1>8 DEF Next, Build

THEOREM BundleInvariant == Spec => []BundleInv
  <1>1. Init => BundleInv
    BY InitBuilder, InitLoader DEF BundleInv
  <1>2. BundleInv /\ [Next]_vars => BundleInv'
    BY BundleStep
  <1> QED
    BY <1>1, <1>2, PTL DEF Spec

-----------------------------------------------------------------------------
(***************************************************************************)
(* What the invariant says of receipts, bundles and forwards.              *)
(***************************************************************************)

\* A complete receipt names a binary compiled from exactly the sources and
\* headers it lists, although they are edited during the build, the build is cut
\* short and run again, and objects of earlier builds are reused.
\* (build_gdn_sm90.py main, admit_reuse)
THEOREM ReceiptsNameTheirBinary == Spec => []ReceiptTruthful
  <1>1. BundleInv => ReceiptTruthful
    BY DEF BundleInv, BuilderInv, ReceiptSound, ReceiptTruthful, LoadableReceipt
  <1> QED
    BY <1>1, BundleInvariant, PTL

\* A forward of a measured shape runs the kernel compiled for the configuration
\* the policy measured, wherever builds were put by hand.
\* (sm90_auto.py AutoSm90Forward, sm90_policy.py select)
THEOREM ForwardRunsItsPolicy == Spec => []DispatchedConfiguration
  <1>1. BundleInv => DispatchedConfiguration
    BY DEF BundleInv, LoaderInv
  <1> QED
    BY <1>1, BundleInvariant, PTL

\* The candidates behind the automatic forward are one build of one tree, unless
\* a member was linked during the load or was mapped before it.
\* (sm90_auto.py load_bundle, sm90.py load_sm90)
THEOREM CandidatesAreOneBuild == Spec => []OneBuild
  <1>1. BundleInv => OneBuild
    <2> SUFFICES ASSUME BundleInv, operator # None, ~operator.overtaken, operator.fresh
                 PROVE  \E s, h \in 1..MaxVersion : \A c \in Configurations :
                          /\ Fields(operator.rows[c]) = <<s, h>>
                          /\ BuiltFrom(mapped[c], operator.rows[c])
      BY DEF OneBuild
    <2> DEFINE rows == operator.rows
               first == rows[Default]
    <2>1. /\ Whole(rows)
          /\ \A c \in Configurations : mapped[c] = rows[c].extension
      BY DEF BundleInv, LoaderInv, OperatorSound
    <2> HIDE DEF rows
    <2>2. first.source \in 1..MaxVersion /\ first.headers \in 1..MaxVersion
      BY <2>1, BundleAssumption DEF Whole, Receipt, Version
    <2>3. ASSUME NEW c \in Configurations
          PROVE  /\ Fields(rows[c]) = <<first.source, first.headers>>
                 /\ BuiltFrom(mapped[c], rows[c])
      <3>1. Fields(rows[c]) = Fields(first)
        BY <2>1, BundleAssumption DEF Whole
      <3> QED
        BY <2>1, <3>1 DEF Whole, Fields
    <2> HIDE DEF first
    <2> QED
      BY <2>2, <2>3 DEF rows
  <1> QED
    BY <1>1, BundleInvariant, PTL

\* The published bundle never names an unfinished or half-rebuilt set, whatever
\* step a builder stops at.  (build_sm90_bundle.py assemble)
THEOREM PublicationsAreWhole == Spec => PublishedWhole
  <1>1. ASSUME BundleInv, [Next]_vars, bundle' # bundle, NEW c \in Configurations
        PROVE  /\ bundle'[c].complete /\ BuiltFrom(extension[c], bundle'[c])
               /\ extension[c].object.configuration = c
    <2>1. CASE Assemble /\ Assembles
      <3>1. bundle' = receipt /\ receipt[c].extension = extension[c]
        BY <2>1, <1>1 DEF Assemble, Assembles
      <3>2. Whole(receipt)
        BY <2>1, <1>1, AssembledWhole DEF BundleInv
      <3>3. /\ receipt[c].complete /\ BuiltFrom(extension[c], receipt[c])
            /\ receipt[c].configuration = c
        BY <3>1, <3>2 DEF Whole
      <3>4. extension[c].object.configuration = receipt[c].configuration
        BY <3>3 DEF BuiltFrom
      <3> QED
        BY <3>1, <3>3, <3>4
    <2>2. CASE ~(Assemble /\ Assembles)
      <3>1. bundle' = bundle
        <4>1. CASE BuildMember \/ BuildBundle \/ BuildNext
          BY <4>1 DEF BuildMember, BuildBundle, BuildNext, Starts, published
        <4>2. CASE CompileDevice \/ Link \/ Complete \/ Register \/ Stop \/ Edit
          BY <4>2 DEF CompileDevice, Link, Complete, Register, Stop, Edit, published
        <4>3. CASE Assemble
          BY <2>2, <4>3 DEF Assemble
        <4>4. CASE Load \/ Forward \/ Restart \/ UNCHANGED vars
          BY <4>4 DEF Load, LoadBundle, DigestReceipt, CompareIdentity, ReadReceipt,
             HashExtension, OpenExtension, Forward, Restart, Reading, builder, vars
        <4> QED
          BY <1>1, <4>1, <4>2, <4>3, <4>4 DEF Next, Build
      <3> QED
        BY <1>1, <3>1
    <2> QED
      BY <2>1, <2>2
  <1>2. BundleInv /\ [Next]_vars =>
          [bundle' # bundle =>
             \A c \in Configurations :
               /\ bundle'[c].complete /\ BuiltFrom(extension[c], bundle'[c])
               /\ extension[c].object.configuration = c]_vars
    BY <1>1
  <1> QED
    BY <1>2, BundleInvariant, PTL DEF Spec, PublishedWhole
=============================================================================
