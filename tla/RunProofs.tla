-------------------------------- MODULE RunProofs ---------------------------
(***************************************************************************)
(* Theorems about a run: the injection and the phases around it            *)
(* (Pipeline), the bundle edits (AppRun), and the command line it starts   *)
(* from (Options), for any tweak lists, options, entitlements, jobs and    *)
(* number of items.                                                        *)
(***************************************************************************)
EXTENDS Options, FiniteSetTheorems, SequenceTheorems, WellFoundedInduction, TLAPS

Injecting == {"expand", "strip", "dirs", "place", "auto"}

(* The phases in which only the scratch directory is written. *)
Scratch == {"start", "prepare", "injected", "entitle", "patch", "fakesign",
            "output"} \cup Injecting

(* The injection begins and ends inside the scratch phases, and neither    *)
(* the run's options nor its items after the expansion are ever replaced.  *)
LEMMA InjectionPhases ==
  ASSUME InjectNext
  PROVE  /\ pc \in Injecting /\ pc' \in Injecting \cup {"injected", "failed"}
         /\ run' = run
         /\ pc # "expand" => pc' # "expand" /\ items' = items
<1> USE DEF Injecting, injectVars, Placing, PlaceAt
<1>1. CASE ExpandDeb BY <1>1 DEF ExpandDeb
<1>2. CASE TakeItem BY <1>2 DEF TakeItem
<1>3. CASE NothingToDo BY <1>3 DEF NothingToDo
<1>4. CASE PreScan BY <1>4 DEF PreScan
<1>5. CASE Strip BY <1>5 DEF Strip
<1>6. CASE MakeDirs BY <1>6 DEF MakeDirs
<1>7. CASE InjectDylib BY <1>7 DEF InjectDylib
<1>8. CASE InjectFramework BY <1>8 DEF InjectFramework
<1>9. CASE InjectFiles BY <1>9 DEF InjectFiles
<1>10. CASE SkipLink BY <1>10 DEF SkipLink
<1>11. CASE AllPlaced BY <1>11 DEF AllPlaced
<1>12. ASSUME NEW key \in needed, AutoInject(key)
       PROVE  /\ pc = "auto" /\ pc' \in {"auto", "failed"}
              /\ run' = run /\ items' = items
  BY <1>12 DEF AutoInject
<1>13. CASE Restore BY <1>13 DEF Restore
<1>14. CASE InjectFails BY <1>14 DEF InjectFails
<1> QED
  BY <1>1, <1>2, <1>3, <1>4, <1>5, <1>6, <1>7, <1>8, <1>9, <1>10, <1>11, <1>12,
     <1>13, <1>14 DEF InjectNext
-----------------------------------------------------------------------------
(***************************************************************************)
(* The user's files.  InputSurvives speaks of the state after the output   *)
(* was touched; what makes it true is settled at the start, when the paths *)
(* are compared, and has to be carried through every phase in between.     *)
(***************************************************************************)
FilesInv ==
  /\ pc \in Scratch \cup {"write", "copy", "close", "done", "failed", "crashed"}
  /\ pc \in Scratch => disk.input = "old"
  /\ pc \notin {"start", "failed", "crashed"} /\ run.place = "same" => run.overwrite
  /\ disk.input # "old" => run.place # "apart" /\ (run.place = "same" => run.overwrite)
  /\ OutputHonest

(* Nothing has been written when a run begins. *)
LEMMA InitFiles == Init => FilesInv
  BY DEF Init, FilesInv, Scratch, OutputHonest

(* Writing the output leaves an input alone that lies apart from it. *)
LEMMA PutOutInput ==
  ASSUME NEW c, PutOut(c)
  PROVE  /\ disk'.output = c
         /\ run.place = "apart" => disk'.input = disk.input
  BY DEF PutOut

(* Every step keeps the files' invariant. *)
LEMMA NextFiles == FilesInv /\ [Next]_vars => FilesInv'
<1> SUFFICES ASSUME FilesInv, [Next]_vars PROVE FilesInv'
  OBVIOUS
<1> USE DEF FilesInv, Scratch, Injecting, OutputHonest, Step
<1> DEFINE Kept == run' = run /\ disk' = disk
<1>1. CASE Start BY <1>1 DEF Start, injectVars
<1>2. CASE Prepare BY <1>2 DEF Prepare, injectVars
<1>3. CASE Inject
  <2>1. /\ pc \in Injecting /\ pc' \in Injecting \cup {"injected", "failed"}
        /\ Kept
    BY <1>3, InjectionPhases DEF Inject
  <2> QED BY <2>1
<1>4. CASE EditBundle BY <1>4 DEF EditBundle, injectVars
<1>5. CASE Entitle BY <1>5 DEF Entitle
<1>6. CASE Patch BY <1>6 DEF Patch
<1>7. CASE Fakesign BY <1>7 DEF Fakesign
<1>8. CASE CreateIpa BY <1>8, PutOutInput DEF CreateIpa, injectVars
<1>9. CASE RemoveApp BY <1>9, PutOutInput DEF RemoveApp, injectVars
<1>10. CASE CopyApp BY <1>10, PutOutInput DEF CopyApp, injectVars
<1>11. CASE WriteZip BY <1>11 DEF WriteZip, injectVars
<1>12. CASE Close BY <1>12, PutOutInput DEF Close, injectVars
<1>13. CASE StepFails BY <1>13 DEF StepFails, injectVars
<1>14. CASE Finished \/ UNCHANGED vars BY <1>14 DEF Finished, vars, injectVars
<1> QED
  BY <1>1, <1>2, <1>3, <1>4, <1>5, <1>6, <1>7, <1>8, <1>9, <1>10, <1>11, <1>12,
     <1>13, <1>14 DEF Next

(* In every reachable state the input is as it was, or the run has the new *)
(* bundle built and was given an output that is not apart from the input:  *)
(* its own path with --overwrite, or one the comparison of the spellings   *)
(* does not recognise.  A run that reports success has left a complete     *)
(* output (run.go 48-54, 266-285).                                         *)
THEOREM UserFilesAlways == Spec => [](InputSurvives /\ OutputHonest)
<1>1. FilesInv => InputSurvives /\ OutputHonest
  BY DEF FilesInv, InputSurvives, Scratch, Injecting
<1> QED BY <1>1, InitFiles, NextFiles, PTL DEF Spec
-----------------------------------------------------------------------------
(***************************************************************************)
(* One hooking runtime.  The property is about references rewritten at     *)
(* different times under `mode'; it is inductive once it is known that no  *)
(* tweak is in the bundle before the pre-scan has settled the mode, and    *)
(* that no item left to place can switch it any more.                      *)
(***************************************************************************)
NothingShipped ==
  pc \in {"start", "prepare", "expand"} =>
      \A p \in DOMAIN shipped : shipped[p].from = "app"

Scanned ==
  pc \in {"strip", "dirs", "place"} /\ mode = "substrate" =>
      \A it \in Range_(items) : ~dependsOnLibhooker(it)

RuntimeInv ==
  mode \in Modes /\ needed \subseteq Keys /\ NothingShipped /\ Scanned /\ OneRuntime

(* A runtime is the framework of the substrate key of its mode, whichever  *)
(* key asked for it.                                                       *)
LEMMA RuntimeOfMode ==
  ASSUME NEW m \in Modes, NEW k \in Keys, infoFor(k, m) \in Runtimes
  PROVE  infoFor(k, m) = infoFor("substrate", m)
<1>1. /\ infoFor("orion", m) = "Orion" /\ infoFor("cephei", m) = "Cephei"
      /\ infoFor("cepheiprefs", m) = "CepheiPrefs"
  BY DEF infoFor, commonDeps
<1>2. infoFor("substrate", m) = IF m = "ellekit" THEN "ElleKit" ELSE "CydiaSubstrate"
  BY DEF infoFor, commonDeps
<1>3. infoFor("libhooker", m) = IF m = "ellekit" THEN "ElleKit" ELSE ""
  BY DEF infoFor, commonDeps
<1> QED BY <1>1, <1>2, <1>3 DEF Keys, Runtimes

(* The reference a fix leaves: one that was given, or the canonical one of *)
(* a key, unless an injected item has that name.                           *)
LEMMA FixedReference ==
  ASSUME NEW deps, NEW stuck, NEW m \in Modes, NEW n \in Runtimes \ Names,
         Ref("rpath", n) \in FixDeps(deps, stuck, m) \ stuck
  PROVE  \/ Ref("rpath", n) \in deps /\ KeysOf(Ref("rpath", n)) = {}
         \/ n = infoFor("substrate", m)
<1> DEFINE r == Ref("rpath", n)
<1>1. PICK d \in deps : r = IF d \in stuck THEN d ELSE InjectedAt(CanonOf(d, m))
  BY DEF FixDeps
<1>2. d \notin stuck /\ r = InjectedAt(CanonOf(d, m))
  BY <1>1
<1>3. r.name = n
  BY DEF Ref
<1>4. r = CanonOf(d, m)
  <2>1. CASE CanonOf(d, m).name \notin Names
    BY <1>2, <2>1 DEF InjectedAt
  <2>2. CASE CanonOf(d, m).name \in Names
    <3>1. r.name = CanonOf(d, m).name
      BY <1>2, <2>2 DEF InjectedAt, Ref
    <3> QED BY <3>1, <1>3, <2>2
  <2> QED BY <2>1, <2>2
<1>5. CASE KeysOf(d) = {}
  BY <1>4, <1>5 DEF CanonOf
<1>6. CASE KeysOf(d) # {}
  <2>1. PICK k \in KeysOf(d) : r = Ref("rpath", infoFor(k, m))
    BY <1>4, <1>6 DEF CanonOf
  <2>2. k \in Keys /\ n = infoFor(k, m)
    BY <2>1 DEF KeysOf, Ref
  <2> QED BY <2>2, RuntimeOfMode
<1> QED BY <1>5, <1>6

(* What is put in the bundle: the new file there, the old ones elsewhere. *)
LEMMA PutFile ==
  ASSUME NEW place, NEW file, NEW p \in DOMAIN Put(place, file)
  PROVE  \/ p = place /\ Put(place, file)[p] = file
         \/ p \in DOMAIN shipped /\ Put(place, file)[p] = shipped[p]
  BY DEF Put

(* Placing a file of a tweak whose rewritten references are those of the   *)
(* mode keeps the property.                                                *)
LEMMA TweakPlaced ==
  ASSUME OneRuntime, mode' = mode, run' = run, items' = items,
         NEW place, NEW deps, NEW stuck,
         \A n \in Runtimes \ {infoFor("substrate", mode)} :
             n \notin Names => Ref("rpath", n) \notin deps \ (stuck \cup Foreign),
         shipped' = Put(place, File(deps, stuck, "tweak"))
  PROVE  OneRuntime'
<1> SUFFICES ASSUME NEW n \in Runtimes \ {infoFor("substrate", mode)},
                    NEW p \in DOMAIN shipped'
             PROVE  /\ p = Ref("rpath", n) => shipped'[p].from # "extras"
                    /\ shipped'[p].from = "tweak" /\ n \notin Names
                         => Ref("rpath", n)
                              \notin shipped'[p].deps \ (shipped'[p].stuck \cup Foreign)
  BY DEF OneRuntime, Names, Foreign
<1>1. CASE p = place /\ shipped'[p] = File(deps, stuck, "tweak")
  BY <1>1 DEF File
<1>2. CASE p \in DOMAIN shipped /\ shipped'[p] = shipped[p]
  BY <1>2 DEF OneRuntime
<1> QED BY <1>1, <1>2, PutFile

(* The pre-scan leaves nothing for the placement to switch on.             *)
LEMMA ModeForSettled ==
  ASSUME RuntimeInv, Placing("dylib")
  PROVE  ModeFor(Item) = mode
<1>1. Item \in Range_(items) /\ Item.kind = "dylib" /\ pc = "place"
  BY DEF Placing, More, Item, Range_
<1>2. mode = "substrate" => ~dependsOnLibhooker(Item)
  BY <1>1 DEF RuntimeInv, Scanned
<1> QED BY <1>1, <1>2 DEF ModeFor, dependsOnLibhooker

(* A state without a tweak or an extra in the bundle has the property.     *)
LEMMA AppOnly ==
  ASSUME \A p \in DOMAIN shipped : shipped[p].from = "app"
  PROVE  OneRuntime
  BY DEF OneRuntime

(* The app's own frameworks are all there is when a run begins.            *)
LEMMA InitRuntime == Init => RuntimeInv
<1> SUFFICES ASSUME Init PROVE RuntimeInv
  OBVIOUS
<1>1. mode \in Modes /\ needed \subseteq Keys /\ pc = "start"
  BY DEF Init, InjectInit, Modes
<1>2. \A p \in DOMAIN shipped : shipped[p].from = "app"
  BY DEF Init, InjectInit, File
<1> QED BY <1>1, <1>2, AppOnly DEF RuntimeInv, NothingShipped, Scanned

(* A step of the injection keeps the invariant. *)
LEMMA InjectRuntime == RuntimeInv /\ InjectNext => RuntimeInv'
<1> SUFFICES ASSUME RuntimeInv, InjectNext PROVE RuntimeInv'
  OBVIOUS
<1> USE DEF RuntimeInv
<1>a. ASSUME shipped' = shipped, items' = items, mode' = mode, run' = run
      PROVE  OneRuntime'
  BY <1>a DEF OneRuntime, Names, Foreign
<1>b. ASSUME pc = "expand", pc' = "expand" \/ pc' \notin {"strip", "dirs", "place"},
             shipped' = shipped, mode' = mode,
             needed' = needed
      PROVE  RuntimeInv'
  <2>1. \A p \in DOMAIN shipped' : shipped'[p].from = "app"
    BY <1>b DEF NothingShipped
  <2> QED BY <1>b, <2>1, AppOnly DEF NothingShipped, Scanned, OneRuntime
<1>1. CASE ExpandDeb BY <1>1, <1>b DEF ExpandDeb
<1>2. CASE TakeItem BY <1>2, <1>b DEF TakeItem
<1>3. CASE NothingToDo BY <1>3, <1>b DEF NothingToDo, injectVars
<1>4. CASE PreScan
  <2>1. mode' \in Modes
    BY <1>4 DEF PreScan, Modes
  <2>2. \A p \in DOMAIN shipped' : shipped'[p].from = "app"
    BY <1>4 DEF PreScan, NothingShipped
  <2>3. OneRuntime'
    BY <2>2 DEF OneRuntime
  <2>4. Scanned'
    BY <1>4 DEF PreScan, Scanned, dependsOnLibhooker
  <2> QED BY <1>4, <2>1, <2>3, <2>4 DEF PreScan, NothingShipped
<1>5. CASE Strip BY <1>5, <1>a DEF Strip, NothingShipped, Scanned
<1>6. CASE MakeDirs BY <1>6, <1>a DEF MakeDirs, NothingShipped, Scanned
<1>7. CASE InjectDylib
  <2> DEFINE place == Ref(IF IsRoot(Item) THEN "exec" ELSE "rpath", Item.name)
  <2>1. Placing("dylib") /\ pc' = "place" /\ items' = items /\ run' = run
    BY <1>7 DEF InjectDylib, Placing
  <2>2. ModeFor(Item) = mode
    BY <2>1, ModeForSettled
  <2>3. PICK stuck : PlaceAt(Item, place, mode, stuck)
    BY <1>7, <2>2 DEF InjectDylib
  <2>4. /\ mode' = mode
        /\ needed' \subseteq Keys
        /\ shipped' = Put(place, File(FixDeps(Item.deps, stuck, mode), stuck, "tweak"))
    BY <2>3 DEF PlaceAt, KeysOf
  <2>5. ASSUME NEW n \in Runtimes \ {infoFor("substrate", mode)}, n \notin Names
        PROVE  Ref("rpath", n) \notin
                 FixDeps(Item.deps, stuck, mode) \ (stuck \cup Foreign)
    <3> SUFFICES ASSUME Ref("rpath", n) \in FixDeps(Item.deps, stuck, mode) \ stuck
                 PROVE  Ref("rpath", n) \in Foreign
      OBVIOUS
    <3>1. Ref("rpath", n) \in Item.deps /\ KeysOf(Ref("rpath", n)) = {}
      BY <2>5, FixedReference
    <3>2. Item \in Range_(items)
      BY <2>1 DEF Placing, More, Item, Range_
    <3>3. Ref("rpath", n).name \notin Names
      BY <2>5 DEF Ref
    <3> QED BY <3>1, <3>2, <3>3 DEF Foreign
  <2>6. OneRuntime'
    BY <2>1, <2>4, <2>5, TweakPlaced
  <2> QED BY <2>1, <2>4, <2>6 DEF NothingShipped, Scanned, Placing
<1>8. CASE InjectFramework
  <2>1. OneRuntime'
    BY <1>8, TweakPlaced DEF InjectFramework
  <2> QED BY <1>8, <2>1 DEF InjectFramework, Placing, NothingShipped, Scanned
<1>9. CASE InjectFiles
  <2>1. OneRuntime'
    BY <1>9, TweakPlaced DEF InjectFiles
  <2> QED BY <1>9, <2>1 DEF InjectFiles, Placing, NothingShipped, Scanned
<1>10. CASE SkipLink BY <1>10, <1>a DEF SkipLink, NothingShipped, Scanned
<1>11. CASE AllPlaced BY <1>11, <1>a DEF AllPlaced, Keys, NothingShipped, Scanned
<1>12. ASSUME NEW key \in needed, AutoInject(key)
       PROVE  RuntimeInv'
  <2> DEFINE place == Ref("rpath", infoFor(key, mode))
             extra == File(EmbeddedDeps(infoFor(key, mode)), {}, "extras")
  <2>1. /\ pc = "auto" /\ pc' \in {"auto", "failed"}
        /\ mode' = mode /\ items' = items /\ run' = run
        /\ shipped' = shipped \/ shipped' = Put(place, extra)
        /\ key \in Keys /\ needed' \subseteq Keys
    BY <1>12 DEF AutoInject
  <2>2. CASE shipped' = shipped
    BY <1>a, <2>1, <2>2 DEF NothingShipped, Scanned
  <2>3. CASE shipped' = Put(place, extra)
    <3>1. SUFFICES ASSUME NEW n \in Runtimes \ {infoFor("substrate", mode)},
                          NEW p \in DOMAIN shipped'
                   PROVE  /\ p = Ref("rpath", n) => shipped'[p].from # "extras"
                          /\ shipped'[p].from = "tweak" /\ n \notin Names
                               => Ref("rpath", n)
                                    \notin shipped'[p].deps \ (shipped'[p].stuck \cup Foreign)
      BY <2>1 DEF OneRuntime, Names, Foreign, NothingShipped, Scanned
    <3>2. CASE p = place /\ shipped'[p] = extra
      <4>1. n # infoFor(key, mode)
        BY <2>1, RuntimeOfMode
      <4> QED BY <3>2, <4>1 DEF File, Ref
    <3>3. CASE p \in DOMAIN shipped /\ shipped'[p] = shipped[p]
      BY <3>3 DEF OneRuntime
    <3> QED BY <2>3, <3>2, <3>3, PutFile
  <2> QED BY <2>1, <2>2, <2>3
<1>13. CASE Restore BY <1>13, <1>a DEF Restore, NothingShipped, Scanned
<1>14. CASE InjectFails BY <1>14, <1>a DEF InjectFails, injectVars, NothingShipped, Scanned
<1> QED
  BY <1>1, <1>2, <1>3, <1>4, <1>5, <1>6, <1>7, <1>8, <1>9, <1>10, <1>11, <1>12,
     <1>13, <1>14 DEF InjectNext

(* Nothing outside the injection touches what the property is about.       *)
LEMMA NextRuntime == RuntimeInv /\ [Next]_vars => RuntimeInv'
<1> SUFFICES ASSUME RuntimeInv, [Next]_vars PROVE RuntimeInv'
  OBVIOUS
<1>1. CASE Inject BY <1>1, InjectRuntime DEF Inject
<1>2. ASSUME shipped' = shipped, items' = items, mode' = mode, run' = run,
             needed' = needed,
             \/ pc' \in {"start", "prepare", "expand"}
                  /\ pc \in {"start", "prepare", "expand"}
             \/ pc' = pc
             \/ pc' \notin {"start", "prepare", "expand", "strip", "dirs", "place"}
      PROVE  RuntimeInv'
  BY <1>2 DEF RuntimeInv, NothingShipped, Scanned, OneRuntime, Names, Foreign
<1>3. CASE Start BY <1>2, <1>3 DEF Start, injectVars
<1>4. CASE Prepare BY <1>2, <1>4 DEF Prepare, injectVars
<1>5. CASE EditBundle \/ Entitle \/ Patch \/ Fakesign
  BY <1>2, <1>5 DEF EditBundle, Entitle, Patch, Fakesign, Step, injectVars
<1>6. CASE CreateIpa \/ RemoveApp \/ CopyApp \/ WriteZip \/ Close
  BY <1>2, <1>6 DEF CreateIpa, RemoveApp, CopyApp, WriteZip, Close, Step, injectVars
<1>7. CASE StepFails \/ Finished \/ UNCHANGED vars
  BY <1>2, <1>7 DEF StepFails, Finished, vars, injectVars
<1> QED BY <1>1, <1>3, <1>4, <1>5, <1>6, <1>7 DEF Next

(* Whatever the tweaks, their order and the frameworks the app has, a run  *)
(* materialises one hooking runtime and rewrites references to that one    *)
(* only (inject.go 20-22, 163-176, 433-465).                               *)
THEOREM OneRuntimeAlways == Spec => []OneRuntime
<1>1. RuntimeInv => OneRuntime
  BY DEF RuntimeInv
<1> QED BY <1>1, InitRuntime, NextRuntime, PTL DEF Spec
-----------------------------------------------------------------------------
(***************************************************************************)
(* Entitlements.  They leave the executable with its signature before the  *)
(* edits and come back after them; three later steps may sign again from   *)
(* what they can read.  The invariant says where they are in every phase.  *)
(***************************************************************************)
Own == IF run.signed THEN run.ents ELSE NoEnts
Wanted == IF run.newEnts # NoEnts THEN run.newEnts ELSE Own

WhereEntitlementsAre ==
  /\ pc \in {"start", "prepare", "expand", "strip"} =>
        main.signed = run.signed /\ main.ents = Own
  /\ pc \in {"dirs", "place", "auto"} =>
        saved = Own /\ ~main.signed /\ main.ents = NoEnts
  /\ pc \in {"injected", "entitle"} => main.ents = Own
  /\ pc \in {"patch", "fakesign", "output", "write", "copy", "close", "done"} =>
        main.ents = Wanted
  /\ pc \in {"fakesign", "output", "write", "copy", "close", "done"} /\ run.glass =>
        main.signed

SignInv ==
  /\ run \in Runs
  /\ DOMAIN main = {"signed", "ents", "rpath", "loads"}
  /\ ~main.signed => main.ents = NoEnts
  /\ WhereEntitlementsAre

(* What is readable is what the executable carries.                        *)
LEMMA Readable == SignInv => ReadableEnts(main) = main.ents
  BY DEF SignInv, ReadableEnts

(* A signature carries the entitlements it was made with.                  *)
LEMMA Signed ==
  ASSUME NEW e, DOMAIN main = {"signed", "ents", "rpath", "loads"}
  PROVE  /\ DOMAIN SignWithEntitlements(main, e) = DOMAIN main
         /\ SignWithEntitlements(main, e).signed
         /\ SignWithEntitlements(main, e).ents = e
  BY DEF SignWithEntitlements

(* The executable begins with its own.                                     *)
LEMMA InitSign == Init => SignInv
  BY InjectAssumption DEF Init, InjectInit, SignInv, WhereEntitlementsAre, Own

(* A step of the injection keeps the invariant.                            *)
LEMMA InjectSign == SignInv /\ InjectNext => SignInv'
<1> SUFFICES ASSUME SignInv, InjectNext PROVE SignInv'
  OBVIOUS
<1> USE DEF SignInv, WhereEntitlementsAre, Own, Wanted
<1>a. ASSUME run' = run, saved' = saved,
             pc' = pc \/ pc' = "failed" \/ (pc = "place" /\ pc' = "auto")
                      \/ (pc = "dirs" /\ pc' = "place")
                      \/ (pc = "expand" /\ pc' \in {"strip", "injected"}),
             DOMAIN main' = DOMAIN main, main'.signed = main.signed,
             main'.ents = main.ents
      PROVE  SignInv'
  BY <1>a
<1>b. ASSUME NEW place, main' = InjectWeak(main, place)
      PROVE  /\ DOMAIN main' = DOMAIN main
             /\ main'.signed = main.signed /\ main'.ents = main.ents
  BY <1>b DEF InjectWeak
<1>1. CASE ExpandDeb \/ TakeItem \/ NothingToDo \/ PreScan
  BY <1>1, <1>a DEF ExpandDeb, TakeItem, NothingToDo, PreScan, injectVars
<1>2. CASE Strip BY <1>2 DEF Strip
<1>3. CASE MakeDirs
  <2>1. /\ DOMAIN main' = DOMAIN main
        /\ main'.signed = main.signed /\ main'.ents = main.ents
    BY <1>3 DEF MakeDirs
  <2> QED BY <1>3, <2>1, <1>a DEF MakeDirs
<1>4. CASE InjectDylib
  BY <1>4, <1>a, <1>b DEF InjectDylib, PlaceAt, Placing
<1>5. CASE InjectFramework
  BY <1>5, <1>a, <1>b DEF InjectFramework, Placing
<1>6. CASE InjectFiles \/ SkipLink \/ AllPlaced
  BY <1>6, <1>a DEF InjectFiles, SkipLink, AllPlaced, Placing
<1>7. ASSUME NEW key \in needed, AutoInject(key) PROVE SignInv'
  BY <1>7, <1>a DEF AutoInject
<1>8. CASE Restore BY <1>8 DEF Restore
<1>9. CASE InjectFails BY <1>9, <1>a DEF InjectFails, injectVars
<1> QED BY <1>1, <1>2, <1>3, <1>4, <1>5, <1>6, <1>7, <1>8, <1>9 DEF InjectNext

(* So does every other step of the run.                                    *)
LEMMA NextSign == SignInv /\ [Next]_vars => SignInv'
<1> SUFFICES ASSUME SignInv, [Next]_vars PROVE SignInv'
  OBVIOUS
<1> USE DEF SignInv, WhereEntitlementsAre, Own, Wanted
<1>1. CASE Inject BY <1>1, InjectSign DEF Inject
<1>2. CASE Start \/ Prepare \/ EditBundle
  BY <1>2 DEF Start, Prepare, EditBundle, Step, injectVars
<1>3. CASE Entitle BY <1>3, Signed DEF Entitle, Step
<1>4. CASE Patch BY <1>4, Signed, Readable DEF Patch, Step
<1>5. CASE Fakesign BY <1>5, Signed, Readable DEF Fakesign, Step
<1>6. CASE CreateIpa \/ RemoveApp \/ CopyApp \/ WriteZip \/ Close
  BY <1>6 DEF CreateIpa, RemoveApp, CopyApp, WriteZip, Close, Step, injectVars
<1>7. CASE StepFails \/ Finished \/ UNCHANGED vars
  BY <1>7 DEF StepFails, Finished, vars, injectVars
<1> QED BY <1>1, <1>2, <1>3, <1>4, <1>5, <1>6, <1>7 DEF Next

(* A finished executable carries the entitlements asked for, or its own,   *)
(* through every strip and signature (inject.go 178-187, 266-273, run.go   *)
(* 219-228, liquidglass.go 77-99).                                         *)
THEOREM SignatureAlways == Spec => []SignatureSurvives
<1>1. SignInv => SignatureSurvives
  BY DEF SignInv, WhereEntitlementsAre, SignatureSurvives, Own, Wanted
<1> QED BY <1>1, InitSign, NextSign, PTL DEF Spec
-----------------------------------------------------------------------------
(***************************************************************************)
(* What is loaded is shipped.  A reference is rewritten when its dylib is  *)
(* placed, and what it then names may come later: with an item still to    *)
(* place, or with a framework a key asks for.  The invariant says that     *)
(* each is in the bundle or on its way.                                    *)
(***************************************************************************)
Code == {"dylib", "framework"}

(* No dylib loads what is no code by the name of a file that is injected.  *)
Ordinary ==
  \A it \in Range_(items) : it.kind = "dylib" =>
     \A d \in it.deps : \A jt \in Range_(items) :
        jt.name = CanonOf(d, mode).name => jt.kind \in Code

PlaceOf(it) == Ref(IF IsRoot(it) THEN "exec" ELSE "rpath", it.name)

(* What the tweaks hold, and what they become, are lists. *)
ListsInv ==
  /\ IsList(todo) /\ \A t \in Range_(todo) : IsList(t.items)
  /\ IsList(staged) /\ IsList(items)

LoadsInv ==
  main.loads \in Seq(DOMAIN shipped)

CountInv ==
  /\ placed \in Nat
  /\ pc \in {"start", "prepare", "expand", "strip", "dirs"} => placed = 0

PlacedInv ==
  \A j \in DOMAIN items :
     j <= placed /\ ~items[j].link /\ items[j].kind \in Code
        => PlaceOf(items[j]) \in DOMAIN shipped

(* A reference that is, or will be, or need not be there. *)
Coming(d) ==
  \/ d \in DOMAIN shipped
  \/ d.name \in Linked
  \/ /\ pc = "place"
     /\ \E j \in DOMAIN items : /\ j > placed /\ ~items[j].link
                                /\ items[j].kind \in Code /\ d = PlaceOf(items[j])
  \/ /\ pc \in {"place", "auto"}
     /\ \E k \in needed : d = Ref("rpath", infoFor(k, mode))

Settled ==
  \A p \in DOMAIN shipped : shipped[p].from = "tweak" =>
     \A d \in shipped[p].deps \ (shipped[p].stuck \cup Foreign) : Coming(d)

RefsInv ==
  /\ RuntimeInv /\ SignInv /\ ListsInv /\ LoadsInv /\ CountInv
  /\ Ordinary => PlacedInv
  /\ Ordinary /\ pc \notin {"failed", "crashed"} => Settled

(* A sequence is one of its own elements. *)
LEMMA OwnElements ==
  ASSUME NEW X, NEW s \in Seq(X)
  PROVE  IsList(s)
<1>1. s = [i \in 1..Len(s) |-> s[i]] /\ Len(s) \in Nat /\ DOMAIN s = 1..Len(s)
  OBVIOUS
<1>2. \A i \in 1..Len(s) : s[i] \in Range_(s)
  BY <1>1 DEF Range_
<1>3. [i \in 1..Len(s) |-> s[i]] \in Seq(Range_(s))
  BY <1>1, <1>2
<1> QED
  BY <1>1, <1>3 DEF IsList

(* One list behind another is a list of both. *)
LEMMA ListAfterList ==
  ASSUME NEW s, NEW t, IsList(s), IsList(t)
  PROVE  IsList(s \o t)
<1> DEFINE X == Range_(s) \cup Range_(t)
<1>1. s \in Seq(X) /\ t \in Seq(X)
  BY DEF IsList
<1> HIDE DEF X
<1>2. s \o t \in Seq(X)
  BY <1>1
<1> QED
  BY <1>2, OwnElements

(* The first of a list, and what is behind it. *)
LEMMA RestOfList ==
  ASSUME NEW s, IsList(s), s # <<>>
  PROVE  /\ IsList(Tail(s)) /\ Head(s) \in Range_(s)
         /\ Range_(Tail(s)) \subseteq Range_(s)
<1> DEFINE X == Range_(s)
<1>1. s \in Seq(X)
  BY DEF IsList
<1> HIDE DEF X
<1>2. Tail(s) \in Seq(X) /\ Head(s) \in X
  BY <1>1
<1>3. Range_(Tail(s)) \subseteq X
  BY <1>2 DEF Range_
<1> QED
  BY <1>2, <1>3, OwnElements DEF X

(* What is in the staging directory after a deb is a list. *)
LEMMA UnpackedIsList ==
  ASSUME NEW d, NEW arts, IsList(d), IsList(arts)
  PROVE  IsList(Unpack(d, arts))
<1> DEFINE stay == {i \in DOMAIN d : d[i].name \notin {a.name : a \in Range_(arts)}}
           Nth(n) == CHOOSE i \in stay : Cardinality({j \in stay : j < i}) = n - 1
           k == Cardinality(stay)
           kept == [n \in 1..k |-> d[Nth(n)]]
<1>1. k \in Nat
  <2>1. PICK n \in Nat : DOMAIN d = 1..n
    BY DEF IsList
  <2>2. stay \in SUBSET (1..n)
    BY <2>1
  <2> HIDE DEF stay
  <2>3. IsFiniteSet(1..n)
    BY FS_Interval
  <2>4. IsFiniteSet(stay)
    BY <2>2, <2>3, FS_Subset
  <2> QED
    BY <2>4, FS_CardinalityType
<1>2. Unpack(d, arts) = kept \o arts
  BY DEF Unpack
<1> HIDE DEF k, stay, Nth
<1>3. IsList(kept)
  <2>1. \A n \in 1..k : d[Nth(n)] \in Range_(kept)
    BY DEF Range_
  <2>2. kept \in Seq(Range_(kept))
    BY <1>1, <2>1
  <2> QED
    BY <2>2 DEF IsList
<1> HIDE DEF kept
<1> QED
  BY <1>2, <1>3, ListAfterList

(* The tweaks are lists to begin with.                                     *)
LEMMA InitLists == Init => ListsInv
<1> SUFFICES ASSUME Init PROVE ListsInv
  OBVIOUS
<1>1. IsList(<<>>)
  BY DEF IsList
<1>2. todo = run.tweaks /\ run \in Runs /\ staged = <<>> /\ items = <<>>
  BY DEF Init, InjectInit
<1>3. IsList(todo) /\ \A t \in Range_(todo) : IsList(t.items)
  BY <1>2, InjectAssumption
<1> QED
  BY <1>1, <1>2, <1>3 DEF ListsInv

(* The lists change while the tweaks are expanded only. *)
LEMMA NextLists == ListsInv /\ [Next]_vars => ListsInv'
<1> SUFFICES ASSUME ListsInv, [Next]_vars PROVE ListsInv'
  OBVIOUS
<1>1. CASE UNCHANGED <<todo, staged, items>>
  BY <1>1 DEF ListsInv
<1>2. CASE ExpandDeb \/ TakeItem
  <2> DEFINE its == Head(todo).items
  <2>1. /\ todo' = Tail(todo) /\ IsList(todo') /\ IsList(its)
        /\ \A t \in Range_(todo') : IsList(t.items)
    BY <1>2, RestOfList DEF ListsInv, ExpandDeb, TakeItem
  <2>2. CASE ExpandDeb
    <3>1. staged' = Unpack(staged, its) /\ items' = items \o staged'
      BY <2>2 DEF ExpandDeb, Collect
    <3> HIDE DEF its
    <3>2. IsList(staged')
      BY <2>1, <3>1, UnpackedIsList DEF ListsInv
    <3>3. IsList(items')
      BY <3>1, <3>2, ListAfterList DEF ListsInv
    <3> QED
      BY <2>1, <3>2, <3>3 DEF ListsInv
  <2>3. CASE TakeItem
    <3>1. staged' = staged /\ items' = items \o its
      BY <2>3 DEF TakeItem
    <3> HIDE DEF its
    <3>2. IsList(items')
      BY <2>1, <3>1, ListAfterList DEF ListsInv
    <3> QED
      BY <2>1, <3>1, <3>2 DEF ListsInv
  <2> QED
    BY <1>2, <2>2, <2>3
<1>3. CASE Inject
  <2>1. \/ ExpandDeb \/ TakeItem \/ UNCHANGED <<todo, staged, items>>
    BY <1>3 DEF Inject, InjectNext, NothingToDo, PreScan, Strip, MakeDirs, InjectDylib,
                InjectFramework, InjectFiles, SkipLink, AllPlaced, AutoInject, Restore,
                InjectFails, injectVars
  <2> QED
    BY <1>1, <1>2, <2>1
<1>4. CASE ~Inject
  <2>1. UNCHANGED <<todo, staged, items>>
    BY <1>4 DEF Next, Start, Prepare, EditBundle, Entitle, Patch, Fakesign, CreateIpa, RemoveApp,
                CopyApp, WriteZip, Close, StepFails, Finished, vars, injectVars
  <2> QED
    BY <1>1, <2>1
<1> QED
  BY <1>3, <1>4

(* Nothing is loaded and nothing is shipped when a run begins.             *)
LEMMA InitRefs == Init => RefsInv
<1> SUFFICES ASSUME Init PROVE RefsInv
  OBVIOUS
<1>1. RuntimeInv /\ SignInv /\ ListsInv
  BY InitRuntime, InitSign, InitLists
<1>2. LoadsInv
  BY DEF Init, InjectInit, LoadsInv
<1>3. PlacedInv /\ CountInv
  BY DEF Init, InjectInit, PlacedInv, CountInv
<1>4. Settled
  BY DEF Init, InjectInit, File, Settled
<1> QED
  BY <1>1, <1>2, <1>3, <1>4 DEF RefsInv

(* A rewritten reference names an item, or a framework that its key asks   *)
(* for.                                                                    *)
LEMMA FixedIsComing ==
  ASSUME Ordinary, NEW it \in Range_(items), it.kind = "dylib", NEW stuck,
         NEW d \in FixDeps(it.deps, stuck, mode) \ (stuck \cup Foreign)
  PROVE  \/ d.name \in Linked
         \/ \E j \in DOMAIN items : ~items[j].link /\ items[j].kind \in Code
                                       /\ d = PlaceOf(items[j])
         \/ \E e \in it.deps : \E k \in KeysOf(e) : d = Ref("rpath", infoFor(k, mode))
<1>1. PICK e \in it.deps : e \notin stuck /\ d = InjectedAt(CanonOf(e, mode))
  BY DEF FixDeps
<1> DEFINE c == CanonOf(e, mode)
<1>2. CASE c.name \notin Names
  <2>1. d = c
    BY <1>1, <1>2 DEF InjectedAt
  <2>2. CASE KeysOf(e) = {}
    <3>1. d = e
      BY <2>1, <2>2 DEF CanonOf
    <3>2. d \in Foreign
      BY <1>2, <2>1, <2>2, <3>1 DEF Foreign
    <3> QED
      BY <3>2
  <2>3. CASE KeysOf(e) # {}
    BY <2>1, <2>3 DEF CanonOf
  <2> QED
    BY <2>2, <2>3
<1>3. CASE c.name \in Names
  <2>1. d = Ref(IF c.name \in run.roots /\ \E jt \in Range_(items) :
                      jt.name = c.name /\ jt.kind # "framework"
                THEN "exec" ELSE "rpath", c.name)
    BY <1>1, <1>3 DEF InjectedAt
  <2>2. \A jt \in Range_(items) : jt.name = c.name => jt.kind \in Code
    BY DEF Ordinary
  <2>3. PICK jt \in Range_(items) : jt.name = c.name
    BY <1>3 DEF Names
  <2> HIDE DEF c
  <2>4. CASE \E lt \in Range_(items) : lt.name = c.name /\ lt.link
    <3>1. d.name = c.name
      BY <2>1 DEF Ref
    <3> QED
      BY <2>4, <3>1 DEF Linked
  <2>5. CASE ~\E lt \in Range_(items) : lt.name = c.name /\ lt.link
    <3>1. \E lt \in Range_(items) : lt.name = c.name /\ d = PlaceOf(lt)
      <4>1. CASE c.name \in run.roots /\ \E kt \in Range_(items) :
                    kt.name = c.name /\ kt.kind # "framework"
        <5>1. PICK kt \in Range_(items) : kt.name = c.name /\ kt.kind # "framework"
          BY <4>1
        <5>2. IsRoot(kt)
          BY <2>2, <4>1, <5>1 DEF IsRoot, Code
        <5> QED
          BY <2>1, <4>1, <5>1, <5>2 DEF PlaceOf
      <4>2. CASE ~(c.name \in run.roots /\ \E kt \in Range_(items) :
                      kt.name = c.name /\ kt.kind # "framework")
        <5>1. ~IsRoot(jt)
          BY <2>3, <4>2 DEF IsRoot
        <5> QED
          BY <2>1, <2>3, <4>2, <5>1 DEF PlaceOf
      <4> QED
        BY <4>1, <4>2
    <3>2. PICK lt \in Range_(items) : lt.name = c.name /\ d = PlaceOf(lt)
      BY <3>1
    <3>3. ~lt.link /\ lt.kind \in Code
      BY <2>2, <2>5, <3>2
    <3> QED
      BY <3>2, <3>3 DEF Range_
  <2> QED
    BY <2>4, <2>5
<1> QED
  BY <1>2, <1>3


(* What the invariant says depends on the items, the mode and the run.     *)
LEMMA SameItems ==
  ASSUME UNCHANGED <<items, mode, run>>
  PROVE  /\ Ordinary' <=> Ordinary
         /\ Foreign' = Foreign /\ Linked' = Linked
         /\ \A it : PlaceOf(it)' = PlaceOf(it)
<1>1. \A d : CanonOf(d, mode)' = CanonOf(d, mode)
  BY DEF CanonOf
<1>2. Names' = Names
  BY DEF Names
<1> QED
  BY <1>1, <1>2 DEF Ordinary, Foreign, Linked, PlaceOf, IsRoot

(* Before anything is placed there is nothing to settle.                   *)
LEMMA FreshRefs ==
  ASSUME RefsInv, RuntimeInv', SignInv', ListsInv', pc = "expand",
         UNCHANGED <<shipped, placed>>, main'.loads = main.loads
  PROVE  RefsInv'
<1>1. placed' = 0 /\ \A p \in DOMAIN shipped' : shipped'[p].from = "app"
  BY DEF RefsInv, CountInv, RuntimeInv, NothingShipped
<1>2. LoadsInv' /\ CountInv' /\ Settled'
  BY <1>1 DEF RefsInv, LoadsInv, CountInv, Settled
<1>3. Ordinary' => PlacedInv'
  <2>1. \A j \in DOMAIN items' : ~(j <= 0)
    BY DEF ListsInv, IsList
  <2> QED
    BY <1>1, <2>1 DEF PlacedInv
<1> QED
  BY <1>2, <1>3 DEF RefsInv

(* A step that places nothing loses nothing.                               *)
LEMMA RefsKept ==
  ASSUME RefsInv, RuntimeInv', SignInv', ListsInv',
         UNCHANGED <<run, items, mode, placed, needed, shipped>>, main'.loads = main.loads,
         \/ pc' \in {"failed", "crashed"}
         \/ pc' = pc
         \/ pc \notin {"place", "auto", "failed", "crashed"}
         \/ pc = "auto" /\ needed = {},
         pc' \in {"start", "prepare", "expand", "strip", "dirs"} =>
             pc \in {"start", "prepare", "expand", "strip", "dirs"}
  PROVE  RefsInv'
<1>1. LoadsInv' /\ CountInv'
  BY DEF RefsInv, LoadsInv, CountInv
<1>2. Ordinary' => PlacedInv'
  BY SameItems DEF RefsInv, PlacedInv
<1>3. ASSUME Ordinary', pc' \notin {"failed", "crashed"} PROVE Settled'
  <2>1. Settled
    BY <1>3, SameItems DEF RefsInv
  <2>2. ASSUME NEW d, Coming(d) PROVE Coming(d)'
    BY <1>3, <2>2, SameItems DEF Coming
  <2> QED
    BY <2>1, <2>2, SameItems DEF Settled
<1> QED
  BY <1>1, <1>2, <1>3 DEF RefsInv

(* An item goes to its place, and everything else stays. *)
LEMMA OneMorePlaced ==
  ASSUME RefsInv, Ordinary, pc = "place", pc' = "place", UNCHANGED <<items, mode, run>>,
         More, placed' = placed + 1, needed \subseteq needed',
         NEW place, NEW file, shipped' = Put(place, file),
         ~Item.link /\ Item.kind \in Code => place = PlaceOf(Item),
         \A d \in file.deps \ (file.stuck \cup Foreign) : Coming(d)'
  PROVE  PlacedInv' /\ Settled'
<1>1. DOMAIN shipped' = DOMAIN shipped \cup {place}
  BY DEF Put
<1>2. placed \in Nat /\ PlacedInv /\ Settled /\ \A j \in DOMAIN items : j \in Nat
  BY DEF RefsInv, CountInv, ListsInv, IsList
<1>3. \A j \in DOMAIN items : /\ j <= placed + 1 => j <= placed \/ j = placed + 1
                              /\ j > placed => j = placed + 1 \/ j > placed + 1
  BY <1>2
<1>4. PlacedInv'
  <2>1. ASSUME NEW j \in DOMAIN items, j <= placed + 1, ~items[j].link, items[j].kind \in Code
        PROVE  PlaceOf(items[j]) \in DOMAIN shipped'
    <3>1. CASE j <= placed
      BY <1>1, <1>2, <2>1, <3>1 DEF PlacedInv
    <3>2. CASE j = placed + 1
      BY <1>1, <2>1, <3>2 DEF Item
    <3> QED
      BY <1>3, <2>1, <3>1, <3>2
  <2> QED
    BY <2>1, SameItems DEF PlacedInv
<1>5. ASSUME NEW d, Coming(d) PROVE Coming(d)'
  <2>1. CASE d \in DOMAIN shipped
    BY <1>1, <2>1 DEF Coming
  <2>2. CASE d.name \in Linked
    BY <2>2, SameItems DEF Coming
  <2>3. ASSUME NEW j \in DOMAIN items, j > placed, ~items[j].link, items[j].kind \in Code,
               d = PlaceOf(items[j])
        PROVE  Coming(d)'
    <3>1. CASE j = placed + 1
      BY <1>1, <2>3, <3>1 DEF Item, Coming
    <3>2. CASE j > placed + 1
      BY <2>3, <3>2, SameItems DEF Coming
    <3> QED
      BY <1>3, <2>3, <3>1, <3>2
  <2>4. ASSUME NEW k \in needed, d = Ref("rpath", infoFor(k, mode))
        PROVE  Coming(d)'
    BY <2>4 DEF Coming
  <2> QED
    BY <1>5, <2>1, <2>2, <2>3, <2>4 DEF Coming
<1>6. Settled'
  <2>1. ASSUME NEW p \in DOMAIN shipped', shipped'[p].from = "tweak",
               NEW d \in shipped'[p].deps \ (shipped'[p].stuck \cup Foreign)
        PROVE  Coming(d)'
    <3>1. CASE shipped'[p] = file
      BY <2>1, <3>1
    <3>2. CASE p \in DOMAIN shipped /\ shipped'[p] = shipped[p]
      BY <1>2, <1>5, <2>1, <3>2 DEF Settled
    <3> QED
      BY <3>1, <3>2, PutFile
  <2> QED
    BY <2>1, SameItems DEF Settled
<1> QED
  BY <1>4, <1>6


(* What the executable is made to load is put in the bundle.               *)
LEMMA LoadsGrow ==
  ASSUME RefsInv, NEW place, NEW file, shipped' = Put(place, file),
         main' = InjectWeak(main, place) \/ main' = main
  PROVE  LoadsInv'
<1>1. DOMAIN shipped' = DOMAIN shipped \cup {place}
  BY DEF Put
<1>2. main'.loads = main.loads \/ main'.loads = Append(main.loads, place)
  BY DEF RefsInv, SignInv, InjectWeak
<1>3. main.loads \in Seq(DOMAIN shipped')
  BY <1>1 DEF RefsInv, LoadsInv
<1>4. CASE main'.loads = main.loads
  BY <1>3, <1>4 DEF LoadsInv
<1>5. CASE main'.loads = Append(main.loads, place)
  <2>1. place \in DOMAIN shipped'
    BY <1>1
  <2> QED
    BY <1>3, <1>5, <2>1, AppendProperties DEF LoadsInv
<1> QED
  BY <1>2, <1>4, <1>5

(* A dylib is placed: what it loads is there, or comes.                    *)
LEMMA DylibRefs ==
  ASSUME RefsInv, InjectDylib, RuntimeInv', SignInv', ListsInv'
  PROVE  RefsInv'
<1> DEFINE place == Ref(IF IsRoot(Item) THEN "exec" ELSE "rpath", Item.name)
<1>1. /\ Placing("dylib") /\ More /\ Item.kind = "dylib" /\ ~Item.link
      /\ pc = "place" /\ pc' = "place" /\ UNCHANGED <<items, run>> /\ placed' = placed + 1
  BY DEF InjectDylib, Placing
<1>2. ModeFor(Item) = mode
  BY <1>1, ModeForSettled DEF RefsInv
<1>3. PICK stuck : PlaceAt(Item, place, mode, stuck)
  BY <1>2 DEF InjectDylib
<1> DEFINE file == File(FixDeps(Item.deps, stuck, mode), stuck, "tweak")
<1>4. /\ mode' = mode /\ needed' = needed \cup UNION {KeysOf(d) : d \in Item.deps}
      /\ main' = InjectWeak(main, place) /\ shipped' = Put(place, file)
  BY <1>3 DEF PlaceAt
<1>5. LoadsInv' /\ CountInv'
  <2>1. LoadsInv'
    BY <1>4, LoadsGrow
  <2>2. placed' \in Nat
    BY <1>1 DEF RefsInv, CountInv
  <2> QED
    BY <1>1, <2>1, <2>2 DEF CountInv
<1>6. place = PlaceOf(Item)
  BY DEF PlaceOf
<1>7. file.deps = FixDeps(Item.deps, stuck, mode) /\ file.stuck = stuck
  BY DEF File
<1>8. Item \in Range_(items) /\ Item = items[placed + 1]
  BY <1>1 DEF More, Item, Range_
<1> HIDE DEF place, file
<1>9. ASSUME Ordinary PROVE PlacedInv' /\ Settled'
  <2>1. ASSUME NEW d \in file.deps \ (file.stuck \cup Foreign) PROVE Coming(d)'
    <3>1. d \in FixDeps(Item.deps, stuck, mode) \ (stuck \cup Foreign)
      BY <1>7, <2>1
    <3>2. CASE d.name \in Linked
      BY <1>1, <1>4, <3>2, SameItems DEF Coming
    <3>3. ASSUME NEW j \in DOMAIN items, ~items[j].link, items[j].kind \in Code,
                 d = PlaceOf(items[j])
          PROVE  Coming(d)'
      <4>1. j \in Nat /\ placed \in Nat
        BY <1>9 DEF RefsInv, CountInv, ListsInv, IsList
      <4>2. DOMAIN shipped' = DOMAIN shipped \cup {place}
        BY <1>4 DEF Put
      <4>3. CASE j <= placed
        BY <1>9, <3>3, <4>2, <4>3 DEF RefsInv, PlacedInv, Coming
      <4>4. CASE j = placed + 1
        BY <1>6, <1>8, <3>3, <4>2, <4>4 DEF Coming
      <4>5. CASE j > placed + 1
        <5>1. PlaceOf(items[j])' = d /\ items'[j] = items[j] /\ j \in DOMAIN items'
          BY <1>1, <1>4, <3>3, SameItems
        <5> QED
          BY <1>1, <1>4, <3>3, <4>5, <5>1, SameItems DEF Coming
      <4> QED
        BY <4>1, <4>3, <4>4, <4>5
    <3>4. ASSUME NEW e \in Item.deps, NEW k \in KeysOf(e), d = Ref("rpath", infoFor(k, mode))
          PROVE  Coming(d)'
      <4>1. k \in needed'
        BY <1>4
      <4> QED
        BY <1>1, <1>4, <3>4, <4>1 DEF Coming
    <3> QED
      BY <1>1, <1>8, <1>9, <3>1, <3>2, <3>3, <3>4, FixedIsComing
  <2> QED
    BY <1>1, <1>4, <1>6, <1>9, <2>1, OneMorePlaced
<1>10. Ordinary' <=> Ordinary
  BY <1>1, <1>4, SameItems
<1> QED
  BY <1>5, <1>9, <1>10 DEF RefsInv

(* Other files are placed: none of them has its references rewritten.      *)
LEMMA FileRefs ==
  ASSUME RefsInv, InjectFramework \/ InjectFiles \/ SkipLink, RuntimeInv', SignInv', ListsInv'
  PROVE  RefsInv'
<1>1. /\ More /\ pc = "place" /\ pc' = "place"
      /\ UNCHANGED <<items, run, mode, needed>> /\ placed' = placed + 1
  BY DEF InjectFramework, InjectFiles, SkipLink, Placing
<1>2. CountInv'
  BY <1>1 DEF RefsInv, CountInv
<1>3. Ordinary' <=> Ordinary
  BY <1>1, SameItems
<1>4. ASSUME NEW place, NEW file, shipped' = Put(place, file), file.deps \subseteq file.stuck,
             ~Item.link /\ Item.kind \in Code => place = PlaceOf(Item),
             main' = InjectWeak(main, place) \/ main' = main
      PROVE  RefsInv'
  <2>1. LoadsInv'
    BY <1>4, LoadsGrow
  <2>2. Ordinary => PlacedInv' /\ Settled'
    BY <1>1, <1>4, OneMorePlaced
  <2> QED
    BY <1>2, <1>3, <2>1, <2>2 DEF RefsInv
<1>5. CASE InjectFramework
  <2> DEFINE place == Ref("rpath", Item.name)
             file == File(Item.deps, Item.deps, "tweak")
  <2>1. /\ shipped' = Put(place, file) /\ main' = InjectWeak(main, place)
        /\ file.deps \subseteq file.stuck /\ place = PlaceOf(Item)
    BY <1>5 DEF InjectFramework, File, Placing, PlaceOf, IsRoot
  <2> HIDE DEF place, file
  <2> QED
    BY <1>4, <2>1
<1>6. CASE InjectFiles
  <2>1. Item.kind \notin Code /\ main' = main
    BY <1>6 DEF InjectFiles, Placing, Code
  <2>2. \E place, file : shipped' = Put(place, file) /\ file.deps \subseteq file.stuck
    BY <1>6 DEF InjectFiles, File
  <2> QED
    BY <1>4, <2>1, <2>2
<1>7. CASE SkipLink
  <2>1. Item.link /\ shipped' = shipped /\ main' = main
    BY <1>7 DEF SkipLink
  <2>2. LoadsInv'
    BY <2>1 DEF RefsInv, LoadsInv
  <2>3. ASSUME Ordinary PROVE PlacedInv' /\ Settled'
    <3>1. placed \in Nat /\ PlacedInv /\ Settled /\ \A j \in DOMAIN items : j \in Nat
      BY <1>1, <2>3 DEF RefsInv, CountInv, ListsInv, IsList
    <3>2. \A j \in DOMAIN items : /\ j <= placed + 1 => j <= placed \/ j = placed + 1
                                  /\ j > placed => j = placed + 1 \/ j > placed + 1
      BY <3>1
    <3>3. \A j \in DOMAIN items : ~items[j].link => j # placed + 1
      BY <2>1 DEF Item
    <3>4. PlacedInv'
      BY <1>1, <2>1, <3>1, <3>2, <3>3, SameItems DEF PlacedInv
    <3>5. ASSUME NEW d, Coming(d) PROVE Coming(d)'
      BY <1>1, <2>1, <3>2, <3>3, <3>5, SameItems DEF Coming
    <3>6. Settled'
      BY <1>1, <2>1, <3>1, <3>5, SameItems DEF Settled
    <3> QED
      BY <3>4, <3>6
  <2> QED
    BY <1>2, <1>3, <2>2, <2>3 DEF RefsInv
<1> QED
  BY <1>5, <1>6, <1>7


(* When everything is placed, what was to come is there.                   *)
LEMMA PlacedRefs ==
  ASSUME RefsInv, AllPlaced, RuntimeInv', SignInv', ListsInv'
  PROVE  RefsInv'
<1>1. /\ pc = "place" /\ pc' = "auto" /\ ~More /\ needed \subseteq needed'
      /\ UNCHANGED <<run, items, placed, mode, main, shipped>>
  BY DEF AllPlaced
<1>2. LoadsInv' /\ CountInv'
  BY <1>1 DEF RefsInv, LoadsInv, CountInv
<1>3. Ordinary' <=> Ordinary
  BY <1>1, SameItems
<1>4. ASSUME Ordinary PROVE PlacedInv' /\ Settled'
  <2>1. PlacedInv /\ Settled
    BY <1>1, <1>4 DEF RefsInv
  <2>2. \A j \in DOMAIN items : j <= placed
    <3>1. placed \in Nat
      BY DEF RefsInv, CountInv
    <3>2. PICK n \in Nat : DOMAIN items = 1..n
      BY DEF RefsInv, ListsInv, IsList
    <3>3. placed + 1 \notin 1..n
      BY <1>1, <3>2 DEF More
    <3> QED
      BY <3>1, <3>2, <3>3
  <2>3. ASSUME NEW d, Coming(d) PROVE Coming(d)'
    <3>1. CASE d \in DOMAIN shipped \/ d.name \in Linked
      BY <1>1, <3>1, SameItems DEF Coming
    <3>2. ASSUME NEW j \in DOMAIN items, ~items[j].link, items[j].kind \in Code,
                 d = PlaceOf(items[j])
          PROVE  Coming(d)'
      BY <1>1, <2>1, <2>2, <3>2 DEF PlacedInv, Coming
    <3>3. ASSUME NEW k \in needed, d = Ref("rpath", infoFor(k, mode))
          PROVE  Coming(d)'
      BY <1>1, <3>3 DEF Coming
    <3> QED
      BY <2>3, <3>1, <3>2, <3>3 DEF Coming
  <2>4. PlacedInv'
    BY <1>1, <2>1, SameItems DEF PlacedInv
  <2>5. Settled'
    BY <1>1, <2>1, <2>3, SameItems DEF Settled
  <2> QED
    BY <2>4, <2>5
<1> QED
  BY <1>2, <1>3, <1>4 DEF RefsInv

(* The framework a key asks for is brought in, or the run has failed.      *)
LEMMA AutoRefs ==
  ASSUME RefsInv, NEW key \in needed, AutoInject(key), RuntimeInv', SignInv', ListsInv'
  PROVE  RefsInv'
<1> DEFINE place == Ref("rpath", infoFor(key, mode))
           extra == File(EmbeddedDeps(infoFor(key, mode)), {}, "extras")
<1>1. /\ pc = "auto" /\ needed' = needed \ {key}
      /\ UNCHANGED <<run, items, placed, mode, main>>
      /\ \/ pc' = "failed" /\ shipped' = shipped
         \/ pc' = "auto" /\ place \in DOMAIN shipped /\ shipped' = shipped
         \/ pc' = "auto" /\ place \notin DOMAIN shipped /\ shipped' = Put(place, extra)
  BY DEF AutoInject
<1>2. extra.from = "extras"
  BY DEF File
<1> HIDE DEF place, extra
<1>3. CountInv' /\ (Ordinary' <=> Ordinary)
  BY <1>1, SameItems DEF RefsInv, CountInv
<1>4. DOMAIN shipped \subseteq DOMAIN shipped'
  BY <1>1 DEF Put
<1>5. LoadsInv'
  <2>1. CASE shipped' = shipped
    BY <1>1, <2>1 DEF RefsInv, LoadsInv
  <2>2. CASE shipped' = Put(place, extra)
    BY <1>1, <2>2, LoadsGrow DEF RefsInv
  <2> QED
    BY <1>1, <2>1, <2>2
<1>6. Ordinary => PlacedInv'
  BY <1>1, <1>4, SameItems DEF RefsInv, PlacedInv
<1>7. ASSUME Ordinary, pc' # "failed" PROVE Settled'
  <2>1. Settled
    BY <1>1, <1>7 DEF RefsInv
  <2>2. pc' = "auto" /\ place \in DOMAIN shipped'
    BY <1>1, <1>7 DEF Put
  <2>3. ASSUME NEW d, Coming(d) PROVE Coming(d)'
    <3>1. CASE d \in DOMAIN shipped \/ d.name \in Linked
      BY <1>1, <1>4, <3>1, SameItems DEF Coming
    <3>2. ASSUME NEW k \in needed, d = Ref("rpath", infoFor(k, mode))
          PROVE  Coming(d)'
      <4>1. CASE k = key
        BY <2>2, <3>2, <4>1 DEF Coming, place
      <4>2. CASE k # key
        BY <1>1, <2>2, <3>2, <4>2 DEF Coming
      <4> QED
        BY <4>1, <4>2
    <3> QED
      BY <1>1, <2>3, <3>1, <3>2 DEF Coming
  <2>4. ASSUME NEW p \in DOMAIN shipped', shipped'[p].from = "tweak"
        PROVE  p \in DOMAIN shipped /\ shipped'[p] = shipped[p]
    <3>1. CASE shipped' = shipped
      BY <2>4, <3>1
    <3>2. CASE shipped' = Put(place, extra)
      BY <1>2, <2>4, <3>2, PutFile
    <3> QED
      BY <1>1, <3>1, <3>2
  <2> QED
    BY <1>1, <2>1, <2>3, <2>4, SameItems DEF Settled
<1> QED
  BY <1>3, <1>5, <1>6, <1>7 DEF RefsInv

(* A step of the injection keeps the invariant. *)
LEMMA InjectRefs ==
  ASSUME RefsInv, InjectNext, RuntimeInv', SignInv', ListsInv'
  PROVE  RefsInv'
<1>1. DOMAIN main = {"signed", "ents", "rpath", "loads"}
  BY DEF RefsInv, SignInv
<1>2. CASE ExpandDeb \/ TakeItem \/ PreScan
  BY <1>2, FreshRefs DEF ExpandDeb, TakeItem, PreScan
<1>3. CASE NothingToDo \/ InjectFails
  BY <1>3, RefsKept DEF NothingToDo, InjectFails, injectVars
<1>4. CASE Strip
  <2>1. main'.loads = main.loads
    BY <1>1, <1>4 DEF Strip
  <2> QED
    BY <1>4, <2>1, RefsKept DEF Strip
<1>5. CASE MakeDirs
  <2>1. main'.loads = main.loads
    BY <1>1, <1>5 DEF MakeDirs
  <2> QED
    BY <1>5, <2>1, RefsKept DEF MakeDirs
<1>6. CASE Restore
  <2>1. main'.loads = main.loads
    BY <1>1, <1>6 DEF Restore
  <2> QED
    BY <1>6, <2>1, RefsKept DEF Restore
<1> QED
  BY <1>2, <1>3, <1>4, <1>5, <1>6, DylibRefs, FileRefs, PlacedRefs, AutoRefs
  DEF InjectNext

(* So does every other step of the run. *)
LEMMA NextRefs == RefsInv /\ [Next]_vars => RefsInv'
<1> SUFFICES ASSUME RefsInv, [Next]_vars PROVE RefsInv'
  OBVIOUS
<1>1. RuntimeInv' /\ SignInv' /\ ListsInv'
  BY NextRuntime, NextSign, NextLists DEF RefsInv
<1>2. DOMAIN main = {"signed", "ents", "rpath", "loads"}
  BY DEF RefsInv, SignInv
<1>3. \A e : SignWithEntitlements(main, e).loads = main.loads
  BY <1>2 DEF SignWithEntitlements
<1>4. CASE Inject
  BY <1>1, <1>4, InjectRefs DEF Inject
<1>5. CASE Start \/ Prepare \/ EditBundle
  BY <1>1, <1>5, RefsKept DEF Start, Prepare, EditBundle, Step, injectVars
<1>6. CASE Entitle \/ Patch \/ Fakesign
  <2>1. main'.loads = main.loads
    BY <1>3, <1>6 DEF Entitle, Patch, Fakesign
  <2> QED
    BY <1>1, <1>6, <2>1, RefsKept DEF Entitle, Patch, Fakesign, Step
<1>7. CASE CreateIpa \/ RemoveApp \/ CopyApp \/ WriteZip \/ Close
  BY <1>1, <1>7, RefsKept DEF CreateIpa, RemoveApp, CopyApp, WriteZip, Close, Step, injectVars
<1>8. CASE StepFails \/ Finished \/ UNCHANGED vars
  BY <1>1, <1>8, RefsKept DEF StepFails, Finished, vars, injectVars
<1> QED
  BY <1>4, <1>5, <1>6, <1>7, <1>8 DEF Next

(* A finished bundle has every file the injector made something load, in   *)
(* whatever order the items came and the frameworks were brought in        *)
(* (inject.go 221-264, 433-507), if no dylib names an injected extension   *)
(* or resource as its library.                                             *)
THEOREM RefsShippedAlways == Spec => [](Ordinary => RefsShipped)
<1>1. RefsInv => (Ordinary => RefsShipped)
  <2> SUFFICES ASSUME RefsInv, Ordinary, pc = "done" PROVE RefsShipped
    BY DEF RefsShipped
  <2>1. Settled /\ \A d : Coming(d) => d \in DOMAIN shipped \/ d.name \in Linked
    BY DEF RefsInv, Coming
  <2>2. Range_(main.loads) \subseteq DOMAIN shipped
    BY DEF RefsInv, LoadsInv, Range_
  <2> QED
    BY <2>1, <2>2 DEF RefsShipped, Settled
<1> QED
  BY <1>1, InitRefs, NextRefs, PTL DEF Spec
-----------------------------------------------------------------------------
(***************************************************************************)
(* The bundle edits. A run with them implements the run of module          *)
(* Pipeline, so what is shown above of that one holds of this one; and the *)
(* user's own extensions stay.                                             *)
(***************************************************************************)

(* An edit is no step of the Pipeline, or the crash of one. *)
LEMMA EditStep ==
  ASSUME Edit
  PROVE  UNCHANGED vars \/ StepFails
BY DEF Edit, StepFails, vars, injectVars

(* Every step of the whole run is a step of the Pipeline, or none. *)
LEMMA RunStep == [RunNext]_runVars => [Next]_vars
<1> SUFFICES ASSUME [RunNext]_runVars PROVE [Next]_vars
  OBVIOUS
<1>1. CASE RunPrepare BY <1>1 DEF RunPrepare, Next
<1>2. CASE RunInject BY <1>2 DEF RunInject, Next
<1>3. CASE Edit BY <1>3, EditStep DEF Next
<1>4. CASE RunEntitle BY <1>4 DEF RunEntitle, Next
<1>5. CASE RunPatch BY <1>5 DEF RunPatch, Next
<1>6. CASE \/ Start \/ EditBundle \/ Fakesign \/ CreateIpa \/ RemoveApp \/ CopyApp
           \/ WriteZip \/ Close \/ StepFails \/ Finished
  BY <1>6 DEF Next
<1>7. CASE UNCHANGED runVars BY <1>7 DEF runVars
<1> QED
  BY <1>1, <1>2, <1>3, <1>4, <1>5, <1>6, <1>7 DEF RunNext

(* The run of app/run.go with its bundle edits implements Pipeline: the    *)
(* edits hide neither a step nor a failure from it.                        *)
THEOREM RunImplementsPipeline == RunSpec => Spec
<1>1. RunInit => Init
  BY DEF RunInit
<1> QED
  BY <1>1, RunStep, PTL DEF RunSpec, Spec

(* What holds of the Pipeline holds of the whole run: an input that lies   *)
(* apart from the output or at its very path without --overwrite survives, *)
(* a success has a whole output, there is one hooking runtime and the      *)
(* entitlements are kept.                                                  *)
THEOREM RunKeepsPromises ==
  RunSpec => [](InputSurvives /\ OutputHonest /\ OneRuntime /\ SignatureSurvives)
  BY RunImplementsPipeline, UserFilesAlways, OneRuntimeAlways, SignatureAlways, PTL
-----------------------------------------------------------------------------
(***************************************************************************)
(* The user's own extensions.  Until the injection begins nothing is in    *)
(* PlugIns by its hand, so the removal can take what it wants; from then   *)
(* on an extension leaves only for another of its name, or from Watch.     *)
(***************************************************************************)
Brought == {p.name : p \in {p \in DOMAIN shipped : p.at = "plugin"}}

OwnInv ==
  /\ pc \in {"start", "prepare"} => Brought = {}
  /\ \A n \in Brought : \E e \in exts : e.name = n /\ e.dir = "PlugIns" /\ e.was = <<n>>

LEMMA InitOwn == RunInit => OwnInv
<1> SUFFICES ASSUME RunInit PROVE OwnInv
  OBVIOUS
<1>1. \A p \in DOMAIN shipped : p.at = "rpath"
  BY DEF RunInit, Init, InjectInit, Ref
<1> QED
  BY <1>1 DEF OwnInv, Brought

(* The injection adds to PlugIns only what InjectFiles puts there. *)
LEMMA InjectBrings ==
  ASSUME InjectNext
  PROVE  \/ Brought' = Brought
         \/ /\ Placing("appex") /\ shipped' # shipped
            /\ Brought' = Brought \cup {Item.name}
<1>1. ASSUME NEW place, NEW file, place.at # "plugin", shipped' = Put(place, file)
      PROVE  Brought' = Brought
  BY <1>1 DEF Brought, Put
<1>2. CASE InjectDylib
  <2>1. PICK stuck : PlaceAt(Item, Ref(IF IsRoot(Item) THEN "exec" ELSE "rpath", Item.name),
                             ModeFor(Item), stuck)
    BY <1>2 DEF InjectDylib
  <2> QED
    BY <2>1, <1>1 DEF PlaceAt, Ref
<1>3. CASE InjectFramework
  BY <1>3, <1>1 DEF InjectFramework, Ref
<1>4. CASE InjectFiles
  <2>1. CASE Placing("appex") /\ shipped' = Put(Ref("plugin", Item.name), File({}, {}, "tweak"))
    <3> DEFINE new == Ref("plugin", Item.name)
    <3>0. new.at = "plugin" /\ new.name = Item.name
      BY DEF Ref
    <3>1. DOMAIN shipped' = DOMAIN shipped \cup {new}
      BY <2>1 DEF Put
    <3> HIDE DEF new
    <3>2. Brought' = Brought \cup {Item.name}
      BY <3>0, <3>1 DEF Brought
    <3> QED
      BY <2>1, <3>2 DEF Brought
  <2>2. CASE shipped' = Put(Ref("exec", Item.name), File({}, {}, "tweak"))
    BY <2>2, <1>1 DEF Ref
  <2> QED
    BY <1>4, <2>1, <2>2 DEF InjectFiles
<1>5. ASSUME NEW key \in needed, AutoInject(key)
      PROVE  Brought' = Brought
  <2> DEFINE place == Ref("rpath", infoFor(key, mode))
             file == File(EmbeddedDeps(infoFor(key, mode)), {}, "extras")
  <2>1. place.at # "plugin"
    BY DEF Ref
  <2>2. shipped' = shipped \/ shipped' = Put(place, file)
    BY <1>5 DEF AutoInject
  <2> QED
    BY <1>1, <2>1, <2>2 DEF Brought
<1>6. CASE UNCHANGED shipped
  BY <1>6 DEF Brought
<1>7. \/ InjectDylib \/ InjectFramework \/ InjectFiles
      \/ \E key \in needed : AutoInject(key)
      \/ UNCHANGED shipped
  BY DEF InjectNext, ExpandDeb, TakeItem, NothingToDo, PreScan, Strip, MakeDirs,
         SkipLink, AllPlaced, Restore, InjectFails, injectVars
<1> QED
  BY <1>2, <1>3, <1>4, <1>5, <1>6, <1>7

(* An edit renames extensions in place and takes them only from Watch. *)
LEMMA EditKeeps ==
  ASSUME Edit, NEW e \in exts, e.dir = "PlugIns"
  PROVE  \E f \in exts' : f.name = e.name /\ f.dir = e.dir /\ f.was = e.was
<1>1. ASSUME NEW edit, Change(edit)
      PROVE  \E f \in exts' : f.name = e.name /\ f.dir = e.dir /\ f.was = e.was
  <2>1. CASE UNCHANGED exts
    BY <2>1
  <2>2. ASSUME NEW missed,
               exts' = {IF x \in missed THEN [x EXCEPT !.missed = TRUE]
                        ELSE Renamed(x, IdOf(plist), edit.set["id"]) : x \in exts}
        PROVE  \E f \in exts' : f.name = e.name /\ f.dir = e.dir /\ f.was = e.was
    <3> DEFINE f == IF e \in missed THEN [e EXCEPT !.missed = TRUE]
                    ELSE Renamed(e, IdOf(plist), edit.set["id"])
    <3>1. f \in exts'
      BY <2>2
    <3>2. f.name = e.name /\ f.dir = e.dir /\ f.was = e.was
      BY DEF Renamed
    <3> QED
      BY <3>1, <3>2
  <2> QED
    BY <1>1, <2>1, <2>2 DEF Change
<1>2. ASSUME RemoveWatch
      PROVE  e \in exts'
  BY <1>2 DEF RemoveWatch
<1>3. ASSUME NEW edit, Drop(edit)
      PROVE  e \in exts'
  BY <1>3 DEF Drop
<1> QED
  BY <1>1, <1>2, <1>3 DEF Edit

LEMMA NextOwn == OwnInv /\ [RunNext]_runVars => OwnInv'
<1> SUFFICES ASSUME OwnInv, [RunNext]_runVars PROVE OwnInv'
  OBVIOUS
<1>1. CASE RunPrepare
  <2>1. pc = "prepare" /\ shipped' = shipped
    BY <1>1 DEF RunPrepare, Prepare, injectVars
  <2>2. Brought' = {}
    BY <2>1 DEF OwnInv, Brought
  <2> QED
    BY <2>2 DEF OwnInv
<1>2. CASE RunInject
  <2>1. InjectNext
    BY <1>2 DEF RunInject, Inject
  <2>2. pc' \notin {"start", "prepare"}
    BY <2>1, InjectionPhases DEF Injecting
  <2>3. CASE Brought' = Brought /\ ~(Placing("appex") /\ shipped' # shipped)
    <3>1. exts' = exts
      BY <1>2, <2>3 DEF RunInject
    <3> QED
      BY <2>2, <2>3, <3>1 DEF OwnInv
  <2>4. CASE Placing("appex") /\ shipped' # shipped
    <3>1. exts' = {e \in exts : e.dir # "PlugIns" \/ e.name # Item.name}
                    \cup {Ext(Item.name, "PlugIns", <<Item.name>>)}
      BY <1>2, <2>4 DEF RunInject
    <3>2. Brought' \subseteq Brought \cup {Item.name}
      BY <2>1, InjectBrings
    <3>3. ASSUME NEW n \in Brought'
          PROVE  \E e \in exts' : e.name = n /\ e.dir = "PlugIns" /\ e.was = <<n>>
      <4>1. CASE n = Item.name
        <5> DEFINE new == Ext(Item.name, "PlugIns", <<Item.name>>)
        <5>1. new \in exts'
          BY <3>1
        <5>2. new.name = Item.name /\ new.dir = "PlugIns" /\ new.was = <<Item.name>>
          BY DEF Ext
        <5> HIDE DEF new
        <5> QED
          BY <4>1, <5>1, <5>2
      <4>2. CASE n # Item.name
        BY <3>1, <3>2, <4>2 DEF OwnInv
      <4> QED
        BY <4>1, <4>2
    <3> QED
      BY <2>2, <3>3 DEF OwnInv
  <2> QED
    BY <2>1, <2>3, <2>4, InjectBrings
<1>3. CASE Edit
  <2>1. Brought' = Brought /\ pc' \notin {"start", "prepare"}
    BY <1>3 DEF Edit, Brought, injectVars
  <2> QED
    BY <1>3, <2>1, EditKeeps DEF OwnInv
<1>4. CASE RunEntitle
  <2>1. shipped' = shipped /\ exts' = exts /\ pc' = "patch"
    BY <1>4 DEF RunEntitle, Entitle, Step
  <2> QED
    BY <2>1 DEF OwnInv, Brought
<1>5. CASE RunPatch
  <2>1. shipped' = shipped /\ exts' = exts /\ pc' = "fakesign"
    BY <1>5 DEF RunPatch, Patch, Step
  <2> QED
    BY <2>1 DEF OwnInv, Brought
<1>6. CASE /\ \/ Start \/ EditBundle \/ Fakesign \/ CreateIpa \/ RemoveApp \/ CopyApp
              \/ WriteZip \/ Close \/ StepFails \/ Finished
           /\ UNCHANGED bundleVars
  <2>1. exts' = exts
    BY <1>6 DEF bundleVars
  <2>2. shipped' = shipped
    BY <1>6 DEF Start, EditBundle, Fakesign, CreateIpa, RemoveApp, CopyApp, WriteZip, Close,
                StepFails, Finished, vars, injectVars
  <2>3. pc' \in {"start", "prepare"} => pc \in {"start", "prepare"}
    BY <1>6 DEF Start, EditBundle, Fakesign, CreateIpa, RemoveApp, CopyApp, WriteZip, Close,
                StepFails, Finished, Step, vars
  <2> QED
    BY <2>1, <2>2, <2>3 DEF OwnInv, Brought
<1>7. CASE UNCHANGED runVars
  BY <1>7 DEF runVars, vars, injectVars, bundleVars, OwnInv, Brought
<1> QED
  BY <1>1, <1>2, <1>3, <1>4, <1>5, <1>6, <1>7 DEF RunNext

(* An extension the user brings along is in the finished bundle, whatever  *)
(* the run was asked to remove: run.go 87, "Extension removal runs before  *)
(* injection: the user may inject their own".                              *)
THEOREM OwnExtensionsAlways == RunSpec => []OwnExtensionsStay
<1>1. OwnInv => OwnExtensionsStay
  BY DEF OwnInv, OwnExtensionsStay, Brought
<1> QED
  BY <1>1, InitOwn, NextOwn, PTL DEF RunSpec
-----------------------------------------------------------------------------
(***************************************************************************)
(* The Info.plist.  Some edits are made before the new entitlements, the   *)
(* rest after them, then the patches; Made counts how many have been made. *)
(* As long as a run goes on, a key has the value the last of these gave    *)
(* it, in memory and in the file.                                          *)
(***************************************************************************)
BeforeLate == {"start", "prepare", "injected", "entitle"} \cup Injecting
Patched == {"fakesign", "output", "write", "copy", "close", "done"}
Going == BeforeLate \cup {"patch"} \cup Patched

Made == IF pc \in BeforeLate THEN Len(job.edits) - Len(edits)
                             ELSE Len(AllEdits) - Len(edits)

ValueOf(p, k) == IF k \in DOMAIN p THEN {p[k]} ELSE {}
Gives(edit, k) == IF edit.op = "drop" THEN {} ELSE {edit.set[k]}

(* The value v is what the first n edits leave k with. *)
Leave(n, k, v) ==
  \/ \E i \in 1..n : /\ Asks(AllEdits[i], k) /\ v = Gives(AllEdits[i], k)
                     /\ \A j \in i + 1..n : ~Asks(AllEdits[j], k)
  \/ /\ \A i \in 1..n : ~Asks(AllEdits[i], k)
     /\ v = ValueOf(job.plist, k)

KeyInv(k) ==
  /\ Leave(Made, k, ValueOf(plist, k))
  /\ IF pc \in Patched /\ k \in DOMAIN job.patches
     THEN ValueOf(plistFile, k) = {job.patches[k]}
     ELSE ValueOf(plistFile, k) = ValueOf(plist, k)

OrderInv ==
  /\ IsList(job.edits) /\ IsList(job.late)
  /\ edits \in Seq(Range_(AllEdits))
  /\ Made \in 0..Len(AllEdits)
  /\ pc \in BeforeLate => Made + Len(edits) = Len(job.edits)
  /\ \A i \in DOMAIN edits : edits[i] = AllEdits[Made + i]
  /\ pc \in Patched => edits = <<>>

SavedInv == pc \in Going => OrderInv /\ \A k : KeyInv(k)

(* Elements of a set make a sequence over it. *)
LEMMA Elements ==
  ASSUME NEW X, NEW T, NEW s \in Seq(X), \A i \in 1..Len(s) : s[i] \in T
  PROVE  s \in Seq(T)
<1>1. s = [i \in 1..Len(s) |-> s[i]] /\ Len(s) \in Nat
  OBVIOUS
<1> QED
  BY <1>1

(* The edits of a job, one list behind the other. *)
LEMMA BothLists ==
  ASSUME IsList(job.edits), IsList(job.late)
  PROVE  /\ AllEdits \in Seq(Range_(AllEdits))
         /\ Len(job.edits) \in Nat /\ Len(job.late) \in Nat
         /\ Len(AllEdits) = Len(job.edits) + Len(job.late)
         /\ \A i \in 1..Len(job.edits) : AllEdits[i] = job.edits[i]
         /\ \A i \in 1..Len(job.late) : AllEdits[Len(job.edits) + i] = job.late[i]
         /\ job.edits \in Seq(Range_(AllEdits)) /\ job.late \in Seq(Range_(AllEdits))
<1> DEFINE X == Range_(job.edits) \cup Range_(job.late)
<1>1. job.edits \in Seq(X) /\ job.late \in Seq(X)
  BY DEF IsList
<1> HIDE DEF X
<1>2. AllEdits \in Seq(X)
  BY <1>1 DEF AllEdits
<1>3. AllEdits \in Seq(Range_(AllEdits))
  BY <1>2, OwnElements DEF IsList
<1> DEFINE a == job.edits
           b == job.late
<1>4. a \in Seq(X) /\ b \in Seq(X)
  BY <1>1
<1>5. AllEdits = a \o b
  BY DEF AllEdits
<1> HIDE DEF a, b
<1>6. /\ Len(a) \in Nat /\ Len(b) \in Nat /\ Len(AllEdits) = Len(a) + Len(b)
      /\ \A i \in 1..Len(a) : AllEdits[i] = a[i]
      /\ \A i \in 1..Len(b) : AllEdits[Len(a) + i] = b[i]
  BY <1>4, <1>5
<1>7. \A i \in 1..Len(a) : a[i] \in Range_(AllEdits)
  <2>1. \A i \in 1..Len(a) : i \in DOMAIN AllEdits
    BY <1>2, <1>6
  <2> QED
    BY <1>6, <2>1 DEF Range_
<1>8. \A i \in 1..Len(b) : b[i] \in Range_(AllEdits)
  <2>1. \A i \in 1..Len(b) : Len(a) + i \in DOMAIN AllEdits
    BY <1>2, <1>6
  <2> QED
    BY <1>6, <2>1 DEF Range_
<1>9. a \in Seq(Range_(AllEdits)) /\ b \in Seq(Range_(AllEdits))
  BY <1>4, <1>7, <1>8, Elements
<1> QED
  BY <1>3, <1>6, <1>9 DEF a, b

(* One edit more is made. *)
LEMMA OneEdit ==
  ASSUME NEW n \in Nat, NEW k, NEW v, NEW w, Leave(n, k, v),
         Asks(AllEdits[n + 1], k) => w = Gives(AllEdits[n + 1], k),
         ~Asks(AllEdits[n + 1], k) => w = v
  PROVE  Leave(n + 1, k, w)
<1>1. CASE Asks(AllEdits[n + 1], k)
  <2>1. n + 1 \in 1..(n + 1) /\ (n + 1) + 1..(n + 1) = {}
    OBVIOUS
  <2> QED
    BY <1>1, <2>1 DEF Leave
<1>2. CASE ~Asks(AllEdits[n + 1], k)
  <2>1. \A j \in 1..(n + 1) : j \in 1..n \/ j = n + 1
    OBVIOUS
  <2>2. CASE \A i \in 1..n : ~Asks(AllEdits[i], k)
    BY <1>2, <2>1, <2>2 DEF Leave
  <2>3. ASSUME NEW i \in 1..n, Asks(AllEdits[i], k), v = Gives(AllEdits[i], k),
               \A j \in i + 1..n : ~Asks(AllEdits[j], k)
        PROVE  Leave(n + 1, k, w)
    <3>1. i \in 1..(n + 1) /\ \A j \in i + 1..(n + 1) : j \in i + 1..n \/ j = n + 1
      OBVIOUS
    <3>2. w = Gives(AllEdits[i], k)
      BY <1>2, <2>3
    <3> QED
      BY <1>2, <2>3, <3>1, <3>2 DEF Leave
  <2> QED
    BY <2>2, <2>3 DEF Leave
<1> QED
  BY <1>1, <1>2

(* What an edit does to a key, in memory and in the file. *)
LEMMA ChangeOfKey ==
  ASSUME NEW edit, NEW k, edit.op \notin {"drop", "watch"}, Change(edit),
         ValueOf(plistFile, k) = ValueOf(plist, k)
  PROVE  /\ ValueOf(plistFile', k) = ValueOf(plist', k)
         /\ ValueOf(plist', k) = IF Asks(edit, k) THEN Gives(edit, k) ELSE ValueOf(plist, k)
<1>1. Asks(edit, k) <=> k \in DOMAIN edit.set
  BY DEF Asks
<1>2. CASE IsNoChange(edit) /\ UNCHANGED <<plist, plistFile>>
  BY <1>1, <1>2 DEF IsNoChange, ValueOf, Gives
<1>3. CASE plist' = Put_(plist, edit.set) /\ plistFile' = plist'
  <2> DEFINE p == Put_(plist, edit.set)
  <2>1. /\ k \in DOMAIN p <=> k \in DOMAIN plist \cup DOMAIN edit.set
        /\ k \in DOMAIN p => p[k] = IF k \in DOMAIN edit.set THEN edit.set[k] ELSE plist[k]
    BY DEF Put_
  <2> HIDE DEF p
  <2>2. ValueOf(p, k) = IF Asks(edit, k) THEN Gives(edit, k) ELSE ValueOf(plist, k)
    BY <1>1, <2>1 DEF ValueOf, Gives
  <2> QED
    BY <1>3, <2>2 DEF p
<1> QED
  BY <1>2, <1>3 DEF Change

(* The same for a key that is dropped. *)
LEMMA DropOfKey ==
  ASSUME NEW edit, NEW k, edit.op = "drop", Drop(edit),
         ValueOf(plistFile, k) = ValueOf(plist, k)
  PROVE  /\ ValueOf(plistFile', k) = ValueOf(plist', k)
         /\ ValueOf(plist', k) = IF Asks(edit, k) THEN Gives(edit, k) ELSE ValueOf(plist, k)
<1>1. Asks(edit, k) <=> k = edit.key
  BY DEF Asks
<1> DEFINE p == Without(plist, edit.key)
<1>2. /\ DOMAIN p = DOMAIN plist \ {edit.key}
      /\ \A x \in DOMAIN p : p[x] = plist[x]
  BY DEF Without
<1>3. /\ plist' = p
      /\ plistFile' = IF edit.key \in DOMAIN plist THEN p ELSE plistFile
  BY DEF Drop
<1> HIDE DEF p
<1>4. ValueOf(p, k) = IF Asks(edit, k) THEN Gives(edit, k) ELSE ValueOf(plist, k)
  BY <1>1, <1>2 DEF ValueOf, Gives
<1>5. edit.key \notin DOMAIN plist => ValueOf(p, k) = ValueOf(plist, k)
  BY <1>2 DEF ValueOf
<1> QED
  BY <1>3, <1>4, <1>5

(* What a key is left with is a matter of the job and the count. *)
LEMMA LeaveNow ==
  ASSUME UNCHANGED job, NEW k, NEW m, NEW v,
         m = Made', v = ValueOf(plist', k), Leave(m, k, v)
  PROVE  Leave(Made, k, ValueOf(plist, k))'
<1>1. ValueOf(plist, k)' = v /\ ValueOf(job.plist, k)' = ValueOf(job.plist, k)
  BY DEF ValueOf
<1>2. AllEdits' = AllEdits
  BY DEF AllEdits
<1> QED
  BY <1>1, <1>2 DEF Leave, Asks, Gives

(* A step of the run that makes no edit. *)
LEMMA NoEdit ==
  ASSUME SavedInv, UNCHANGED <<job, plist, plistFile, edits>>,
         \/ pc \in BeforeLate /\ pc' \in BeforeLate
         \/ pc \in Patched /\ pc' \in Patched
         \/ pc' = pc \/ pc' \notin Going
  PROVE  SavedInv'
<1>1. CASE pc' \notin Going
  BY <1>1 DEF SavedInv
<1>2. CASE pc' \in Going
  <2>1. pc \in Going /\ (pc' \in BeforeLate <=> pc \in BeforeLate)
        /\ (pc' \in Patched <=> pc \in Patched)
    BY <1>2 DEF Going, BeforeLate, Patched, Injecting
  <2>2. AllEdits' = AllEdits /\ Made' = Made
    BY <2>1 DEF AllEdits, Made
  <2>3. OrderInv'
    BY <2>1, <2>2 DEF SavedInv, OrderInv
  <2>4. ASSUME NEW k PROVE KeyInv(k)'
    <3>1. Leave(Made, k, ValueOf(plist, k))
      BY <2>1 DEF SavedInv, KeyInv
    <3>2. Leave(Made, k, ValueOf(plist, k))'
      BY <2>2, <3>1, LeaveNow
    <3> QED
      BY <2>1, <3>2 DEF SavedInv, KeyInv, ValueOf
  <2> QED
    BY <2>3, <2>4 DEF SavedInv
<1> QED
  BY <1>1, <1>2

(* An edit makes one more, and leaves its keys as it says. *)
LEMMA EditSaved ==
  ASSUME SavedInv, Edit
  PROVE  SavedInv'
<1>1. CASE pc' = "crashed"
  BY <1>1 DEF SavedInv, Going, BeforeLate, Patched, Injecting
<1>2. CASE pc' # "crashed"
  <2> DEFINE edit == Head(edits)
             n == Made
  <2>1. /\ pc \in {"entitle", "patch"} /\ edits # <<>> /\ pc' = pc
        /\ edits' = Tail(edits) /\ job' = job
    BY <1>2 DEF Edit
  <2>2. pc \in Going /\ pc \notin Patched /\ (pc \in BeforeLate <=> pc = "entitle")
    BY <2>1 DEF Going, BeforeLate, Patched, Injecting
  <2>3. OrderInv /\ \A k : KeyInv(k)
    BY <2>2 DEF SavedInv
  <2>4. /\ Len(edits) \in Nat \ {0} /\ edit = AllEdits[n + 1] /\ n \in Nat
        /\ Len(Tail(edits)) = Len(edits) - 1
        /\ Tail(edits) \in Seq(Range_(AllEdits))
        /\ \A i \in DOMAIN Tail(edits) : i + 1 \in DOMAIN edits /\ Tail(edits)[i] = edits[i + 1]
    BY <2>1, <2>3 DEF OrderInv
  <2>5. /\ Len(job.edits) \in Nat /\ Len(job.late) \in Nat
        /\ Len(AllEdits) = Len(job.edits) + Len(job.late)
    BY <2>3, BothLists DEF OrderInv
  <2>6. AllEdits' = AllEdits /\ Made' = n + 1 /\ n + 1 \in 0..Len(AllEdits)
    <3>1. AllEdits' = AllEdits
      BY <2>1 DEF AllEdits
    <3>2. Len(edits)' = Len(edits) - 1 /\ Len(job.edits)' = Len(job.edits) /\ Len(AllEdits)' = Len(AllEdits)
          /\ (pc' \in BeforeLate <=> pc \in BeforeLate)
      BY <2>1, <2>4, <3>1
    <3>3. Made' = IF pc \in BeforeLate THEN Len(job.edits) - (Len(edits) - 1)
                                       ELSE Len(AllEdits) - (Len(edits) - 1)
      BY <3>2 DEF Made
    <3>4. n = IF pc \in BeforeLate THEN Len(job.edits) - Len(edits)
                                   ELSE Len(AllEdits) - Len(edits)
      BY DEF Made
    <3> HIDE DEF n
    <3> DEFINE c == Len(job.edits)
               l == Len(job.late)
               e == Len(edits)
    <3>5. /\ c \in Nat /\ l \in Nat /\ e \in Nat \ {0} /\ n \in Nat /\ Len(AllEdits) = c + l
          /\ Made' = IF pc \in BeforeLate THEN c - (e - 1) ELSE (c + l) - (e - 1)
          /\ n = IF pc \in BeforeLate THEN c - e ELSE (c + l) - e
      BY <2>4, <2>5, <3>3, <3>4
    <3> HIDE DEF c, l, e
    <3>6. Made' = n + 1 /\ n + 1 \in 0..(c + l)
      BY <3>5
    <3> QED
      BY <3>1, <3>5, <3>6
  <2> HIDE DEF edit, n
  <2>7. OrderInv'
    <3>1. \A i \in DOMAIN Tail(edits) : Tail(edits)[i] = AllEdits[n + 1 + i]
      <4>1. ASSUME NEW i \in DOMAIN Tail(edits) PROVE Tail(edits)[i] = AllEdits[n + 1 + i]
        <5>1. Tail(edits)[i] = AllEdits[n + (i + 1)]
          BY <2>3, <2>4 DEF OrderInv, n
        <5>2. i \in Nat /\ n \in Int
          BY <2>4
        <5>3. n + (i + 1) = n + 1 + i
          BY <5>2
        <5> QED
          BY <5>1, <5>3
      <4> QED
        BY <4>1
    <3>2. pc \in BeforeLate => n + 1 + Len(Tail(edits)) = Len(job.edits)
      BY <2>3, <2>4, <2>5 DEF OrderInv, n
    <3> QED
      BY <2>1, <2>2, <2>3, <2>4, <2>6, <3>1, <3>2 DEF OrderInv
  <2>8. ASSUME NEW k PROVE KeyInv(k)'
    <3>1. Leave(n, k, ValueOf(plist, k)) /\ ValueOf(plistFile, k) = ValueOf(plist, k)
      BY <2>2, <2>3 DEF KeyInv, n
    <3>2. /\ ValueOf(plistFile', k) = ValueOf(plist', k)
          /\ ValueOf(plist', k) = IF Asks(edit, k) THEN Gives(edit, k) ELSE ValueOf(plist, k)
      <4>1. \/ edit.op = "drop" /\ Drop(edit)
            \/ edit.op = "watch" /\ RemoveWatch
            \/ edit.op \notin {"drop", "watch"} /\ Change(edit)
        BY <1>2 DEF Edit, edit
      <4>2. CASE edit.op = "drop" /\ Drop(edit)
        BY <3>1, <4>2, DropOfKey
      <4>3. CASE edit.op = "watch" /\ RemoveWatch
        <5>1. ~Asks(edit, k)
          BY <4>3 DEF Asks
        <5> QED
          BY <3>1, <4>3, <5>1 DEF RemoveWatch, ValueOf
      <4>4. CASE edit.op \notin {"drop", "watch"} /\ Change(edit)
        BY <3>1, <4>4, ChangeOfKey
      <4> QED
        BY <4>1, <4>2, <4>3, <4>4
    <3>3. Leave(n + 1, k, ValueOf(plist', k))
      BY <2>4, <3>1, <3>2, OneEdit
    <3>4. Leave(Made, k, ValueOf(plist, k))'
      BY <2>1, <2>6, <3>3, LeaveNow
    <3>5. ValueOf(plist, k)' = ValueOf(plist', k) /\ ValueOf(plistFile, k)' = ValueOf(plistFile', k)
      BY DEF ValueOf
    <3> QED
      BY <2>1, <2>2, <3>2, <3>4, <3>5 DEF KeyInv
  <2> QED
    BY <2>7, <2>8 DEF SavedInv
<1> QED
  BY <1>1, <1>2

(* Nothing has been edited when a run begins. *)
LEMMA InitSaved ==
  ASSUME RunInit, IsList(job.edits), IsList(job.late)
  PROVE  SavedInv
<1>1. /\ pc = "start" /\ edits = job.edits
      /\ plist = job.plist /\ plistFile = job.plist
  BY DEF RunInit, Init
<1>2. /\ pc \in BeforeLate /\ pc \notin Patched
  BY <1>1 DEF BeforeLate, Patched
<1>3. /\ AllEdits \in Seq(Range_(AllEdits))
      /\ Len(job.edits) \in Nat /\ Len(job.late) \in Nat
      /\ Len(AllEdits) = Len(job.edits) + Len(job.late)
      /\ \A i \in 1..Len(job.edits) : AllEdits[i] = job.edits[i]
      /\ job.edits \in Seq(Range_(AllEdits))
  BY BothLists
<1>4. Made = 0
  BY <1>1, <1>2, <1>3 DEF Made
<1>5. OrderInv
  <2>1. DOMAIN edits = 1..Len(job.edits)
    BY <1>1, <1>3
  <2>2. edits \in Seq(Range_(AllEdits))
    BY <1>1, <1>3
  <2>3. Made \in 0..Len(AllEdits)
    <3> DEFINE c == Len(job.edits)
               l == Len(job.late)
    <3>1. c \in Nat /\ l \in Nat /\ Len(AllEdits) = c + l
      BY <1>3
    <3> HIDE DEF c, l
    <3>2. 0 \in 0..(c + l)
      BY <3>1
    <3> QED
      BY <1>4, <3>1, <3>2
  <2>4. \A i \in DOMAIN edits : i \in Nat /\ edits[i] = AllEdits[i]
    <3> DEFINE c == Len(job.edits)
    <3>1. c \in Nat /\ DOMAIN edits = 1..c /\ \A i \in 1..c : edits[i] = AllEdits[i]
      BY <1>1, <1>3, <2>1
    <3> HIDE DEF c
    <3> QED
      BY <3>1
  <2>5. \A i \in DOMAIN edits : edits[i] = AllEdits[Made + i]
    BY <1>4, <2>4
  <2>6. Made + Len(edits) = Len(job.edits)
    BY <1>1, <1>3, <1>4
  <2> QED
    BY <1>2, <2>2, <2>3, <2>5, <2>6 DEF OrderInv
<1>6. ASSUME NEW k PROVE KeyInv(k)
  BY <1>1, <1>2, <1>4 DEF KeyInv, Leave
<1> QED
  BY <1>5, <1>6 DEF SavedInv

(* After the first edits come the late ones. *)
LEMMA EntitleSaved == SavedInv /\ RunEntitle => SavedInv'
<1> SUFFICES ASSUME SavedInv, RunEntitle PROVE SavedInv'
  OBVIOUS
<1>1. /\ pc = "entitle" /\ pc' = "patch" /\ edits = <<>> /\ edits' = job.late
      /\ UNCHANGED <<job, plist, plistFile>>
  BY DEF RunEntitle, Entitle, Step
<1>2. /\ pc \in Going /\ pc \in BeforeLate /\ pc \notin Patched
      /\ pc' \in Going /\ pc' \notin BeforeLate /\ pc' \notin Patched
  BY <1>1 DEF Going, BeforeLate, Patched, Injecting
<1>3. OrderInv /\ \A k : KeyInv(k)
  BY <1>2 DEF SavedInv
<1>4. /\ AllEdits \in Seq(Range_(AllEdits))
      /\ Len(job.edits) \in Nat /\ Len(job.late) \in Nat
      /\ Len(AllEdits) = Len(job.edits) + Len(job.late)
      /\ \A i \in 1..Len(job.late) : AllEdits[Len(job.edits) + i] = job.late[i]
      /\ job.late \in Seq(Range_(AllEdits))
  BY <1>3, BothLists DEF OrderInv
<1>5. AllEdits' = AllEdits
  BY <1>1 DEF AllEdits
<1>6. Made = Len(job.edits)
  BY <1>1, <1>2, <1>4 DEF Made
<1>7. Made' = Len(job.edits)
  <2> DEFINE c == Len(job.edits)
             l == Len(job.late)
  <2>1. /\ c \in Nat /\ l \in Nat /\ Made' = (c + l) - l
    BY <1>1, <1>2, <1>4, <1>5 DEF Made
  <2> HIDE DEF c, l
  <2>2. Made' = c
    BY <2>1
  <2> QED
    BY <2>2 DEF c
<1>8. OrderInv'
  <2>1. DOMAIN job.late = 1..Len(job.late)
    BY <1>4
  <2>2. \A i \in DOMAIN edits' : edits'[i] = AllEdits[Made' + i]
    BY <1>1, <1>4, <1>7, <2>1
  <2>3. Made' \in 0..Len(AllEdits)
    <3> DEFINE c == Len(job.edits)
               l == Len(job.late)
    <3>1. c \in Nat /\ l \in Nat /\ Made' = c /\ Len(AllEdits) = c + l
      BY <1>4, <1>7
    <3> HIDE DEF c, l
    <3> QED
      BY <3>1
  <2> QED
    BY <1>1, <1>2, <1>3, <1>4, <1>5, <2>2, <2>3 DEF OrderInv, IsList
<1>9. ASSUME NEW k PROVE KeyInv(k)'
  <2>1. Leave(Made, k, ValueOf(plist, k)) /\ ValueOf(plistFile, k) = ValueOf(plist, k)
    BY <1>2, <1>3 DEF KeyInv
  <2>2. Leave(Made, k, ValueOf(plist, k))'
    BY <1>1, <1>6, <1>7, <2>1, LeaveNow
  <2> QED
    BY <1>1, <1>2, <2>1, <2>2 DEF KeyInv, ValueOf
<1> QED
  BY <1>8, <1>9 DEF SavedInv

(* The patches write the file behind the bundle's back, after the edits. *)
LEMMA PatchSaved == SavedInv /\ RunPatch => SavedInv'
<1> SUFFICES ASSUME SavedInv, RunPatch PROVE SavedInv'
  OBVIOUS
<1>1. /\ pc = "patch" /\ pc' = "fakesign" /\ edits = <<>>
      /\ plistFile' = Put_(plistFile, job.patches)
      /\ UNCHANGED <<job, plist, edits>>
  BY DEF RunPatch, Patch, Step
<1>2. /\ pc \in Going /\ pc \notin BeforeLate /\ pc \notin Patched
      /\ pc' \in Going /\ pc' \notin BeforeLate /\ pc' \in Patched
  BY <1>1 DEF Going, BeforeLate, Patched, Injecting
<1>3. OrderInv /\ \A k : KeyInv(k)
  BY <1>2 DEF SavedInv
<1>4. AllEdits' = AllEdits /\ Made' = Made
  BY <1>1, <1>2 DEF AllEdits, Made
<1>5. OrderInv'
  BY <1>1, <1>2, <1>3, <1>4 DEF OrderInv
<1>6. ASSUME NEW k PROVE KeyInv(k)'
  <2>1. Leave(Made, k, ValueOf(plist, k)) /\ ValueOf(plistFile, k) = ValueOf(plist, k)
    BY <1>2, <1>3 DEF KeyInv
  <2>2. Leave(Made, k, ValueOf(plist, k))'
    BY <1>1, <1>4, <2>1, LeaveNow
  <2> DEFINE p == Put_(plistFile, job.patches)
  <2>3. /\ k \in DOMAIN p <=> k \in DOMAIN plistFile \cup DOMAIN job.patches
        /\ k \in DOMAIN p => p[k] = IF k \in DOMAIN job.patches THEN job.patches[k]
                                                               ELSE plistFile[k]
    BY DEF Put_
  <2> HIDE DEF p
  <2>4. ValueOf(p, k) = IF k \in DOMAIN job.patches THEN {job.patches[k]}
                                                   ELSE ValueOf(plistFile, k)
    BY <2>3 DEF ValueOf
  <2>5. /\ ValueOf(plistFile, k)' = ValueOf(p, k)
        /\ ValueOf(plist, k)' = ValueOf(plist, k)
    BY <1>1 DEF p, ValueOf
  <2> QED
    BY <1>1, <1>2, <2>1, <2>2, <2>4, <2>5 DEF KeyInv
<1> QED
  BY <1>5, <1>6 DEF SavedInv

(* Every step of a run keeps what is saved in step with the edits made. *)
LEMMA NextSaved == SavedInv /\ [RunNext]_runVars => SavedInv'
<1> SUFFICES ASSUME SavedInv, [RunNext]_runVars PROVE SavedInv'
  OBVIOUS
<1>1. CASE RunPrepare
  <2>1. pc \in BeforeLate /\ pc' \in BeforeLate /\ UNCHANGED <<job, plist, plistFile, edits>>
    BY <1>1 DEF RunPrepare, Prepare, BeforeLate, Injecting
  <2> QED
    BY <2>1, NoEdit
<1>2. CASE RunInject
  <2>1. pc \in Injecting /\ pc' \in Injecting \cup {"injected", "failed"}
    BY <1>2, InjectionPhases DEF RunInject, Inject
  <2>2. UNCHANGED <<job, plist, plistFile, edits>>
    BY <1>2 DEF RunInject
  <2>3. pc \in BeforeLate /\ (pc' \in BeforeLate \/ pc' \notin Going)
    BY <2>1 DEF BeforeLate, Going, Patched, Injecting
  <2> QED
    BY <2>2, <2>3, NoEdit
<1>3. CASE Edit
  BY <1>3, EditSaved
<1>4. CASE RunEntitle
  BY <1>4, EntitleSaved
<1>5. CASE RunPatch
  BY <1>5, PatchSaved
<1>6. CASE /\ \/ Start \/ EditBundle \/ Fakesign \/ CreateIpa \/ RemoveApp \/ CopyApp
              \/ WriteZip \/ Close \/ StepFails \/ Finished
           /\ UNCHANGED bundleVars
  <2>1. UNCHANGED <<job, plist, plistFile, edits>>
    BY <1>6 DEF bundleVars
  <2>2. \/ pc \in BeforeLate /\ pc' \in BeforeLate
        \/ pc \in Patched /\ pc' \in Patched
        \/ pc' = pc \/ pc' \in {"failed", "crashed"}
    BY <1>6 DEF Start, EditBundle, Fakesign, CreateIpa, RemoveApp, CopyApp, WriteZip, Close,
                StepFails, Finished, Step, vars, BeforeLate, Patched
  <2>3. pc' \in {"failed", "crashed"} => pc' \notin Going
    BY DEF Going, BeforeLate, Patched, Injecting
  <2> QED
    BY <2>1, <2>2, <2>3, NoEdit
<1>7. CASE UNCHANGED runVars
  <2>1. UNCHANGED <<job, plist, plistFile, edits>> /\ pc' = pc
    BY <1>7 DEF runVars, bundleVars, vars
  <2> QED
    BY <2>1, NoEdit
<1> QED
  BY <1>1, <1>2, <1>3, <1>4, <1>5, <1>6, <1>7 DEF RunNext

(* What is left of a key when all edits are made. *)
LEMMA AllMade ==
  ASSUME NEW k, NEW v, AllEdits \in Seq(Range_(AllEdits)),
         Leave(Len(AllEdits), k, v), k \notin DOMAIN job.patches
  PROVE  LeftWith(k) = v
<1> DEFINE n == Len(AllEdits)
           by == {i \in 1..n : Asks(AllEdits[i], k)}
           Last(i) == i \in by /\ \A j \in by : j <= i
<1>1. n \in Nat /\ DOMAIN AllEdits = 1..n
  OBVIOUS
<1>2. LeftWith(k) = IF by # {} THEN Gives(AllEdits[CHOOSE i \in by : \A j \in by : j <= i], k)
                    ELSE ValueOf(job.plist, k)
  BY <1>1 DEF LeftWith, Gives, ValueOf
<1>3. CASE \A i \in 1..n : ~Asks(AllEdits[i], k)
  <2>1. v = ValueOf(job.plist, k)
    BY <1>3 DEF Leave
  <2> QED
    BY <1>2, <1>3, <2>1
<1>4. ASSUME NEW i \in 1..n, Asks(AllEdits[i], k), v = Gives(AllEdits[i], k),
             \A j \in i + 1..n : ~Asks(AllEdits[j], k)
      PROVE  LeftWith(k) = v
  <2> DEFINE m == CHOOSE x \in by : \A j \in by : j <= x
  <2>1. \A j \in 1..n : j <= i \/ j \in i + 1..n
    BY <1>1
  <2>2. i \in by /\ \A j \in by : j <= i
    BY <1>4, <2>1
  <2>3. m \in by /\ \A j \in by : j <= m
    BY <2>2
  <2>4. m = i
    <3>1. m \in 1..n /\ i <= m /\ m <= i
      BY <2>2, <2>3
    <3> HIDE DEF m
    <3> QED
      BY <1>1, <3>1
  <2>5. LeftWith(k) = Gives(AllEdits[m], k)
    BY <1>2, <2>2
  <2> HIDE DEF m
  <2> QED
    BY <1>4, <2>4, <2>5
<1> QED
  BY <1>3, <1>4 DEF Leave

(* A key that is there was in the app, or an edit or a patch set it. *)
LEMMA KnownKey ==
  ASSUME NEW n \in 0..Len(AllEdits), NEW k, NEW v, v # {}, Leave(n, k, v),
         AllEdits \in Seq(Range_(AllEdits))
  PROVE  k \in AllKeys
<1>1. CASE v = ValueOf(job.plist, k)
  BY <1>1 DEF ValueOf, AllKeys
<1>2. ASSUME NEW i \in 1..n, Asks(AllEdits[i], k), v = Gives(AllEdits[i], k)
      PROVE  k \in AllKeys
  <2>1. i \in DOMAIN AllEdits
    <3> DEFINE l == Len(AllEdits)
    <3>1. l \in Nat /\ DOMAIN AllEdits = 1..l /\ n \in 0..l
      OBVIOUS
    <3> HIDE DEF l
    <3> QED
      BY <3>1
  <2>2. AllEdits[i].op \notin {"drop", "watch"} /\ k \in DOMAIN AllEdits[i].set
    BY <1>2 DEF Asks, Gives
  <2> QED
    BY <2>1, <2>2 DEF AllKeys
<1> QED
  BY <1>1, <1>2 DEF Leave

(* With all of them made, the file says what was asked. *)
LEMMA SavedAtLast == SavedInv => SavedIsAsked
<1> SUFFICES ASSUME SavedInv, pc = "done" PROVE SavedIsAsked
  BY DEF SavedIsAsked
<1>1. pc \in Going /\ pc \in Patched /\ pc \notin BeforeLate
  BY DEF Going, BeforeLate, Patched, Injecting
<1>2. OrderInv /\ \A k : KeyInv(k)
  BY <1>1 DEF SavedInv
<1>3. AllEdits \in Seq(Range_(AllEdits)) /\ Len(AllEdits) \in Nat
  BY <1>2, BothLists DEF OrderInv
<1>4. Made = Len(AllEdits) /\ Made \in 0..Len(AllEdits)
  <2>1. edits = <<>> /\ Made \in 0..Len(AllEdits)
    BY <1>1, <1>2 DEF OrderInv
  <2> QED
    BY <1>1, <1>3, <2>1 DEF Made
<1>5. ASSUME NEW k PROVE LeftWith(k) = ValueOf(plistFile, k)
  <2>1. CASE k \in DOMAIN job.patches
    BY <1>1, <1>2, <2>1 DEF KeyInv, LeftWith
  <2>2. CASE k \notin DOMAIN job.patches
    <3>1. Leave(Len(AllEdits), k, ValueOf(plistFile, k))
      BY <1>2, <1>4, <2>2 DEF KeyInv
    <3> QED
      BY <1>3, <2>2, <3>1, AllMade
  <2> QED
    BY <2>1, <2>2
<1>6. ASSUME NEW k \in DOMAIN plistFile PROVE k \in AllKeys
  <2>1. CASE k \in DOMAIN job.patches
    BY <2>1 DEF AllKeys
  <2>2. CASE k \notin DOMAIN job.patches
    <3>1. Leave(Made, k, ValueOf(plistFile, k)) /\ ValueOf(plistFile, k) # {}
      BY <1>2, <2>2 DEF KeyInv, ValueOf
    <3> QED
      BY <1>3, <1>4, <3>1, KnownKey
  <2> QED
    BY <2>1, <2>2
<1> QED
  BY <1>5, <1>6 DEF SavedIsAsked, ValueOf

(* Whatever the job's edits and patches and the app's Info.plist, the file *)
(* in the finished bundle is what they ask for (appbundle.go, plist.go).   *)
THEOREM SavedIsAskedAlways ==
  RunSpec /\ IsList(job.edits) /\ IsList(job.late) => []SavedIsAsked
<1>1. RunInit /\ IsList(job.edits) /\ IsList(job.late) => SavedInv
  BY InitSaved
<1>2. SavedInv => SavedIsAsked
  BY SavedAtLast
<1> QED
  BY <1>1, <1>2, NextSaved, PTL DEF RunSpec
-----------------------------------------------------------------------------
(***************************************************************************)
(* The extensions.  An extension below the app's identifier is below what  *)
(* the app's identifier is in memory, after every edit of a run: a new one *)
(* goes to both at once, and replaces the beginning of the extension's.    *)
(***************************************************************************)

(* A set of positions has a first one. *)
LEMMA FirstPosition ==
  ASSUME NEW n \in Nat, NEW X, X \subseteq 1..n, X # {}
  PROVE  \E k \in X : \A l \in X : k <= l
<1> DEFINE T == {1..k : k \in X}
           R == StrictSubsetOrdering(1..n)
<1>1. IsFiniteSet(1..n)
  BY FS_Interval
<1>2. IsWellFoundedOn(R, SUBSET (1..n))
  BY <1>1, FS_FiniteSubsetsOfFinite, FS_StrictSubsetOrderingWellFounded, Zenon
<1>3. T \subseteq SUBSET (1..n) /\ T # {}
  <2>1. \A k \in X : (1..k) \in SUBSET (1..n)
    OBVIOUS
  <2>2. \E k \in X : (1..k) \in T
    OBVIOUS
  <2> QED
    BY <2>1, <2>2
<1>4. PICK x \in T : \A y \in T : ~(<<y, x>> \in R)
  <2> HIDE DEF T, R
  <2> QED
    BY <1>2, <1>3, WFMin, Zenon
<1>5. PICK k \in X : x = 1..k
  BY <1>4
<1>6. ASSUME NEW l \in X, l < k PROVE FALSE
  <2>1. (1..l) \in T
    OBVIOUS
  <2>2. (1..l) \subseteq 1..k /\ 1..l # 1..k /\ (1..l) \in SUBSET (1..n) /\ x \in SUBSET (1..n)
    <3>1. k \in 1..k /\ k \notin 1..l
      BY <1>6
    <3> QED
      BY <1>3, <1>4, <1>6, <3>1
  <2>3. <<1..l, x>> \in R
    BY <1>5, <2>2 DEF StrictSubsetOrdering
  <2> QED
    BY <1>4, <2>1, <2>3
<1> QED
  BY <1>6

(* Positions that have the last one, and with each the one before it.      *)
LEMMA Downward ==
  ASSUME NEW m \in Nat \ {0}, NEW K, K \subseteq 1..m, m \in K,
         \A k \in K : k > 1 => k - 1 \in K
  PROVE  1 \in K
<1>1. PICK k \in K : \A l \in K : k <= l
  BY FirstPosition
<1>2. k \in Nat /\ k >= 1 /\ (k > 1 => k <= k - 1)
  BY <1>1
<1> QED
  BY <1>2

(* The replacement from each position on. *)
Rest(f, id, old, new) ==
  \A i \in 1..Len(id) :
     f[i] = IF old = Nothing THEN new \o <<id[i]>> \o f[i + 1]
            ELSE IF i + Len(old) - 1 <= Len(id) /\ SubSeq(id, i, i + Len(old) - 1) = old
                 THEN new \o f[i + Len(old)]
            ELSE <<id[i]>> \o f[i + 1]

(* The definition of ReplaceAll, from the end to the beginning, gives a    *)
(* list at each position.                                                  *)
LEMMA ReplaceRest ==
  ASSUME NEW X, NEW id \in Seq(X), NEW new \in Seq(X), NEW old, Len(old) \in Nat,
         old # Nothing => Len(old) > 0
  PROVE  \E f \in [1..Len(id) + 1 -> Seq(X)] :
           ReplaceAll(id, old, new) = f[1] /\ Rest(f, id, old, new)
<1> DEFINE n == Len(id)
           o == Len(old)
           At(i) == i + o - 1 <= n /\ SubSeq(id, i, i + o - 1) = old
           Body(f, i) ==
             IF i > n THEN IF old = Nothing THEN new ELSE <<>>
             ELSE IF old = Nothing THEN new \o <<id[i]>> \o f[i + 1]
             ELSE IF At(i) THEN new \o f[i + o]
             ELSE <<id[i]>> \o f[i + 1]
           Fits(f, k) == \A i \in k..n + 1 : f[i] = Body(f, i)
<1>1. n \in Nat /\ o \in Nat /\ (old # Nothing => o > 0) /\ \A i \in 1..n : <<id[i]>> \in Seq(X)
  OBVIOUS
<1> HIDE DEF n, o
<1>2. ASSUME NEW k \in 1..n + 1, NEW f, \A j \in k + 1..n + 1 : f[j] \in Seq(X)
      PROVE  Body(f, k) \in Seq(X)
  <2>1. CASE k > n
    BY <2>1
  <2>2. CASE k <= n
    <3>1. k \in 1..n /\ k + 1 \in k + 1..n + 1 /\ ~(k > n)
      BY <1>1, <2>2
    <3>2. f[k + 1] \in Seq(X) /\ <<id[k]>> \in Seq(X)
      BY <1>1, <1>2, <3>1
    <3>3. CASE old = Nothing
      BY <3>1, <3>2, <3>3
    <3>4. CASE old # Nothing /\ At(k)
      <4>1. k + o \in k + 1..n + 1
        BY <1>1, <3>4
      <4>2. f[k + o] \in Seq(X)
        BY <1>2, <4>1
      <4> QED
        BY <3>1, <3>4, <4>2
    <3>5. CASE old # Nothing /\ ~At(k)
      BY <3>1, <3>2, <3>5
    <3> QED
      BY <3>3, <3>4, <3>5
  <2> QED
    BY <1>1, <2>1, <2>2
<1>3. ASSUME NEW k \in 1..n + 1, NEW f, NEW g, \A j \in k + 1..n + 1 : f[j] = g[j]
      PROVE  Body(f, k) = Body(g, k)
  <2>1. CASE k > n
    BY <2>1
  <2>2. CASE k <= n
    <3>1. k + 1 \in k + 1..n + 1 /\ (old # Nothing /\ At(k) => k + o \in k + 1..n + 1)
      BY <1>1, <2>2
    <3>2. f[k + 1] = g[k + 1] /\ (old # Nothing /\ At(k) => f[k + o] = g[k + o])
      BY <1>3, <3>1
    <3> QED
      BY <3>2
  <2> QED
    BY <1>1, <2>1, <2>2
<1> HIDE DEF Body
<1> DEFINE K == {k \in 1..n + 1 : \E f \in [k..n + 1 -> Seq(X)] : Fits(f, k)}
<1>4. 1 \in K
  <2>1. n + 1 \in K
    <3> DEFINE f == [i \in n + 1..n + 1 |-> Body(<<>>, i)]
    <3>1. Body(<<>>, n + 1) \in Seq(X)
      <4>1. n + 1 \in 1..n + 1 /\ \A j \in (n + 1) + 1..n + 1 : FALSE
        BY <1>1
      <4> QED
        BY <1>2, <4>1
    <3>2. f \in [n + 1..n + 1 -> Seq(X)]
      BY <1>1, <3>1
    <3>3. Body(f, n + 1) = Body(<<>>, n + 1)
      <4>1. n + 1 > n
        BY <1>1
      <4> HIDE DEF f
      <4> QED
        BY <4>1 DEF Body
    <3>4. Fits(f, n + 1)
      <4>1. \A i \in n + 1..n + 1 : i = n + 1
        BY <1>1
      <4>2. n + 1 \in n + 1..n + 1
        BY <1>1
      <4>3. f[n + 1] = Body(f, n + 1)
        BY <3>3, <4>2
      <4> HIDE DEF f
      <4> QED
        BY <4>1, <4>3
    <3>5. n + 1 \in 1..n + 1
      BY <1>1
    <3> HIDE DEF f
    <3> QED
      BY <3>2, <3>4, <3>5
  <2>2. ASSUME NEW k \in K, k > 1 PROVE k - 1 \in K
    <3>1. PICK f \in [k..n + 1 -> Seq(X)] : Fits(f, k)
      OBVIOUS
    <3> DEFINE g == [i \in k - 1..n + 1 |-> IF i = k - 1 THEN Body(f, k - 1) ELSE f[i]]
    <3>2. /\ k - 1 \in 1..n + 1 /\ k \in Nat
          /\ \A i \in k - 1..n + 1 : i \in 1..n + 1 /\ (i = k - 1 \/ i \in k..n + 1)
      BY <1>1, <2>2
    <3>3. Body(f, k - 1) \in Seq(X)
      BY <1>1, <1>2, <3>2
    <3>4. g \in [k - 1..n + 1 -> Seq(X)]
      BY <3>2, <3>3
    <3>5. \A i \in k..n + 1 : i \in k - 1..n + 1 /\ g[i] = f[i]
      BY <1>1, <3>2
    <3>6. ASSUME NEW i \in k - 1..n + 1 PROVE Body(g, i) = Body(f, i)
      <4>1. i \in 1..n + 1 /\ \A j \in i + 1..n + 1 : j \in k..n + 1
        BY <1>1, <3>2
      <4> HIDE DEF g
      <4> QED
        BY <1>3, <3>5, <4>1
    <3>7. Fits(g, k - 1)
      <4>1. ASSUME NEW i \in k - 1..n + 1 PROVE g[i] = Body(g, i)
        BY <3>1, <3>2, <3>6
      <4> QED
        BY <4>1
    <3> QED
      BY <3>2, <3>4, <3>7
  <2>3. K \subseteq 1..n + 1
    OBVIOUS
  <2> HIDE DEF K
  <2>4. n + 1 \in Nat \ {0} /\ \A k \in K : k > 1 => k - 1 \in K
    BY <1>1, <2>2
  <2> QED
    BY <2>1, <2>3, <2>4, Downward
<1>5. \E f : f = [i \in 1..n + 1 |-> Body(f, i)]
  <2>1. PICK f \in [1..n + 1 -> Seq(X)] : Fits(f, 1)
    BY <1>4
  <2>2. f = [i \in 1..n + 1 |-> f[i]]
    OBVIOUS
  <2> QED
    BY <2>1, <2>2
<1> DEFINE rest == CHOOSE f : f = [i \in 1..n + 1 |-> Body(f, i)]
<1>6. rest = [i \in 1..n + 1 |-> Body(rest, i)]
  BY <1>5
<1>7. ReplaceAll(id, old, new) = rest[1]
  BY DEF ReplaceAll, Body, n, o
<1> HIDE DEF rest
<1> DEFINE L == {k \in 1..n + 1 : \A i \in k..n + 1 : rest[i] \in Seq(X)}
<1>8. \A i \in 1..n + 1 : rest[i] = Body(rest, i)
  BY <1>6
<1>9. 1 \in L
  <2>1. n + 1 \in L
    <3>1. Body(rest, n + 1) \in Seq(X)
      BY <1>1, <1>2
    <3> QED
      BY <1>1, <1>8, <3>1
  <2>2. ASSUME NEW k \in L, k > 1 PROVE k - 1 \in L
    <3>1. /\ k - 1 \in 1..n + 1 /\ k \in Nat
          /\ \A i \in k - 1..n + 1 : i = k - 1 \/ i \in k..n + 1
      BY <1>1, <2>2
    <3>2. Body(rest, k - 1) \in Seq(X)
      BY <1>1, <1>2, <3>1
    <3>3. rest[k - 1] \in Seq(X)
      BY <1>8, <3>1, <3>2
    <3> QED
      BY <3>1, <3>3
  <2>3. L \subseteq 1..n + 1
    OBVIOUS
  <2> HIDE DEF L
  <2>4. n + 1 \in Nat \ {0} /\ \A k \in L : k > 1 => k - 1 \in L
    BY <1>1, <2>2
  <2> QED
    BY <2>1, <2>3, <2>4, Downward
<1>10. rest \in [1..n + 1 -> Seq(X)]
  BY <1>6, <1>9
<1>11. \A i \in 1..n : i \in 1..n + 1 /\ ~(i > n)
  BY <1>1
<1> QED
  BY <1>7, <1>8, <1>10, <1>11 DEF Rest, Body, n, o

(* What is in front of a list is what the list begins with. *)
LEMMA InFront ==
  ASSUME NEW X, NEW s \in Seq(X), NEW t \in Seq(X), t # <<>>
  PROVE  s \o t \in Seq(X) /\ s \o t # <<>> /\ Below(s \o t, s)
<1> DEFINE u == s \o t
           m == Len(s)
           n == Len(t)
<1>1. /\ m \in Nat /\ n \in Nat \ {0} /\ u \in Seq(X) /\ Len(u) = m + n
      /\ \A i \in 1..m : u[i] = s[i]
  OBVIOUS
<1>2. s = [i \in 1..m |-> s[i]]
  OBVIOUS
<1>3. SubSeq(u, 1, m) = [i \in 1..m |-> u[i]]
  <2>1. SubSeq(u, 1, m) = [i \in 1..(1 + m - 1) |-> u[i + 1 - 1]]
    BY <1>1
  <2> HIDE DEF u, m
  <2>2. 1 + m - 1 = m /\ \A i \in 1..m : i + 1 - 1 = i
    BY <1>1
  <2> QED
    BY <2>1, <2>2
<1>4. SubSeq(u, 1, m) = s
  <2> HIDE DEF u, m
  <2> QED
    BY <1>1, <1>2, <1>3
<1>5. m + n > m
  <2> HIDE DEF m, n
  <2> QED
    BY <1>1
<1> QED
  BY <1>1, <1>4, <1>5 DEF Below

(* An identifier below the old one comes out below the new one: the first  *)
(* occurrence is at its beginning, and something is left behind it.        *)
LEMMA ReplaceBelow ==
  ASSUME NEW id, NEW old, NEW new, IsList(id), IsList(old), IsList(new),
         new # Nothing, Below(id, old)
  PROVE  IsList(ReplaceAll(id, old, new)) /\ Below(ReplaceAll(id, old, new), new)
<1> DEFINE X == Range_(id) \cup Range_(new)
           n == Len(id)
           o == Len(old)
<1>1. id \in Seq(X) /\ new \in Seq(X) /\ o \in Nat /\ n \in Nat /\ (old # Nothing => o > 0)
  BY DEF IsList, Nothing
<1>2. n > o /\ SubSeq(id, 1, o) = old
  BY DEF Below
<1> HIDE DEF X
<1>3. PICK f \in [1..Len(id) + 1 -> Seq(X)] :
           ReplaceAll(id, old, new) = f[1] /\ Rest(f, id, old, new)
  <2>1. Len(old) \in Nat /\ (old # Nothing => Len(old) > 0)
    BY <1>1
  <2> QED
    BY <1>1, <2>1, ReplaceRest
<1>r. /\ f \in [1..n + 1 -> Seq(X)]
      /\ \A i \in 1..n :
           f[i] = IF old = Nothing THEN new \o <<id[i]>> \o f[i + 1]
                  ELSE IF i + o - 1 <= n /\ SubSeq(id, i, i + o - 1) = old
                       THEN new \o f[i + o]
                  ELSE <<id[i]>> \o f[i + 1]
  BY <1>3 DEF Rest
<1>4. \A i \in 1..n : <<id[i]>> \in Seq(X)
  BY <1>1
<1> HIDE DEF n, o
<1>5. ASSUME NEW i \in 1..n PROVE f[i] # <<>> /\ f[i] \in Seq(X) /\ f[i + 1] \in Seq(X)
  <2>1. i \in 1..n + 1 /\ i + 1 \in 1..n + 1
    BY <1>1
  <2>2. f[i] \in Seq(X) /\ f[i + 1] \in Seq(X) /\ <<id[i]>> \in Seq(X)
    BY <1>4, <1>r, <2>1
  <2>3. CASE old = Nothing
    <3>1. f[i] = new \o <<id[i]>> \o f[i + 1]
      BY <1>r, <2>3
    <3> QED
      BY <1>1, <2>2, <3>1 DEF Nothing
  <2>4. CASE old # Nothing /\ i + o - 1 <= n /\ SubSeq(id, i, i + o - 1) = old
    <3>1. f[i] = new \o f[i + o]
      BY <1>r, <2>4
    <3>2. f[i + o] \in Seq(X)
      <4>1. i + o \in 1..n + 1
        BY <1>1, <2>4
      <4> QED
        BY <1>r, <4>1
    <3> QED
      BY <1>1, <2>2, <3>1, <3>2 DEF Nothing
  <2>5. CASE old # Nothing /\ ~(i + o - 1 <= n /\ SubSeq(id, i, i + o - 1) = old)
    <3>1. f[i] = <<id[i]>> \o f[i + 1]
      BY <1>r, <2>5
    <3> QED
      BY <2>2, <3>1
  <2> QED
    BY <2>2, <2>3, <2>4, <2>5
<1>6. \E t \in Seq(X) : t # <<>> /\ f[1] = new \o t
  <2>1. 1 \in 1..n
    BY <1>1, <1>2
  <2>2. CASE old = Nothing
    <3> DEFINE t == <<id[1]>> \o f[2]
    <3>0. 1 + 1 = 2
      OBVIOUS
    <3>1. f[2] \in Seq(X) /\ <<id[1]>> \in Seq(X)
      BY <1>4, <1>5, <2>1, <3>0
    <3>2. t \in Seq(X) /\ t # <<>>
      BY <3>1
    <3>3. f[1] = new \o <<id[1]>> \o f[2]
      BY <1>r, <2>1, <2>2, <3>0
    <3>4. f[1] = new \o t
      <4> DEFINE b == <<id[1]>>
                 c == f[2]
      <4>1. new \in Seq(X) /\ b \in Seq(X) /\ c \in Seq(X)
        BY <1>1, <3>1
      <4> HIDE DEF b, c, t
      <4>2. (new \o b) \o c = new \o (b \o c)
        BY <4>1
      <4> QED
        BY <3>3, <4>2 DEF b, c, t
    <3> QED
      BY <3>2, <3>4
  <2>3. CASE old # Nothing
    <3>1. 1 + o - 1 = o /\ 1 + o \in 1..n /\ o <= n
      BY <1>1, <1>2
    <3>2. f[1] = new \o f[1 + o]
      BY <1>2, <1>r, <2>1, <2>3, <3>1
    <3> QED
      BY <1>5, <3>1, <3>2
  <2> QED
    BY <2>2, <2>3
<1>7. f[1] \in Seq(X) /\ Below(f[1], new)
  BY <1>1, <1>6, InFront
<1> QED
  BY <1>3, <1>7, OwnElements

OwnId == IdOf(job.plist)
Renaming == OwnId # Nothing
              /\ \A edit \in Range_(AllEdits) : edit.op = "merge" => "id" \notin DOMAIN edit.set

Shaped(e) == {"id", "was", "deep", "readable", "missed"} \subseteq DOMAIN e
Follows(e, id) ==
  ~e.deep /\ e.readable /\ ~e.missed /\ Below(e.was, OwnId) => IsList(e.id) /\ Below(e.id, id)

FollowInv ==
  /\ SavedInv /\ Identified(job)
  /\ pc \in Going /\ Renaming =>
        IsList(IdOf(plist)) /\ \A e \in exts : Shaped(e) /\ Follows(e, IdOf(plist))

(* An extension begins with the identifier it came with. *)
LEMMA InitFollow ==
  ASSUME RunInit, IsList(job.edits), IsList(job.late), Identified(job)
  PROVE  FollowInv
<1>1. plist = job.plist /\ exts = job.exts
  BY DEF RunInit
<1> QED
  BY <1>1, InitSaved DEF FollowInv, Identified, Shaped, Follows, OwnId

(* No step that leaves the plist alone and renames nothing does harm.      *)
LEMMA FollowKept ==
  ASSUME FollowInv, SavedInv', UNCHANGED <<job, plist>>, pc' \in Going => pc \in Going,
         \A e \in exts' : e \in exts
            \/ (Shaped(e) /\ (OwnId # Nothing => ~Below(e.was, OwnId)))
  PROVE  FollowInv'
<1>1. Identified(job)' /\ OwnId' = OwnId /\ (Renaming' <=> Renaming)
  BY DEF FollowInv, OwnId, Renaming, AllEdits
<1>2. ASSUME pc' \in Going, Renaming
      PROVE  IsList(IdOf(plist')) /\ \A e \in exts' : Shaped(e) /\ Follows(e, IdOf(plist'))
  <2>1. IsList(IdOf(plist)) /\ \A e \in exts : Shaped(e) /\ Follows(e, IdOf(plist))
    BY <1>2 DEF FollowInv
  <2>2. OwnId # Nothing
    BY <1>2 DEF Renaming
  <2> QED
    BY <2>1, <2>2 DEF Follows
<1>3. \A e : Follows(e, IdOf(plist')) <=> Follows(e, IdOf(plist))'
  BY <1>1 DEF Follows
<1> QED
  BY <1>1, <1>2 DEF FollowInv, Follows

(* The new identifier goes to the extensions with the app's. *)
LEMMA RenameFollows ==
  ASSUME NEW e, NEW old, NEW new, IsList(old), IsList(new), new # Nothing,
         Shaped(e), Follows(e, old)
  PROVE  Shaped(Renamed(e, old, new)) /\ Follows(Renamed(e, old, new), new)
<1> DEFINE r == Renamed(e, old, new)
<1>1. CASE e.deep \/ ~e.readable \/ e.id = Nothing
  <2>1. r = e
    BY <1>1 DEF Renamed
  <2>2. ~(~e.deep /\ e.readable /\ ~e.missed /\ Below(e.was, OwnId))
    <3>1. SUFFICES ASSUME e.id = Nothing, IsList(e.id), Below(e.id, old) PROVE FALSE
      BY <1>1 DEF Follows
    <3>2. Len(old) \in Nat /\ Len(e.id) = 0 /\ Len(e.id) > Len(old)
      BY <3>1 DEF Below, IsList, Nothing
    <3> QED
      BY <3>2
  <2> QED
    BY <2>1, <2>2 DEF Follows
<1>2. CASE ~(e.deep \/ ~e.readable \/ e.id = Nothing)
  <2>1. r = [e EXCEPT !.id = ReplaceAll(e.id, old, new)]
    BY <1>2 DEF Renamed
  <2>2. /\ Shaped(r) /\ r.deep = e.deep /\ r.readable = e.readable
        /\ r.missed = e.missed /\ r.was = e.was /\ r.id = ReplaceAll(e.id, old, new)
    BY <2>1 DEF Shaped
  <2> HIDE DEF r
  <2>3. ASSUME ~e.deep, e.readable, ~e.missed, Below(e.was, OwnId)
        PROVE  IsList(r.id) /\ Below(r.id, new)
    BY <2>2, <2>3, ReplaceBelow DEF Follows
  <2> QED
    BY <2>2, <2>3 DEF Follows, r
<1> QED
  BY <1>1, <1>2

(* An edit leaves the extensions below the app, whatever it edits. *)
LEMMA EditFollows ==
  ASSUME FollowInv, Edit
  PROVE  FollowInv'
<1>1. SavedInv'
  BY EditSaved DEF FollowInv
<1>2. Identified(job)' /\ OwnId' = OwnId /\ (Renaming' <=> Renaming) /\ job' = job
  BY DEF Edit, FollowInv, OwnId, Renaming, AllEdits
<1>3. CASE pc' = "crashed"
  BY <1>1, <1>2, <1>3 DEF FollowInv, Going, BeforeLate, Patched, Injecting
<1>4. CASE pc' # "crashed"
  <2> DEFINE edit == Head(edits)
  <2>1. /\ pc \in {"entitle", "patch"} /\ edits # <<>> /\ pc' = pc
        /\ \/ edit.op = "drop" /\ Drop(edit)
           \/ edit.op = "watch" /\ RemoveWatch
           \/ edit.op \notin {"drop", "watch"} /\ Change(edit)
    BY <1>4 DEF Edit
  <2>2. pc \in Going
    BY <2>1 DEF Going, BeforeLate, Patched, Injecting
  <2>3. edits \in Seq(Range_(AllEdits))
    BY <2>2 DEF FollowInv, SavedInv, OrderInv
  <2>4. edit \in Range_(AllEdits)
    BY <2>1, <2>3
  <2> HIDE DEF edit
  <2>5. SUFFICES ASSUME Renaming
        PROVE  IsList(IdOf(plist')) /\ \A e \in exts' : Shaped(e) /\ Follows(e, IdOf(plist'))
    <3>1. \A e : Follows(e, IdOf(plist'))  => Follows(e, IdOf(plist))'
      BY <1>2 DEF Follows
    <3> QED
      BY <1>1, <1>2, <2>5, <3>1 DEF FollowInv, IdOf, Shaped
  <2>6. IsList(IdOf(plist)) /\ \A e \in exts : Shaped(e) /\ Follows(e, IdOf(plist))
    BY <2>2, <2>5 DEF FollowInv
  <2>7. /\ edit.op = "id" => /\ "id" \in DOMAIN edit.set
                             /\ IsList(edit.set["id"]) /\ edit.set["id"] # Nothing
        /\ edit.op \notin {"id", "drop", "watch"} => "id" \notin DOMAIN edit.set
    BY <2>4, <2>5 DEF FollowInv, Identified, Renaming, AllEdits
  <2>8. CASE edit.op = "drop" /\ Drop(edit)
    <3>1. exts' = exts /\ plist' = Without(plist, edit.key)
      BY <2>8 DEF Drop
    <3>2. IdOf(plist') = IdOf(plist) \/ IdOf(plist') = Nothing
      BY <3>1 DEF IdOf, Without
    <3>3. IsList(Nothing)
      BY DEF IsList, Nothing
    <3>4. ASSUME NEW e \in exts, Follows(e, IdOf(plist)) PROVE Follows(e, Nothing)
      <4>1. ASSUME IsList(e.id), Below(e.id, IdOf(plist)) PROVE Below(e.id, Nothing)
        <5>1. Len(e.id) \in Nat /\ Len(IdOf(plist)) \in Nat /\ Len(e.id) > Len(IdOf(plist))
          BY <2>6, <4>1 DEF IsList, Below
        <5>2. Len(e.id) > Len(Nothing)
          <6> DEFINE a == Len(e.id)
                     b == Len(IdOf(plist))
          <6>1. a \in Nat /\ b \in Nat /\ a > b
            BY <5>1
          <6> HIDE DEF a, b
          <6>2. a > 0
            BY <6>1
          <6> QED
            BY <6>2 DEF a, Nothing
        <5>3. SubSeq(e.id, 1, Len(Nothing)) = Nothing
          BY <4>1 DEF IsList, Nothing
        <5> QED
          BY <5>2, <5>3 DEF Below
      <4> QED
        BY <3>4, <4>1 DEF Follows
    <3> QED
      BY <2>6, <3>1, <3>2, <3>3, <3>4
  <2>9. CASE edit.op = "watch" /\ RemoveWatch
    BY <2>6, <2>9 DEF RemoveWatch
  <2>10. CASE edit.op \notin {"drop", "watch"} /\ Change(edit)
    <3>1. CASE UNCHANGED <<plist, exts>>
      BY <2>6, <3>1
    <3>2. CASE edit.op = "id" /\ ~IsNoChange(edit)
      <4> DEFINE new == edit.set["id"]
      <4>1. IsList(new) /\ new # Nothing /\ "id" \in DOMAIN edit.set
        BY <2>7, <3>2
      <4>2. plist' = Put_(plist, edit.set)
        BY <2>10, <3>2 DEF Change
      <4>3. IdOf(plist') = new
        BY <4>1, <4>2 DEF IdOf, Put_
      <4>4. PICK missed : exts' = {IF e \in missed THEN [e EXCEPT !.missed = TRUE]
                                   ELSE Renamed(e, IdOf(plist), new) : e \in exts}
        BY <2>10, <3>2 DEF Change
      <4> HIDE DEF new
      <4>5. ASSUME NEW x \in exts' PROVE Shaped(x) /\ Follows(x, new)
        <5>1. PICK e \in exts : x = IF e \in missed THEN [e EXCEPT !.missed = TRUE]
                                    ELSE Renamed(e, IdOf(plist), new)
          BY <4>4
        <5>2. CASE e \in missed
          <6>1. x.missed /\ Shaped(x)
            BY <2>6, <5>1, <5>2 DEF Shaped
          <6> QED
            BY <6>1 DEF Follows
        <5>3. CASE e \notin missed
          BY <2>6, <4>1, <5>1, <5>3, RenameFollows
        <5> QED
          BY <5>2, <5>3
      <4> QED
        BY <4>1, <4>3, <4>5
    <3>3. CASE edit.op # "id" /\ ~IsNoChange(edit)
      <4>1. exts' = exts /\ plist' = Put_(plist, edit.set)
        BY <2>10, <3>3 DEF Change
      <4>2. IdOf(plist') = IdOf(plist)
        BY <2>7, <2>10, <3>3, <4>1 DEF IdOf, Put_
      <4> QED
        BY <2>6, <4>1, <4>2
    <3>4. IsNoChange(edit) => UNCHANGED <<plist, exts>>
      BY <2>10 DEF Change
    <3> QED
      BY <3>1, <3>2, <3>3, <3>4
  <2> QED
    BY <2>1, <2>8, <2>9, <2>10
<1> QED
  BY <1>3, <1>4

(* What the injector puts in PlugIns is named by one piece: it is below    *)
(* no identifier.                                                          *)
LEMMA InjectFollows ==
  ASSUME FollowInv, RunInject
  PROVE  FollowInv'
<1>1. SavedInv'
  BY NextSaved DEF FollowInv, RunNext
<1>2. UNCHANGED <<job, plist>>
  BY DEF RunInject
<1>3. pc \in Going
  <2>1. pc \in Injecting
    BY InjectionPhases DEF RunInject, Inject
  <2> QED
    BY <2>1 DEF Going, BeforeLate
<1>4. ASSUME NEW e \in exts', e \notin exts
      PROVE  Shaped(e) /\ (OwnId # Nothing => ~Below(e.was, OwnId))
  <2>1. e = Ext(Item.name, "PlugIns", <<Item.name>>)
    BY <1>4 DEF RunInject
  <2>2. Shaped(e) /\ e.was = <<Item.name>>
    BY <2>1 DEF Ext, Shaped
  <2>3. OwnId # Nothing => ~(1 > Len(OwnId))
    BY DEF FollowInv, Identified, OwnId, IsList, Nothing
  <2>4. Len(<<Item.name>>) = 1
    OBVIOUS
  <2> QED
    BY <2>2, <2>3, <2>4 DEF Below
<1>5. \A e \in exts' : e \in exts
         \/ (Shaped(e) /\ (OwnId # Nothing => ~Below(e.was, OwnId)))
  BY <1>4
<1> QED
  BY <1>1, <1>2, <1>3, <1>5, FollowKept, Zenon

(* And so does every other step. *)
LEMMA NextFollow == FollowInv /\ [RunNext]_runVars => FollowInv'
<1> SUFFICES ASSUME FollowInv, [RunNext]_runVars PROVE FollowInv'
  OBVIOUS
<1>1. SavedInv'
  BY NextSaved DEF FollowInv
<1>2. CASE RunInject
  BY <1>2, InjectFollows
<1>3. CASE Edit
  BY <1>3, EditFollows
<1>4. ASSUME UNCHANGED <<job, plist>>, pc' \in Going => pc \in Going, exts' \subseteq exts
      PROVE  FollowInv'
  <2>1. \A e \in exts' : e \in exts
           \/ (Shaped(e) /\ (OwnId # Nothing => ~Below(e.was, OwnId)))
    BY <1>4
  <2> QED
    BY <1>1, <1>4, <2>1, FollowKept, Zenon
<1>5. CASE RunPrepare
  <2>1. pc \in Going /\ UNCHANGED <<job, plist>> /\ exts' \subseteq exts
    BY <1>5 DEF RunPrepare, Prepare, Going, BeforeLate
  <2> QED
    BY <2>1, <1>4
<1>6. CASE RunEntitle \/ RunPatch
  <2>1. pc \in Going /\ UNCHANGED <<job, plist, exts>>
    BY <1>6 DEF RunEntitle, Entitle, RunPatch, Patch, Step, Going, BeforeLate
  <2> QED
    BY <2>1, <1>4
<1>7. CASE /\ \/ Start \/ EditBundle \/ Fakesign \/ CreateIpa \/ RemoveApp \/ CopyApp
              \/ WriteZip \/ Close \/ StepFails \/ Finished
           /\ UNCHANGED bundleVars
  <2>1. UNCHANGED <<job, plist, exts>>
    BY <1>7 DEF bundleVars
  <2>2. \/ pc' = pc \/ pc' \in {"failed", "crashed"}
        \/ pc \in {"start", "injected", "fakesign", "output", "write", "copy", "close"}
    BY <1>7 DEF Start, EditBundle, Fakesign, CreateIpa, RemoveApp, CopyApp, WriteZip, Close,
                StepFails, Finished, Step, vars
  <2>3. pc' \in Going => pc \in Going
    BY <2>2 DEF Going, BeforeLate, Patched, Injecting
  <2> QED
    BY <2>1, <2>3, <1>4
<1>8. CASE UNCHANGED runVars
  <2>1. UNCHANGED <<job, plist, exts, pc>>
    BY <1>8 DEF runVars, bundleVars, vars
  <2> QED
    BY <2>1, <1>4
<1> QED
  BY <1>2, <1>3, <1>5, <1>6, <1>7, <1>8 DEF RunNext

(* What holds at every step holds at the end. *)
LEMMA FollowAtLast == FollowInv => ExtensionsFollow
<1> SUFFICES ASSUME FollowInv, pc = "done", IdOf(job.plist) # Nothing,
                    \A i \in DOMAIN AllEdits :
                        AllEdits[i].op = "merge" => "id" \notin DOMAIN AllEdits[i].set,
                    NEW e \in exts,
                    ~e.deep /\ e.readable /\ ~e.missed /\ Below(e.was, IdOf(job.plist))
             PROVE  Below(e.id, IdOf(plist))
  BY DEF ExtensionsFollow
<1>1. pc \in Going
  BY DEF Going, Patched
<1>2. Renaming
  BY DEF Renaming, OwnId, Range_
<1> QED
  BY <1>1, <1>2 DEF FollowInv, Follows, OwnId

(* Whatever the identifiers of an app, its extensions and the edits of a   *)
(* job, an extension below the app's identifier ends below its last one    *)
(* (appbundle.go, ChangeBundleID).                                         *)
THEOREM ExtensionsFollowAlways ==
  RunSpec /\ IsList(job.edits) /\ IsList(job.late) /\ Identified(job) => []ExtensionsFollow
<1>1. RunInit /\ IsList(job.edits) /\ IsList(job.late) /\ Identified(job) => FollowInv
  BY InitFollow
<1> QED
  BY <1>1, NextFollow, FollowAtLast, PTL DEF RunSpec
-----------------------------------------------------------------------------
(***************************************************************************)
(* The command line. What is shown above of a run holds of a run started   *)
(* from a command line, and one that is refused has changed nothing.       *)
(***************************************************************************)

LEMMA OptionsStep == [OptionsNext]_optionVars => [RunNext]_runVars
BY DEF OptionsNext, optionVars

(* The command line only chooses the job: the rest is a run of AppRun. *)
THEOREM OptionsImplementRun == OptionsSpec => RunSpec
<1>1. OptionsInit => RunInit
  BY DEF OptionsInit
<1> QED
  BY <1>1, OptionsStep, PTL DEF OptionsSpec, RunSpec

(* From any command line: an input that lies apart from the output or at   *)
(* its very path without --overwrite survives, a success has a whole       *)
(* output, one hooking runtime is brought in, the entitlements are kept,   *)
(* and the user's extensions stay.                                         *)
THEOREM LinesKeepPromises ==
  OptionsSpec => [](InputSurvives /\ OutputHonest /\ OneRuntime /\ SignatureSurvives
                      /\ OwnExtensionsStay)
  BY OptionsImplementRun, RunKeepsPromises, OwnExtensionsAlways, PTL

(* And what the finished bundle loads is in it. *)
THEOREM LinesShipWhatTheyLoad == OptionsSpec => [](Ordinary => RefsShipped)
  BY OptionsImplementRun, RunImplementsPipeline, RefsShippedAlways, PTL

(* The edits of a command line are lists. *)
LEMMA LinesAreLists ==
  ASSUME NEW o
  PROVE  IsList(EditsOf(o)) /\ IsList(LateEditsOf(o))
<1>1. ASSUME NEW b, NEW e, NEW X, e \in X PROVE When(b, e) \in Seq(X)
  BY <1>1 DEF When
<1>2. IsList(EditsOf(o))
  <2> DEFINE a == Set("name", [name |-> o.name, display |-> o.name])
             b == Set("version", [version |-> o.version, short |-> o.version])
             c == Set("id", [id |-> o.id])
             d == Set("min", [min |-> o.min])
             e == Set("icon", [icons |-> o.icon])
             f == [op |-> "merge", set |-> o.merge.set, lists |-> o.merge.lists]
             X == {a, b, c, d, e, f}
  <2>1. EditsOf(o) = When(o.name # Unset, a) \o When(o.version # Unset, b)
                       \o When(o.id # Unset, c) \o When(o.min # Unset, d)
                       \o When(o.icon # Unset, e) \o When(o.merge # Unset, f)
    BY DEF EditsOf
  <2>2. a \in X /\ b \in X /\ c \in X /\ d \in X /\ e \in X /\ f \in X
    OBVIOUS
  <2> HIDE DEF a, b, c, d, e, f, X
  <2>3. EditsOf(o) \in Seq(X)
    BY <1>1, <2>1, <2>2
  <2> QED
    BY <2>3, OwnElements
<1>3. IsList(LateEditsOf(o))
  <2> DEFINE a == [op |-> "drop", key |-> "devices"]
             b == [op |-> "watch"]
             c == Set("docs", [browser |-> "yes", sharing |-> "yes"])
             X == {a, b, c}
  <2>1. LateEditsOf(o) = When(o.devices, a) \o When(o.watch, b) \o When(o.docs, c)
    BY DEF LateEditsOf
  <2>2. a \in X /\ b \in X /\ c \in X
    OBVIOUS
  <2> HIDE DEF a, b, c, X
  <2>3. LateEditsOf(o) \in Seq(X)
    BY <1>1, <2>1, <2>2
  <2> QED
    BY <2>3, OwnElements
<1> QED
  BY <1>2, <1>3

(* So a run from any command line saves what it was asked to, and takes    *)
(* the extensions along.                                                   *)
THEOREM LinesSaveWhatTheyAsk == OptionsSpec => [](SavedIsAsked /\ ExtensionsFollow)
<1>1. OptionsInit => IsList(job.edits) /\ IsList(job.late) /\ Identified(job)
  <2> SUFFICES ASSUME OptionsInit
               PROVE  IsList(job.edits) /\ IsList(job.late) /\ Identified(job)
    OBVIOUS
  <2>1. PICK o : job.edits = EditsOf(o) /\ job.late = LateEditsOf(o)
    BY DEF OptionsInit, JobOf
  <2>2. Identified(job)
    BY IdentifiersAssumption DEF OptionsInit
  <2> QED
    BY <2>1, <2>2, LinesAreLists
<1> QED
  BY <1>1, OptionsImplementRun, SavedIsAskedAlways, ExtensionsFollowAlways, PTL DEF OptionsSpec
-----------------------------------------------------------------------------
(* "Failed cyan-check; nothing was applied" (run.go 479), and the same for *)
(* what validate refuses: such a run ends where it began, the user's files *)
(* as they were.                                                           *)
NothingApplied ==
  ~Accepted(line) =>
      /\ pc \in {"start", "failed", "crashed"}
      /\ disk.input = "old"
      /\ main.signed = line.app.signed /\ main.loads = <<>>
      /\ plistFile = line.app.plist /\ exts = line.app.exts

(* The steps a run can take from its beginning or after its end. *)
LEMMA FewSteps ==
  ASSUME OptionsNext, pc \in {"start", "failed", "crashed"}, ~Accepted(line)
  PROVE  /\ pc' \in {"failed", "crashed"}
         /\ UNCHANGED <<disk, main, plistFile, exts, line>>
<1>1. pc \notin {"prepare", "expand", "strip", "dirs", "place", "auto", "injected", "entitle",
                 "patch", "fakesign", "output", "write", "copy", "close"}
  OBVIOUS
<1>2. RunNext /\ line' = line
  BY DEF OptionsNext
<1>3. ~InjectNext
  BY <1>1 DEF InjectNext, ExpandDeb, TakeItem, NothingToDo, PreScan, Strip, MakeDirs, Placing,
       InjectDylib, InjectFramework, InjectFiles, SkipLink, AllPlaced, AutoInject, Restore,
       InjectFails
<1>4. ~Edit /\ ~RunPrepare /\ ~RunEntitle /\ ~RunPatch /\ ~RunInject
  BY <1>1, <1>3 DEF Edit, RunPrepare, Prepare, RunEntitle, Entitle, RunPatch, Patch, RunInject,
       Inject, Step
<1>5. \/ Start \/ EditBundle \/ Fakesign \/ CreateIpa \/ RemoveApp \/ CopyApp
      \/ WriteZip \/ Close \/ StepFails \/ Finished
  BY <1>2, <1>4 DEF RunNext
<1>6. (Start \/ StepFails \/ Finished) /\ UNCHANGED bundleVars
  BY <1>1, <1>2, <1>4, <1>5 DEF RunNext, EditBundle, Fakesign, CreateIpa, RemoveApp, CopyApp,
       WriteZip, Close, Step
<1>7. pc' \in {"failed", "crashed"}
  BY <1>6 DEF OptionsNext, Start, StepFails, Finished, vars
<1>8. UNCHANGED <<disk, main>>
  BY <1>6 DEF Start, StepFails, Finished, vars, injectVars
<1> QED
  BY <1>2, <1>6, <1>7, <1>8 DEF bundleVars

THEOREM RefusedAppliesNothing == OptionsSpec => []NothingApplied
<1>1. OptionsInit => NothingApplied
  <2> SUFFICES ASSUME OptionsInit, ~Accepted(line)
               PROVE  /\ pc = "start" /\ disk.input = "old"
                      /\ main.signed = line.app.signed /\ main.loads = <<>>
                      /\ plistFile = line.app.plist /\ exts = line.app.exts
    BY DEF NothingApplied
  <2>1. /\ job.run.signed = line.app.signed
        /\ job.plist = line.app.plist /\ job.exts = line.app.exts
    BY DEF OptionsInit, JobOf
  <2> QED
    BY <2>1 DEF OptionsInit, RunInit, Init, InjectInit
<1>2. NothingApplied /\ [OptionsNext]_optionVars => NothingApplied'
  <2> SUFFICES ASSUME NothingApplied, [OptionsNext]_optionVars PROVE NothingApplied'
    OBVIOUS
  <2>1. CASE OptionsNext
    <3>1. line' = line
      BY <2>1 DEF OptionsNext
    <3>2. CASE Accepted(line)
      BY <3>1, <3>2 DEF NothingApplied
    <3>3. CASE ~Accepted(line)
      BY <2>1, <3>1, <3>3, FewSteps DEF NothingApplied
    <3> QED
      BY <3>2, <3>3
  <2>2. CASE UNCHANGED optionVars
    BY <2>2 DEF NothingApplied, optionVars, runVars, vars, injectVars, bundleVars
  <2> QED
    BY <2>1, <2>2
<1> QED
  BY <1>1, <1>2, PTL DEF OptionsSpec
-----------------------------------------------------------------------------
(***************************************************************************)
(* The last one named.  The three folds of Options (recipes into options,  *)
(* files by base name, keys of the patches) are unrolled into sequences of *)
(* their intermediate values and followed by induction over positions, a   *)
(* set of positions that holds the first and with each the next.           *)
(***************************************************************************)
(* The last of the positions 1..k is k. *)
LEMMA LargestOf ==
  ASSUME NEW k \in Nat, NEW s, s \subseteq 1..k + 1, k + 1 \in s
  PROVE  (CHOOSE x \in s : \A y \in s : x >= y) = k + 1
<1> DEFINE x == CHOOSE x \in s : \A y \in s : x >= y
<1>1. \A y \in s : k + 1 >= y
  OBVIOUS
<1>2. x \in s /\ x >= k + 1
  BY <1>1
<1>3. x \in 1..k + 1
  BY <1>2
<1> HIDE DEF x
<1>4. x = k + 1
  BY <1>2, <1>3
<1> QED
  BY <1>4 DEF x

(* Positions that have the first, and with each the next. *)
LEMMA Upward ==
  ASSUME NEW n \in Nat, NEW G, 0 \in G, \A k \in 0..n - 1 : k \in G => k + 1 \in G
  PROVE  \A k \in 0..n : k \in G
<1> DEFINE Missing == {k \in 1..n : k \notin G}
<1> SUFFICES ASSUME Missing # {} PROVE FALSE
  OBVIOUS
<1>1. PICK k \in Missing : \A j \in Missing : k <= j
  BY FirstPosition
<1>2. k - 1 \in 0..n - 1 /\ (k - 1 = 0 \/ k - 1 \in 1..n) /\ (k - 1) + 1 = k /\ ~(k - 1 \in Missing)
  BY <1>1
<1> QED
  BY <1>1, <1>2

(* A set of positions has a last one. *)
LEMMA LastPosition ==
  ASSUME NEW n \in Nat, NEW X, X \subseteq 1..n, X # {}
  PROVE  \E k \in X : \A l \in X : l <= k
<1> DEFINE Y == {n + 1 - k : k \in X}
<1>1. Y \subseteq 1..n /\ Y # {}
  <2>1. \A k \in 1..n : n + 1 - k \in 1..n
    OBVIOUS
  <2> QED
    BY <2>1
<1>2. PICK y \in Y : \A z \in Y : y <= z
  BY <1>1, FirstPosition
<1>3. PICK k \in X : y = n + 1 - k
  BY <1>2
<1>4. ASSUME NEW l \in X PROVE l <= k
  <2>1. n + 1 - l \in Y
    OBVIOUS
  <2>2. n + 1 - k <= n + 1 - l /\ k \in 1..n /\ l \in 1..n
    BY <1>2, <1>3, <2>1
  <2> QED
    BY <2>2
<1> QED
  BY <1>4

(* The recipes are merged one after the other, in their order. *)
LEMMA MergedInOrder ==
  ASSUME NEW l, NEW n \in Nat, DOMAIN l.recipes = 1..n
  PROVE  \E m : /\ m[0] = l.cli /\ MergeCyans(l) = m[n]
                /\ \A i \in 1..n : m[i] = Merge(m[i - 1], Parse(Archive(l.recipes[i])))
<1> DEFINE Largest(s) == CHOOSE x \in s : \A y \in s : x >= y
           With(o, x) == Merge(o, Parse(Archive(l.recipes[x])))
           Body(g, s) == IF s = {} THEN l.cli ELSE With(g[s \ {Largest(s)}], Largest(s))
           Fold(g, k) == g = [s \in SUBSET (1..k) |-> Body(g, s)]
<1>1. MergeCyans(l) = (CHOOSE g : Fold(g, n))[1..n]
  BY DEF MergeCyans, S!FoldLeft, S!MapThenFoldSet, S!Max
<1> HIDE DEF With
<1>2. \E g : Fold(g, 0)
  <2> DEFINE g == [s \in {{}} |-> l.cli]
  <2>1. SUBSET (1..0) = {{}}
    OBVIOUS
  <2>2. Fold(g, 0)
    BY <2>1
  <2> QED
    BY <2>2
<1>3. ASSUME NEW k \in Nat, NEW g, Fold(g, k) PROVE \E h : Fold(h, k + 1)
  <2> DEFINE h == [s \in SUBSET (1..k + 1) |->
                      IF k + 1 \in s THEN With(g[s \ {k + 1}], k + 1) ELSE g[s]]
  <2>1. ASSUME NEW s \in SUBSET (1..k + 1) PROVE h[s] = Body(h, s)
    <3>1. CASE k + 1 \in s
      <4>1. Largest(s) = k + 1
        BY <3>1, LargestOf
      <4>2. s \ {k + 1} \in SUBSET (1..k + 1) /\ k + 1 \notin s \ {k + 1}
        OBVIOUS
      <4> HIDE DEF Largest
      <4> QED
        BY <3>1, <4>1, <4>2
    <3>2. CASE k + 1 \notin s
      <4>1. s \in SUBSET (1..k)
        BY <3>2
      <4>2. CASE s = {}
        BY <1>3, <3>2, <4>1, <4>2
      <4>3. CASE s # {}
        <5> DEFINE r == s \ {Largest(s)}
        <5>1. h[s] = With(g[r], Largest(s))
          BY <1>3, <3>2, <4>1, <4>3
        <5>2. r \in SUBSET (1..k + 1) /\ k + 1 \notin r
          BY <3>2
        <5> QED
          BY <4>3, <5>1, <5>2
      <4> QED
        BY <4>2, <4>3
    <3> QED
      BY <3>1, <3>2
  <2>2. h = [s \in SUBSET (1..k + 1) |-> Body(h, s)]
    BY <2>1
  <2> QED
    BY <2>2
<1>4. \E g : Fold(g, n)
  <2> DEFINE Defined == {k \in 0..n : \E g : Fold(g, k)}
  <2> HIDE DEF Fold
  <2>1. 0 \in Defined /\ \A k \in 0..n - 1 : k \in Defined => k + 1 \in Defined
    BY <1>2, <1>3
  <2>2. n \in Defined
    <3> HIDE DEF Defined
    <3>1. n \in 0..n /\ \A k \in 0..n : k \in Defined
      BY <2>1, Upward
    <3> QED
      BY <3>1
  <2> QED
    BY <2>2
<1> DEFINE iter == CHOOSE g : Fold(g, n)
           m == [i \in 0..n |-> iter[1..i]]
<1>5. \A s \in SUBSET (1..n) : iter[s] = Body(iter, s)
  <2>1. Fold(iter, n)
    BY <1>4
  <2> HIDE DEF iter
  <2> QED
    BY <2>1
<1>6. m[0] = l.cli
  <2>1. 1..0 = {} /\ {} \in SUBSET (1..n)
    OBVIOUS
  <2> HIDE DEF iter
  <2>2. m[0] = iter[1..0]
    OBVIOUS
  <2>3. iter[{}] = l.cli
    BY <1>5, <2>1
  <2> QED
    BY <2>1, <2>2, <2>3
<1>7. ASSUME NEW i \in 1..n PROVE m[i] = With(m[i - 1], i)
  <2>1. (1..i) \in SUBSET (1..n) /\ i \in 1..i /\ i - 1 \in 0..n /\ i \in 0..n
    OBVIOUS
  <2>2. (1..i) \ {i} = 1..(i - 1)
    OBVIOUS
  <2>3. Largest(1..i) = i
    <3>1. i - 1 \in Nat /\ 1..i \subseteq 1..(i - 1) + 1 /\ (i - 1) + 1 \in 1..i /\ (i - 1) + 1 = i
      OBVIOUS
    <3> QED
      BY ONLY <3>1, LargestOf
  <2> HIDE DEF iter, Largest
  <2>4. iter[1..i] = With(iter[1..i - 1], i)
    BY <1>5, <2>1, <2>2, <2>3
  <2> QED
    BY <2>1, <2>4
<1>8. MergeCyans(l) = m[n]
  BY <1>1
<1> HIDE DEF m
<1> QED
  BY <1>6, <1>7, <1>8 DEF With

(* A file replaces the one of its base name, or is the last. *)
Named(kept, f) ==
  IF f.base \in Bases(kept) THEN [i \in DOMAIN kept |-> IF kept[i].base = f.base THEN f ELSE kept[i]]
  ELSE Append(kept, f)

(* Dedupe takes the files one after the other, *)
LEMMA DedupedInOrder ==
  ASSUME NEW files, NEW n \in Nat, DOMAIN files = 1..n
  PROVE  \E m : /\ m[0] = <<>> /\ Dedupe(files) = m[n]
                /\ \A i \in 1..n : m[i] = Named(m[i - 1], files[i])
<1> DEFINE Largest(s) == CHOOSE x \in s : \A y \in s : x >= y
           With(o, x) == Named(o, files[x])
           Body(g, s) == IF s = {} THEN <<>> ELSE With(g[s \ {Largest(s)}], Largest(s))
           Fold(g, k) == g = [s \in SUBSET (1..k) |-> Body(g, s)]
<1>1. Dedupe(files) = (CHOOSE g : Fold(g, n))[1..n]
  BY DEF Dedupe, Named, S!FoldLeft, S!MapThenFoldSet, S!Max
<1> HIDE DEF With
<1>2. \E g : Fold(g, 0)
  <2> DEFINE g == [s \in {{}} |-> <<>>]
  <2>1. SUBSET (1..0) = {{}}
    OBVIOUS
  <2>2. Fold(g, 0)
    BY <2>1
  <2> QED
    BY <2>2
<1>3. ASSUME NEW k \in Nat, NEW g, Fold(g, k) PROVE \E h : Fold(h, k + 1)
  <2> DEFINE h == [s \in SUBSET (1..k + 1) |->
                      IF k + 1 \in s THEN With(g[s \ {k + 1}], k + 1) ELSE g[s]]
  <2>1. ASSUME NEW s \in SUBSET (1..k + 1) PROVE h[s] = Body(h, s)
    <3>1. CASE k + 1 \in s
      <4>1. Largest(s) = k + 1
        BY <3>1, LargestOf
      <4>2. s \ {k + 1} \in SUBSET (1..k + 1) /\ k + 1 \notin s \ {k + 1}
        OBVIOUS
      <4> HIDE DEF Largest
      <4> QED
        BY <3>1, <4>1, <4>2
    <3>2. CASE k + 1 \notin s
      <4>1. s \in SUBSET (1..k)
        BY <3>2
      <4>2. CASE s = {}
        BY <1>3, <3>2, <4>1, <4>2
      <4>3. CASE s # {}
        <5> DEFINE r == s \ {Largest(s)}
        <5>1. h[s] = With(g[r], Largest(s))
          BY <1>3, <3>2, <4>1, <4>3
        <5>2. r \in SUBSET (1..k + 1) /\ k + 1 \notin r
          BY <3>2
        <5> QED
          BY <4>3, <5>1, <5>2
      <4> QED
        BY <4>2, <4>3
    <3> QED
      BY <3>1, <3>2
  <2>2. h = [s \in SUBSET (1..k + 1) |-> Body(h, s)]
    BY <2>1
  <2> QED
    BY <2>2
<1>4. \E g : Fold(g, n)
  <2> DEFINE Defined == {k \in 0..n : \E g : Fold(g, k)}
  <2> HIDE DEF Fold
  <2>1. 0 \in Defined /\ \A k \in 0..n - 1 : k \in Defined => k + 1 \in Defined
    BY <1>2, <1>3
  <2>2. n \in Defined
    <3> HIDE DEF Defined
    <3>1. n \in 0..n /\ \A k \in 0..n : k \in Defined
      BY <2>1, Upward
    <3> QED
      BY <3>1
  <2> QED
    BY <2>2
<1> DEFINE iter == CHOOSE g : Fold(g, n)
           m == [i \in 0..n |-> iter[1..i]]
<1>5. \A s \in SUBSET (1..n) : iter[s] = Body(iter, s)
  <2>1. Fold(iter, n)
    BY <1>4
  <2> HIDE DEF iter
  <2> QED
    BY <2>1
<1>6. m[0] = <<>>
  <2>1. 1..0 = {} /\ {} \in SUBSET (1..n)
    OBVIOUS
  <2> HIDE DEF iter
  <2>2. m[0] = iter[1..0]
    OBVIOUS
  <2>3. iter[{}] = <<>>
    BY <1>5, <2>1
  <2> QED
    BY <2>1, <2>2, <2>3
<1>7. ASSUME NEW i \in 1..n PROVE m[i] = With(m[i - 1], i)
  <2>1. (1..i) \in SUBSET (1..n) /\ i \in 1..i /\ i - 1 \in 0..n /\ i \in 0..n
    OBVIOUS
  <2>2. (1..i) \ {i} = 1..(i - 1)
    OBVIOUS
  <2>3. Largest(1..i) = i
    <3>1. i - 1 \in Nat /\ 1..i \subseteq 1..(i - 1) + 1 /\ (i - 1) + 1 \in 1..i /\ (i - 1) + 1 = i
      OBVIOUS
    <3> QED
      BY ONLY <3>1, LargestOf
  <2> HIDE DEF iter, Largest
  <2>4. iter[1..i] = With(iter[1..i - 1], i)
    BY <1>5, <2>1, <2>2, <2>3
  <2> QED
    BY <2>1, <2>4
<1>8. Dedupe(files) = m[n]
  BY <1>1
<1> HIDE DEF m
<1> QED
  BY <1>6, <1>7, <1>8 DEF With

(* and the keys of the patches are set one patch after the other. *)
LEMMA PatchedInOrder ==
  ASSUME NEW patches, NEW n \in Nat, DOMAIN patches = 1..n
  PROVE  \E m : /\ m[0] = [k \in {} |-> ""] /\ PatchKeys(patches) = m[n]
                /\ \A i \in 1..n : m[i] = Put_(m[i - 1], PatchSets(patches[i]))
<1> DEFINE Largest(s) == CHOOSE x \in s : \A y \in s : x >= y
           With(o, x) == Put_(o, PatchSets(patches[x]))
           Body(g, s) == IF s = {} THEN [k \in {} |-> ""] ELSE With(g[s \ {Largest(s)}], Largest(s))
           Fold(g, k) == g = [s \in SUBSET (1..k) |-> Body(g, s)]
<1>1. PatchKeys(patches) = (CHOOSE g : Fold(g, n))[1..n]
  BY DEF PatchKeys, S!FoldLeft, S!MapThenFoldSet, S!Max
<1> HIDE DEF With
<1>2. \E g : Fold(g, 0)
  <2> DEFINE g == [s \in {{}} |-> [k \in {} |-> ""]]
  <2>1. SUBSET (1..0) = {{}}
    OBVIOUS
  <2>2. Fold(g, 0)
    BY <2>1
  <2> QED
    BY <2>2
<1>3. ASSUME NEW k \in Nat, NEW g, Fold(g, k) PROVE \E h : Fold(h, k + 1)
  <2> DEFINE h == [s \in SUBSET (1..k + 1) |->
                      IF k + 1 \in s THEN With(g[s \ {k + 1}], k + 1) ELSE g[s]]
  <2>1. ASSUME NEW s \in SUBSET (1..k + 1) PROVE h[s] = Body(h, s)
    <3>1. CASE k + 1 \in s
      <4>1. Largest(s) = k + 1
        BY <3>1, LargestOf
      <4>2. s \ {k + 1} \in SUBSET (1..k + 1) /\ k + 1 \notin s \ {k + 1}
        OBVIOUS
      <4> HIDE DEF Largest
      <4> QED
        BY <3>1, <4>1, <4>2
    <3>2. CASE k + 1 \notin s
      <4>1. s \in SUBSET (1..k)
        BY <3>2
      <4>2. CASE s = {}
        BY <1>3, <3>2, <4>1, <4>2
      <4>3. CASE s # {}
        <5> DEFINE r == s \ {Largest(s)}
        <5>1. h[s] = With(g[r], Largest(s))
          BY <1>3, <3>2, <4>1, <4>3
        <5>2. r \in SUBSET (1..k + 1) /\ k + 1 \notin r
          BY <3>2
        <5> QED
          BY <4>3, <5>1, <5>2
      <4> QED
        BY <4>2, <4>3
    <3> QED
      BY <3>1, <3>2
  <2>2. h = [s \in SUBSET (1..k + 1) |-> Body(h, s)]
    BY <2>1
  <2> QED
    BY <2>2
<1>4. \E g : Fold(g, n)
  <2> DEFINE Defined == {k \in 0..n : \E g : Fold(g, k)}
  <2> HIDE DEF Fold
  <2>1. 0 \in Defined /\ \A k \in 0..n - 1 : k \in Defined => k + 1 \in Defined
    BY <1>2, <1>3
  <2>2. n \in Defined
    <3> HIDE DEF Defined
    <3>1. n \in 0..n /\ \A k \in 0..n : k \in Defined
      BY <2>1, Upward
    <3> QED
      BY <3>1
  <2> QED
    BY <2>2
<1> DEFINE iter == CHOOSE g : Fold(g, n)
           m == [i \in 0..n |-> iter[1..i]]
<1>5. \A s \in SUBSET (1..n) : iter[s] = Body(iter, s)
  <2>1. Fold(iter, n)
    BY <1>4
  <2> HIDE DEF iter
  <2> QED
    BY <2>1
<1>6. m[0] = [k \in {} |-> ""]
  <2>1. 1..0 = {} /\ {} \in SUBSET (1..n)
    OBVIOUS
  <2> HIDE DEF iter
  <2>2. m[0] = iter[1..0]
    OBVIOUS
  <2>3. iter[{}] = [k \in {} |-> ""]
    BY <1>5, <2>1
  <2> QED
    BY <2>1, <2>2, <2>3
<1>7. ASSUME NEW i \in 1..n PROVE m[i] = With(m[i - 1], i)
  <2>1. (1..i) \in SUBSET (1..n) /\ i \in 1..i /\ i - 1 \in 0..n /\ i \in 0..n
    OBVIOUS
  <2>2. (1..i) \ {i} = 1..(i - 1)
    OBVIOUS
  <2>3. Largest(1..i) = i
    <3>1. i - 1 \in Nat /\ 1..i \subseteq 1..(i - 1) + 1 /\ (i - 1) + 1 \in 1..i /\ (i - 1) + 1 = i
      OBVIOUS
    <3> QED
      BY ONLY <3>1, LargestOf
  <2> HIDE DEF iter, Largest
  <2>4. iter[1..i] = With(iter[1..i - 1], i)
    BY <1>5, <2>1, <2>2, <2>3
  <2> QED
    BY <2>1, <2>4
<1>8. PatchKeys(patches) = m[n]
  BY <1>1
<1> HIDE DEF m
<1> QED
  BY <1>6, <1>7, <1>8 DEF With

(* The last file of each base name, among the first k of a list. *)
EndsTo(s, k) == {s[n] : n \in {n \in 1..k : \A m \in n + 1..k : s[m].base # s[n].base}}
Ends(s) == EndsTo(s, Len(s))

(* A list has positions, and each has an element. *)
LEMMA Positions ==
  ASSUME NEW s, IsList(s)
  PROVE  /\ Len(s) \in Nat /\ DOMAIN s = 1..Len(s)
         /\ \A i \in 1..Len(s) : s[i] \in Range_(s)
         /\ \A x \in Range_(s) : \E i \in 1..Len(s) : x = s[i]
  BY DEF IsList, Range_

(* One file more. *)
LEMMA OneNamed ==
  ASSUME NEW kept, IsList(kept), NEW f
  PROVE  /\ IsList(Named(kept, f))
         /\ Range_(Named(kept, f)) = {x \in Range_(kept) : x.base # f.base} \cup {f}
<1> DEFINE n == Len(kept)
           new == Named(kept, f)
<1>1. n \in Nat /\ DOMAIN kept = 1..n /\ kept \in Seq(Range_(kept))
  BY Positions DEF IsList
<1>2. CASE f.base \in Bases(kept)
  <2>1. new = [i \in 1..n |-> IF kept[i].base = f.base THEN f ELSE kept[i]]
    BY <1>1, <1>2 DEF Named
  <2> HIDE DEF n, new
  <2>2. new \in Seq(Range_(kept) \cup {f})
    BY <1>1, <2>1, Positions DEF n
  <2>3. \E i \in 1..n : kept[i].base = f.base
    BY <1>1, <1>2, Positions DEF Bases, Range_, n
  <2>4. Range_(new) = {x \in Range_(kept) : x.base # f.base} \cup {f}
    <3>1. DOMAIN new = 1..n
      BY <2>1
    <3> QED
      BY <1>1, <2>1, <2>3, <3>1 DEF Range_
  <2> QED
    BY <2>2, <2>4, OwnElements DEF new
<1>3. CASE f.base \notin Bases(kept)
  <2>1. new = Append(kept, f) /\ \A x \in Range_(kept) : x.base # f.base
    BY <1>3 DEF Named, Bases
  <2> HIDE DEF n, new
  <2>2. new \in Seq(Range_(kept) \cup {f}) /\ DOMAIN new = 1..n + 1 /\ new[n + 1] = f
        /\ \A i \in 1..n : new[i] = kept[i]
    BY <1>1, <2>1 DEF n
  <2>3. Range_(new) = Range_(kept) \cup {f}
    <3>1. n + 1 \in 1..n + 1 /\ \A i \in 1..n + 1 : i \in 1..n \/ i = n + 1
      BY <1>1
    <3> QED
      BY <1>1, <2>2, <3>1 DEF Range_
  <2> QED
    BY <2>1, <2>2, <2>3, OwnElements DEF new
<1> QED
  BY <1>2, <1>3

(* With one file more, those of its base name end no longer. *)
LEMMA OneMoreEnd ==
  ASSUME NEW s, NEW k \in Nat
  PROVE  EndsTo(s, k + 1) = {x \in EndsTo(s, k) : x.base # s[k + 1].base} \cup {s[k + 1]}
<1>1. \A n \in 1..k : n + 1..k + 1 = (n + 1..k) \cup {k + 1}
  OBVIOUS
<1>2. 1..k + 1 = (1..k) \cup {k + 1} /\ (k + 1) + 1..k + 1 = {}
  OBVIOUS
<1> QED
  BY <1>1, <1>2 DEF EndsTo

(* Dedupe keeps, of the files of one base name, the last (options.go       *)
(* 112-115, cyanfile.go 287-298).                                          *)
LEMMA DedupeKeepsEnds ==
  ASSUME NEW files, IsList(files)
  PROVE  IsList(Dedupe(files)) /\ Range_(Dedupe(files)) = Ends(files)
<1> DEFINE n == Len(files)
<1>1. n \in Nat /\ DOMAIN files = 1..n
  BY Positions
<1>2. PICK m : /\ m[0] = <<>> /\ Dedupe(files) = m[n]
               /\ \A i \in 1..n : m[i] = Named(m[i - 1], files[i])
  BY <1>1, DedupedInOrder
<1> DEFINE G == {k \in 0..n : IsList(m[k]) /\ Range_(m[k]) = EndsTo(files, k)}
<1> HIDE DEF n
<1>3. 0 \in G
  <2>1. IsList(<<>>) /\ Range_(<<>>) = {}
    BY DEF IsList, Range_
  <2>2. EndsTo(files, 0) = {} /\ 0 \in 0..n
    BY <1>1 DEF EndsTo
  <2> QED
    BY <1>2, <2>1, <2>2
<1>4. ASSUME NEW k \in 0..n - 1, k \in G PROVE k + 1 \in G
  <2>1. k + 1 \in 1..n /\ k + 1 \in 0..n /\ k \in Nat /\ (k + 1) - 1 = k
    BY <1>1
  <2> DEFINE kept == m[k]
             f == files[k + 1]
  <2>2. m[k + 1] = Named(kept, f)
    BY <1>2, <2>1
  <2>3. IsList(kept) /\ Range_(kept) = EndsTo(files, k)
    BY <1>4
  <2>4. EndsTo(files, k + 1) = {x \in EndsTo(files, k) : x.base # f.base} \cup {f}
    BY <2>1, OneMoreEnd
  <2> HIDE DEF kept, f
  <2>5. IsList(Named(kept, f)) /\ Range_(Named(kept, f)) = {x \in Range_(kept) : x.base # f.base} \cup {f}
    BY <2>3, OneNamed
  <2>6. IsList(m[k + 1]) /\ Range_(m[k + 1]) = EndsTo(files, k + 1)
    BY <2>2, <2>3, <2>4, <2>5
  <2> QED
    BY <2>1, <2>6
<1>5. n \in G
  <2> HIDE DEF G
  <2>1. n \in 0..n /\ \A k \in 0..n : k \in G
    BY <1>1, <1>3, <1>4, Upward
  <2> QED
    BY <2>1
<1> QED
  BY <1>2, <1>5 DEF Ends, n

(* One file ends a base name, *)
LEMMA OneEnd ==
  ASSUME NEW s, IsList(s), NEW f \in Ends(s), NEW g \in Ends(s), f.base = g.base
  PROVE  f = g
<1> DEFINE k == Len(s)
<1>1. k \in Nat
  BY Positions
<1> HIDE DEF k
<1>2. PICK i \in 1..k : f = s[i] /\ \A m \in i + 1..k : s[m].base # s[i].base
  BY DEF Ends, EndsTo, k
<1>3. PICK j \in 1..k : g = s[j] /\ \A m \in j + 1..k : s[m].base # s[j].base
  BY DEF Ends, EndsTo, k
<1>4. i = j
  <2>1. j \notin i + 1..k /\ i \notin j + 1..k
    BY <1>2, <1>3
  <2> QED
    BY <1>1, <2>1
<1> QED
  BY <1>2, <1>3, <1>4

(* and each base name has one that does. *)
LEMMA EachEnds ==
  ASSUME NEW s, IsList(s), NEW g \in Range_(s)
  PROVE  \E f \in Ends(s) : f.base = g.base
<1> DEFINE k == Len(s)
           X == {i \in 1..k : s[i].base = g.base}
<1>1. k \in Nat /\ X \subseteq 1..k /\ X # {}
  BY Positions
<1> HIDE DEF k
<1>2. PICK i \in X : \A j \in X : j <= i
  BY <1>1, LastPosition
<1>3. \A m \in i + 1..k : m \in 1..k /\ ~(m <= i)
  BY <1>1, <1>2
<1>4. \A m \in i + 1..k : s[m].base # s[i].base
  BY <1>2, <1>3
<1> QED
  BY <1>2, <1>4 DEF Ends, EndsTo, k

(* The files that end a base name are files, of all the base names. *)
LEMMA EndsAreFiles ==
  ASSUME NEW s, IsList(s)
  PROVE  Ends(s) \subseteq Range_(s) /\ {f.base : f \in Ends(s)} = Bases(s)
<1>1. Ends(s) \subseteq Range_(s)
  BY Positions DEF Ends, EndsTo
<1> QED
  BY <1>1, EachEnds DEF Bases

(* With no two files of one base name, all of them are the last. *)
LEMMA EndsOfDeduped ==
  ASSUME NEW files, IsList(files)
  PROVE  /\ Ends(Dedupe(files)) = Ends(files) /\ Bases(Dedupe(files)) = Bases(files)
<1> DEFINE d == Dedupe(files)
<1>1. IsList(d) /\ Range_(d) = Ends(files)
  BY DedupeKeepsEnds
<1> HIDE DEF d
<1>2. Ends(d) \subseteq Range_(d)
  BY <1>1, EndsAreFiles
<1>3. ASSUME NEW g \in Range_(d) PROVE g \in Ends(d)
  <2>1. PICK f \in Ends(d) : f.base = g.base
    BY <1>1, EachEnds
  <2>2. f = g
    BY <1>1, <1>2, <2>1, OneEnd
  <2> QED
    BY <2>1, <2>2
<1>4. Bases(d) = Bases(files)
  BY <1>1, EndsAreFiles DEF Bases
<1> QED
  BY <1>1, <1>2, <1>3, <1>4 DEF d

(* One list behind another. *)
LEMMA EndsOfBoth ==
  ASSUME NEW s, NEW t, IsList(s), IsList(t)
  PROVE  /\ Ends(s \o t) = Ends(t) \cup {f \in Ends(s) : f.base \notin Bases(t)}
         /\ Range_(s \o t) = Range_(s) \cup Range_(t)
<1> DEFINE a == Len(s)
           b == Len(t)
           u == s \o t
<1>1. /\ a \in Nat /\ b \in Nat /\ Len(u) = a + b /\ DOMAIN u = 1..a + b
      /\ \A i \in 1..a : u[i] = s[i]
      /\ \A i \in 1..b : u[a + i] = t[i]
  <2> DEFINE X == Range_(s) \cup Range_(t)
  <2>1. s \in Seq(X) /\ t \in Seq(X)
    BY DEF IsList
  <2> HIDE DEF X
  <2> QED
    BY <2>1
<1>2. DOMAIN s = 1..a /\ DOMAIN t = 1..b
  BY Positions
<1> HIDE DEF a, b, u
<1>3. \A i \in 1..a + b : i \in 1..a \/ \E j \in 1..b : i = a + j
  <2> SUFFICES ASSUME NEW i \in 1..a + b, i \notin 1..a PROVE i - a \in 1..b /\ i = a + (i - a)
    OBVIOUS
  <2> QED
    BY <1>1
<1>4. \A j \in 1..b : a + j \in 1..a + b /\ \A m \in Int : m \in (a + j) + 1..a + b <=> m - a \in j + 1..b
  BY <1>1
<1>5. Range_(u) = Range_(s) \cup Range_(t)
  <2>1. \A i \in 1..a : i \in 1..a + b
    BY <1>1
  <2>2. \A x \in Range_(u) : x \in Range_(s) \/ x \in Range_(t)
    <3> SUFFICES ASSUME NEW i \in 1..a + b PROVE u[i] \in Range_(s) \/ u[i] \in Range_(t)
      BY <1>1 DEF Range_
    <3>1. CASE i \in 1..a
      BY <1>1, <1>2, <3>1 DEF Range_
    <3>2. ASSUME NEW j \in 1..b, i = a + j PROVE u[i] \in Range_(t)
      BY <1>1, <1>2, <3>2 DEF Range_
    <3> QED
      BY <1>3, <3>1, <3>2
  <2>3. \A x \in Range_(s) : x \in Range_(u)
    BY <1>1, <1>2, <2>1 DEF Range_
  <2>4. \A x \in Range_(t) : x \in Range_(u)
    <3>1. \A j \in 1..b : a + j \in DOMAIN u /\ t[j] = u[a + j]
      BY <1>1, <1>4
    <3> QED
      BY <1>2, <3>1 DEF Range_
  <2> QED
    BY <2>2, <2>3, <2>4
<1> DEFINE Last(w, n, i) == \A m \in i + 1..n : w[m].base # w[i].base
<1>6. ASSUME NEW j \in 1..b PROVE Last(u, a + b, a + j) <=> Last(t, b, j)
  <2>1. \A m \in j + 1..b : m \in 1..b /\ a + m \in (a + j) + 1..a + b
    BY <1>1
  <2>2. \A m \in (a + j) + 1..a + b : m - a \in j + 1..b /\ m - a \in 1..b /\ m = a + (m - a)
    BY <1>1
  <2>3. ASSUME Last(t, b, j), NEW m \in (a + j) + 1..a + b PROVE u[m].base # u[a + j].base
    <3>1. m - a \in j + 1..b /\ m - a \in 1..b /\ m = a + (m - a)
      BY <2>2
    <3>2. t[m - a].base # t[j].base
      BY <2>3, <3>1
    <3>3. u[m] = t[m - a] /\ u[a + j] = t[j]
      BY <1>1, <3>1
    <3> QED
      BY <3>2, <3>3
  <2>4. ASSUME Last(u, a + b, a + j), NEW m \in j + 1..b PROVE t[m].base # t[j].base
    <3>1. m \in 1..b /\ a + m \in (a + j) + 1..a + b
      BY <2>1
    <3>2. u[a + m].base # u[a + j].base
      BY <2>4, <3>1
    <3>3. u[a + m] = t[m] /\ u[a + j] = t[j]
      BY <1>1, <3>1
    <3> QED
      BY <3>2, <3>3
  <2> QED
    BY <2>3, <2>4
<1>7. ASSUME NEW i \in 1..a
      PROVE  Last(u, a + b, i) <=> Last(s, a, i) /\ s[i].base \notin Bases(t)
  <2>1. \A m \in i + 1..a + b : m \in i + 1..a \/ \E j \in 1..b : m = a + j
    BY <1>1, <1>3
  <2>2. /\ \A m \in i + 1..a : m \in i + 1..a + b /\ m \in 1..a
        /\ \A j \in 1..b : a + j \in i + 1..a + b
    BY <1>1
  <2>3. s[i].base \notin Bases(t) <=> \A j \in 1..b : t[j].base # s[i].base
    BY <1>2 DEF Bases, Range_
  <2>4. u[i] = s[i]
    BY <1>1
  <2>5. ASSUME Last(u, a + b, i) PROVE Last(s, a, i) /\ s[i].base \notin Bases(t)
    <3>1. \A m \in i + 1..a : s[m].base # s[i].base
      <4> TAKE m \in i + 1..a
      <4>1. m \in i + 1..a + b /\ m \in 1..a
        BY <2>2
      <4>2. u[m].base # u[i].base /\ u[m] = s[m]
        BY <1>1, <2>5, <4>1
      <4> QED
        BY <2>4, <4>2
    <3>2. \A j \in 1..b : t[j].base # s[i].base
      <4> TAKE j \in 1..b
      <4>1. a + j \in i + 1..a + b
        BY <2>2
      <4>2. u[a + j].base # u[i].base /\ u[a + j] = t[j]
        BY <1>1, <2>5, <4>1
      <4> QED
        BY <2>4, <4>2
    <3> QED
      BY <2>3, <3>1, <3>2
  <2>6. ASSUME Last(s, a, i), s[i].base \notin Bases(t), NEW m \in i + 1..a + b
        PROVE  u[m].base # u[i].base
    <3>1. CASE m \in i + 1..a
      <4>1. s[m].base # s[i].base
        BY <2>6, <3>1
      <4>2. u[m] = s[m]
        BY <1>1, <2>2, <3>1
      <4> QED
        BY <2>4, <4>1, <4>2
    <3>2. ASSUME NEW j \in 1..b, m = a + j PROVE u[m].base # u[i].base
      <4>1. t[j].base # s[i].base /\ u[m] = t[j]
        BY <1>1, <2>3, <2>6, <3>2
      <4> QED
        BY <2>4, <4>1
    <3> QED
      BY <2>1, <3>1, <3>2
  <2> QED
    BY <2>5, <2>6
<1> HIDE DEF Last
<1>8. /\ Ends(u) = {u[i] : i \in {i \in 1..a + b : Last(u, a + b, i)}}
      /\ Ends(s) = {s[i] : i \in {i \in 1..a : Last(s, a, i)}}
      /\ Ends(t) = {t[i] : i \in {i \in 1..b : Last(t, b, i)}}
  BY <1>1 DEF Ends, EndsTo, Last, a, b
<1>9. Ends(u) \subseteq Ends(t) \cup {f \in Ends(s) : f.base \notin Bases(t)}
  <2> SUFFICES ASSUME NEW i \in 1..a + b, Last(u, a + b, i)
               PROVE  u[i] \in Ends(t) \cup {f \in Ends(s) : f.base \notin Bases(t)}
    BY <1>8
  <2>1. CASE i \in 1..a
    BY <1>1, <1>7, <1>8, <2>1
  <2>2. ASSUME NEW j \in 1..b, i = a + j PROVE u[i] \in Ends(t)
    BY <1>1, <1>6, <1>8, <2>2
  <2> QED
    BY <1>3, <2>1, <2>2
<1>10. Ends(t) \subseteq Ends(u)
  <2> SUFFICES ASSUME NEW j \in 1..b, Last(t, b, j) PROVE t[j] \in Ends(u)
    BY <1>8
  <2>1. a + j \in 1..a + b /\ Last(u, a + b, a + j) /\ u[a + j] = t[j]
    BY <1>1, <1>4, <1>6
  <2> QED
    BY <1>8, <2>1
<1>11. \A f \in Ends(s) : f.base \notin Bases(t) => f \in Ends(u)
  <2>1. \A i \in 1..a : i \in 1..a + b
    BY <1>1
  <2> QED
    BY <1>1, <1>7, <1>8, <2>1
<1> QED
  BY <1>5, <1>9, <1>10, <1>11 DEF u

(* What files are and hold, wherever they lie. *)
Content(F) == {<<f.base, f.items>> : f \in F}

(* Unpacking a payload moves its files and nothing else. *)
LEMMA PayloadContent ==
  ASSUME NEW r, IsList(r.payload),
         \A f \in Range_(r.payload) : DOMAIN f = {"base", "dir", "deb", "items"}
  PROVE  /\ IsList(Payload(r)) /\ Bases(Payload(r)) = Bases(r.payload)
         /\ Content(Ends(Payload(r))) = Content(Ends(r.payload))
<1> DEFINE s == r.payload
           t == Payload(r)
           n == Len(s)
           Moved(f) == [f EXCEPT !.dir = <<"tmp", "xkvm", "cyan", "inject">>]
<1>1. n \in Nat /\ DOMAIN s = 1..n /\ \A i \in 1..n : DOMAIN s[i] = {"base", "dir", "deb", "items"}
  BY Positions
<1>2. \A i \in 1..n : Moved(s[i]).base = s[i].base /\ Moved(s[i]).items = s[i].items
  BY <1>1
<1>3. t = [i \in 1..n |-> Moved(s[i])]
  BY <1>1 DEF Payload
<1> HIDE DEF Moved, s, t, n
<1>4. /\ DOMAIN t = 1..n /\ Len(t) = n /\ IsList(t)
      /\ \A i \in 1..n : t[i].base = s[i].base /\ t[i].items = s[i].items
  <2>1. \A i \in 1..n : t[i] \in Range_(t)
    BY <1>3 DEF Range_
  <2>2. t \in Seq(Range_(t))
    BY <1>1, <1>3, <2>1
  <2> QED
    BY <1>1, <1>2, <1>3, <2>2 DEF IsList
<1>5. Bases(t) = Bases(s)
  BY <1>1, <1>4 DEF Bases, Range_
<1> DEFINE Last(w, i) == \A m \in i + 1..n : w[m].base # w[i].base
<1>6. \A i \in 1..n : Last(t, i) <=> Last(s, i)
  <2>1. \A i \in 1..n : \A m \in i + 1..n : m \in 1..n
    BY <1>1
  <2> QED
    BY <1>4, <2>1
<1> HIDE DEF Last
<1>7. /\ Ends(s) = {s[i] : i \in {i \in 1..n : Last(s, i)}}
      /\ Ends(t) = {t[i] : i \in {i \in 1..n : Last(t, i)}}
  BY <1>4 DEF Ends, EndsTo, Last, n
<1>8. Content(Ends(t)) = Content(Ends(s))
  BY <1>4, <1>6, <1>7 DEF Content
<1> QED
  BY <1>4, <1>5, <1>8 DEF s, t

RecipeOk(r) ==
  OptionsOk(r.opts) /\ (r.by = "cgen" => \A k \in Scalars \ {"name"} : r.opts[k] = Unset)

(* What a recipe brings is what it was written with, but for the places of *)
(* its files and the ones cgen leaves out.                                 *)
LEMMA RecipeBrings ==
  ASSUME NEW r, RecipeOk(r)
  PROVE  LET p == Parse(Archive(r)) o == r.opts IN
         /\ IsList(p.files) /\ Bases(p.files) = Bases(o.files)
         /\ Content(Ends(p.files)) = Content(Ends(o.files))
         /\ p.ellekit = o.ellekit /\ p.patches = o.patches /\ IsList(o.patches)
         /\ \A k \in Scalars : p[k] = o[k]
<1> DEFINE o == r.opts
           a == Archive(r)
           p == Parse(a)
<1>1. /\ DOMAIN o = Scalars \cup Switches \cup Several \cup {"roots", "fix"}
      /\ IsList(o.files) /\ IsList(o.patches)
      /\ \A f \in Range_(o.files) : DOMAIN f = {"base", "dir", "deb", "items"}
  BY DEF RecipeOk, OptionsOk, Options, Several, FileOk
<1> HIDE DEF o
<1>2. /\ IsList(a.payload) /\ Bases(a.payload) = Bases(o.files) /\ Ends(a.payload) = Ends(o.files)
      /\ \A f \in Range_(a.payload) : DOMAIN f = {"base", "dir", "deb", "items"}
  <2>1. a.payload = Dedupe(o.files) \/ a.payload = o.files
    BY DEF Archive, Generate, Written, o
  <2>2. Range_(Dedupe(o.files)) \subseteq Range_(o.files)
    BY <1>1, DedupeKeepsEnds, EndsAreFiles
  <2> HIDE DEF a
  <2> QED
    BY <1>1, <2>1, <2>2, DedupeKeepsEnds, EndsOfDeduped
<1>3. /\ DOMAIN a.opts = DOMAIN o /\ a.opts.ellekit = o.ellekit /\ a.opts.patches = o.patches
      /\ \A k \in Scalars : a.opts[k] = o[k]
  <2>1. CASE r.by = "cgen"
    <3>1. a.opts = [k \in Scalars \cup Switches \cup Several \cup {"roots", "fix"} |->
                      IF k \in {"name", "fakesign", "ellekit", "patches"} THEN o[k] ELSE Options[k]]
      BY <2>1 DEF Archive, Generate, Options, o
    <3>2. \A k \in Scalars \ {"name"} : o[k] = Unset /\ Options[k] = Unset
                                         /\ k \notin {"name", "fakesign", "ellekit", "patches"}
      BY <2>1 DEF RecipeOk, Options, o, Scalars
    <3>3. "ellekit" \in Switches /\ "patches" \in Several
      BY DEF Switches, Several
    <3> HIDE DEF a
    <3> QED
      BY <1>1, <3>1, <3>2, <3>3
  <2>2. CASE r.by # "cgen"
    <3>1. a.opts = [o EXCEPT !.files = <<>>, !.roots = {}]
      BY <2>2 DEF Archive, Written, o
    <3>2. "ellekit" \in Switches /\ "patches" \in Several /\ "files" \notin Scalars /\ "roots" \notin Scalars
      BY DEF Switches, Several, Scalars
    <3> HIDE DEF a
    <3> QED
      BY <1>1, <3>1, <3>2
  <2> QED
    BY <2>1, <2>2
<1>4. /\ p.files = Payload(a) /\ p.ellekit = a.opts.ellekit /\ p.patches = a.opts.patches
      /\ \A k \in Scalars : p[k] = a.opts[k]
  <2>1. p = [a.opts EXCEPT !.files = Payload(a), !.roots = {f \in Range_(Payload(a)) : f.base \in a.roots}]
    BY DEF Parse
  <2>2. "files" \notin Scalars /\ "roots" \notin Scalars /\ "files" \in Several
        /\ "ellekit" \in Switches /\ "patches" \in Several
    BY DEF Scalars, Several, Switches
  <2> HIDE DEF a, p
  <2> QED
    BY <1>1, <1>3, <2>1, <2>2
<1>5. /\ IsList(Payload(a)) /\ Bases(Payload(a)) = Bases(o.files)
      /\ Content(Ends(Payload(a))) = Content(Ends(o.files))
  BY <1>2, PayloadContent
<1> QED
  BY <1>1, <1>3, <1>4, <1>5 DEF o
-----------------------------------------------------------------------------

(* The winners among the first k sources; and the last of these to give an *)
(* option.                                                                 *)
WinnersTo(k) ==
  UNION {{f \in Ends(Sources[i].files) : \A j \in i + 1..k : f.base \notin Bases(Sources[j].files)} :
            i \in 1..k}
LastGiven(key, k, v) ==
  \/ v = Unset /\ \A i \in 1..k : Sources[i][key] = Unset
  \/ /\ v # Unset
     /\ \E i \in 1..k : v = Sources[i][key] /\ \A j \in i + 1..k : Sources[j][key] = Unset

GivenTo(k) == UNION {Range_(Sources[i].patches) : i \in 1..k}

(* The options o are what the first k sources ask for. *)
MergedTo(o, k) ==
  /\ DOMAIN o = DOMAIN Options /\ o.fix = line.cli.fix
  /\ IsList(o.files) /\ Content(Ends(o.files)) = Content(WinnersTo(k))
  /\ \A key \in Scalars : LastGiven(key, k, o[key])
  /\ o.ellekit <=> \E i \in 1..k : Sources[i].ellekit
  /\ IsList(o.patches) /\ Range_(o.patches) = GivenTo(k)

(* The sources are the command line and then the recipes. *)
LEMMA SourceOptions ==
  ASSUME LineOk(line)
  PROVE  LET n == Len(line.recipes) IN
         /\ n \in Nat /\ DOMAIN line.recipes = 1..n /\ Len(Sources) = n + 1 /\ DOMAIN Sources = 1..n + 1
         /\ Sources[1] = line.cli
         /\ \A i \in 1..n : Sources[i + 1] = line.recipes[i].opts /\ RecipeOk(line.recipes[i])
<1> DEFINE n == Len(line.recipes)
           rest == [i \in 1..n |-> line.recipes[i].opts]
<1>1. n \in Nat /\ DOMAIN line.recipes = 1..n /\ \A i \in 1..n : RecipeOk(line.recipes[i])
  BY Positions DEF LineOk, RecipeOk
<1>2. Sources = <<line.cli>> \o rest
  BY <1>1 DEF Sources
<1> DEFINE X == {line.cli} \cup {line.recipes[i].opts : i \in 1..n}
<1>3. <<line.cli>> \in Seq(X) /\ rest \in Seq(X) /\ Len(rest) = n
  BY <1>1
<1> HIDE DEF X, n
<1>4. \A i \in 1..n : rest[i] = line.recipes[i].opts
  OBVIOUS
<1> HIDE DEF rest
<1>5. /\ Len(Sources) = n + 1 /\ DOMAIN Sources = 1..n + 1 /\ Sources[1] = line.cli
      /\ \A i \in 1..n : Sources[i + 1] = rest[i]
  BY <1>1, <1>2, <1>3
<1> QED
  BY <1>1, <1>4, <1>5 DEF n

(* One more source. *)
LEMMA OneMoreWinner ==
  ASSUME NEW k \in Nat
  PROVE  WinnersTo(k + 1) = Ends(Sources[k + 1].files)
            \cup {f \in WinnersTo(k) : f.base \notin Bases(Sources[k + 1].files)}
<1>1. 1..k + 1 = (1..k) \cup {k + 1} /\ (k + 1) + 1..k + 1 = {}
  OBVIOUS
<1>2. \A i \in 1..k : i + 1..k + 1 = (i + 1..k) \cup {k + 1}
  OBVIOUS
<1> DEFINE Of(i, m) == {f \in Ends(Sources[i].files) : \A j \in i + 1..m : f.base \notin Bases(Sources[j].files)}
<1>3. \A i \in 1..k : Of(i, k + 1) = {f \in Of(i, k) : f.base \notin Bases(Sources[k + 1].files)}
  BY <1>2
<1>4. Of(k + 1, k + 1) = Ends(Sources[k + 1].files)
  BY <1>1
<1>5. \A m \in {k, k + 1} : WinnersTo(m) = UNION {Of(i, m) : i \in 1..m}
  BY DEF WinnersTo
<1> HIDE DEF Of
<1> QED
  BY <1>1, <1>3, <1>4, <1>5

(* A source that gives an option gives it last. *)
LEMMA OneMoreGiven ==
  ASSUME NEW k \in Nat, NEW key, NEW v, LastGiven(key, k, v), NEW w, w = Sources[k + 1][key]
  PROVE  LastGiven(key, k + 1, IF w = Unset THEN v ELSE w)
<1>1. 1..k + 1 = (1..k) \cup {k + 1} /\ (k + 1) + 1..k + 1 = {}
  OBVIOUS
<1>2. \A i \in 1..k : i + 1..k + 1 = (i + 1..k) \cup {k + 1}
  OBVIOUS
<1>3. CASE w # Unset
  <2>1. k + 1 \in 1..k + 1 /\ \A j \in (k + 1) + 1..k + 1 : Sources[j][key] = Unset
    BY <1>1
  <2> QED
    BY <1>3, <2>1 DEF LastGiven
<1>4. CASE w = Unset
  BY <1>1, <1>2, <1>4 DEF LastGiven
<1> QED
  BY <1>3, <1>4

(* The files whose base names are not among B. *)
NotOf(F, B) == {f \in F : f.base \notin B}

(* Files of the same content, chosen by base name, are of the same content. *)
LEMMA ContentOfChosen ==
  ASSUME NEW E, NEW F, NEW B, Content(E) = Content(F)
  PROVE  Content(NotOf(E, B)) = Content(NotOf(F, B))
<1>1. \A A : Content(NotOf(A, B)) = {c \in Content(A) : c[1] \notin B}
  BY DEF Content, NotOf
<1> QED
  BY <1>1

(* Merge, as mergeCyans applies it to one more recipe. *)
LEMMA OneMoreMerged ==
  ASSUME NEW k \in Nat, NEW o, MergedTo(o, k), NEW r, RecipeOk(r), Sources[k + 1] = r.opts
  PROVE  MergedTo(Merge(o, Parse(Archive(r))), k + 1)
<1> DEFINE p == Parse(Archive(r))
           q == Merge(o, p)
           s == r.opts
<1>1. /\ IsList(p.files) /\ Bases(p.files) = Bases(s.files)
      /\ Content(Ends(p.files)) = Content(Ends(s.files))
      /\ p.ellekit = s.ellekit /\ p.patches = s.patches /\ IsList(p.patches)
      /\ \A key \in Scalars : p[key] = s[key]
  BY RecipeBrings
<1> HIDE DEF p, s
<1>2. /\ DOMAIN q = DOMAIN o /\ q.files = o.files \o p.files /\ q.patches = o.patches \o p.patches
      /\ q.ellekit = (o.ellekit \/ p.ellekit) /\ q.fix = o.fix
      /\ \A key \in Scalars : q[key] = IF p[key] = Unset THEN o[key] ELSE p[key]
  <2>1. DOMAIN o = Scalars \cup Switches \cup Several \cup {"roots", "fix"}
    BY DEF MergedTo, Options
  <2>2. /\ {"files", "patches"} \subseteq Several /\ "ellekit" \in Switches
        /\ "ellekit" \notin Scalars /\ "fix" \notin Scalars \cup Switches \cup Several
        /\ {"files", "patches"} \cap (Scalars \cup Switches) = {}
    BY DEF Several, Switches, Scalars
  <2> QED
    BY <2>1, <2>2 DEF Merge
<1> HIDE DEF q
<1>3. IsList(q.files) /\ Content(Ends(q.files)) = Content(WinnersTo(k + 1))
  <2>1. IsList(q.files)
    BY <1>1, <1>2, ListAfterList DEF MergedTo
  <2> DEFINE B == Bases(s.files)
             old == {f \in Ends(o.files) : f.base \notin B}
             kept == {f \in WinnersTo(k) : f.base \notin B}
  <2>2. Ends(q.files) = Ends(p.files) \cup old
    BY <1>1, <1>2, EndsOfBoth DEF MergedTo
  <2>3. WinnersTo(k + 1) = Ends(s.files) \cup kept
    BY OneMoreWinner DEF s
  <2>4. Content(old) = Content(kept)
    <3> DEFINE E == Ends(o.files)
               F == WinnersTo(k)
    <3>1. Content(E) = Content(F)
      BY DEF MergedTo
    <3> HIDE DEF E, F, B
    <3>2. Content(NotOf(E, B)) = Content(NotOf(F, B))
      BY <3>1, ContentOfChosen
    <3>3. old = NotOf(E, B) /\ kept = NotOf(F, B)
      BY DEF NotOf, E, F
    <3> QED
      BY <3>2, <3>3
  <2> HIDE DEF old, kept, B
  <2>5. /\ Content(Ends(p.files) \cup old) = Content(Ends(p.files)) \cup Content(old)
        /\ Content(Ends(s.files) \cup kept) = Content(Ends(s.files)) \cup Content(kept)
    BY DEF Content
  <2>6. Content(Ends(q.files)) = Content(WinnersTo(k + 1))
    BY <1>1, <2>2, <2>3, <2>4, <2>5
  <2> QED
    BY <2>1, <2>6
<1>4. ASSUME NEW key \in Scalars PROVE LastGiven(key, k + 1, q[key])
  <2>1. LastGiven(key, k, o[key]) /\ s[key] = Sources[k + 1][key]
    BY DEF MergedTo, s
  <2>2. LastGiven(key, k + 1, IF s[key] = Unset THEN o[key] ELSE s[key])
    BY <2>1, OneMoreGiven
  <2> QED
    BY <1>1, <1>2, <2>2
<1>5. 1..k + 1 = (1..k) \cup {k + 1}
  OBVIOUS
<1>6. q.ellekit <=> \E i \in 1..k + 1 : Sources[i].ellekit
  BY <1>1, <1>2, <1>5 DEF MergedTo, s
<1>7. IsList(q.patches) /\ Range_(q.patches) = GivenTo(k + 1)
  <2>1. IsList(q.patches) /\ Range_(q.patches) = Range_(o.patches) \cup Range_(p.patches)
    BY <1>1, <1>2, ListAfterList, EndsOfBoth DEF MergedTo
  <2>2. Range_(o.patches) = GivenTo(k) /\ Range_(p.patches) = Range_(Sources[k + 1].patches)
    BY <1>1 DEF MergedTo, s
  <2>3. GivenTo(k + 1) = GivenTo(k) \cup Range_(Sources[k + 1].patches)
    BY <1>5 DEF GivenTo
  <2> QED
    BY <2>1, <2>2, <2>3
<1> QED
  BY <1>2, <1>3, <1>4, <1>6, <1>7 DEF MergedTo, q, p

(* The command line alone. *)
LEMMA FirstMerged ==
  ASSUME LineOk(line)
  PROVE  MergedTo(line.cli, 1)
<1>1. 1..1 = {1} /\ 1 + 1..1 = {} /\ Sources[1] = line.cli
  BY SourceOptions
<1>2. WinnersTo(1) = Ends(line.cli.files)
  BY <1>1 DEF WinnersTo
<1>3. \A key \in Scalars : LastGiven(key, 1, line.cli[key])
  BY <1>1 DEF LastGiven
<1>4. OptionsOk(line.cli) /\ {"files", "patches"} \subseteq Several
  BY DEF LineOk, Several
<1> QED
  BY <1>1, <1>2, <1>3, <1>4 DEF MergedTo, GivenTo, OptionsOk

(* All recipes are merged. *)
LEMMA AllMerged ==
  ASSUME LineOk(line)
  PROVE  MergedTo(MergeCyans(line), Len(Sources))
<1> DEFINE n == Len(line.recipes)
<1>1. /\ n \in Nat /\ DOMAIN line.recipes = 1..n /\ Len(Sources) = n + 1 /\ Sources[1] = line.cli
      /\ \A i \in 1..n : Sources[i + 1] = line.recipes[i].opts /\ RecipeOk(line.recipes[i])
  BY SourceOptions
<1>2. PICK m : /\ m[0] = line.cli /\ MergeCyans(line) = m[n]
               /\ \A i \in 1..n : m[i] = Merge(m[i - 1], Parse(Archive(line.recipes[i])))
  BY <1>1, MergedInOrder
<1> HIDE DEF n
<1>3. MergedTo(line.cli, 1)
  BY FirstMerged
<1> DEFINE G == {k \in 0..n : MergedTo(m[k], k + 1)}
<1>4. 0 \in G
  BY <1>1, <1>2, <1>3
<1>5. ASSUME NEW k \in 0..n - 1, k \in G PROVE k + 1 \in G
  <2>1. k + 1 \in 1..n /\ k + 1 \in 0..n /\ k + 1 \in Nat /\ (k + 1) - 1 = k
    BY <1>1
  <2>2. m[k + 1] = Merge(m[k], Parse(Archive(line.recipes[k + 1]))) /\ MergedTo(m[k], k + 1)
    BY <1>2, <1>5, <2>1
  <2>3. Sources[(k + 1) + 1] = line.recipes[k + 1].opts /\ RecipeOk(line.recipes[k + 1])
    BY <1>1, <2>1
  <2>4. MergedTo(Merge(m[k], Parse(Archive(line.recipes[k + 1]))), (k + 1) + 1)
    BY <2>1, <2>2, <2>3, OneMoreMerged
  <2> QED
    BY <2>1, <2>2, <2>4
<1>6. n \in 0..n /\ n \in G
  <2> HIDE DEF G
  <2>1. \A k \in 0..n - 1 : k \in G => k + 1 \in G
    BY <1>5
  <2>2. n \in Nat
    BY <1>1
  <2>3. \A k \in 0..n : k \in G
    BY ONLY <1>4, <2>1, <2>2, Upward
  <2> QED
    BY <2>2, <2>3
<1> QED
  BY <1>1, <1>2, <1>6

(* What the last of the sources gives is what was asked for. *)
LEMMA AskedIsLast ==
  ASSUME NEW key, NEW n \in Nat, Len(Sources) = n, DOMAIN Sources = 1..n, NEW v, LastGiven(key, n, v)
  PROVE  v = Asked(key)
<1> DEFINE by == {i \in 1..n : Sources[i][key] # Unset}
<1>1. Asked(key) = IF by = {} THEN Unset ELSE Sources[CHOOSE i \in by : \A j \in by : j <= i][key]
  BY DEF Asked
<1>2. CASE v = Unset /\ \A i \in 1..n : Sources[i][key] = Unset
  BY <1>1, <1>2
<1>3. ASSUME v # Unset, NEW i \in 1..n, v = Sources[i][key], \A j \in i + 1..n : Sources[j][key] = Unset
      PROVE  v = Asked(key)
  <2> DEFINE last == CHOOSE x \in by : \A j \in by : j <= x
  <2>1. \A j \in 1..n : j <= i \/ j \in i + 1..n
    OBVIOUS
  <2>2. i \in by /\ \A j \in by : j <= i
    BY <1>3, <2>1
  <2>3. last \in by /\ \A j \in by : j <= last
    BY <2>2
  <2>4. last = i
    <3>1. last \in 1..n /\ i <= last /\ last <= i
      BY <2>2, <2>3
    <3> HIDE DEF last
    <3> QED
      BY <3>1
  <2>5. by # {}
    BY <2>2
  <2> HIDE DEF last, by
  <2> QED
    BY <1>1, <1>3, <2>4, <2>5 DEF last
<1> QED
  BY <1>2, <1>3 DEF LastGiven

(* The winners of all sources are the property's. *)
LEMMA WinnersAreLast ==
  ASSUME NEW n \in Nat, Len(Sources) = n, DOMAIN Sources = 1..n,
         \A i \in 1..n : IsList(Sources[i].files)
  PROVE  Winners = WinnersTo(n)
<1> DEFINE E(i) == {f \in Ends(Sources[i].files) : \A j \in i + 1..n : f.base \notin Bases(Sources[j].files)}
           Of(i) == {f \in Given("files") :
                        \E k \in DOMAIN Sources[i].files :
                           /\ f = Sources[i].files[k]
                           /\ \A m \in k + 1..Len(Sources[i].files) : Sources[i].files[m].base # f.base
                           /\ \A j \in i + 1..n : f.base \notin Bases(Sources[j].files)}
<1>1. ASSUME NEW i \in 1..n PROVE Of(i) = E(i)
  <2> DEFINE s == Sources[i].files
             k == Len(s)
  <2>1. k \in Nat /\ DOMAIN s = 1..k /\ Range_(s) \subseteq Given("files")
    BY Positions DEF Given
  <2>2. Ends(s) = {s[x] : x \in {x \in 1..k : \A m \in x + 1..k : s[m].base # s[x].base}}
    BY DEF Ends, EndsTo
  <2>3. \A x \in 1..k : s[x] \in Given("files")
    BY <2>1, Positions
  <2>4. \A f : f \in Of(i) <=> /\ \E x \in 1..k : f = s[x] /\ \A m \in x + 1..k : s[m].base # s[x].base
                               /\ \A j \in i + 1..n : f.base \notin Bases(Sources[j].files)
    BY <2>1, <2>3
  <2> HIDE DEF s, k, Of
  <2>5. \A f : f \in E(i) <=> /\ \E x \in 1..k : f = s[x] /\ \A m \in x + 1..k : s[m].base # s[x].base
                              /\ \A j \in i + 1..n : f.base \notin Bases(Sources[j].files)
    BY <2>2 DEF s
  <2> HIDE DEF E
  <2> QED
    BY <2>4, <2>5
<1>2. Winners = {f \in Given("files") : \E i \in 1..n : f \in Of(i)}
  BY DEF Winners
<1>3. \A i \in 1..n : Of(i) \subseteq Given("files")
  OBVIOUS
<1>4. WinnersTo(n) = UNION {E(i) : i \in 1..n}
  BY DEF WinnersTo
<1> HIDE DEF Of, E
<1> QED
  BY <1>1, <1>2, <1>3, <1>4

(* The patches that may be asked for together agree on every key. *)
LEMMA PatchesAgree ==
  ASSUME NEW P, P \subseteq KnownPatches, ~{"liquid-glass", "liquid-glass-compat"} \subseteq P
  PROVE  /\ \A p \in P : DOMAIN PatchSets(p) \subseteq {"fullscreen", "compat"}
         /\ \A p, q \in P : \A k \in DOMAIN PatchSets(p) \cap DOMAIN PatchSets(q) :
               PatchSets(p)[k] = PatchSets(q)[k]
<1>1. \A p \in KnownPatches : PatchSets(p) = IF p = "force-fullscreen" THEN [fullscreen |-> "yes"]
                                            ELSE IF p = "liquid-glass" THEN [compat |-> "no"]
                                            ELSE [compat |-> "yes"]
  BY DEF PatchSets
<1> QED
  BY <1>1 DEF KnownPatches

(* So each finds its keys set as it sets them. *)
LEMMA PatchesStay ==
  ASSUME NEW patches, IsList(patches), Range_(patches) \subseteq KnownPatches,
         ~{"liquid-glass", "liquid-glass-compat"} \subseteq Range_(patches)
  PROVE  /\ DOMAIN PatchKeys(patches) \subseteq {"fullscreen", "compat"}
         /\ \A p \in Range_(patches) : \A k \in DOMAIN PatchSets(p) :
               k \in DOMAIN PatchKeys(patches) /\ PatchKeys(patches)[k] = PatchSets(p)[k]
<1> DEFINE n == Len(patches)
           Keeps(d, k) == /\ DOMAIN d \subseteq {"fullscreen", "compat"}
                          /\ \A i \in 1..k : \A x \in DOMAIN PatchSets(patches[i]) :
                                x \in DOMAIN d /\ d[x] = PatchSets(patches[i])[x]
<1>1. n \in Nat /\ DOMAIN patches = 1..n /\ (\A i \in 1..n : patches[i] \in Range_(patches))
      /\ \A p \in Range_(patches) : \E i \in 1..n : p = patches[i]
  BY Positions
<1>2. PICK m : /\ m[0] = [k \in {} |-> ""] /\ PatchKeys(patches) = m[n]
               /\ \A i \in 1..n : m[i] = Put_(m[i - 1], PatchSets(patches[i]))
  BY <1>1, PatchedInOrder
<1>3. /\ \A i \in 1..n : DOMAIN PatchSets(patches[i]) \subseteq {"fullscreen", "compat"}
      /\ \A i, j \in 1..n : \A k \in DOMAIN PatchSets(patches[i]) \cap DOMAIN PatchSets(patches[j]) :
            PatchSets(patches[i])[k] = PatchSets(patches[j])[k]
  BY <1>1, PatchesAgree
<1> HIDE DEF n
<1> DEFINE G == {k \in 0..n : Keeps(m[k], k)}
<1>4. 0 \in G
  BY <1>1, <1>2
<1>5. ASSUME NEW k \in 0..n - 1, k \in G PROVE k + 1 \in G
  <2>1. k + 1 \in 1..n /\ k + 1 \in 0..n /\ (k + 1) - 1 = k /\ 1..k + 1 = (1..k) \cup {k + 1}
        /\ \A i \in 1..k : i \in 1..n
    BY <1>1
  <2> DEFINE d == m[k]
             e == PatchSets(patches[k + 1])
  <2>2. m[k + 1] = Put_(d, e) /\ Keeps(d, k)
    BY <1>2, <1>5, <2>1
  <2>3. DOMAIN e \subseteq {"fullscreen", "compat"}
        /\ \A i \in 1..k : \A x \in DOMAIN PatchSets(patches[i]) \cap DOMAIN e : PatchSets(patches[i])[x] = e[x]
    BY <1>3, <2>1
  <2>4. e = PatchSets(patches[k + 1])
    OBVIOUS
  <2> HIDE DEF d, e
  <2>5. Keeps(Put_(d, e), k + 1)
    BY <2>1, <2>2, <2>3, <2>4 DEF Put_
  <2> HIDE DEF Keeps
  <2> QED
    BY <2>1, <2>2, <2>5
<1>6. Keeps(m[n], n)
  <2> HIDE DEF G, Keeps
  <2>1. \A k \in 0..n - 1 : k \in G => k + 1 \in G
    BY <1>5
  <2>2. n \in Nat
    BY <1>1
  <2>3. \A k \in 0..n : k \in G
    BY ONLY <1>4, <2>1, <2>2, Upward
  <2> QED
    BY <2>2, <2>3 DEF G
<1> QED
  BY <1>1, <1>2, <1>6
-----------------------------------------------------------------------------

(* What a command line makes of a run stays what it was. *)
LineInv == line \in Lines /\ job = JobOf(line) /\ run = job.run

(* No step changes the line, its job or its run. *)
LEMMA LineStays == OptionsSpec => []LineInv
<1>1. OptionsInit => LineInv
  BY DEF OptionsInit, RunInit, LineInv
<1>2. LineInv /\ [OptionsNext]_optionVars => LineInv'
  <2> SUFFICES ASSUME LineInv, [OptionsNext]_optionVars PROVE UNCHANGED <<line, job, run>>
    BY DEF LineInv
  <2>1. line' = line
    BY DEF OptionsNext, optionVars
  <2>2. job' = job
    BY DEF OptionsNext, optionVars, RunNext, RunPrepare, RunInject, Edit, RunEntitle, RunPatch,
           runVars, bundleVars
  <2>3. run' = run
    <3>1. [Next]_vars
      BY OptionsStep, RunStep
    <3>2. InjectNext => run' = run
      BY DEF InjectNext, ExpandDeb, TakeItem, NothingToDo, PreScan, Strip, MakeDirs, InjectDylib,
             InjectFramework, InjectFiles, SkipLink, AllPlaced, AutoInject, Restore, InjectFails,
             injectVars
    <3> QED
      BY <3>1, <3>2 DEF Next, Start, Prepare, Inject, EditBundle, Entitle, Patch, Fakesign,
           CreateIpa, RemoveApp, CopyApp, WriteZip, Close, StepFails, Finished, vars, injectVars
  <2> QED
    BY <2>1, <2>2, <2>3
<1> QED
  BY <1>1, <1>2, PTL DEF OptionsSpec

(* Every item of the tweaks becomes an item to place and no other does,    *)
(* and a run that is asked for ElleKit stays with it.                      *)
Holding(tweaks) == UNION {Range_(t.items) : t \in Range_(tweaks)}

ExpandInv ==
  /\ ListsInv /\ run \in Runs
  /\ Holding(run.tweaks) = Range_(items) \cup Holding(todo)
  /\ Range_(staged) \subseteq Range_(items)
  /\ pc \in {"start", "prepare"} => todo = run.tweaks
  /\ pc \notin {"start", "prepare", "expand", "failed", "crashed"} => todo = <<>>
  /\ run.ellekit => mode = "ellekit"

(* All tweaks are still to be expanded when a run begins, *)
LEMMA InitExpand == Init => ExpandInv
<1> SUFFICES ASSUME Init PROVE ExpandInv
  OBVIOUS
<1>1. todo = run.tweaks /\ run \in Runs /\ staged = <<>> /\ items = <<>> /\ pc = "start"
      /\ mode = IF run.ellekit THEN "ellekit" ELSE "substrate"
  BY DEF Init, InjectInit
<1>2. Range_(<<>>) = {}
  BY DEF Range_
<1> QED
  BY <1>1, <1>2, InitLists DEF ExpandInv

Rank(i, stay) == Cardinality({j \in stay : j < i})

(* Positions are counted from the first: there is one with k before it. *)
LEMMA CountedPosition ==
  ASSUME NEW n \in Nat, NEW stay, stay \subseteq 1..n, NEW k \in Nat, k < Cardinality(stay)
  PROVE  \E i \in stay : Rank(i, stay) = k
<1> DEFINE before(i) == {j \in stay : j < i}
           Has(x) == \E i \in stay : Cardinality(before(i)) = x
           G == {x \in 0..k : Has(x)}
<1>0. \A i \in stay : i \in Int
  OBVIOUS
<1>1. IsFiniteSet(stay) /\ Cardinality(stay) \in Nat
  <2>1. IsFiniteSet(1..n)
    BY FS_Interval
  <2>2. IsFiniteSet(stay)
    BY <2>1, FS_Subset
  <2> QED
    BY <2>2, FS_CardinalityType
<1>2. Has(0)
  <2>1. stay # {}
    BY <1>1, FS_EmptySet
  <2>2. PICK i \in stay : \A j \in stay : i <= j
    BY <2>1, FirstPosition
  <2>3. \A j \in stay : ~(j < i)
    BY <1>0, <2>2
  <2>4. before(i) = {}
    BY <2>3
  <2>5. Cardinality({}) = 0
    BY FS_EmptySet
  <2> QED
    BY <2>4, <2>5
<1>3. ASSUME NEW x \in 0..k - 1, Has(x) PROVE Has(x + 1)
  <2>1. PICK i \in stay : Cardinality(before(i)) = x
    BY <1>3
  <2> DEFINE X == {j \in stay : j > i}
  <2>2. IsFiniteSet(before(i)) /\ i \notin before(i)
    <3>1. before(i) \subseteq stay
      OBVIOUS
    <3>2. IsFiniteSet(before(i))
      BY <1>1, <3>1, FS_Subset
    <3> QED
      BY <1>0, <3>2
  <2>3. Cardinality(before(i) \cup {i}) = x + 1
    <3> HIDE DEF before
    <3> QED
      BY <2>1, <2>2, FS_AddElement
  <2>4. X # {}
    <3> SUFFICES ASSUME X = {} PROVE FALSE
      OBVIOUS
    <3>1. \A j \in stay : j < i \/ j = i
      BY <1>0
    <3>2. stay = before(i) \cup {i}
      BY <3>1
    <3>3. Cardinality(stay) = x + 1
      BY <2>3, <3>2
    <3> QED
      BY <3>3
  <2>5. X \subseteq 1..n
    OBVIOUS
  <2>6. PICK j \in X : \A l \in X : j <= l
    BY <2>4, <2>5, FirstPosition
  <2>7. \A l \in stay : l < j <=> (l < i \/ l = i)
    BY <1>0, <2>6
  <2>8. before(j) = before(i) \cup {i}
    BY <2>7
  <2> QED
    BY <2>3, <2>8
<1>4. k \in G
  <2> HIDE DEF Has
  <2>1. \A x \in 0..k - 1 : x \in G => x + 1 \in G
    BY <1>3
  <2>2. 0 \in G
    BY <1>2
  <2> HIDE DEF G
  <2>3. \A x \in 0..k : x \in G
    BY ONLY k \in Nat, <2>1, <2>2, Upward
  <2> QED
    BY <2>3
<1> QED
  BY <1>4 DEF Rank

(* What a deb adds to the staging directory is what it holds. *)
LEMMA UnpackedItems ==
  ASSUME NEW d, NEW arts, IsList(d), IsList(arts)
  PROVE  /\ Range_(arts) \subseteq Range_(Unpack(d, arts))
         /\ Range_(Unpack(d, arts)) \subseteq Range_(d) \cup Range_(arts)
<1> DEFINE stay == {i \in DOMAIN d : d[i].name \notin {a.name : a \in Range_(arts)}}
           c == Cardinality(stay)
           Nth(n) == CHOOSE i \in stay : Cardinality({j \in stay : j < i}) = n - 1
           kept == [n \in 1..c |-> d[Nth(n)]]
<1>1. DOMAIN d = 1..Len(d) /\ Len(d) \in Nat /\ stay \subseteq 1..Len(d)
  BY Positions
<1> HIDE DEF stay
<1>2. c \in Nat
  <2>1. IsFiniteSet(1..Len(d))
    BY <1>1, FS_Interval
  <2>2. IsFiniteSet(stay)
    BY <1>1, <2>1, FS_Subset
  <2> QED
    BY <2>2, FS_CardinalityType
<1>3. \A n \in 1..c : Nth(n) \in stay
  <2> SUFFICES ASSUME NEW n \in 1..c PROVE \E i \in stay : Cardinality({j \in stay : j < i}) = n - 1
    OBVIOUS
  <2> DEFINE k == n - 1
             m == Len(d)
  <2>1. k \in Nat /\ k < Cardinality(stay)
    BY <1>2
  <2>2. m \in Nat /\ stay \subseteq 1..m
    BY <1>1
  <2> HIDE DEF k, m
  <2>3. \E i \in stay : Rank(i, stay) = k
    BY <2>1, <2>2, CountedPosition, Zenon
  <2> QED
    BY <2>3 DEF k, Rank
<1>4. Unpack(d, arts) = kept \o arts
  BY DEF Unpack, stay
<1> HIDE DEF c, Nth
<1>5. DOMAIN kept = 1..c /\ \A n \in 1..c : kept[n] \in Range_(d)
  BY <1>1, <1>3 DEF Range_
<1>6. kept \in Seq(Range_(d))
  BY <1>2, <1>5
<1> HIDE DEF kept
<1>7. IsList(kept) /\ Range_(kept) \subseteq Range_(d)
  <2>1. Range_(kept) \subseteq Range_(d)
    BY <1>5 DEF Range_
  <2> QED
    BY <1>6, <2>1, OwnElements
<1>8. Range_(kept \o arts) = Range_(kept) \cup Range_(arts)
  BY <1>7, EndsOfBoth
<1> QED
  BY <1>4, <1>7, <1>8

(* and a step moves what one holds to the items, or expands none. *)
LEMMA NextExpand == ExpandInv /\ [Next]_vars => ExpandInv'
<1> SUFFICES ASSUME ExpandInv, [Next]_vars PROVE ExpandInv'
  OBVIOUS
<1>1. ListsInv'
  BY NextLists DEF ExpandInv
<1>2. CASE ExpandDeb \/ TakeItem
  <2> DEFINE first == Head(todo)
  <2>1. /\ todo # <<>> /\ todo' = Tail(todo) /\ pc = "expand" /\ UNCHANGED <<pc, run, mode>>
    BY <1>2 DEF ExpandDeb, TakeItem
  <2>2. IsList(todo) /\ IsList(first.items) /\ IsList(staged) /\ IsList(items)
    BY <2>1, RestOfList DEF ExpandInv, ListsInv
  <2>3. Holding(todo) = Range_(first.items) \cup Holding(Tail(todo))
    <3>1. Range_(todo) = {first} \cup Range_(Tail(todo))
      <4> DEFINE rest == Tail(todo)
                 n == Len(todo)
      <4>1. /\ n \in Nat /\ n > 0 /\ DOMAIN todo = 1..n /\ todo[1] = first
            /\ DOMAIN rest = 1..n - 1 /\ \A i \in 1..n - 1 : rest[i] = todo[i + 1]
        BY <2>1, <2>2 DEF IsList
      <4> HIDE DEF rest, n, first
      <4>2. \A i \in 1..n : i = 1 \/ (i - 1 \in 1..n - 1 /\ (i - 1) + 1 = i)
        BY <4>1
      <4>3. \A i \in 1..n - 1 : i + 1 \in 1..n
        BY <4>1
      <4>4. \A i \in 1..n : todo[i] \in {first} \cup Range_(rest)
        <5> TAKE i \in 1..n
        <5>1. CASE i = 1
          BY <4>1, <5>1
        <5>2. CASE i # 1
          <6>1. i - 1 \in DOMAIN rest /\ rest[i - 1] = todo[i]
            BY <4>1, <4>2, <5>2
          <6> QED
            BY <6>1 DEF Range_
        <5> QED
          BY <5>1, <5>2
      <4>5. 1 \in 1..n /\ \A i \in 1..n - 1 : rest[i] \in Range_(todo)
        BY <4>1, <4>3 DEF Range_
      <4> QED
        BY <4>1, <4>4, <4>5 DEF Range_, rest
    <3> HIDE DEF first
    <3> QED
      BY <3>1 DEF Holding
  <2> HIDE DEF first
  <2>4. /\ Range_(items') = Range_(items) \cup Range_(first.items) /\ Range_(staged') \subseteq Range_(items')
    <3>1. CASE ExpandDeb
      <4>1. staged' = Unpack(staged, first.items) /\ items' = items \o staged'
        BY <3>1 DEF ExpandDeb, Collect, first
      <4>2. /\ Range_(first.items) \subseteq Range_(staged')
            /\ Range_(staged') \subseteq Range_(staged) \cup Range_(first.items)
        BY <2>2, <4>1, UnpackedItems
      <4>3. Range_(items') = Range_(items) \cup Range_(staged')
        <5>1. IsList(staged')
          BY <1>1 DEF ListsInv
        <5> QED
          BY <2>2, <4>1, <5>1, EndsOfBoth
      <4> QED
        BY <4>2, <4>3 DEF ExpandInv
    <3>2. CASE TakeItem
      <4>1. staged' = staged /\ items' = items \o first.items
        BY <3>2 DEF TakeItem, first
      <4>2. Range_(items') = Range_(items) \cup Range_(first.items)
        BY <2>2, <4>1, EndsOfBoth
      <4> QED
        BY <4>1, <4>2 DEF ExpandInv
    <3> QED
      BY <1>2, <3>1, <3>2
  <2> QED
    BY <1>1, <2>1, <2>3, <2>4 DEF ExpandInv
<1>3. CASE ~(ExpandDeb \/ TakeItem)
  <2>1. UNCHANGED <<todo, staged, items, run>> /\ (mode' = mode \/ mode' = "ellekit")
    <3>1. InjectNext => UNCHANGED <<todo, staged, items, run>> /\ (mode' = mode \/ mode' = "ellekit")
      BY <1>3 DEF InjectNext, NothingToDo, PreScan, Strip, MakeDirs, InjectDylib, PlaceAt, ModeFor,
                  InjectFramework, InjectFiles, SkipLink, AllPlaced, AutoInject, Restore,
                  InjectFails, injectVars
    <3> QED
      BY <3>1 DEF Next, Start, Prepare, Inject, EditBundle, Entitle, Patch, Fakesign, CreateIpa,
           RemoveApp, CopyApp, WriteZip, Close, StepFails, Finished, vars, injectVars
  <2>2. /\ pc' \in {"start", "prepare"} => pc \in {"start", "prepare"}
        /\ pc' \notin {"start", "prepare", "expand", "failed", "crashed"} =>
              pc \notin {"start", "prepare", "expand", "failed", "crashed"} \/ todo = <<>>
    <3>1. CASE InjectNext
      BY <1>3, <3>1 DEF InjectNext, NothingToDo, PreScan, Strip, MakeDirs, InjectDylib, InjectFramework,
            InjectFiles, SkipLink, AllPlaced, AutoInject, Restore, InjectFails, Placing
    <3>2. CASE ~InjectNext
      BY <3>2 DEF Next, Start, Prepare, Inject, EditBundle, Entitle, Patch, Fakesign, CreateIpa,
           RemoveApp, CopyApp, WriteZip, Close, StepFails, Finished, vars, Step, ExpandInv
    <3> QED
      BY <3>1, <3>2
  <2> QED
    BY <1>1, <2>1, <2>2 DEF ExpandInv
<1> QED
  BY <1>2, <1>3

(* So a finished run has placed the items of all its tweaks.               *)
LEMMA AllExpanded ==
  ASSUME ExpandInv, pc = "done"
  PROVE  Range_(items) = Holding(run.tweaks)
<1>1. todo = <<>>
  BY DEF ExpandInv
<1>2. Holding(todo) = {}
  BY <1>1 DEF Holding, Range_
<1> QED
  BY <1>2 DEF ExpandInv
-----------------------------------------------------------------------------

(* The edits of the options are the ones asked for. *)
LEMMA OneAsked ==
  ASSUME NEW b, NEW e
  PROVE  IsList(When(b, e)) /\ Range_(When(b, e)) = {x \in {e} : b}
<1>1. CASE b
  <2>1. When(b, e) = <<e>>
    BY <1>1 DEF When
  <2>2. IsList(<<e>>) /\ Range_(<<e>>) = {e}
    <3>1. DOMAIN <<e>> = 1..1 /\ <<e>> \in Seq({e}) /\ <<e>>[1] = e
      OBVIOUS
    <3>2. Range_(<<e>>) = {e}
      BY <3>1 DEF Range_
    <3> QED
      BY <3>1, <3>2 DEF IsList
  <2> QED
    BY <1>1, <2>1, <2>2
<1>2. CASE ~b
  <2>1. When(b, e) = <<>>
    BY <1>2 DEF When
  <2>2. IsList(<<>>) /\ Range_(<<>>) = {}
    BY DEF IsList, Range_
  <2> QED
    BY <1>2, <2>1, <2>2
<1> QED
  BY <1>1, <1>2

(* A list behind a list is a list of the elements of both. *)
LEMMA ListBehind ==
  ASSUME NEW s, NEW t, IsList(s), IsList(t)
  PROVE  IsList(s \o t) /\ Range_(s \o t) = Range_(s) \cup Range_(t)
BY ListAfterList, EndsOfBoth

NameEdit(o) == Set("name", [name |-> o.name, display |-> o.name])
VersionEdit(o) == Set("version", [version |-> o.version, short |-> o.version])
IdEdit(o) == Set("id", [id |-> o.id])
MinEdit(o) == Set("min", [min |-> o.min])
IconEdit(o) == Set("icon", [icons |-> o.icon])
MergeEdit(o) == [op |-> "merge", set |-> o.merge.set, lists |-> o.merge.lists]
DropEdit == [op |-> "drop", key |-> "devices"]
WatchEdit == [op |-> "watch"]
DocsEdit == Set("docs", [browser |-> "yes", sharing |-> "yes"])

(* The edits of a run are those of the options that were given. *)
LEMMA EditsAsked ==
  ASSUME NEW o
  PROVE  Range_(EditsOf(o) \o LateEditsOf(o)) =
            {x \in {NameEdit(o)} : o.name # Unset} \cup {x \in {VersionEdit(o)} : o.version # Unset}
            \cup {x \in {IdEdit(o)} : o.id # Unset} \cup {x \in {MinEdit(o)} : o.min # Unset}
            \cup {x \in {IconEdit(o)} : o.icon # Unset} \cup {x \in {MergeEdit(o)} : o.merge # Unset}
            \cup {x \in {DropEdit} : o.devices} \cup {x \in {WatchEdit} : o.watch}
            \cup {x \in {DocsEdit} : o.docs}
<1> DEFINE a == When(o.name # Unset, NameEdit(o))
           b == When(o.version # Unset, VersionEdit(o))
           c == When(o.id # Unset, IdEdit(o))
           d == When(o.min # Unset, MinEdit(o))
           e == When(o.icon # Unset, IconEdit(o))
           f == When(o.merge # Unset, MergeEdit(o))
           g == When(o.devices, DropEdit)
           h == When(o.watch, WatchEdit)
           i == When(o.docs, DocsEdit)
<1>1. EditsOf(o) = a \o b \o c \o d \o e \o f /\ LateEditsOf(o) = g \o h \o i
  BY DEF EditsOf, LateEditsOf, NameEdit, VersionEdit, IdEdit, MinEdit, IconEdit, MergeEdit,
         DropEdit, WatchEdit, DocsEdit
<1>2. IsList(a) /\ Range_(a) = {x \in {NameEdit(o)} : o.name # Unset}
  BY OneAsked
<1>3. IsList(b) /\ Range_(b) = {x \in {VersionEdit(o)} : o.version # Unset}
  BY OneAsked
<1>4. IsList(c) /\ Range_(c) = {x \in {IdEdit(o)} : o.id # Unset}
  BY OneAsked
<1>5. IsList(d) /\ Range_(d) = {x \in {MinEdit(o)} : o.min # Unset}
  BY OneAsked
<1>6. IsList(e) /\ Range_(e) = {x \in {IconEdit(o)} : o.icon # Unset}
  BY OneAsked
<1>7. IsList(f) /\ Range_(f) = {x \in {MergeEdit(o)} : o.merge # Unset}
  BY OneAsked
<1>8. IsList(g) /\ Range_(g) = {x \in {DropEdit} : o.devices}
  BY OneAsked
<1>9. IsList(h) /\ Range_(h) = {x \in {WatchEdit} : o.watch}
  BY OneAsked
<1>10. IsList(i) /\ Range_(i) = {x \in {DocsEdit} : o.docs}
  BY OneAsked
<1> HIDE DEF a, b, c, d, e, f, g, h, i
<1>11. IsList(a \o b) /\ Range_(a \o b) = Range_(a) \cup Range_(b)
  BY <1>2, <1>3, ListBehind
<1>12. IsList(a \o b \o c) /\ Range_(a \o b \o c) = Range_(a \o b) \cup Range_(c)
  BY <1>4, <1>11, ListBehind
<1>13. IsList(a \o b \o c \o d) /\ Range_(a \o b \o c \o d) = Range_(a \o b \o c) \cup Range_(d)
  BY <1>5, <1>12, ListBehind
<1>14. /\ IsList(a \o b \o c \o d \o e)
       /\ Range_(a \o b \o c \o d \o e) = Range_(a \o b \o c \o d) \cup Range_(e)
  BY <1>6, <1>13, ListBehind
<1>15. /\ IsList(a \o b \o c \o d \o e \o f)
       /\ Range_(a \o b \o c \o d \o e \o f) = Range_(a \o b \o c \o d \o e) \cup Range_(f)
  BY <1>7, <1>14, ListBehind
<1>16. IsList(g \o h) /\ Range_(g \o h) = Range_(g) \cup Range_(h)
  BY <1>8, <1>9, ListBehind
<1>17. IsList(g \o h \o i) /\ Range_(g \o h \o i) = Range_(g \o h) \cup Range_(i)
  BY <1>10, <1>16, ListBehind
<1>18. Range_(EditsOf(o) \o LateEditsOf(o)) = Range_(EditsOf(o)) \cup Range_(LateEditsOf(o))
  BY <1>1, <1>15, <1>17, ListBehind
<1>19. Range_(EditsOf(o) \o LateEditsOf(o)) =
          Range_(a) \cup Range_(b) \cup Range_(c) \cup Range_(d) \cup Range_(e) \cup Range_(f)
          \cup Range_(g) \cup Range_(h) \cup Range_(i)
  BY <1>1, <1>11, <1>12, <1>13, <1>14, <1>15, <1>16, <1>17, <1>18
<1> QED
  BY <1>2, <1>3, <1>4, <1>5, <1>6, <1>7, <1>8, <1>9, <1>10, <1>19

(* A key of the command line that no plist to merge names is asked for,    *)
(* and asked for with nothing but the value it was given.                  *)
LineKeys == {"name", "version", "id", "min"}

(* The other edits set other keys. *)
LEMMA KeyAsked ==
  ASSUME NEW o, NEW key \in LineKeys, o[key] # Unset,
         o.merge = Unset \/ key \notin DOMAIN o.merge.set
  PROVE  LET X == Range_(EditsOf(o) \o LateEditsOf(o)) IN
         /\ \E e \in X : Asks(e, key)
         /\ \A e \in X : Asks(e, key) => /\ e.op \notin {"drop", "watch"} /\ e.set[key] = o[key]
                                         /\ key \in DOMAIN e.set
<1> DEFINE X == Range_(EditsOf(o) \o LateEditsOf(o))
           Gets(e) == e.op \notin {"drop", "watch"} /\ key \in DOMAIN e.set /\ e.set[key] = o[key]
<1>1. /\ NameEdit(o).op = "name" /\ DOMAIN NameEdit(o).set = {"name", "display"}
      /\ NameEdit(o).set["name"] = o["name"]
  BY DEF NameEdit, Set
<1>2. /\ VersionEdit(o).op = "version" /\ DOMAIN VersionEdit(o).set = {"version", "short"}
      /\ VersionEdit(o).set["version"] = o["version"]
  BY DEF VersionEdit, Set
<1>3. IdEdit(o).op = "id" /\ DOMAIN IdEdit(o).set = {"id"} /\ IdEdit(o).set["id"] = o["id"]
  BY DEF IdEdit, Set
<1>4. MinEdit(o).op = "min" /\ DOMAIN MinEdit(o).set = {"min"} /\ MinEdit(o).set["min"] = o["min"]
  BY DEF MinEdit, Set
<1>5. IconEdit(o).op = "icon" /\ DOMAIN IconEdit(o).set = {"icons"}
  BY DEF IconEdit, Set
<1>6. MergeEdit(o).op = "merge" /\ MergeEdit(o).set = o.merge.set
  BY DEF MergeEdit
<1>7. DropEdit.op = "drop" /\ DropEdit.key = "devices" /\ WatchEdit.op = "watch"
  BY DEF DropEdit, WatchEdit
<1>8. DocsEdit.op = "docs" /\ DOMAIN DocsEdit.set = {"browser", "sharing"}
  BY DEF DocsEdit, Set
<1>9. /\ o["name"] # Unset => NameEdit(o) \in X
      /\ o["version"] # Unset => VersionEdit(o) \in X
      /\ o["id"] # Unset => IdEdit(o) \in X
      /\ o["min"] # Unset => MinEdit(o) \in X
  BY EditsAsked
<1>10. \A e \in X : \/ e = NameEdit(o) \/ e = VersionEdit(o) \/ e = IdEdit(o) \/ e = MinEdit(o)
                    \/ e = IconEdit(o) \/ (e = MergeEdit(o) /\ o.merge # Unset)
                    \/ e = DropEdit \/ e = WatchEdit \/ e = DocsEdit
  BY EditsAsked
<1> HIDE DEF X
<1>11. \A e \in X : Asks(e, key) => Gets(e)
  <2> SUFFICES ASSUME NEW e \in X, Asks(e, key) PROVE Gets(e)
    OBVIOUS
  <2>1. CASE key = "name"
    BY <1>1, <1>2, <1>3, <1>4, <1>5, <1>6, <1>7, <1>8, <1>10, <2>1 DEF Asks
  <2>2. CASE key = "version"
    BY <1>1, <1>2, <1>3, <1>4, <1>5, <1>6, <1>7, <1>8, <1>10, <2>2 DEF Asks
  <2>3. CASE key = "id"
    BY <1>1, <1>2, <1>3, <1>4, <1>5, <1>6, <1>7, <1>8, <1>10, <2>3 DEF Asks
  <2>4. CASE key = "min"
    BY <1>1, <1>2, <1>3, <1>4, <1>5, <1>6, <1>7, <1>8, <1>10, <2>4 DEF Asks
  <2> QED
    BY <2>1, <2>2, <2>3, <2>4 DEF LineKeys
<1>12. \E e \in X : Asks(e, key)
  BY <1>1, <1>2, <1>3, <1>4, <1>9 DEF Asks, LineKeys
<1> QED
  BY <1>11, <1>12 DEF X

(* So that is what the run leaves the key with. *)
LEMMA KeyLeft ==
  ASSUME NEW o, job.edits = EditsOf(o), job.late = LateEditsOf(o),
         NEW key \in LineKeys, o[key] # Unset, o.merge = Unset \/ key \notin DOMAIN o.merge.set,
         key \notin DOMAIN job.patches
  PROVE  key \in AllKeys /\ LeftWith(key) = {o[key]}
<1> DEFINE n == Len(AllEdits)
           by == {i \in 1..n : Asks(AllEdits[i], key)}
           X == Range_(EditsOf(o) \o LateEditsOf(o))
<1>1. IsList(AllEdits) /\ AllEdits = EditsOf(o) \o LateEditsOf(o)
  BY LinesAreLists, ListBehind DEF AllEdits
<1>2. n \in Nat /\ DOMAIN AllEdits = 1..n /\ (\A i \in 1..n : AllEdits[i] \in X)
      /\ \A e \in X : \E i \in 1..n : e = AllEdits[i]
  BY <1>1, Positions
<1>3. /\ \E e \in X : Asks(e, key)
      /\ \A e \in X : Asks(e, key) => /\ e.op \notin {"drop", "watch"} /\ e.set[key] = o[key]
                                      /\ key \in DOMAIN e.set
  BY KeyAsked
<1>4. AllEdits \in Seq(Range_(AllEdits))
  BY <1>1 DEF IsList
<1> HIDE DEF n, X
<1>5. by \subseteq 1..n /\ by # {}
  BY <1>2, <1>3
<1>6. PICK i \in by : \A j \in by : j <= i
  BY <1>2, <1>5, LastPosition
<1>7. Gives(AllEdits[i], key) = {o[key]} /\ i \in DOMAIN AllEdits /\ Asks(AllEdits[i], key)
      /\ AllEdits[i].op \notin {"drop", "watch"} /\ key \in DOMAIN AllEdits[i].set
  BY <1>2, <1>3, <1>6 DEF Gives
<1>8. \A j \in i + 1..n : ~Asks(AllEdits[j], key)
  BY <1>2, <1>6
<1>9. Leave(n, key, {o[key]})
  BY <1>2, <1>6, <1>7, <1>8 DEF Leave
<1>10. LeftWith(key) = {o[key]}
  BY <1>4, <1>9, AllMade DEF n
<1>11. key \in AllKeys
  BY <1>7 DEF AllKeys
<1> QED
  BY <1>10, <1>11
-----------------------------------------------------------------------------

(* A recipe that is checked asks for known patches only. *)
LEMMA CheckedPatches ==
  ASSUME NEW r, RecipeOk(r), Checked(Archive(r))
  PROVE  Range_(r.opts.patches) \subseteq KnownPatches
<1> DEFINE o == r.opts
<1>1. "patches" \in DOMAIN Options /\ DOMAIN o = DOMAIN Options
  BY DEF Options, Several, RecipeOk, OptionsOk
<1>2. Range_(Archive(r).opts.patches) \subseteq KnownPatches
  BY DEF Checked
<1>3. CASE r.by = "cgen"
  <2>1. Archive(r).opts = [k \in DOMAIN Options |->
                      IF k \in {"name", "fakesign", "ellekit", "patches"} THEN o[k] ELSE Options[k]]
    BY <1>3 DEF Archive, Generate
  <2> HIDE DEF o
  <2>2. Archive(r).opts.patches = o.patches
    BY <1>1, <2>1
  <2> QED
    BY <1>2, <2>2 DEF o
<1>4. CASE r.by # "cgen"
  <2>1. Archive(r).opts = [o EXCEPT !.files = <<>>, !.roots = {}]
    BY <1>4 DEF Archive, Written
  <2> HIDE DEF o
  <2>2. Archive(r).opts.patches = o.patches
    BY <1>1, <2>1
  <2> QED
    BY <1>2, <2>2 DEF o
<1> QED
  BY <1>3, <1>4

(* The patches a line that is accepted asks for are all known. *)
LEMMA GivenKnown ==
  ASSUME LineOk(line), Accepted(line)
  PROVE  GivenTo(Len(Sources)) \subseteq KnownPatches /\ Given("patches") = GivenTo(Len(Sources))
<1> DEFINE n == Len(line.recipes)
<1>1. /\ n \in Nat /\ DOMAIN line.recipes = 1..n /\ Len(Sources) = n + 1 /\ DOMAIN Sources = 1..n + 1
      /\ Sources[1] = line.cli
      /\ \A i \in 1..n : Sources[i + 1] = line.recipes[i].opts /\ RecipeOk(line.recipes[i])
  BY SourceOptions
<1>2. \A i \in 1..n : Checked(Archive(line.recipes[i]))
  BY <1>1 DEF Accepted
<1>3. \A i \in 1..n : Range_(line.recipes[i].opts.patches) \subseteq KnownPatches
  BY <1>1, <1>2, CheckedPatches
<1>4. Range_(line.cli.patches) \subseteq KnownPatches
  BY DEF LineOk
<1> HIDE DEF n
<1>5. \A i \in 1..n + 1 : Range_(Sources[i].patches) \subseteq KnownPatches
  <2> TAKE i \in 1..n + 1
  <2>1. CASE i = 1
    BY <1>1, <1>4, <2>1
  <2>2. CASE i # 1
    <3>1. i - 1 \in 1..n /\ (i - 1) + 1 = i
      BY <1>1, <2>2
    <3> QED
      BY <1>1, <1>3, <3>1
  <2> QED
    BY <2>1, <2>2
<1>6. GivenTo(Len(Sources)) \subseteq KnownPatches
  BY <1>1, <1>5 DEF GivenTo
<1>7. Given("patches") = GivenTo(Len(Sources))
  BY <1>1 DEF Given, GivenTo
<1> QED
  BY <1>6, <1>7

(* What files hold. *)
HeldBy(F) == UNION {Range_(f.items) : f \in F}

(* The items a file holds are part of its content. *)
LEMMA SameContent ==
  ASSUME NEW E, NEW F, Content(E) = Content(F)
  PROVE  HeldBy(E) = HeldBy(F)
<1>1. ASSUME NEW A, NEW B, Content(A) = Content(B), NEW x \in HeldBy(A) PROVE x \in HeldBy(B)
  <2>1. PICK f \in A : x \in Range_(f.items)
    BY <1>1 DEF HeldBy
  <2>2. <<f.base, f.items>> \in Content(B)
    BY <1>1 DEF Content
  <2>3. PICK g \in B : <<f.base, f.items>> = <<g.base, g.items>>
    BY <2>2 DEF Content
  <2>4. x \in Range_(g.items)
    BY <2>1, <2>3
  <2> QED
    BY <2>4 DEF HeldBy
<1> QED
  BY <1>1

(* What the run injects. *)
LEMMA FilesInjected ==
  ASSUME NEW o, IsList(o.files), LineOk(line)
  PROVE  Range_(FilesOf(line, o)) = Ends(o.files) \cup Range_(line.fetched)
            \cup (IF o.fix THEN Range_(SideloadFixes) ELSE {})
<1> DEFINE d == Dedupe(o.files)
           e == line.fetched
           f == IF o.fix THEN SideloadFixes ELSE <<>>
<1>1. IsList(d) /\ Range_(d) = Ends(o.files)
  BY DedupeKeepsEnds
<1>2. IsList(e)
  BY DEF LineOk
<1>3. IsList(f) /\ Range_(f) = IF o.fix THEN Range_(SideloadFixes) ELSE {}
  <2>1. IsList(<<>>) /\ Range_(<<>>) = {}
    BY DEF IsList, Range_
  <2>2. IsList(SideloadFixes)
    <3>1. \A x : IsList(<<x>>)
      <4> TAKE x
      <4>1. DOMAIN <<x>> = 1..1 /\ <<x>>[1] = x
        OBVIOUS
      <4>2. Range_(<<x>>) = {x}
        BY <4>1 DEF Range_
      <4> QED
        BY <4>2 DEF IsList
    <3> QED
      BY <3>1 DEF SideloadFixes
  <2> QED
    BY <2>1, <2>2
<1>4. FilesOf(line, o) = d \o e \o f
  BY DEF FilesOf
<1> HIDE DEF d, e, f
<1>5. IsList(d \o e) /\ Range_(d \o e) = Range_(d) \cup Range_(e)
  BY <1>1, <1>2, ListBehind
<1>6. Range_(d \o e \o f) = Range_(d \o e) \cup Range_(f)
  BY <1>3, <1>5, ListBehind
<1> QED
  BY <1>1, <1>3, <1>4, <1>5, <1>6 DEF e
-----------------------------------------------------------------------------

(* A finished run was accepted, and has what was named last. *)
LEMMA LastNamedAtLast ==
  ASSUME pc = "done", LineInv, ExpandInv, SavedIsAsked, SignatureSurvives, Accepted(line)
  PROVE  LastNamedWins
<1> DEFINE o == MergeCyans(line)
           n == Len(Sources)
<1>1. LineOk(line)
  BY LinesAssumption DEF LineInv
<1>2. /\ n \in Nat /\ DOMAIN Sources = 1..n
      /\ \A i \in 1..n : OptionsOk(Sources[i])
  <2> DEFINE m == Len(line.recipes)
  <2>1. /\ m \in Nat /\ n = m + 1 /\ DOMAIN Sources = 1..m + 1 /\ Sources[1] = line.cli
        /\ \A i \in 1..m : Sources[i + 1] = line.recipes[i].opts /\ RecipeOk(line.recipes[i])
    BY <1>1, SourceOptions
  <2>2. OptionsOk(line.cli)
    BY <1>1 DEF LineOk
  <2>3. \A i \in 1..m : OptionsOk(Sources[i + 1])
    BY <2>1 DEF RecipeOk
  <2> HIDE DEF m, n
  <2>4. ASSUME NEW i \in 1..n PROVE OptionsOk(Sources[i])
    <3>1. CASE i = 1
      BY <2>1, <2>2, <3>1
    <3>2. CASE i # 1
      <4>1. i - 1 \in 1..m /\ (i - 1) + 1 = i
        BY <2>1, <3>2
      <4> QED
        BY <2>3, <4>1
    <3> QED
      BY <3>1, <3>2
  <2> QED
    BY <2>1, <2>4
<1>3. MergedTo(o, n)
  BY <1>1, AllMerged
<1>4. /\ job.edits = EditsOf(o) /\ job.late = LateEditsOf(o) /\ job.patches = PatchKeys(o.patches)
      /\ run.tweaks = FilesOf(line, o) /\ run.ellekit = o.ellekit
      /\ run.newEnts = IF o.ents = Unset THEN NoEnts ELSE o.ents
  BY DEF LineInv, JobOf
<1>5. Validate(o) /\ GivenTo(n) \subseteq KnownPatches /\ Given("patches") = GivenTo(n)
  BY <1>1, GivenKnown DEF Accepted
<1> HIDE DEF o, n
<1>6. \A key \in Scalars : LastGiven(key, n, o[key])
  BY <1>3 DEF MergedTo
<1>7. \A key \in Scalars : o[key] = Asked(key)
  BY <1>2, <1>6, AskedIsLast DEF n
<1>8. Range_(items) = UNION {Range_(f.items) : f \in Winners \cup Added}
  <2> DEFINE rest == Added
  <2>1. Range_(items) = Holding(run.tweaks)
    BY AllExpanded
  <2>2. Holding(run.tweaks) = HeldBy(Ends(o.files) \cup rest)
    <3>1. IsList(o.files) /\ o.fix = line.cli.fix
      BY <1>3 DEF MergedTo
    <3>2. Range_(run.tweaks) = Ends(o.files) \cup rest
      BY <1>1, <1>4, <3>1, FilesInjected DEF Added
    <3> QED
      BY <3>2 DEF Holding, HeldBy
  <2> HIDE DEF rest
  <2>3. HeldBy(Ends(o.files)) = HeldBy(Winners)
    <3>1. \A i \in 1..n : IsList(Sources[i].files)
      BY <1>2 DEF OptionsOk, Several
    <3>2. Winners = WinnersTo(n)
      BY <1>2, <3>1, WinnersAreLast DEF n
    <3>3. Content(Ends(o.files)) = Content(Winners)
      BY <1>3, <3>2 DEF MergedTo
    <3> QED
      BY <3>3, SameContent
  <2>4. ASSUME NEW A, NEW B PROVE HeldBy(A \cup B) = HeldBy(A) \cup HeldBy(B)
    BY DEF HeldBy
  <2>5. Range_(items) = HeldBy(Winners \cup rest)
    <3>1. HeldBy(Ends(o.files) \cup rest) = HeldBy(Ends(o.files)) \cup HeldBy(rest)
      BY <2>4
    <3>2. HeldBy(Winners \cup rest) = HeldBy(Winners) \cup HeldBy(rest)
      BY <2>4
    <3>3. HeldBy(Ends(o.files) \cup rest) = HeldBy(Winners \cup rest)
      BY ONLY <2>3, <3>1, <3>2
    <3> QED
      BY ONLY <2>1, <2>2, <3>3
  <2> QED
    BY <2>5 DEF HeldBy, rest
<1>9. /\ DOMAIN job.patches \subseteq {"fullscreen", "compat"}
      /\ \A p \in Given("patches") : \A k \in DOMAIN PatchSets(p) :
            k \in DOMAIN job.patches /\ job.patches[k] = PatchSets(p)[k]
  <2>1. IsList(o.patches) /\ Range_(o.patches) = GivenTo(n)
    BY <1>3 DEF MergedTo
  <2>2. ~{"liquid-glass", "liquid-glass-compat"} \subseteq Range_(o.patches)
    BY <1>5 DEF Validate
  <2> QED
    BY <1>4, <1>5, <2>1, <2>2, PatchesStay
<1>10. ASSUME NEW k \in LineKeys, Asked(k) # Unset,
              Asked("merge") = Unset \/ k \notin DOMAIN Asked("merge").set
       PROVE  plistFile[k] = Asked(k)
  <2>1. k \in Scalars /\ "merge" \in Scalars
    BY DEF LineKeys, Scalars
  <2>2. o[k] = Asked(k) /\ o.merge = Asked("merge")
    BY <1>7, <2>1
  <2>3. k \notin DOMAIN job.patches
    BY <1>9 DEF LineKeys
  <2>4. k \in AllKeys /\ LeftWith(k) = {o[k]}
    BY <1>4, <1>10, <2>2, <2>3, KeyLeft
  <2> QED
    BY <2>2, <2>4 DEF SavedIsAsked
<1>11. Asked("ents") # Unset => main.ents = Asked("ents")
  <2> SUFFICES ASSUME Asked("ents") # Unset PROVE main.ents = Asked("ents")
    OBVIOUS
  <2>1. "ents" \in Scalars
    BY DEF Scalars
  <2>2. o.ents = Asked("ents") /\ LastGiven("ents", n, o.ents)
    BY <1>6, <1>7, <2>1
  <2>3. PICK i \in 1..n : o.ents = Sources[i].ents
    BY <2>2 DEF LastGiven
  <2>4. o.ents # NoEnts
    BY <1>2, <2>3 DEF OptionsOk
  <2>5. run.newEnts = o.ents
    BY <1>4, <2>2
  <2> QED
    BY <2>2, <2>4, <2>5 DEF SignatureSurvives
<1>12. (\E i \in DOMAIN Sources : Sources[i].ellekit) => mode = "ellekit"
  <2>1. (\E i \in DOMAIN Sources : Sources[i].ellekit) => o.ellekit
    BY <1>2, <1>3, Zenon DEF MergedTo
  <2>2. o.ellekit => run.ellekit
    BY <1>4
  <2> QED
    BY <2>1, <2>2 DEF ExpandInv
<1>13. \A p \in Given("patches") : \A k \in DOMAIN PatchSets(p) :
          k \in DOMAIN plistFile /\ plistFile[k] = PatchSets(p)[k]
  <2> TAKE p \in Given("patches")
  <2> TAKE k \in DOMAIN PatchSets(p)
  <2>1. k \in DOMAIN job.patches /\ job.patches[k] = PatchSets(p)[k]
    BY <1>9
  <2>2. k \in AllKeys /\ LeftWith(k) = {job.patches[k]}
    BY <2>1 DEF AllKeys, LeftWith
  <2> QED
    BY <2>1, <2>2 DEF SavedIsAsked
<1> QED
  BY <1>8, <1>10, <1>11, <1>12, <1>13 DEF LastNamedWins, LineKeys

(* From any command line, with any recipes: a finished run has injected, of *)
(* the files of one base name, the last one named, and nothing else but    *)
(* what was fetched or bundled; and the app has the last value given for a *)
(* key and every switch and patch anyone asked for (run.go 447-451).       *)
THEOREM LastNamedAlways == OptionsSpec => []LastNamedWins
<1>1. Init /\ [][Next]_vars => []ExpandInv
  BY InitExpand, NextExpand, PTL
<1>2. OptionsSpec => []ExpandInv
  BY <1>1, OptionsImplementRun, RunImplementsPipeline, PTL DEF Spec
<1>3. NothingApplied /\ pc = "done" => Accepted(line)
  BY DEF NothingApplied
<1>4. LineInv /\ ExpandInv /\ (SavedIsAsked /\ ExtensionsFollow) /\ NothingApplied
        /\ (InputSurvives /\ OutputHonest /\ OneRuntime /\ SignatureSurvives /\ OwnExtensionsStay)
      => LastNamedWins
  <2>1. pc # "done" => LastNamedWins
    BY DEF LastNamedWins
  <2> QED
    BY <1>3, <2>1, LastNamedAtLast
<1> QED
  BY <1>2, <1>4, LineStays, LinesSaveWhatTheyAsk, LinesKeepPromises, RefusedAppliesNothing, PTL
-----------------------------------------------------------------------------
(***************************************************************************)
(* Where a file lands.  An item goes once to where its kind and the list   *)
(* of app-root dylibs send it, and nothing takes it away again.            *)
(***************************************************************************)

Home(it) ==
  IF it.kind = "appex" THEN Ref("plugin", it.name)
  ELSE IF it.kind = "other" THEN Ref("exec", it.name)
  ELSE PlaceOf(it)

(* An item in the bundle, that the executable loads if it is code. *)
AtHome(it) ==
  /\ Home(it) \in DOMAIN shipped
  /\ it.kind \in Code => Home(it) \in Range_(main.loads)

HomeInv ==
  /\ pc \in {"start", "prepare"} => items = <<>>
  /\ pc \notin {"start", "prepare", "expand", "strip", "dirs", "place", "failed", "crashed"}
        => \A j \in DOMAIN items : j <= placed
  /\ \A j \in DOMAIN items : j <= placed /\ ~items[j].link => AtHome(items[j])

(* Files and loads are only added, so what is at home stays there.         *)
LEMMA StaysHome ==
  ASSUME run' = run, DOMAIN shipped \subseteq DOMAIN shipped',
         Range_(main.loads) \subseteq Range_(main'.loads)
  PROVE  /\ \A it : Home(it)' = Home(it)
         /\ \A it : AtHome(it) => AtHome(it)'
<1>1. \A it : Home(it)' = Home(it)
  BY DEF Home, PlaceOf, IsRoot
<1> QED
  BY <1>1 DEF AtHome

(* One reference more to load. *)
LEMMA OneMoreLoad ==
  ASSUME RefsInv, NEW place, main' = InjectWeak(main, place)
  PROVE  Range_(main'.loads) = Range_(main.loads) \cup {place}
<1> DEFINE old == main.loads
           n == Len(old)
<1>1. main'.loads = Append(old, place)
  BY DEF RefsInv, SignInv, InjectWeak
<1>2. old \in Seq(DOMAIN shipped)
  BY DEF RefsInv, LoadsInv
<1> HIDE DEF old
<1>3. n \in Nat /\ DOMAIN old = 1..n
  BY <1>2
<1>4. /\ DOMAIN Append(old, place) = 1..n + 1 /\ Append(old, place)[n + 1] = place
      /\ \A i \in 1..n : Append(old, place)[i] = old[i]
  BY <1>2
<1>5. 1..n + 1 = (1..n) \cup {n + 1}
  BY <1>3
<1> QED
  BY <1>1, <1>3, <1>4, <1>5 DEF Range_, old

(* Nothing is placed while the list of items is made. *)
LEMMA FreshHome ==
  ASSUME RefsInv', pc' \in {"expand", "strip", "dirs"} \/ (pc' = "place" /\ placed' = 0)
  PROVE  HomeInv'
<1>1. placed' = 0 /\ \A j \in DOMAIN items' : ~(j <= placed')
  BY DEF RefsInv, CountInv, ListsInv, IsList
<1> QED
  BY <1>1 DEF HomeInv

(* The items that are placed stay as long as no other is. *)
LEMMA HomeKept ==
  ASSUME HomeInv, UNCHANGED <<items, run, placed>>, DOMAIN shipped \subseteq DOMAIN shipped',
         main'.loads = main.loads,
         pc' \in {"start", "prepare"} => pc \in {"start", "prepare"},
         \/ pc' \in {"start", "prepare", "expand", "strip", "dirs", "place", "failed", "crashed"}
         \/ pc \notin {"start", "prepare", "expand", "strip", "dirs", "place", "failed", "crashed"}
         \/ \A j \in DOMAIN items : j <= placed
  PROVE  HomeInv'
<1>1. \A it : AtHome(it) => AtHome(it)'
  BY StaysHome
<1> QED
  BY <1>1 DEF HomeInv

(* The next item is brought home, or is a link and left out. *)
LEMMA OneMoreHome ==
  ASSUME RefsInv, HomeInv, pc = "place", pc' = "place", UNCHANGED <<items, run>>, More,
         placed' = placed + 1, DOMAIN shipped \subseteq DOMAIN shipped',
         Range_(main.loads) \subseteq Range_(main'.loads),
         Item.link \/ \A it : it = Item => AtHome(it)'
  PROVE  HomeInv'
<1>1. \A it : AtHome(it) => AtHome(it)'
  BY StaysHome
<1>2. placed \in Nat /\ \A j \in DOMAIN items : j \in Nat
  BY DEF RefsInv, CountInv, ListsInv, IsList
<1>3. ASSUME NEW j \in DOMAIN items', j <= placed', ~items'[j].link PROVE AtHome(items[j])'
  <2>1. CASE j <= placed
    <3>1. AtHome(items[j])
      BY <1>3, <2>1 DEF HomeInv
    <3> QED
      BY <1>1, <3>1
  <2>2. CASE j = placed + 1
    BY <1>3, <2>2 DEF Item
  <2> QED
    BY <1>2, <1>3, <2>1, <2>2
<1> QED
  BY <1>3 DEF HomeInv

(* A step of the injection brings items home and takes none away. *)
LEMMA InjectHome ==
  ASSUME RefsInv, RefsInv', HomeInv, InjectNext
  PROVE  HomeInv'
<1>0. \A place, file : shipped' = Put(place, file) => DOMAIN shipped' = DOMAIN shipped \cup {place}
  BY DEF Put
<1>1. CASE ExpandDeb \/ TakeItem \/ PreScan \/ Strip
  BY <1>1, FreshHome DEF ExpandDeb, TakeItem, PreScan, Strip
<1>2. CASE MakeDirs
  <2>1. placed' = 0 /\ pc' = "place"
    BY <1>2 DEF MakeDirs, RefsInv, CountInv
  <2> QED
    BY <2>1, FreshHome
<1>3. CASE NothingToDo \/ InjectFails
  <2>1. CASE NothingToDo
    BY <2>1, HomeKept DEF NothingToDo, injectVars
  <2>2. CASE InjectFails
    BY <2>2, HomeKept DEF InjectFails, injectVars
  <2> QED
    BY <1>3, <2>1, <2>2
<1>4. CASE InjectDylib
  <2> DEFINE place == Ref(IF IsRoot(Item) THEN "exec" ELSE "rpath", Item.name)
  <2>1. /\ Placing("dylib") /\ More /\ Item.kind = "dylib" /\ ~Item.link
        /\ pc = "place" /\ pc' = "place" /\ UNCHANGED <<items, run>> /\ placed' = placed + 1
    BY <1>4 DEF InjectDylib, Placing
  <2>2. main' = InjectWeak(main, place) /\ \E file : shipped' = Put(place, file)
    BY <1>4 DEF InjectDylib, PlaceAt
  <2>3. place = Home(Item)
    BY <2>1 DEF Home, PlaceOf
  <2> HIDE DEF place
  <2>4. /\ DOMAIN shipped' = DOMAIN shipped \cup {place}
        /\ Range_(main'.loads) = Range_(main.loads) \cup {place}
    BY <1>0, <2>2, OneMoreLoad
  <2>5. ASSUME NEW it, it = Item PROVE AtHome(it)'
    <3>1. Home(it)' = place
      BY <2>1, <2>3, <2>4, <2>5, StaysHome
    <3> QED
      BY <2>4, <3>1 DEF AtHome
  <2> QED
    BY <2>1, <2>4, <2>5, OneMoreHome
<1>5. CASE InjectFramework
  <2> DEFINE place == Ref("rpath", Item.name)
  <2>1. /\ More /\ Item.kind = "framework" /\ pc = "place" /\ pc' = "place"
        /\ UNCHANGED <<items, run>> /\ placed' = placed + 1
        /\ main' = InjectWeak(main, place) /\ \E file : shipped' = Put(place, file)
    BY <1>5 DEF InjectFramework, Placing
  <2>2. place = Home(Item)
    BY <2>1 DEF Home, PlaceOf, IsRoot
  <2> HIDE DEF place
  <2>3. /\ DOMAIN shipped' = DOMAIN shipped \cup {place}
        /\ Range_(main'.loads) = Range_(main.loads) \cup {place}
    BY <1>0, <2>1, OneMoreLoad
  <2>4. ASSUME NEW it, it = Item PROVE AtHome(it)'
    <3>1. Home(it)' = place
      BY <2>1, <2>2, <2>3, <2>4, StaysHome
    <3> QED
      BY <2>3, <3>1 DEF AtHome
  <2> QED
    BY <2>1, <2>3, <2>4, OneMoreHome
<1>6. CASE InjectFiles
  <2>1. /\ More /\ pc = "place" /\ pc' = "place" /\ Item.kind \notin Code
        /\ UNCHANGED <<items, run, main>> /\ placed' = placed + 1
    BY <1>6 DEF InjectFiles, Placing, Code
  <2>2. \E file : shipped' = Put(Home(Item), file)
    BY <1>6 DEF InjectFiles, Placing, Home
  <2>3. DOMAIN shipped' = DOMAIN shipped \cup {Home(Item)}
    BY <1>0, <2>2
  <2>4. ASSUME NEW it, it = Item PROVE AtHome(it)'
    <3>1. Home(it)' = Home(Item)
      BY <2>1, <2>3, <2>4, StaysHome
    <3> QED
      BY <2>1, <2>3, <2>4, <3>1 DEF AtHome
  <2> QED
    BY <2>1, <2>3, <2>4, OneMoreHome
<1>7. CASE SkipLink
  BY <1>7, OneMoreHome DEF SkipLink
<1>8. CASE AllPlaced
  <2>1. /\ pc = "place" /\ pc' = "auto" /\ ~More /\ UNCHANGED <<run, items, placed, main, shipped>>
    BY <1>8 DEF AllPlaced
  <2>2. \A j \in DOMAIN items : j <= placed
    <3>1. placed \in Nat
      BY DEF RefsInv, CountInv
    <3>2. PICK n \in Nat : DOMAIN items = 1..n
      BY DEF RefsInv, ListsInv, IsList
    <3>3. placed + 1 \notin 1..n
      BY <2>1, <3>2 DEF More
    <3> QED
      BY <3>1, <3>2, <3>3
  <2> QED
    BY <2>1, <2>2, HomeKept
<1>9. ASSUME NEW key \in needed, AutoInject(key) PROVE HomeInv'
  <2>1. /\ pc = "auto" /\ pc' \in {"auto", "failed"} /\ UNCHANGED <<run, items, placed, main>>
        /\ shipped' = shipped \/ \E place, file : shipped' = Put(place, file)
    BY <1>9 DEF AutoInject
  <2>2. DOMAIN shipped \subseteq DOMAIN shipped'
    BY <1>0, <2>1
  <2> QED
    BY <2>1, <2>2, HomeKept
<1>10. CASE Restore
  <2>1. main'.loads = main.loads
    BY <1>10 DEF Restore, RefsInv, SignInv
  <2> QED
    BY <1>10, <2>1, HomeKept DEF Restore
<1> QED
  BY <1>1, <1>2, <1>3, <1>4, <1>5, <1>6, <1>7, <1>8, <1>9, <1>10 DEF InjectNext

(* Neither does any other step of the run. *)
LEMMA NextHome == RefsInv /\ RefsInv' /\ HomeInv /\ [Next]_vars => HomeInv'
<1> SUFFICES ASSUME RefsInv, RefsInv', HomeInv, [Next]_vars PROVE HomeInv'
  OBVIOUS
<1>1. DOMAIN main = {"signed", "ents", "rpath", "loads"}
  BY DEF RefsInv, SignInv
<1>2. \A e : SignWithEntitlements(main, e).loads = main.loads
  BY <1>1 DEF SignWithEntitlements
<1>3. CASE Inject
  BY <1>3, InjectHome DEF Inject
<1>4. CASE Start \/ EditBundle
  BY <1>4, HomeKept DEF Start, EditBundle, Step, injectVars
<1>5. CASE Prepare
  <2>1. items = <<>> /\ UNCHANGED injectVars /\ pc' \in {"entitle", "expand"}
    BY <1>5 DEF Prepare, HomeInv
  <2> QED
    BY <2>1, HomeKept DEF injectVars
<1>6. CASE Entitle \/ Patch \/ Fakesign
  <2>1. main'.loads = main.loads
    BY <1>2, <1>6 DEF Entitle, Patch, Fakesign
  <2> QED
    BY <1>6, <2>1, HomeKept DEF Entitle, Patch, Fakesign, Step
<1>7. CASE CreateIpa \/ RemoveApp \/ CopyApp \/ WriteZip \/ Close
  BY <1>7, HomeKept DEF CreateIpa, RemoveApp, CopyApp, WriteZip, Close, Step, injectVars
<1>8. CASE StepFails \/ Finished \/ UNCHANGED vars
  BY <1>8, HomeKept DEF StepFails, Finished, vars, injectVars
<1> QED
  BY <1>3, <1>4, <1>5, <1>6, <1>7, <1>8 DEF Next

(* In a finished run every item that is no link is at home. *)
LEMMA AllHome == Spec => []HomeInv
<1>1. Init => HomeInv
  BY DEF Init, InjectInit, HomeInv
<1> QED
  BY <1>1, InitRefs, NextRefs, NextHome, PTL DEF Spec
-----------------------------------------------------------------------------

(* A file that is moved is the same but for its place. *)
LEMMA MovedOk ==
  ASSUME NEW f, FileOk(f), NEW dir, IsList(dir)
  PROVE  FileOk([f EXCEPT !.dir = dir]) /\ [f EXCEPT !.dir = dir].base = f.base
<1> DEFINE g == [f EXCEPT !.dir = dir]
<1>1. DOMAIN f = {"base", "dir", "deb", "items"} /\ IsList(f.items)
      /\ (~f.deb => Len(f.items) = 1 /\ f.base = BaseOf(f.items[1]))
  BY DEF FileOk
<1>2. /\ DOMAIN g = {"base", "dir", "deb", "items"} /\ g.base = f.base /\ g.deb = f.deb
      /\ g.items = f.items /\ g.dir = dir
  BY <1>1
<1> HIDE DEF g
<1>3. FileOk(g)
  BY <1>1, <1>2 DEF FileOk
<1> QED
  BY <1>2, <1>3 DEF g

(* A checked recipe brings the roots it was written with. *)
LEMMA RecipeRoots ==
  ASSUME NEW r, RecipeOk(r), Checked(Archive(r))
  PROVE  LET p == Parse(Archive(r)) IN
         /\ RootNames(p) = RootNames(r.opts)
         /\ \A f \in Range_(p.files) \cup p.roots : FileOk(f)
<1> DEFINE o == r.opts
           a == Archive(r)
           p == Parse(a)
           scratch == <<"tmp", "xkvm", "cyan", "inject">>
<1>1. IsList(o.files) /\ DOMAIN o = DOMAIN Options /\ \A f \in Range_(o.files) : FileOk(f)
  BY DEF RecipeOk, OptionsOk, Several
<1>2. /\ IsList(a.payload) /\ Range_(a.payload) \subseteq Range_(o.files)
      /\ Bases(a.payload) = Bases(o.files)
  <2>1. a.payload = Dedupe(o.files) \/ a.payload = o.files
    BY DEF Archive, Generate, Written
  <2> HIDE DEF a, o
  <2>2. Range_(Dedupe(o.files)) \subseteq Range_(o.files)
    BY <1>1, DedupeKeepsEnds, EndsAreFiles
  <2> QED
    BY <1>1, <2>1, <2>2, DedupeKeepsEnds, EndsOfDeduped
<1>3. a.roots = RootNames(o) /\ a.roots \subseteq Bases(a.payload)
  <2>1. a.whole /\ a.roots \subseteq Bases(a.payload)
    BY DEF Checked
  <2>2. CASE r.by = "cgen"
    <3>1. a.whole => RootNames(o) \subseteq Bases(o.files)
      BY <2>2 DEF Archive, Generate
    <3>2. a.roots = Bases(o.files) \cap RootNames(o)
      BY <2>2 DEF Archive, Generate
    <3> HIDE DEF a, o
    <3> QED
      BY <2>1, <3>1, <3>2
  <2>3. CASE r.by # "cgen"
    BY <2>1, <2>3 DEF Archive, Written
  <2> QED
    BY <2>2, <2>3
<1>4. /\ p.files = Payload(a)
      /\ p.roots = {f \in Range_(Payload(a)) : f.base \in a.roots}
  <2>1. DOMAIN a.opts = DOMAIN o
    <3>1. a.opts = [k \in DOMAIN Options |->
                      IF k \in {"name", "fakesign", "ellekit", "patches"} THEN o[k] ELSE Options[k]]
          \/ a.opts = [o EXCEPT !.files = <<>>, !.roots = {}]
      BY DEF Archive, Generate, Written
    <3> HIDE DEF a, o
    <3> QED
      BY <1>1, <3>1
  <2>2. {"files", "roots"} \subseteq DOMAIN o
    BY <1>1 DEF Options, Several
  <2> HIDE DEF a, o
  <2> QED
    BY <2>1, <2>2 DEF Parse
<1>5. /\ DOMAIN Payload(a) = DOMAIN a.payload
      /\ \A i \in DOMAIN a.payload : Payload(a)[i] = [a.payload[i] EXCEPT !.dir = scratch]
  BY DEF Payload
<1>6. IsList(scratch)
  <2>1. scratch \in Seq(Range_(scratch))
    <3>1. \A i \in 1..4 : scratch[i] \in Range_(scratch)
      BY DEF Range_
    <3>2. Len(scratch) = 4 /\ scratch = [i \in 1..4 |-> scratch[i]]
      OBVIOUS
    <3> HIDE DEF scratch
    <3>3. [i \in 1..4 |-> scratch[i]] \in Seq(Range_(scratch))
      BY <3>1
    <3> QED
      BY <3>2, <3>3
  <2> QED
    BY <2>1 DEF IsList
<1> HIDE DEF a, o, p, scratch
<1>7. \A i \in DOMAIN a.payload : FileOk(Payload(a)[i]) /\ Payload(a)[i].base = a.payload[i].base
  <2> TAKE i \in DOMAIN a.payload
  <2>1. FileOk(a.payload[i])
    BY <1>1, <1>2 DEF Range_
  <2> DEFINE x == a.payload[i]
  <2>2. Payload(a)[i] = [x EXCEPT !.dir = scratch]
    BY <1>5
  <2> HIDE DEF x
  <2>3. FileOk(x)
    BY <2>1 DEF x
  <2>4. FileOk([x EXCEPT !.dir = scratch]) /\ [x EXCEPT !.dir = scratch].base = x.base
    BY <1>6, <2>3, MovedOk
  <2> QED
    BY <2>2, <2>4 DEF x
<1>8. \A f \in Range_(Payload(a)) : FileOk(f)
  BY <1>5, <1>7 DEF Range_
<1>9. Bases(Payload(a)) = Bases(a.payload)
  BY <1>5, <1>7 DEF Bases, Range_
<1>10. RootNames(p) = RootNames(o)
  <2>1. RootNames(p) = {b \in Bases(Payload(a)) : b \in a.roots}
    BY <1>4 DEF RootNames, Bases
  <2>2. RootNames(p) = a.roots
    BY <1>3, <1>9, <2>1
  <2> QED
    BY <1>3, <2>2
<1> QED
  BY <1>4, <1>8, <1>10 DEF a, o, p

(* What the first k sources leave of the roots, and of the files of the    *)
(* command line that none of them names.                                   *)
RootsTo(k) == UNION {RootNames(Sources[i]) : i \in 1..k}
Unnamed(f, k) == \A i \in 2..k : f.base \notin Bases(Sources[i].files)
KeptTo(o, k) ==
  /\ RootNames(o) = RootsTo(k)
  /\ \A f \in Range_(o.files) \cup o.roots : FileOk(f)
  /\ \A f \in Ends(line.cli.files) : Unnamed(f, k) => f \in Ends(o.files)

(* One more recipe. *)
LEMMA OneMoreKept ==
  ASSUME NEW k \in Nat, k > 0, NEW o, MergedTo(o, k), KeptTo(o, k),
         NEW r, RecipeOk(r), Checked(Archive(r)), Sources[k + 1] = r.opts
  PROVE  KeptTo(Merge(o, Parse(Archive(r))), k + 1)
<1> DEFINE p == Parse(Archive(r))
           q == Merge(o, p)
           s == r.opts
<1>1. /\ IsList(p.files) /\ Bases(p.files) = Bases(s.files) /\ RootNames(p) = RootNames(s)
      /\ \A f \in Range_(p.files) \cup p.roots : FileOk(f)
  BY RecipeBrings, RecipeRoots
<1>2. IsList(o.files) /\ DOMAIN o = DOMAIN Options
  BY DEF MergedTo
<1> HIDE DEF p, s
<1>3. q.files = o.files \o p.files /\ q.roots = o.roots \cup p.roots
  <2>1. "files" \in Several /\ "files" \notin Scalars \cup Switches
        /\ "roots" \notin Scalars \cup Switches \cup Several /\ {"files", "roots"} \subseteq DOMAIN Options
    BY DEF Several, Switches, Scalars, Options
  <2> QED
    BY <1>2, <2>1 DEF Merge
<1> HIDE DEF q
<1>4. /\ Ends(q.files) = Ends(p.files) \cup {f \in Ends(o.files) : f.base \notin Bases(p.files)}
      /\ Range_(q.files) = Range_(o.files) \cup Range_(p.files)
  BY <1>1, <1>2, <1>3, EndsOfBoth
<1>5. 1..k + 1 = (1..k) \cup {k + 1} /\ 2..k + 1 = (2..k) \cup {k + 1}
  OBVIOUS
<1>6. RootNames(q) = RootsTo(k + 1)
  <2>1. RootNames(q) = RootNames(o) \cup RootNames(p)
    BY <1>3 DEF RootNames
  <2>2. RootsTo(k + 1) = RootsTo(k) \cup RootNames(s)
    BY <1>5 DEF RootsTo, s
  <2> QED
    BY <1>1, <2>1, <2>2 DEF KeptTo
<1>7. \A f \in Range_(q.files) \cup q.roots : FileOk(f)
  BY <1>1, <1>3, <1>4 DEF KeptTo
<1>8. ASSUME NEW f \in Ends(line.cli.files), Unnamed(f, k + 1) PROVE f \in Ends(q.files)
  <2>1. Unnamed(f, k) /\ f.base \notin Bases(s.files)
    BY <1>5, <1>8 DEF Unnamed, s
  <2> QED
    BY <1>1, <1>4, <2>1 DEF KeptTo
<1> QED
  BY <1>6, <1>7, <1>8 DEF KeptTo, p, q

(* All of them. *)
LEMMA AllKept ==
  ASSUME LineOk(line), Accepted(line)
  PROVE  KeptTo(MergeCyans(line), Len(Sources))
<1> DEFINE n == Len(line.recipes)
<1>1. /\ n \in Nat /\ DOMAIN line.recipes = 1..n /\ Len(Sources) = n + 1 /\ Sources[1] = line.cli
      /\ \A i \in 1..n : Sources[i + 1] = line.recipes[i].opts /\ RecipeOk(line.recipes[i])
  BY SourceOptions
<1>2. PICK m : /\ m[0] = line.cli /\ MergeCyans(line) = m[n]
               /\ \A i \in 1..n : m[i] = Merge(m[i - 1], Parse(Archive(line.recipes[i])))
  BY <1>1, MergedInOrder
<1>3. \A i \in 1..n : Checked(Archive(line.recipes[i]))
  BY <1>1 DEF Accepted
<1> HIDE DEF n
<1>4. MergedTo(line.cli, 1) /\ KeptTo(line.cli, 1)
  <2>1. 1..1 = {1} /\ OptionsOk(line.cli)
    BY DEF LineOk
  <2>2. RootsTo(1) = RootNames(line.cli)
    BY <1>1, <2>1 DEF RootsTo
  <2>3. KeptTo(line.cli, 1)
    BY <2>1, <2>2 DEF KeptTo, OptionsOk
  <2> QED
    BY <2>3, FirstMerged
<1> DEFINE G == {k \in 0..n : MergedTo(m[k], k + 1) /\ KeptTo(m[k], k + 1)}
<1>5. 0 \in G
  BY <1>1, <1>2, <1>4
<1>6. ASSUME NEW k \in 0..n - 1, k \in G PROVE k + 1 \in G
  <2>1. k + 1 \in 1..n /\ k + 1 \in 0..n /\ k + 1 \in Nat /\ k + 1 > 0 /\ (k + 1) - 1 = k
    BY <1>1
  <2>2. /\ m[k + 1] = Merge(m[k], Parse(Archive(line.recipes[k + 1])))
        /\ MergedTo(m[k], k + 1) /\ KeptTo(m[k], k + 1)
    BY <1>2, <1>6, <2>1
  <2>3. /\ Sources[(k + 1) + 1] = line.recipes[k + 1].opts /\ RecipeOk(line.recipes[k + 1])
        /\ Checked(Archive(line.recipes[k + 1]))
    BY <1>1, <1>3, <2>1
  <2>4. MergedTo(Merge(m[k], Parse(Archive(line.recipes[k + 1]))), (k + 1) + 1)
    BY <2>1, <2>2, <2>3, OneMoreMerged
  <2>5. KeptTo(Merge(m[k], Parse(Archive(line.recipes[k + 1]))), (k + 1) + 1)
    BY <2>1, <2>2, <2>3, OneMoreKept
  <2> QED
    BY <2>1, <2>2, <2>4, <2>5
<1>7. n \in 0..n /\ n \in G
  <2> HIDE DEF G
  <2>1. \A k \in 0..n - 1 : k \in G => k + 1 \in G
    BY <1>6
  <2>2. n \in Nat
    BY <1>1
  <2>3. \A k \in 0..n : k \in G
    BY ONLY <1>5, <2>1, <2>2, Upward
  <2> QED
    BY <2>2, <2>3
<1> QED
  BY <1>1, <1>2, <1>7
-----------------------------------------------------------------------------

(* A file extracted and still there finds the manifest written then. *)
LEMMA ManifestFound ==
  ASSUME NEW f, StillThere(f), IsList(f.dir)
  PROVE  Nearest(line, f.dir) = ManifestOf(line.arts)
<1> DEFINE dir == f.dir
           n == Len(line.out)
           k == Len(dir)
           With(m) == SubSeq(dir, 1, m)
           near == {m \in 1..k : k - m < manifestMaxDepth /\ With(m) \in DOMAIN line.manifests}
           last == CHOOSE m \in near : \A x \in near : x <= m
<1>1. /\ n \in 1..k /\ k <= n + 3 /\ With(n) = line.out
      /\ line.out \in DOMAIN line.manifests /\ line.manifests[line.out] = ManifestOf(line.arts)
      /\ \A m \in n + 1..k : With(m) \notin DOMAIN line.manifests
  BY DEF StillThere
<1>2. Nearest(line, f.dir) = IF near = {} THEN {} ELSE line.manifests[With(last)]
  BY DEF Nearest
<1>k. k \in Nat
  BY Positions
<1> HIDE DEF With, n, k
<1>3. n \in near
  BY <1>1, <1>k DEF manifestMaxDepth
<1>4. ASSUME NEW m \in near PROVE m <= n
  <2>1. m \notin n + 1..k
    BY <1>1
  <2> QED
    BY <1>1, <2>1
<1>5. last \in near /\ \A x \in near : x <= last
  BY <1>3, <1>4
<1>6. last = n
  <2>1. last <= n /\ n <= last
    BY <1>3, <1>4, <1>5
  <2>2. near \subseteq 1..k
    OBVIOUS
  <2> HIDE DEF last, near
  <2> QED
    BY <1>3, <1>5, <2>1, <2>2
<1> QED
  BY <1>1, <1>2, <1>3, <1>6

(* It speaks of a file where the artifact of its name was. *)
LEMMA ManifestSays ==
  ASSUME IsList(line.arts), NEW i \in Extracted(line.arts), NEW b, line.arts[i].base = b
  PROVE  [base |-> b, at |-> "exec"] \in ManifestOf(line.arts) <=> line.arts[i].at = "exec"
<1> DEFINE arts == line.arts
           X == Extracted(arts)
<1>1. X \subseteq DOMAIN arts /\ \A j \in X : \A m \in 1..j - 1 : arts[m].base # arts[j].base
  BY DEF Extracted
<1>2. DOMAIN arts = 1..Len(arts) /\ Len(arts) \in Nat
  BY Positions
<1>3. ManifestOf(arts) = {[base |-> arts[j].base, at |-> arts[j].at] : j \in X}
  BY DEF ManifestOf
<1> HIDE DEF arts, X
<1>4. ASSUME NEW j \in X, arts[j].base = b PROVE j = i
  <2>1. i \in X /\ i \in 1..Len(arts) /\ j \in 1..Len(arts) /\ arts[i].base = b
    BY <1>1, <1>2 DEF arts, X
  <2>2. j \notin 1..i - 1 /\ i \notin 1..j - 1
    BY <1>1, <1>4, <2>1
  <2> QED
    BY <1>2, <2>1, <2>2
<1>5. ASSUME NEW j \in X, [base |-> b, at |-> "exec"] = [base |-> arts[j].base, at |-> arts[j].at]
      PROVE  arts[i].at = "exec"
  BY <1>4, <1>5
<1>6. i \in X /\ arts[i].base = b
  BY DEF arts, X
<1>7. ASSUME arts[i].at = "exec" PROVE [base |-> b, at |-> "exec"] \in ManifestOf(arts)
  BY <1>3, <1>6, <1>7
<1> QED
  BY <1>3, <1>5, <1>7 DEF arts

(* A base name of a plain file tells the item, and a dylib's the base name. *)
LEMMA SameFile ==
  ASSUME NEW f, NEW g, FileOk(f), FileOk(g), ~f.deb, ~g.deb
  PROVE  /\ f.base = g.base => /\ f.items[1].name = g.items[1].name
                               /\ f.items[1].kind = g.items[1].kind
         /\ /\ f.items[1].name = g.items[1].name
            /\ f.items[1].kind = g.items[1].kind
            => f.base = g.base
<1>1. f.base = <<f.items[1].name, f.items[1].kind>> /\ g.base = <<g.items[1].name, g.items[1].kind>>
  BY DEF FileOk, BaseOf
<1> QED
  BY <1>1

(* The roots of an accepted line are dylibs, of the base names given. *)
LEMMA RootsGiven ==
  ASSUME LineOk(line), Accepted(line)
  PROVE  LET o == MergeCyans(line) IN
         /\ \A g \in o.roots : FileOk(g) /\ ~g.deb /\ g.items[1].kind = "dylib"
         /\ \A b : (\E r \in GivenRoots : r.base = b) <=> (\E g \in o.roots : g.base = b)
<1> DEFINE o == MergeCyans(line)
<1>1. KeptTo(o, Len(Sources)) /\ Validate(o)
  BY AllKept DEF Accepted
<1>2. DOMAIN Sources = 1..Len(Sources)
  BY SourceOptions
<1> HIDE DEF o
<1>3. RootNames(o) = {r.base : r \in GivenRoots}
  <2>1. RootNames(o) = UNION {{r.base : r \in Sources[i].roots} : i \in DOMAIN Sources}
    BY <1>1, <1>2 DEF KeptTo, RootsTo, RootNames
  <2> QED
    BY <2>1 DEF GivenRoots
<1>4. \A b : (\E r \in GivenRoots : r.base = b) <=> (\E g \in o.roots : g.base = b)
  BY <1>3 DEF RootNames
<1>5. \A g \in o.roots : FileOk(g) /\ ~g.deb /\ g.items[1].kind = "dylib"
  BY <1>1 DEF KeptTo, Validate
<1> QED
  BY <1>4, <1>5 DEF o

(* The file that comes back is injected from where it lies. *)
LEMMA ReturnsInjected ==
  ASSUME LineOk(line), Accepted(line), NEW a, NEW f \in Winners, Returns(a, f)
  PROVE  /\ FileOk(f) /\ f \in Ends(MergeCyans(line).files)
         /\ f \in Range_(FilesOf(line, MergeCyans(line)))
<1> DEFINE o == MergeCyans(line)
           n == Len(line.recipes)
<1>1. /\ n \in Nat /\ DOMAIN line.recipes = 1..n /\ Len(Sources) = n + 1 /\ DOMAIN Sources = 1..n + 1
      /\ Sources[1] = line.cli
      /\ \A i \in 1..n : Sources[i + 1] = line.recipes[i].opts
  BY SourceOptions
<1>2. /\ f \in Range_(line.cli.files) /\ \A r \in Range_(line.recipes) : f.base \notin Bases(r.opts.files)
  BY DEF Returns, OnlyOne
<1>3. IsList(line.cli.files) /\ FileOk(f)
  BY <1>2 DEF LineOk, OptionsOk, Several
<1> HIDE DEF n
<1>4. \A i \in 2..n + 1 : f.base \notin Bases(Sources[i].files)
  <2> TAKE i \in 2..n + 1
  <2>1. i - 1 \in 1..n /\ (i - 1) + 1 = i
    BY <1>1
  <2>2. Sources[i] = line.recipes[i - 1].opts /\ line.recipes[i - 1] \in Range_(line.recipes)
    BY <1>1, <2>1 DEF Range_
  <2> QED
    BY <1>2, <2>2
<1>5. f \in Ends(line.cli.files)
  <2>1. PICK i \in DOMAIN Sources : \E m \in DOMAIN Sources[i].files :
             f = Sources[i].files[m]
             /\ \A x \in m + 1..Len(Sources[i].files) : Sources[i].files[x].base # f.base
    BY DEF Winners
  <2>2. f.base \in Bases(Sources[i].files)
    BY <2>1 DEF Bases, Range_
  <2>3. i = 1
    <3>1. i \notin 2..n + 1
      BY <1>4, <2>2
    <3> QED
      BY <1>1, <3>1
  <2>4. DOMAIN line.cli.files = 1..Len(line.cli.files)
    BY <1>3, Positions
  <2> QED
    BY <1>1, <2>1, <2>3, <2>4 DEF Ends, EndsTo
<1>6. f \in Ends(o.files) /\ IsList(o.files)
  <2>1. KeptTo(o, n + 1) /\ MergedTo(o, n + 1)
    BY <1>1, AllKept, AllMerged
  <2> HIDE DEF o
  <2>2. Unnamed(f, n + 1)
    BY <1>4 DEF Unnamed
  <2> QED
    BY <1>5, <2>1, <2>2 DEF KeptTo, MergedTo
<1> HIDE DEF o
<1> QED
  BY <1>3, <1>6, FilesInjected DEF o

(* What is injected besides is made of files as well. *)
LEMMA AddedOk ==
  ASSUME LineOk(line)
  PROVE  \A g \in Added : FileOk(g)
<1>1. \A g \in Range_(line.fetched) : FileOk(g)
  BY DEF LineOk
<1>2. ASSUME NEW g \in Range_(SideloadFixes) PROVE FileOk(g)
  <2> DEFINE it == [name |-> "fix", kind |-> "dylib", link |-> FALSE, deps |-> {Ref("system", "MobileSubstrate")}]
             dir == <<"tmp", "xkvm", "sideload">>
  <2>1. SideloadFixes = <<[base |-> <<"fix", "dylib">>, dir |-> dir, deb |-> FALSE, items |-> <<it>>]>>
    BY DEF SideloadFixes
  <2>2. it.name = "fix" /\ it.kind = "dylib"
    OBVIOUS
  <2>3. IsList(<<it>>) /\ Len(<<it>>) = 1 /\ <<it>>[1] = it
    BY OneAsked DEF When
  <2>4. IsList(dir)
    <3>1. dir \in Seq({"tmp", "xkvm", "sideload"})
      OBVIOUS
    <3> QED
      BY <3>1, OwnElements
  <2> HIDE DEF it, dir
  <2>5. g = [base |-> <<"fix", "dylib">>, dir |-> dir, deb |-> FALSE, items |-> <<it>>]
    BY <2>1 DEF Range_
  <2> QED
    BY <2>2, <2>3, <2>4, <2>5 DEF FileOk, BaseOf
<1> QED
  BY <1>1, <1>2 DEF Added

(* It is on the list for the app root exactly when it was there, or when   *)
(* it was asked for.                                                       *)
LEMMA RootWhenAsked ==
  ASSUME LineOk(line), Accepted(line), NEW i \in Extracted(line.arts), NEW f \in Winners,
         Returns(line.arts[i], f), f.items[1].kind = "dylib"
  PROVE  f.items[1].name \in JobOf(line).run.roots
            <=> (\E r \in GivenRoots : r.base = f.base) \/ line.arts[i].at = "exec"
<1> DEFINE o == MergeCyans(line)
           files == FilesOf(line, o)
           marked == RootDylibsFromManifests(line, files)
           name == f.items[1].name
<1>1. /\ FileOk(f) /\ ~f.deb /\ f \in Ends(o.files) /\ f \in Range_(files)
      /\ \A g \in Added : g.base # f.base
  BY ReturnsInjected DEF Returns, OnlyOne
<1>2. /\ \A g \in o.roots : FileOk(g) /\ ~g.deb /\ g.items[1].kind = "dylib"
      /\ \A b : (\E r \in GivenRoots : r.base = b) <=> (\E g \in o.roots : g.base = b)
  BY RootsGiven
<1>3. JobOf(line).run.roots = {g.items[1].name : g \in o.roots \cup marked}
  BY DEF JobOf
<1>4. /\ IsList(o.files) /\ o.fix = line.cli.fix /\ \A g \in Range_(o.files) : FileOk(g)
  BY AllKept, AllMerged DEF KeptTo, MergedTo
<1> HIDE DEF o
<1>5. Range_(files) = Ends(o.files) \cup Added
  <2>1. Range_(files) = Ends(o.files) \cup Range_(line.fetched)
            \cup (IF o.fix THEN Range_(SideloadFixes) ELSE {})
    BY <1>4, FilesInjected
  <2> QED
    BY <1>4, <2>1 DEF Added
<1> HIDE DEF files
<1>6. f \in marked <=> line.arts[i].at = "exec"
  <2>1. IsDylib(f)
    BY <1>1 DEF IsDylib
  <2>2. Nearest(line, f.dir) = ManifestOf(line.arts)
    BY <1>1, ManifestFound DEF FileOk, Returns
  <2>3. f \in marked <=> [base |-> f.base, at |-> "exec"] \in ManifestOf(line.arts)
    BY <1>1, <2>1, <2>2 DEF RootDylibsFromManifests
  <2>4. IsList(line.arts) /\ line.arts[i].base = f.base
    BY DEF LineOk, Returns
  <2> QED
    BY <2>3, <2>4, ManifestSays
<1>7. \A g \in marked : g \in Range_(files) /\ IsDylib(g)
  BY DEF RootDylibsFromManifests
<1> HIDE DEF marked
<1>8. ASSUME NEW g \in marked, g.items[1].name = name PROVE g = f
  <2>1. g \in Range_(files) /\ ~g.deb /\ g.items[1].kind = "dylib"
    BY <1>7 DEF IsDylib
  <2>2. FileOk(g)
    <3>1. Ends(o.files) \subseteq Range_(o.files)
      BY <1>4, EndsAreFiles
    <3>2. \A x \in Added : FileOk(x)
      BY AddedOk
    <3> QED
      BY <1>4, <1>5, <2>1, <3>1, <3>2
  <2>3. g.base = f.base
    BY <1>1, <1>8, <2>1, <2>2, SameFile
  <2>4. g \in Ends(o.files)
    BY <1>1, <1>5, <2>1, <2>3
  <2> QED
    BY <1>1, <1>4, <2>3, <2>4, OneEnd
<1>9. ASSUME NEW g \in o.roots PROVE g.items[1].name = name <=> g.base = f.base
  BY <1>1, <1>2, SameFile
<1>10. name \in JobOf(line).run.roots
          <=> (\E g \in o.roots : g.items[1].name = name) \/ (\E g \in marked : g.items[1].name = name)
  BY <1>3
<1>11. (\E g \in marked : g.items[1].name = name) <=> f \in marked
  BY <1>8
<1>12. (\E g \in o.roots : g.items[1].name = name) <=> \E g \in o.roots : g.base = f.base
  BY <1>9
<1> HIDE DEF name
<1>13. (\E g \in o.roots : g.base = f.base) <=> \E r \in GivenRoots : r.base = f.base
  BY <1>2
<1>14. name \in JobOf(line).run.roots
          <=> (\E r \in GivenRoots : r.base = f.base) \/ line.arts[i].at = "exec"
  BY ONLY <1>6, <1>10, <1>11, <1>12, <1>13
<1> QED
  BY <1>14 DEF name

(* Where it goes is where it was, or where it was asked to go. *)
LEMMA HomeIsWhereItWas ==
  ASSUME LineOk(line), Accepted(line), LineInv, NEW i \in Extracted(line.arts), NEW f \in Winners,
         Returns(line.arts[i], f)
  PROVE  HomeOf(line.arts[i], f) = Home(f.items[1])
<1> DEFINE at == line.arts[i].at
           it == f.items[1]
           asked == \E r \in GivenRoots : r.base = f.base
<1>1. FileOk(f) /\ ~f.deb
  BY ReturnsInjected DEF Returns
<1>2. <<it.kind, at>> \in {<<"dylib", "exec">>, <<"dylib", "rpath">>,
                           <<"framework", "rpath">>, <<"appex", "plugin">>}
  BY DEF Returns
<1>3. HomeOf(line.arts[i], f) = Ref(IF asked THEN "exec" ELSE at, it.name)
  BY DEF HomeOf
<1>4. it.kind # "dylib" => ~asked
  <2> SUFFICES ASSUME asked PROVE it.kind = "dylib"
    OBVIOUS
  <2>1. PICK g \in MergeCyans(line).roots : g.base = f.base
    BY RootsGiven
  <2>2. FileOk(g) /\ ~g.deb /\ g.items[1].kind = "dylib"
    BY RootsGiven
  <2> QED
    BY <1>1, <2>1, <2>2, SameFile
<1>5. it.kind = "dylib" => (IsRoot(it) <=> asked \/ at = "exec")
  <2>1. run = JobOf(line).run
    BY DEF LineInv
  <2> QED
    BY <2>1, RootWhenAsked DEF IsRoot
<1>6. it.kind # "dylib" => ~IsRoot(it)
  BY DEF IsRoot
<1> SUFFICES HomeOf(line.arts[i], f) = Home(it)
  OBVIOUS
<1> HIDE DEF asked, at, it
<1>7. CASE it.kind = "dylib" /\ (at = "exec" \/ at = "rpath")
  BY <1>3, <1>5, <1>7 DEF Home, PlaceOf
<1>8. CASE it.kind = "framework" /\ at = "rpath"
  BY <1>3, <1>4, <1>6, <1>8 DEF Home, PlaceOf
<1>9. CASE it.kind = "appex" /\ at = "plugin"
  BY <1>3, <1>4, <1>9 DEF Home
<1> QED
  BY <1>2, <1>7, <1>8, <1>9

(* A finished run has brought it there. *)
LEMMA LandedAtLast ==
  ASSUME pc = "done", LineInv, ExpandInv, RefsInv, HomeInv, Accepted(line)
  PROVE  LandsWhereItWas
<1> SUFFICES ASSUME NEW i \in Extracted(line.arts), NEW f \in Winners, Returns(line.arts[i], f)
             PROVE  /\ HomeOf(line.arts[i], f) \in DOMAIN shipped
                    /\ IsDylib(f) => HomeOf(line.arts[i], f) \in Range_(main.loads)
  BY DEF LandsWhereItWas
<1>1. LineOk(line)
  BY LinesAssumption DEF LineInv
<1>2. FileOk(f) /\ ~f.deb /\ ~f.items[1].link /\ f \in Range_(run.tweaks)
  <2>1. run.tweaks = FilesOf(line, MergeCyans(line))
    BY DEF LineInv, JobOf
  <2> QED
    BY <1>1, <2>1, ReturnsInjected DEF Returns
<1>3. f.items[1] \in Range_(items)
  <2>1. f.items[1] \in Range_(f.items)
    BY <1>2, Positions DEF FileOk
  <2> QED
    BY <1>2, <2>1, AllExpanded DEF Holding
<1>4. AtHome(f.items[1])
  <2>1. PICK j \in DOMAIN items : f.items[1] = items[j]
    BY <1>3 DEF Range_
  <2> QED
    BY <1>2, <2>1 DEF HomeInv
<1>5. HomeOf(line.arts[i], f) = Home(f.items[1])
  BY <1>1, HomeIsWhereItWas
<1> QED
  BY <1>4, <1>5 DEF AtHome, IsDylib, Code

(* From any command line, with any recipes: a file that `xkvm extract' took *)
(* out of an app is put back where it was, at the root or in the directory *)
(* of its kind, and a dylib is loaded from there (run.go 399-405).         *)
THEOREM LandsAlways == OptionsSpec => []LandsWhereItWas
<1>1. Spec => [](ExpandInv /\ RefsInv)
  BY InitExpand, NextExpand, InitRefs, NextRefs, PTL DEF Spec
<1>2. OptionsSpec => Spec
  BY OptionsImplementRun, RunImplementsPipeline
<1>3. NothingApplied /\ pc = "done" => Accepted(line)
  BY DEF NothingApplied
<1>4. LineInv /\ (ExpandInv /\ RefsInv) /\ HomeInv /\ NothingApplied => LandsWhereItWas
  <2>1. pc # "done" => LandsWhereItWas
    BY DEF LandsWhereItWas
  <2> QED
    BY <1>3, <2>1, LandedAtLast
<1> QED
  BY <1>1, <1>2, <1>4, AllHome, LineStays, RefusedAppliesNothing, PTL
=============================================================================
