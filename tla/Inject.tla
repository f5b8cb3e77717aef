------------------------------- MODULE Inject -------------------------------
(***************************************************************************)
(* Tweak injection into an extracted app bundle (inject/inject.go), in the *)
(* steps of Injector.Inject: expand the debs, scan for libhooker, strip    *)
(* the main executable, make the directories and the rpath, place every    *)
(* item, materialise the hooking frameworks the items turned out to need,  *)
(* and put the entitlements back.                                          *)
(*                                                                         *)
(* A reference is a load command's target: `at' says how it is found       *)
(* ("rpath": Frameworks/, "exec": the app root, "system": an absolute      *)
(* path of a jailbroken device) and `name' what is found there.  The same  *)
(* pair names the place of a file in the bundle, so a reference resolves   *)
(* when it is in the domain of `shipped'.  Mach-O bytes, paths and log     *)
(* lines are left out; a name stands for one content.                      *)
(***************************************************************************)
EXTENDS Integers, Sequences, FiniteSets

CONSTANTS
    Runs,       \* what a run may be asked to do, see InjectAssumption
    NoEnts      \* the main executable carries no entitlements

(***************************************************************************)
(* The table of hooking dependencies: which names a fragment matches and   *)
(* the framework that satisfies it in either mode ("" = none).             *)
(***************************************************************************)
commonDeps ==
    [substrate |-> [matches |-> {"MobileSubstrate", "CydiaSubstrate"},
                    sub |-> "CydiaSubstrate", ek |-> "ElleKit"],
     libhooker |-> [matches |-> {"libhooker"}, sub |-> "", ek |-> "ElleKit"],
     orion |-> [matches |-> {"Orion"}, sub |-> "Orion", ek |-> "Orion"],
     cepheiprefs |-> [matches |-> {"CepheiPrefs"},
                      sub |-> "CepheiPrefs", ek |-> "CepheiPrefs"],
     cephei |-> [matches |-> {"Cephei"}, sub |-> "Cephei", ek |-> "Cephei"]]

Keys == {"substrate", "libhooker", "orion", "cepheiprefs", "cephei"}
Runtimes == {"CydiaSubstrate", "ElleKit"}
Modes == {"substrate", "ellekit"}

Ref(at, name) == [at |-> at, name |-> name]

(* The frameworks a key is satisfied by in a mode. *)
infoFor(key, m) == IF m = "ellekit" THEN commonDeps[key].ek ELSE commonDeps[key].sub

(* What the embedded frameworks themselves load (their load commands). *)
EmbeddedDeps(name) ==
    CASE name = "Orion" -> {Ref("rpath", "CydiaSubstrate")}
      [] name = "CepheiPrefs" -> {Ref("rpath", "Cephei")}
      [] OTHER -> {}

KeysOf(ref) == {k \in Keys : ref.name \in commonDeps[k].matches}

Range_(s) == {s[i] : i \in DOMAIN s}
IsList(s) == s \in Seq(Range_(s))

(* A run: the tweak list, the names listed as app-root dylibs, --ellekit,  *)
(* the frameworks the app already has and its entitlements.  A tweak is a  *)
(* plain item or a deb with the artifacts of its payload.                  *)
Kinds == {"dylib", "framework", "appex", "other"}
ASSUME InjectAssumption ==
    \A r \in Runs :
        /\ IsList(r.tweaks) /\ \A t \in Range_(r.tweaks) : IsList(t.items)
        /\ \A i \in DOMAIN r.tweaks : \A j \in DOMAIN r.tweaks[i].items :
              r.tweaks[i].items[j].kind \in Kinds
        /\ r.ellekit \in BOOLEAN
        /\ ~r.signed => r.ents = NoEnts     \* an unsigned app carries none

(* Two debs of one run that ship an artifact of one name ship the same one *)
(* (builds of one tweak meet as plain files): an artifact collected before *)
(* it is unpacked over is then the one collected after.                    *)
ASSUME StagingAssumption ==
    \A r \in Runs : \A i, j \in DOMAIN r.tweaks :
        i # j /\ r.tweaks[i].deb /\ r.tweaks[j].deb =>
            \A x \in Range_(r.tweaks[i].items), y \in Range_(r.tweaks[j].items) :
                x.name = y.name => x = y

VARIABLES
    run,        \* the run under way
    pc,         \* where Inject is
    todo,       \* tweaks not expanded yet
    staged,     \* artifacts under the staging directory
    items,      \* items to place
    placed,     \* how many of them have been handled
    mode,       \* Injector.Mode
    needed,     \* keys whose framework must be present
    main,       \* the main executable
    saved,      \* entitlements read before the edits
    shipped     \* files in the bundle: place |-> what the file is

injectVars == <<run, todo, staged, items, placed, mode, needed, main, saved, shipped>>

Names == {it.name : it \in Range_(items)}

(* Adds or replaces a file of the bundle (remove, then rename or copy). *)
Put(place, file) ==
    [p \in DOMAIN shipped \cup {place} |-> IF p = place THEN file ELSE shipped[p]]

File(deps, stuck, from) == [deps |-> deps, stuck |-> stuck, from |-> from]

IsRoot(it) == it.kind = "dylib" /\ it.name \in run.roots

-----------------------------------------------------------------------------
(***************************************************************************)
(* Expansion.  Every deb is unpacked into the SAME staging directory, and  *)
(* the artifacts are collected from the whole directory: what an earlier   *)
(* deb left there, and what this one put there or replaced.  (The walk     *)
(* goes by path; here the later deb's come last.  An item is a path, which *)
(* after a later deb may hold another file: StagingAssumption.)            *)
(***************************************************************************)
Collect(dir) == dir
Unpack(dir, arts) ==
    LET stay == {i \in DOMAIN dir : dir[i].name \notin {a.name : a \in Range_(arts)}}
        Nth(n) == CHOOSE i \in stay : Cardinality({j \in stay : j < i}) = n - 1
    IN  [n \in 1..Cardinality(stay) |-> dir[Nth(n)]] \o arts

ExpandDeb ==
    /\ pc = "expand" /\ todo # <<>> /\ Head(todo).deb
    /\ staged' = Unpack(staged, Head(todo).items)
    /\ items' = items \o Collect(staged')
    /\ todo' = Tail(todo)
    /\ UNCHANGED <<pc, run, placed, mode, needed, main, saved, shipped>>

TakeItem ==
    /\ pc = "expand" /\ todo # <<>> /\ ~Head(todo).deb
    /\ items' = items \o Head(todo).items
    /\ todo' = Tail(todo)
    /\ UNCHANGED <<pc, run, staged, placed, mode, needed, main, saved, shipped>>

(* Nothing to inject: Inject returns before it touches the app. *)
NothingToDo ==
    /\ pc = "expand" /\ todo = <<>> /\ items = <<>>
    /\ pc' = "injected"
    /\ UNCHANGED injectVars

(***************************************************************************)
(* The pre-scan: a dylib, or the binary inside a framework, that loads     *)
(* libhooker switches the run before any dependency is rewritten.          *)
(***************************************************************************)
(* Mutant: only frameworks are scanned. *)
dependsOnFrameworkOnly(it) ==
    it.kind = "framework" /\ \E d \in it.deps : "libhooker" \in KeysOf(d)

dependsOnLibhooker(it) ==
    it.kind \in {"dylib", "framework"} /\ \E d \in it.deps : "libhooker" \in KeysOf(d)

PreScan ==
    /\ pc = "expand" /\ todo = <<>> /\ items # <<>>
    /\ mode' = IF \E it \in Range_(items) : dependsOnLibhooker(it)
               THEN "ellekit" ELSE mode
    /\ pc' = "strip"
    /\ UNCHANGED <<run, todo, staged, items, placed, needed, main, saved, shipped>>

(* An unsigned executable has no readable entitlements: a warning only. *)
Strip ==
    /\ pc = "strip"
    /\ saved' = IF main.signed THEN main.ents ELSE NoEnts
    /\ main' = [main EXCEPT !.signed = FALSE, !.ents = NoEnts]
    /\ pc' = "dirs"
    /\ UNCHANGED <<run, todo, staged, items, placed, mode, needed, shipped>>

(* PlugIns and Frameworks directories; the rpath comes with the latter. *)
MakeDirs ==
    /\ pc = "dirs"
    /\ main' = [main EXCEPT !.rpath = @ \/ \E it \in Range_(items) :
                    it.kind \in {"dylib", "framework"} /\ ~IsRoot(it)]
    /\ pc' = "place"
    /\ UNCHANGED <<run, todo, staged, items, placed, mode, needed, saved, shipped>>
-----------------------------------------------------------------------------
(***************************************************************************)
(* Dependency fixing on the staged copy of a dylib.                        *)
(***************************************************************************)
CanonOf(d, m) ==
    IF KeysOf(d) = {} THEN d
    ELSE Ref("rpath", infoFor(CHOOSE k \in KeysOf(d) : TRUE, m))

(* Where another injected item is, by its name: the kind is read off the   *)
(* suffix and symlinks, which are never placed, are among the names.       *)
InjectedAt(d) ==
    IF d.name \notin Names THEN d
    ELSE Ref(IF d.name \in run.roots /\ \E it \in Range_(items) :
                    it.name = d.name /\ it.kind # "framework"
             THEN "exec" ELSE "rpath", d.name)

(* A longer load command may not fit the header: a warning, and the old    *)
(* reference stays.                                                        *)
MayStick(d, new) == d # new /\ (d.at = "system" \/ new.at = "exec")

FixDeps(deps, stuck, m) ==
    {IF d \in stuck THEN d ELSE InjectedAt(CanonOf(d, m)) : d \in deps}

(* fixCommonDeps's own switch, for a libhooker dependency nobody scanned. *)
ModeFor(it) ==
    IF mode = "substrate" /\ \E d \in it.deps : "libhooker" \in KeysOf(d)
    THEN "ellekit" ELSE mode

More == placed + 1 \in DOMAIN items
Item == items[placed + 1]
Placing(kind) == pc = "place" /\ More /\ Item.kind = kind /\ ~Item.link
InjectWeak(m, ref) == [m EXCEPT !.loads = Append(@, ref)]

(* Mutant: only a dependency that had to be rewritten is noted as needed. *)
PlaceUnnoted(it, place, newMode, stuck) ==
    /\ mode' = newMode
    /\ needed' = needed \cup UNION {KeysOf(d) : d \in {e \in it.deps : CanonOf(e, newMode) # e}}
    /\ main' = InjectWeak(main, place)
    /\ shipped' = Put(place, File(FixDeps(it.deps, stuck, newMode), stuck, "tweak"))

(* Placement: stage, fix, load from the main executable, move into place. *)
PlaceAt(it, place, newMode, stuck) ==
    /\ mode' = newMode
    /\ needed' = needed \cup UNION {KeysOf(d) : d \in it.deps}
    /\ main' = InjectWeak(main, place)
    /\ shipped' = Put(place, File(FixDeps(it.deps, stuck, newMode), stuck, "tweak"))

InjectDylib ==
    /\ Placing("dylib")
    /\ \E stuck \in SUBSET {d \in Item.deps : MayStick(d, InjectedAt(CanonOf(d, ModeFor(Item))))} :
          PlaceAt(Item, Ref(IF IsRoot(Item) THEN "exec" ELSE "rpath", Item.name),
                  ModeFor(Item), stuck)
    /\ placed' = placed + 1
    /\ UNCHANGED <<pc, run, todo, staged, items, saved>>

(* A framework is copied as it is: its own dependencies are not fixed. *)
InjectFramework ==
    /\ Placing("framework")
    /\ main' = InjectWeak(main, Ref("rpath", Item.name))
    /\ shipped' = Put(Ref("rpath", Item.name), File(Item.deps, Item.deps, "tweak"))
    /\ placed' = placed + 1
    /\ UNCHANGED <<pc, run, todo, staged, items, mode, needed, saved>>

(* Extensions go to PlugIns, anything else to the app root; no load. *)
InjectFiles ==
    /\ \/ /\ Placing("appex")
          /\ shipped' = Put(Ref("plugin", Item.name), File({}, {}, "tweak"))
       \/ /\ Placing("other")
          /\ shipped' = Put(Ref("exec", Item.name), File({}, {}, "tweak"))
    /\ placed' = placed + 1
    /\ UNCHANGED <<pc, run, todo, staged, items, mode, needed, main, saved>>

SkipLink ==
    /\ pc = "place" /\ More /\ Item.link
    /\ placed' = placed + 1
    /\ UNCHANGED <<pc, run, todo, staged, items, mode, needed, main, saved, shipped>>

(* Orion refers to substrate weakly and gets it too. *)
AllPlaced ==
    /\ pc = "place" /\ ~More
    /\ needed' = needed \cup {k \in {"substrate"} : "orion" \in needed}
    /\ pc' = "auto"
    /\ UNCHANGED <<run, todo, staged, items, placed, mode, main, saved, shipped>>
-----------------------------------------------------------------------------
(***************************************************************************)
(* The needed frameworks, in the random order of a Go map.  One that is in *)
(* the bundle already is kept.                                             *)
(***************************************************************************)
AutoInject(key) ==
    LET name == infoFor(key, mode)
        place == Ref("rpath", name)
    IN  /\ pc = "auto" /\ key \in needed
        /\ needed' = needed \ {key}
        /\ IF name = ""
           THEN pc' = "failed" /\ UNCHANGED shipped
           ELSE /\ shipped' = IF place \in DOMAIN shipped THEN shipped
                              ELSE Put(place, File(EmbeddedDeps(name), {}, "extras"))
                /\ UNCHANGED pc
        /\ UNCHANGED <<run, todo, staged, items, placed, mode, main, saved>>

(* Mutant: the main executable keeps no entitlements. *)
RestoreNothing ==
    /\ pc = "auto" /\ needed = {}
    /\ main' = [main EXCEPT !.signed = @ \/ saved # NoEnts]
    /\ pc' = "injected"
    /\ UNCHANGED <<run, todo, staged, items, placed, mode, needed, saved, shipped>>

(* Only an executable that had entitlements is signed again. *)
Restore ==
    /\ pc = "auto" /\ needed = {}
    /\ main' = IF saved = NoEnts THEN main
               ELSE [main EXCEPT !.signed = TRUE, !.ents = saved]
    /\ pc' = "injected"
    /\ UNCHANGED <<run, todo, staged, items, placed, mode, needed, saved, shipped>>

(* Any of the calls may fail; what it left half done is in the scratch     *)
(* directory and goes with it.                                             *)
InjectFails ==
    /\ pc \in {"expand", "strip", "dirs", "place", "auto"}
    /\ pc' = "failed"
    /\ UNCHANGED injectVars

InjectNext ==
    \/ ExpandDeb \/ TakeItem \/ NothingToDo \/ PreScan \/ Strip \/ MakeDirs
    \/ InjectDylib \/ InjectFramework \/ InjectFiles \/ SkipLink \/ AllPlaced
    \/ \E key \in needed : AutoInject(key)
    \/ Restore \/ InjectFails

(* A fresh bundle, with the injection still to start. *)
InjectInit ==
    /\ run \in Runs
    /\ todo = run.tweaks
    /\ staged = <<>> /\ items = <<>> /\ placed = 0
    /\ mode = IF run.ellekit THEN "ellekit" ELSE "substrate"
    /\ needed = {} /\ saved = NoEnts
    /\ main = [signed |-> run.signed, ents |-> run.ents, rpath |-> FALSE, loads |-> <<>>]
    /\ shipped = [p \in {Ref("rpath", n) : n \in run.has} |-> File({}, {}, "app")]
=============================================================================
