------------------------------ MODULE CheckFix ------------------------------
(***************************************************************************)
(* `xkvm check --fix' (app/checkfix.go) over the reference check of        *)
(* appbundle/check.go: find what an app's Mach-Os load from the bundle and *)
(* the bundle lacks, search it in directories, debs and repositories,      *)
(* place it, sign, check again and write a fixed copy.                     *)
(*                                                                         *)
(* A bundle is a set of items: Mach-Os and the directories that hold one.  *)
(* What an item contains is given by its name (Holds); a reference is the  *)
(* prefix it is written with and the first component after it, which is    *)
(* all the check looks at.                                                 *)
(***************************************************************************)
EXTENDS Naturals, Sequences, FiniteSets

CONSTANTS
    Commands,   \* the command lines, with the items of the app
    Holds,      \* name -> [kind, deps, dlopens, plist, family, signable]
    Shims,      \* the Swift runtime libraries and frameworks of the system
    Loose,      \* names found as files in the searched directories
    Debs,       \* debs there, in order: [has, tried], sets of names
    Repo        \* names a repository search finds a deb for

VARIABLES
    cmd,        \* the command line that runs
    pc,
    app,        \* the items of the scratch copy
    report,     \* what the first check found
    todo,       \* the part of it the loop has not reached
    search,     \* the reference being located, see TypeOK
    staged,     \* name -> what debsearch/found/<name> is
    placed,     \* the references something was placed for
    files       \* the user's files: [input, output]

vars == <<cmd, pc, app, report, todo, search, staged, placed, files>>

(* The prefixes the check resolves; any other reference is the system's. *)
Vias == {"@rpath", "@executable_path/Frameworks", "@executable_path", "@loader_path"}
Items == [dir : Seq(DOMAIN Holds), name : DOMAIN Holds, whole : BOOLEAN, signed : BOOLEAN]
(* A framework with a Mach-O in it holds one, so it is an item. *)
BundleOk(items) ==
    \A i \in items : \A k \in DOMAIN i.dir : Holds[i.dir[k]].kind = "framework" =>
        \E f \in items : f.dir = SubSeq(i.dir, 1, k - 1) /\ f.name = i.dir[k]

(* A name a string gives is that of a framework. *)
ASSUME HoldsAssumption ==
    /\ "Frameworks" \in DOMAIN Holds /\ Holds["Frameworks"].kind = "dir"
    /\ \A n \in DOMAIN Holds :
         /\ \A d \in Holds[n].deps : d.via \in Vias /\ d.name \in DOMAIN Holds \cup Shims
         /\ \A f \in Holds[n].dlopens \ Shims :
                f \in DOMAIN Holds /\ Holds[f].kind = "framework"
ASSUME CommandsAssumption ==
    \A c \in Commands : /\ c.app \subseteq Items /\ BundleOk(c.app)
                        /\ c.kind \in {"ipa", "app"}
                        /\ c.out \in {"apart", "same", "alias", "around"}

Item(dir, name) == [dir |-> dir, name |-> name, whole |-> TRUE, signed |-> FALSE]
PathOf(i) == Append(i.dir, i.name)
Kind(i) == Holds[i.name].kind

(* The directory of the item's Mach-O: a dylib is one, the others hold one. *)
BinDir(i) == IF Kind(i) \in {"main", "dylib"} THEN i.dir ELSE PathOf(i)

Exists(items, path) ==
    \E i \in items : /\ Len(path) <= Len(PathOf(i))
                     /\ SubSeq(PathOf(i), 1, Len(path)) = path

(* A torn copy has neither load commands nor strings that could be read. *)
executables(items) ==
    {i \in items : \/ Kind(i) \in {"main", "dylib"}
                   \/ Kind(i) \in {"framework", "appex"} /\ Holds[i.name].plist}
machoFiles(items) == {i \in items : i.whole /\ Kind(i) # "main"}

(* Inside an extension @executable_path is taken for the directory the     *)
(* extension is in.                                                        *)
contextDir(i) ==
    LET p == PathOf(i)
        in == {k \in DOMAIN p : Holds[p[k]].kind = "appex"}
    IN  IF in = {} THEN <<>>
        ELSE SubSeq(p, 1, (CHOOSE k \in in : \A l \in in : k <= l) - 1)

resolveBundleRef(via, i) ==
    CASE via \in {"@rpath", "@executable_path/Frameworks"} -> <<"Frameworks">>
      [] via = "@executable_path" -> contextDir(i)
      [] via = "@loader_path" -> BinDir(i)

(* Frameworks/ and the root are reachable from everywhere, the inside of a *)
(* .bundle or .appex from binaries of the same family.                     *)
Tops == {"bundle", "appex"}
tweakFamily(i) ==
    LET p == PathOf(i)
        in == {k \in DOMAIN p : Holds[p[k]].kind \in Tops}
    IN  IF in # {} THEN Holds[p[CHOOSE k \in in : \A l \in in : k <= l]].family
        ELSE IF i.dir = <<>> /\ Kind(i) = "dylib" THEN Holds[i.name].family ELSE ""
reachable(items, fam) ==
    {f.name : f \in {i \in items :
        /\ Kind(i) = "framework"
        /\ \/ i.dir = <<>> \/ Head(i.dir) = "Frameworks"
           \/ /\ i.dir # <<>> /\ Holds[Head(i.dir)].kind \in Tops
              /\ Holds[Head(i.dir)].family = fam}}

Ref(i, via, name) == [from |-> [dir |-> i.dir, name |-> i.name], via |-> via, name |-> name]

(* The load commands that resolve to nothing, and the frameworks that the  *)
(* strings name and the binary cannot reach.                               *)
missingDeps(i, items) ==
    {Ref(i, d.via, d.name) : d \in {d \in Holds[i.name].deps :
        d.name \notin Shims /\ ~Exists(items, Append(resolveBundleRef(d.via, i), d.name))}}
suspected(i, items) ==
    {Ref(i, "dlopen", n) : n \in Holds[i.name].dlopens \ (reachable(items, tweakFamily(i)) \cup Shims)}

CheckReferences(items) ==
    (UNION {missingDeps(i, items) : i \in {i \in executables(items) : i.whole}})
    \cup (UNION {suspected(i, items) : i \in machoFiles(items)})

(* Mutant: inside an extension as in the app itself. *)
FixTargetNoContext(m) ==
    IF m.via \in {"@executable_path", "@executable_path/Frameworks"} THEN <<>>
    ELSE IF m.via = "@loader_path"
         THEN BinDir([dir |-> m.from.dir, name |-> m.from.name])
         ELSE <<"Frameworks">>

(* Where what a reference names is placed. *)
FixTarget(m) ==
    IF m.via = "dlopen" THEN <<"Frameworks">>
    ELSE resolveBundleRef(m.via, [dir |-> m.from.dir, name |-> m.from.name])
-----------------------------------------------------------------------------
NoRef  == [from |-> [dir |-> <<>>, name |-> ""], via |-> "", name |-> ""]
Idle   == [ref |-> NoRef, debs |-> <<>>, asked |-> FALSE, found |-> "nothing"]

Init ==
    /\ cmd \in Commands
    /\ pc = "start"
    /\ app = {} /\ report = {} /\ todo = {} /\ placed = {}
    /\ search = Idle
    /\ staged = [n \in {} |-> "torn"]
    /\ files = [input |-> "old", output |-> IF cmd.out = "apart" THEN "none" ELSE "old"]

Go(to) == pc' = to
Fail == pc' = "failed"

(* Only the spelling of the paths is compared.  The app is copied, or      *)
(* extracted, into the scratch directory.                                  *)
Start ==
    /\ pc = "start"
    /\ \/ cmd.out # "same" /\ Go("check") /\ app' = cmd.app
       \/ Fail /\ UNCHANGED app
    /\ UNCHANGED <<cmd, report, todo, search, staged, placed, files>>

Check ==
    /\ pc = "check"
    /\ report' = CheckReferences(app)
    /\ todo' = report'
    /\ Go(IF report' = {} THEN "ok" ELSE "loop")
    /\ UNCHANGED <<cmd, app, search, staged, placed, files>>

(* Take a reference; without a place to search it stays unresolved. *)
Take(m) ==
    /\ pc = "loop" /\ m \in todo
    /\ todo' = todo \ {m}
    /\ IF ~cmd.dirs /\ ~cmd.fetch THEN UNCHANGED <<pc, search>>
       ELSE /\ Go(IF cmd.dirs /\ m.name \in Loose THEN "found" ELSE "debs")
            /\ search' = [ref |-> m,
                          debs |-> IF cmd.dirs THEN Debs ELSE <<>>,
                          asked |-> FALSE,
                          found |-> IF pc' = "found" THEN "whole" ELSE "nothing"]
    /\ UNCHANGED <<cmd, app, report, staged, placed, files>>

(* A deb that unpacks and has the name is staged, unless something of that *)
(* name is staged already; a copy that fails leaves its part there.        *)
Hit(state) ==
    /\ Go("found") /\ search' = [search EXCEPT !.found = state]
NextDeb == Go("debs") /\ search' = [search EXCEPT !.debs = Tail(@)]
StagedAs(n, state) == [x \in DOMAIN staged \cup {n} |-> IF x = n THEN state ELSE staged[x]]

SearchDeb ==
    /\ pc = "debs" /\ search.debs # <<>>
    /\ LET n == search.ref.name
           d == Head(search.debs)
       IN  \/ NextDeb /\ UNCHANGED staged          \* not tried, unreadable, or without it
           \/ /\ n \in d.has /\ n \in d.tried
              /\ \/ n \in DOMAIN staged /\ Hit(staged[n]) /\ UNCHANGED staged
                 \/ n \notin DOMAIN staged /\ Hit("whole") /\ staged' = StagedAs(n, "whole")
                 \/ n \notin DOMAIN staged /\ NextDeb /\ staged' = StagedAs(n, "torn")
    /\ UNCHANGED <<cmd, app, report, todo, placed, files>>

(* The repositories, last; an error of the search is only logged. *)
SearchRepos ==
    /\ pc = "debs" /\ search.debs = <<>> /\ cmd.fetch /\ ~search.asked
    /\ \E hit \in {search.ref.name \in Repo, FALSE} :
          search' = [search EXCEPT !.asked = TRUE,
              !.debs = IF hit THEN <<[has |-> {search.ref.name}, tried |-> {search.ref.name}]>>
                       ELSE <<>>]
    /\ UNCHANGED <<cmd, pc, app, report, todo, staged, placed, files>>

NotFound ==
    /\ pc = "debs" /\ search.debs = <<>> /\ (search.asked \/ ~cmd.fetch)
    /\ Go("loop") /\ search' = Idle
    /\ UNCHANGED <<cmd, app, report, todo, staged, placed, files>>

(* A suspected reference is asked about, after the search. *)
Decline ==
    /\ pc = "found" /\ search.ref.via = "dlopen" /\ ~cmd.yes
    /\ Go("loop") /\ search' = Idle
    /\ UNCHANGED <<cmd, app, report, todo, staged, placed, files>>

(* What exists at the place already is left alone. *)
copyArtifact(dst, name, state) ==
    IF Exists(app, Append(dst, name)) THEN app
    ELSE app \cup {[Item(dst, name) EXCEPT !.whole = (state = "whole")]}

Place ==
    /\ pc = "found"
    /\ \/ /\ app' = copyArtifact(FixTarget(search.ref), search.ref.name, search.found)
          /\ placed' = placed \cup {search.ref}
          /\ Go("loop")
       \/ Fail /\ UNCHANGED <<app, placed>>
    /\ search' = Idle
    /\ UNCHANGED <<cmd, report, todo, staged, files>>

LoopEnds ==
    /\ pc = "loop" /\ todo = {}
    /\ Go(IF placed = {} THEN "recheck" ELSE "sign")
    /\ UNCHANGED <<cmd, app, report, todo, search, staged, placed, files>>

(* Mutant: only the executable the app is started from. *)
FakesignMain(items) ==
    {IF Kind(i) = "main" THEN [i EXCEPT !.signed = TRUE] ELSE i : i \in items}

(* What cannot be signed is passed over. *)
Signable(i) == i.whole /\ Holds[i.name].signable
FakesignAll(items) ==
    {IF i \in executables(items) /\ Signable(i) THEN [i EXCEPT !.signed = TRUE] ELSE i
        : i \in items}

Sign ==
    /\ pc = "sign"
    /\ app' = FakesignAll(app)
    /\ Go("recheck")
    /\ UNCHANGED <<cmd, report, todo, search, staged, placed, files>>

(* Mutant: what was placed counts as resolved. *)
RemainingUnplaced == report \ placed

Remaining == CheckReferences(app)
Result == IF Remaining = {} THEN "ok" ELSE "failed"

Recheck ==
    /\ pc = "recheck"
    /\ Go(IF placed = {} THEN Result ELSE "write")
    /\ UNCHANGED <<cmd, app, report, todo, search, staged, placed, files>>

(* The input is hit as well when the output is another spelling of its     *)
(* path, or a directory around it.                                         *)
Became(content, around) ==
    [output |-> content,
     input |-> CASE cmd.out \in {"alias", "same"} -> content
                 [] cmd.out = "around" -> around
                 [] OTHER -> files.input]

(* An archive is created in place, which fails on a directory; an app that *)
(* exists is removed with all that is under its path.                      *)
BeginOutput ==
    /\ pc = "write"
    /\ IF cmd.kind = "ipa" /\ cmd.out = "around"
       THEN Fail /\ UNCHANGED files
       ELSE Go("writing") /\ files' = Became("torn", "none")
    /\ UNCHANGED <<cmd, app, report, todo, search, staged, placed>>

EndOutput ==
    /\ pc = "writing"
    /\ \/ files' = Became("new", files.input) /\ Go(Result)
       \/ Fail /\ UNCHANGED files
    /\ UNCHANGED <<cmd, app, report, todo, search, staged, placed>>

Next ==
    \/ Start \/ Check \/ (\E m \in todo : Take(m))
    \/ SearchDeb \/ SearchRepos \/ NotFound \/ Decline \/ Place
    \/ LoopEnds \/ Sign \/ Recheck \/ BeginOutput \/ EndOutput

Spec == Init /\ [][Next]_vars
-----------------------------------------------------------------------------
TypeOK ==
    /\ cmd \in Commands
    /\ pc \in {"start", "check", "loop", "debs", "found", "sign", "recheck", "write",
               "writing", "ok", "failed"}
    /\ app \subseteq Items
    /\ todo \subseteq report /\ placed \subseteq report
    /\ \A n \in DOMAIN staged : staged[n] \in {"whole", "torn"}
    /\ DOMAIN search = {"ref", "debs", "asked", "found"}
    /\ search.found \in {"nothing", "whole", "torn"}
    /\ files \in [input : {"old", "none", "torn", "new"}, output : {"old", "none", "torn", "new"}]

(* What was placed for a reference lies where the check looks for it:      *)
(* FixTarget and CheckReferences, two readings of one reference written    *)
(* apart, agree whatever was placed before and after.                      *)
FixLandsWhereChecked == placed \cap CheckReferences(app) = {}

(* Exit code zero: nothing is missing from what the user now has, the      *)
(* references of the artifacts that were placed included.                  *)
SuccessMeansResolved ==
    pc = "ok" => IF placed = {} THEN CheckReferences(cmd.app) = {} /\ files.output # "new"
                 ELSE CheckReferences(app) = {} /\ files.output = "new"

(* Every binary of the output that the bundle loads through a plist or as  *)
(* a dylib carries a signature, the placed ones included, except for those *)
(* that cannot be signed.                                                  *)
OutputSigned ==
    files.output = "new" => \A i \in executables(app) : Signable(i) => i.signed

(* checkfix.go: "The original input is never touched." *)
InputNeverTouched == files.input = "old"
=============================================================================
