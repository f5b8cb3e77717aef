------------------------------ MODULE Options ------------------------------
(***************************************************************************)
(* From the command line to the run of module AppRun (app/run.go 28-158,   *)
(* app/options.go, cyanfile/): the .cyan recipes given with -z are         *)
(* checked, unpacked and merged into the options, the options validated,   *)
(* files of one base name reduced to the last, fetched and bundled tweaks  *)
(* added, and the dylibs an earlier `xkvm extract' found at an app's root  *)
(* marked to go there again.                                               *)
(*                                                                         *)
(* All of this is a function of what was typed and what lies on the disk,  *)
(* so it is written as operators: JobOf gives the job AppRun carries out,  *)
(* Accepted whether it may begin.  A file is a record [base, dir, deb,     *)
(* items]: its base name (a name and a suffix, which tells the kind), where *)
(* it lies, and the item it is or, for a deb, the items it holds.  An      *)
(* option that was not given is Unset.                                     *)
(***************************************************************************)
EXTENDS AppRun

CONSTANTS
    Lines,      \* [cli, recipes, fetched, manifests, arts, out, app, place, exists, toApp]
    Unset       \* the value of an option nobody gave

VARIABLE
    line        \* the command line of the run under way

optionVars == <<runVars, line>>

S == INSTANCE SequencesExt

Scalars == {"name", "version", "id", "min", "icon", "merge", "ents", "compress"}
Switches == {"fakesign", "ellekit", "exts", "encrypted", "devices", "watch", "docs", "overwrite"}
Several == {"files", "patches"}

(* Nothing asked for; "roots" are the dylibs for the app root, "fix" is    *)
(* --patch, which no recipe can ask for.                                   *)
Options ==
    [k \in Scalars \cup Switches \cup Several \cup {"roots", "fix"} |->
        IF k \in Scalars THEN Unset ELSE IF k \in Several THEN <<>>
        ELSE IF k = "roots" THEN {} ELSE FALSE]

BaseOf(it) == <<it.name, it.kind>>
Bases(files) == {f.base : f \in Range_(files)}
RootNames(o) == {f.base : f \in o.roots}

(* Files by base name, each where the first of the name was and as the     *)
(* last one is.                                                            *)
Dedupe(files) ==
    S!FoldLeft(LAMBDA kept, f :
                   IF f.base \in Bases(kept)
                   THEN [i \in DOMAIN kept |-> IF kept[i].base = f.base THEN f ELSE kept[i]]
                   ELSE Append(kept, f),
               <<>>, files)
-----------------------------------------------------------------------------
(***************************************************************************)
(* Recipes.  An archive has the options of its config.json, its payloads,  *)
(* and the base names of those that go to the app root.                    *)
(***************************************************************************)
IsFolder(f) == ~f.deb /\ f.items[1].kind \in {"framework", "appex"}

(* cgen knows some of the options.  It writes nothing when a root is not   *)
(* among the files, and cannot pack a folder: it fails when it gets there, *)
(* with the archive begun under its final name.                            *)
Generate(o) ==
    [whole |-> RootNames(o) \subseteq Bases(o.files) /\ ~\E f \in Range_(o.files) : IsFolder(f),
     opts |-> [k \in DOMAIN Options |->
                  IF k \in {"name", "fakesign", "ellekit", "patches"} THEN o[k] ELSE Options[k]],
     payload |-> Dedupe(o.files),
     roots |-> Bases(o.files) \cap RootNames(o)]

(* Other generators set any option. *)
Written(o) ==
    [whole |-> TRUE, opts |-> [o EXCEPT !.files = <<>>, !.roots = {}],
     payload |-> o.files, roots |-> RootNames(o)]

Archive(source) == IF source.by = "cgen" THEN Generate(source.opts) ELSE Written(source.opts)

KnownPatches == {"force-fullscreen", "liquid-glass", "liquid-glass-compat"}

(* No error of Validate, which finds what would make Parse fail as well.   *)
Checked(r) ==
    /\ r.whole
    /\ r.roots \subseteq Bases(r.payload)
    /\ Range_(r.opts.patches) \subseteq KnownPatches

(* Payloads are unpacked into the run's scratch directory. *)
Payload(r) == [i \in DOMAIN r.payload |->
                  [r.payload[i] EXCEPT !.dir = <<"tmp", "xkvm", "cyan", "inject">>]]

Parse(r) ==
    [r.opts EXCEPT !.files = Payload(r),
                   !.roots = {f \in Range_(Payload(r)) : f.base \in r.roots}]

(* Mutant: what was typed comes after what the recipe brings. *)
MergeTypedLast(o, c) ==
    [k \in DOMAIN o |->
        IF k \in Scalars THEN IF o[k] = Unset THEN c[k] ELSE o[k]
        ELSE IF k \in Switches THEN o[k] \/ c[k]
        ELSE IF k \in Several THEN c[k] \o o[k]
        ELSE IF k = "roots" THEN c[k] \cup o[k]
        ELSE o[k]]

(* A recipe's values replace those before it, its switches are added to    *)
(* them, its files come after them.                                        *)
Merge(o, c) ==
    [k \in DOMAIN o |->
        IF k \in Scalars THEN IF c[k] = Unset THEN o[k] ELSE c[k]
        ELSE IF k \in Switches THEN o[k] \/ c[k]
        ELSE IF k \in Several THEN o[k] \o c[k]
        ELSE IF k = "roots" THEN o[k] \cup c[k]
        ELSE o[k]]

MergeCyans(l) ==
    S!FoldLeft(LAMBDA o, source : Merge(o, Parse(Archive(source))), l.cli, l.recipes)
-----------------------------------------------------------------------------
(* The checks of validate that what is modelled can fail. *)
Validate(o) ==
    /\ o.compress = Unset \/ o.compress \in 0..9
    /\ \A f \in o.roots : ~f.deb /\ f.items[1].kind = "dylib"
    /\ ~{"liquid-glass", "liquid-glass-compat"} \subseteq Range_(o.patches)

Accepted(l) ==
    /\ \A i \in DOMAIN l.recipes : Checked(Archive(l.recipes[i]))
    /\ Validate(MergeCyans(l))

(***************************************************************************)
(* What `xkvm extract' leaves: the artifacts of an app in the order they   *)
(* are found, the first of each base name, and a manifest of where each    *)
(* was.  An artifact is [base, at], at as in Inject.                       *)
(***************************************************************************)
Extracted(arts) == {i \in DOMAIN arts : \A j \in 1..i - 1 : arts[j].base # arts[i].base}

(* Mutant: skipped duplicates are in the manifest. *)
ManifestOfAll(arts) == {[base |-> arts[i].base, at |-> arts[i].at] : i \in DOMAIN arts}

ManifestOf(arts) == {[base |-> arts[i].base, at |-> arts[i].at] : i \in Extracted(arts)}

(* The manifest nearest above a directory, four levels up at most. The     *)
(* walk stops at the first one, read or not, and never looks in the        *)
(* current directory, whose name is empty here.                            *)
manifestMaxDepth == 4
Nearest(l, dir) ==
    LET With(n) == SubSeq(dir, 1, n)
        near == {n \in 1..Len(dir) : Len(dir) - n < manifestMaxDepth
                                        /\ With(n) \in DOMAIN l.manifests}
    IN  IF near = {} THEN {}
        ELSE l.manifests[With(CHOOSE n \in near : \A m \in near : m <= n)]

IsDylib(f) == ~f.deb /\ f.items[1].kind = "dylib"
RootDylibsFromManifests(l, files) ==
    {f \in Range_(files) : IsDylib(f) /\ [base |-> f.base, at |-> "exec"] \in Nearest(l, f.dir)}
-----------------------------------------------------------------------------
(* The edits of a run in their order, before and after the entitlements,   *)
(* and the keys its patches set, the later one winning.                    *)
When(asked, edit) == IF asked THEN <<edit>> ELSE <<>>
Set(op, d) == [op |-> op, set |-> d, lists |-> {}]

EditsOf(o) ==
    When(o.name # Unset, Set("name", [name |-> o.name, display |-> o.name]))
    \o When(o.version # Unset, Set("version", [version |-> o.version, short |-> o.version]))
    \o When(o.id # Unset, Set("id", [id |-> o.id]))
    \o When(o.min # Unset, Set("min", [min |-> o.min]))
    \o When(o.icon # Unset, Set("icon", [icons |-> o.icon]))
    \o When(o.merge # Unset, [op |-> "merge", set |-> o.merge.set, lists |-> o.merge.lists])

LateEditsOf(o) ==
    When(o.devices, [op |-> "drop", key |-> "devices"])
    \o When(o.watch, [op |-> "watch"])
    \o When(o.docs, Set("docs", [browser |-> "yes", sharing |-> "yes"]))

PatchSets(name) ==
    CASE name = "force-fullscreen" -> [fullscreen |-> "yes"]
      [] name = "liquid-glass" -> [compat |-> "no"]
      [] OTHER -> [compat |-> "yes"]
PatchKeys(patches) ==
    S!FoldLeft(LAMBDA d, name : Put_(d, PatchSets(name)), [k \in {} |-> ""], patches)

(* The dylibs embedded for --patch. *)
SideloadFixes ==
    <<[base |-> <<"fix", "dylib">>, dir |-> <<"tmp", "xkvm", "sideload">>, deb |-> FALSE,
       items |-> <<[name |-> "fix", kind |-> "dylib", link |-> FALSE,
                    deps |-> {Ref("system", "MobileSubstrate")}]>>]>>

(* Fetched and bundled tweaks come after the last look at base names.      *)
FilesOf(l, o) ==
    Dedupe(o.files) \o l.fetched \o (IF o.fix THEN SideloadFixes ELSE <<>>)

JobOf(l) ==
    LET o == IF Accepted(l) THEN MergeCyans(l) ELSE l.cli
        files == FilesOf(l, o)
        roots == o.roots \cup RootDylibsFromManifests(l, files)
    IN  [run |-> [tweaks |-> files, roots |-> {f.items[1].name : f \in roots},
                  ellekit |-> o.ellekit, has |-> l.app.has, signed |-> l.app.signed,
                  ents |-> l.app.ents, newEnts |-> IF o.ents = Unset THEN NoEnts ELSE o.ents,
                  glass |-> "liquid-glass" \in Range_(o.patches),
                  fakesign |-> o.fakesign \/ o.fix, place |-> l.place,
                  overwrite |-> o.overwrite, exists |-> l.exists, app |-> l.toApp],
         plist |-> l.app.plist, exts |-> l.app.exts,
         removal |-> IF o.exts THEN "all" ELSE IF o.encrypted THEN "encrypted" ELSE "none",
         edits |-> EditsOf(o), late |-> LateEditsOf(o), patches |-> PatchKeys(o.patches)]

(* Options as the command line or a recipe gives them: cgen has flags for  *)
(* a few (cli.go 607-655), and a run has one per patch (cli.go 145-151).   *)
(* A file that is no deb is one item, and is called after it.              *)
FileOk(f) ==
    /\ DOMAIN f = {"base", "dir", "deb", "items"} /\ IsList(f.items) /\ IsList(f.dir)
    /\ ~f.deb => Len(f.items) = 1 /\ f.base = BaseOf(f.items[1])
OptionsOk(o) ==
    /\ DOMAIN o = DOMAIN Options
    /\ \A k \in Several : IsList(o[k])
    /\ \A f \in Range_(o.files) \cup o.roots : FileOk(f)
    /\ o.ents # NoEnts
LineOk(l) ==
    /\ IsList(l.recipes) /\ IsList(l.fetched) /\ IsList(l.arts)
    /\ \A f \in Range_(l.fetched) : FileOk(f)
    /\ OptionsOk(l.cli) /\ Range_(l.cli.patches) \subseteq KnownPatches
    /\ \A r \in Range_(l.recipes) :
          OptionsOk(r.opts) /\ (r.by = "cgen" => \A k \in Scalars \ {"name"} : r.opts[k] = Unset)
ASSUME LinesAssumption == \A l \in Lines : LineOk(l)

(* The identifiers a line brings are identifiers. *)
ASSUME IdentifiersAssumption == \A l \in Lines : Identified(JobOf(l))

OptionsInit ==
    /\ line \in Lines
    /\ job = JobOf(line)
    /\ RunInit

(* A line that is not accepted ends before anything is copied. *)
OptionsNext ==
    /\ RunNext
    /\ pc = "start" /\ ~Accepted(line) => pc' \in {"failed", "crashed"}
    /\ UNCHANGED line

OptionsSpec == OptionsInit /\ [][OptionsNext]_optionVars
-----------------------------------------------------------------------------
Sources == <<line.cli>> \o [i \in DOMAIN line.recipes |-> line.recipes[i].opts]

(* The last source to give an option. *)
Asked(k) ==
    LET by == {i \in DOMAIN Sources : Sources[i][k] # Unset}
    IN  IF by = {} THEN Unset ELSE Sources[CHOOSE i \in by : \A j \in by : j <= i][k]

Given(k) == UNION {Range_(Sources[i][k]) : i \in DOMAIN Sources}
GivenRoots == UNION {Sources[i].roots : i \in DOMAIN Sources}

(* What is injected besides the files that were named. *)
Added == Range_(line.fetched) \cup (IF line.cli.fix THEN Range_(SideloadFixes) ELSE {})

(* The files of the last source to name their base name, and of that       *)
(* source the last.                                                        *)
Winners ==
    {f \in Given("files") :
        \E i \in DOMAIN Sources : \E n \in DOMAIN Sources[i].files :
            /\ f = Sources[i].files[n]
            /\ \A m \in n + 1..Len(Sources[i].files) : Sources[i].files[m].base # f.base
            /\ \A j \in i + 1..Len(Sources) : f.base \notin Bases(Sources[j].files)}

(* "Config wins on collision", "later configs winning over earlier ones"   *)
(* (run.go 447-451): whoever wrote the recipes and with what, a finished   *)
(* run has injected, of the files of one base name, the last one named,    *)
(* and nothing else but what was fetched or bundled; the app has the last  *)
(* value given for a key, unless the last plist to merge names the key;    *)
(* and every switch and patch anyone asked for.                            *)
LastNamedWins ==
    pc = "done" =>
        /\ Range_(items) = UNION {Range_(f.items) : f \in Winners \cup Added}
        /\ \A k \in {"name", "version", "id", "min"} :
              Asked(k) # Unset /\ (Asked("merge") = Unset \/ k \notin DOMAIN Asked("merge").set)
                  => plistFile[k] = Asked(k)
        /\ Asked("ents") # Unset => main.ents = Asked("ents")
        /\ (\E i \in DOMAIN Sources : Sources[i].ellekit) => mode = "ellekit"
        /\ \A p \in Given("patches") : \A k \in DOMAIN PatchSets(p) :
              k \in DOMAIN plistFile /\ plistFile[k] = PatchSets(p)[k]

(* What `xkvm extract' took out of an app and a run puts in again lands    *)
(* where it was: a dylib at the root or in Frameworks, everything else in  *)
(* the directory of its kind, whatever else the run is given (run.go       *)
(* 399-405).  The file must still be at most three levels below the        *)
(* directory it was extracted to, be named by way of it, with no other     *)
(* manifest between them; it must be a file, not a link, and the one that  *)
(* is injected under its name; --root-dylib says otherwise.                *)
HomeOf(a, f) ==
    Ref(IF \E r \in GivenRoots : r.base = f.base THEN "exec" ELSE a.at, f.items[1].name)
StillThere(f) ==
    LET n == Len(line.out)
        Above(m) == SubSeq(f.dir, 1, m)
    IN  /\ n \in 1..Len(f.dir) /\ Len(f.dir) <= n + 3 /\ Above(n) = line.out
        /\ line.out \in DOMAIN line.manifests
        /\ line.manifests[line.out] = ManifestOf(line.arts)
        /\ \A m \in n + 1..Len(f.dir) : Above(m) \notin DOMAIN line.manifests
OnlyOne(f) ==
    /\ \A r \in Range_(line.recipes) : f.base \notin Bases(r.opts.files)
    /\ \A g \in Added : g.base # f.base
Returns(a, f) ==
    /\ f.base = a.base /\ ~f.deb /\ ~f.items[1].link
    /\ f \in Range_(line.cli.files) /\ OnlyOne(f) /\ StillThere(f)
    /\ <<f.items[1].kind, a.at>> \in {<<"dylib", "exec">>, <<"dylib", "rpath">>,
                                      <<"framework", "rpath">>, <<"appex", "plugin">>}
LandsWhereItWas ==
    pc = "done" =>
        \A i \in Extracted(line.arts) : \A f \in Winners :
            Returns(line.arts[i], f) =>
                /\ HomeOf(line.arts[i], f) \in DOMAIN shipped
                /\ IsDylib(f) => HomeOf(line.arts[i], f) \in Range_(main.loads)
=============================================================================
