------------------------------- MODULE Convert -------------------------------
(***************************************************************************)
(* The package converters: `xkvm rootless' (with --tweakinject, with       *)
(* --xina), `xkvm rootful' and `xkvm roothide', run one after another, the *)
(* next on the output of the last.  A package is a tree, from places to    *)
(* files, and its control fields.                                          *)
(***************************************************************************)
EXTENDS PackagePaths, FiniteSets

CONSTANTS
    Packages,   \* packages a user may start from, see PackageOk
    Chains      \* sequences of jobs

KEEP == "own"                      \* the entitlements an executable came with
PLATFORM == "platform"             \* roothideEntitlements
MachO(f) == f.kind \in {"exec", "dylib"}

(* job.kind: "rootless", "xina", "rootful", "roothide", "debify"; ti, mirror: flags; *)
(* mode: "", "auto", "dynamic"; extra: files debify adds                             *)
IsFile(f) ==
    /\ DOMAIN f = {"who", "kind", "deps", "id", "rpaths", "strs", "ents", "sig"}
    /\ f.kind \in {"exec", "dylib", "script", "plist", "other", "link"}
(* who: which file it is, wherever it is moved; no link is shipped under xkvm's name *)
AutoPatches == "AutoPatches"
PackageOk(p) ==
    /\ \A q \in DOMAIN p.tree : Len(q) >= 2 /\ IsFile(p.tree[q]) /\ p.tree[q].who # AutoPatches
    /\ \A q, r \in DOMAIN p.tree : p.tree[q].who = p.tree[r].who => q = r
    /\ p.layout \in {"rootful", "rootless", "xina", "roothide", "dylib"}
(* What debify adds are files, and not those of the package. *)
ChainOk(c) ==
    /\ c \in Seq(Range(c))
    /\ \A i \in DOMAIN c : \A q \in DOMAIN c[i].extra : LET f == c[i].extra[q] IN
          IsFile(f) /\ \A p \in Packages : \A r \in DOMAIN p.tree : f.who # p.tree[r].who
ASSUME PackagesAssumption == \A p \in Packages : PackageOk(p)
ASSUME ChainsAssumption == \A c \in Chains : ChainOk(c)

VARIABLES
    chain,      \* the jobs still to run, the current one first
    steps,       \* the steps left of the current job
    given,      \* the package the current job was handed
    tree, ctl,  \* the scratch directory
    warned,     \* files the fixed-path audit named
    out, made,  \* the package at the output path; "absent", "whole" or "partial"
    status,     \* "idle", "busy", "written", "skipped", "failed"
    fault,      \* "none", "io" (a file operation failed), "refused" (not a package it takes), "code" (it ran into itself)
    first, ran  \* the package at the start, the kinds of jobs done

convertVars == <<chain, steps, given, tree, ctl, warned, out, made, status, fault, first, ran>>

Job == Head(chain)
At(step) == status = "busy" /\ steps # <<>> /\ Head(steps) = step
Proceed == steps' = Tail(steps) /\ UNCHANGED <<chain, given, out, made, status, fault, first, ran>>
FailWith(why) ==
    /\ status' = "failed" /\ fault' = why
    /\ UNCHANGED <<chain, steps, given, tree, ctl, warned, out, made, first, ran>>

Files(t) == DOMAIN t
Under(t, dir) == {p \in Files(t) : Len(p) > Len(dir) /\ IsPrefix(dir, p)}
IsDir(t, p) == Under(t, p) # {}
Children(t, dir) == {p[Len(dir) + 1] : p \in Under(t, dir)}
Rest(p, dir) == SubSeq(p, Len(dir) + 1, Len(p))

(* os.Rename fails when the target is a directory, or a file and the source none. *)
CanRename(t, src, dst) == ~IsDir(t, dst) /\ (dst \in Files(t) => src \in Files(t))
(* moves: from a file or directory to where it goes; a file that is in the way is lost. *)
NewPlace(moves, p) ==
    LET s == {d \in DOMAIN moves : IsPrefix(d, p)} IN
    IF s = {} THEN p ELSE LET d == CHOOSE d \in s : TRUE IN moves[d] \o Rest(p, d)
Moved(t, moves) ==
    [q \in {NewPlace(moves, p) : p \in Files(t)} |->
        LET from == {p \in Files(t) : NewPlace(moves, p) = q}
            gone == {p \in from : p # q} IN t[CHOOSE p \in from : gone # {} => p \in gone]]
Relocate(moves) ==
    IF \A s \in DOMAIN moves : CanRename(tree, s, moves[s])
    THEN tree' = Moved(tree, moves) /\ UNCHANGED <<ctl, warned>> /\ Proceed
    ELSE FailWith("code")
Lift(names, dir, to) == [s \in {dir \o <<n>> : n \in names} |-> to \o <<Last(s)>>]
Edit(t, places, Change(_)) == [p \in Files(t) |-> IF p \in places THEN Change(t[p]) ELSE t[p]]
MapRefs(refs, R(_)) == [i \in DOMAIN refs |-> R(refs[i])]

Debian == <<"DEBIAN">>

--------------------------------------------------------------------------
(* Starting a job. *)

Steps(job) ==
    CASE job.kind = "rootless" -> <<"repack">> \o (IF job.ti THEN <<"inject">> ELSE <<>>)
                                  \o <<"control", "machos", "scripts", "audit", "build">>
      [] job.kind = "xina" -> <<"repack", "control", "payload", "build">>
      [] job.kind = "rootful" -> <<"hoist", "control", "payload", "build">>
      [] job.kind = "debify" -> <<"wrap", "build">>
      [] job.kind = "roothide" -> <<"arch", "hoist">> \o (IF job.mirror THEN <<"mirror">> ELSE <<>>)
                                  \o <<"control", "payload", "audit", "sweep", "build">>

(* The two converters that leave at once, with success and no output. *)
NothingToDo(job, t) == \/ job.kind = "xina" /\ IsDir(t, Jb)
                       \/ job.kind = "rootful" /\ ~IsDir(t, Jb)

(* The entry points take a deb; debify takes anything but one. *)
Refused(job, pkg) == job.kind # "debify" /\ pkg.layout = "dylib"
Unpack ==
    /\ status \in {"idle", "written"} /\ chain # <<>>
    /\ LET pkg == IF status = "idle" THEN given ELSE out IN
       /\ ~Refused(Job, pkg) /\ given' = pkg /\ tree' = pkg.tree /\ ctl' = pkg.ctl
       /\ status' = IF NothingToDo(Job, pkg.tree) THEN "skipped" ELSE "busy"
    /\ steps' = Steps(Job) /\ warned' = {}
    /\ UNCHANGED <<chain, out, made, fault, first, ran>>

Refuse == /\ status = "idle" /\ chain # <<>> /\ Refused(Job, given) /\ FailWith("refused")

--------------------------------------------------------------------------
(* The layouts. *)

(* var/jb is made before the children of var/ are listed, and is one of them. *)
RepackRootless ==
    /\ At("repack")
    /\ IF IsDir(tree, Jb) THEN UNCHANGED <<tree, ctl, warned>> /\ Proceed
       ELSE IF IsDir(tree, <<"var">>) THEN FailWith("code")
       ELSE Relocate(Lift(Children(tree, <<>>) \ {"DEBIAN"}, <<>>, Jb))

DynamicLibraries == Jb \o <<"Library", "MobileSubstrate", "DynamicLibraries">>
TweakInject == Jb \o <<"usr", "lib", "TweakInject">>
ApplyTweakInjectLayout ==
    /\ At("inject")
    /\ Relocate(Lift(Children(tree, DynamicLibraries), DynamicLibraries, TweakInject))

HoistRootlessPayload ==
    /\ At("hoist") /\ Job.kind = "rootful"
    /\ Relocate(Lift(Children(tree, Jb) \ {"DEBIAN"}, Jb, <<>>))

(* The system part of var/ leaves first; the payload is set aside, and what else    *)
(* lies at the root is still there when it arrives.  A file of the payload takes    *)
(* the place of a loose one, and moves on under rootfs/ in its stead.               *)
jbrootTmp == <<".xkvm-jbroot-tmp">>
HoistRootless ==
    LET loose == Children(tree, <<>>) \ {"DEBIAN", "var"}
        rootfs == <<"rootfs">>
        up == Lift(Children(tree, Jb), jbrootTmp, <<>>)
        aside == Lift(loose, <<>>, rootfs)
        outOfVar == Moved(tree, Lift(Children(tree, <<"var">>) \ {"jb"}, <<"var">>, rootfs \o <<"var">>))
        emptied == Moved(outOfVar, [s \in {Jb} |-> jbrootTmp])
        hoisted == Moved(emptied, up)
        clash == \/ "DEBIAN" \in Children(tree, Jb) \/ Jb \in Files(tree)
                 \/ \E s \in DOMAIN up : ~CanRename(emptied, s, up[s])
                 \/ "rootfs" \in loose \/ (loose # {} /\ rootfs \in Files(hoisted))
                 \/ \E s \in DOMAIN aside : ~CanRename(hoisted, s, aside[s])
    IN /\ At("hoist") /\ Job.kind = "roothide"
       /\ IF clash THEN FailWith("code")
          ELSE tree' = Moved(hoisted, aside) /\ UNCHANGED <<ctl, warned>> /\ Proceed

pkgmirror == <<"var", "mobile", "Library", "pkgmirror">>
InMirror(p) == \E i \in DOMAIN p : i + 3 <= Len(p) /\ SubSeq(p, i, i + 3) = pkgmirror
MakePkgMirror ==
    LET copied == {p \in Files(tree) : Head(p) # "var"}
        place(p) == pkgmirror \o (IF Head(p) = "DEBIAN" THEN <<"DEBIAN." \o ctl.pkg>> \o Tail(p) ELSE p)
    IN /\ At("mirror")
       /\ tree' = [q \in Files(tree) \cup {place(p) : p \in copied} |->
                     IF q \in Files(tree) THEN tree[q] ELSE tree[CHOOSE p \in copied : place(p) = q]]
       /\ UNCHANGED <<ctl, warned>> /\ Proceed

(* `xkvm debify': a dylib goes where tweaks live, a directory is the payload as it  *)
(* is (its own control file wins over the generated one); then the filter and the   *)
(* further files are copied over it.  The package is marked for rootless devices.   *)
Generated == [pkg |-> "tweak", arch |-> "iphoneos-arm64", depends |-> FALSE, name |-> FALSE, icon |-> <<>>,
              version |-> "", conflicts |-> FALSE, pre |-> <<>>]
CopiedOver(t, new) == [p \in Files(t) \cup Files(new) |-> IF p \in Files(new) THEN new[p] ELSE t[p]]
OldTweakDir == <<"Library", "MobileSubstrate", "DynamicLibraries">>
Debify ==
    LET single == given.layout = "dylib"
        payload == IF single THEN [p \in {OldTweakDir \o <<Last(q)>> : q \in Files(tree)} |-> tree[CHOOSE q \in Files(tree) : TRUE]]
                   ELSE tree
    IN /\ At("wrap")
       /\ tree' = CopiedOver(payload, Job.extra)
       /\ ctl' = IF <<"DEBIAN", "control">> \in Files(tree') THEN ctl ELSE Generated
       /\ UNCHANGED warned /\ Proceed

--------------------------------------------------------------------------
(* The control file. *)

CheckRootlessArch ==
    /\ At("arch")
    /\ IF ctl.arch = "iphoneos-arm64" THEN UNCHANGED <<tree, ctl, warned>> /\ Proceed ELSE FailWith("refused")

(* depends: does it name the runtime alternation; name: has it the Xina suffix *)
editControl(c) == [c EXCEPT !.arch = "iphoneos-arm64", !.depends = TRUE, !.icon = RootlessString(@)]
editControlXina(c) == [c EXCEPT !.arch = IF @ = "" THEN @ ELSE "iphoneos-arm64", !.name = TRUE]
editControlRootful(c) ==
    [c EXCEPT !.arch = IF @ = "iphoneos-arm64" THEN "iphoneos-arm" ELSE @, !.depends = FALSE, !.name = FALSE]
editControlRoothide(c, mode) ==
    [c EXCEPT !.arch = "iphoneos-arm64e", !.conflicts = FALSE,
              !.version = IF mode = "dynamic" THEN "~roothide" ELSE @,
              !.pre = CASE mode = "auto" -> <<"rootless-compat">> \o @
                        [] mode = "dynamic" -> <<"patches">> \o @
                        [] OTHER -> @]
EditControl ==
    /\ At("control")
    /\ ctl' = CASE Job.kind = "rootless" -> editControl(ctl)
                 [] Job.kind = "xina" -> editControlXina(ctl)
                 [] Job.kind = "rootful" -> editControlRootful(ctl)
                 [] Job.kind = "roothide" -> editControlRoothide(ctl, Job.mode)
    /\ UNCHANGED <<tree, warned>> /\ Proceed

--------------------------------------------------------------------------
(* Signatures.  sig: "none", "good", "odd" (there, but not readable here). *)

ExtractEntitlements(f) == IF f.sig = "good" THEN f.ents ELSE {}
RemoveSignature(f) == [f EXCEPT !.sig = "none", !.ents = {}]
(* No entitlements given: those of a readable signature stay. *)
SignWithEntitlements(f, ents) == [f EXCEPT !.sig = "good", !.ents = IF ents = {} THEN ExtractEntitlements(f) ELSE ents]
(* A mutant: the base replaces what was there, as upstream does. *)
mergedReplaces(f, orig) == {PLATFORM}
mergedPlatformEntitlements(f, orig) == {PLATFORM} \cup (IF orig = {} THEN ExtractEntitlements(f) ELSE orig)
signMachOWithPlatformEnts(f, orig) ==
    SignWithEntitlements(f, IF f.kind = "exec" THEN mergedPlatformEntitlements(f, orig) ELSE {})

AddRpath(f, r) == IF \E i \in DOMAIN f.rpaths : f.rpaths[i] = r THEN f ELSE [f EXCEPT !.rpaths = Append(@, r)]

--------------------------------------------------------------------------
(* The payload. *)

ConvertMachO(f, ti) ==
    LET captured == ExtractEntitlements(f)
        bare == RemoveSignature(f)
        edited == [bare EXCEPT !.deps = MapRefs(@, LAMBDA r : RootlessDep(r, ti)),
                               !.id = IF @ = <<>> THEN @ ELSE RootlessId(@, ti),
                               !.strs = MapRefs(@, RootlessString)]
        linked == IF ti THEN AddRpath(AddRpath(edited, Abs(<<"usr", "lib">>)), Abs(Jb \o <<"usr", "lib">>)) ELSE edited
    IN signMachOWithPlatformEnts(linked, captured)

ConvertMachOs ==
    /\ At("machos")
    /\ tree' = Edit(tree, {p \in Under(tree, Jb) : MachO(tree[p])}, LAMBDA f : ConvertMachO(f, Job.ti))
    /\ UNCHANGED <<ctl, warned>> /\ Proceed

ConvertScripts ==
    /\ At("scripts")
    /\ tree' = Edit(tree, {p \in Files(tree) : tree[p].kind = "script"},
                    LAMBDA f : [f EXCEPT !.strs = patchScriptForRootless(@)])
    /\ UNCHANGED <<ctl, warned>> /\ Proceed

(* Property lists are rewritten everywhere, scripts only among the control files. *)
xinaControlScriptNames == {"preinst", "postinst", "prerm", "postrm"}
TextWith(rules, f) == [f EXCEPT !.strs = MapRefs(@, LAMBDA r : applySeds(rules, r))]
PatchText(t, rules) ==
    Edit(t, {p \in Files(t) : t[p].kind = "plist" \/ (Head(p) = "DEBIAN" /\ Last(p) \in xinaControlScriptNames)},
         LAMBDA f : TextWith(rules, f))

patchMachOForXina(f) ==
    LET edited == [RemoveSignature(f) EXCEPT !.id = IF @ = <<>> THEN @ ELSE <<"@rpath", Last(@)>>,
                                             !.deps = MapRefs(@, XinaDep)]
        linked == AddRpath(AddRpath(edited, Abs(Jb \o <<"Library", "Frameworks">>)), Abs(Jb \o <<"usr", "lib">>))
        sedded == [linked EXCEPT !.deps = MapRefs(@, XinaBytes), !.rpaths = MapRefs(@, XinaBytes),
                                 !.strs = MapRefs(@, XinaBytes)]
    IN SignWithEntitlements(sedded, ExtractEntitlements(f))

(* One place for each base name; which of several the walk meets first is left open. *)
Resolvers(t) ==
    LET shipped == {p \in Files(t) : Head(p) # "DEBIAN"}
        names == {Last(p) : p \in shipped} IN
    {r \in [names -> shipped] : \A b \in names : Last(r[b]) = b}

patchMachOForRootful(f, found) ==
    LET bytes(r) == applySeds(rootfulByteSeds, r)
        edited == [RemoveSignature(f) EXCEPT
            !.deps = MapRefs(@, LAMBDA r : bytes(rootfulDependency(r, found))),
            !.id = IF @ = <<>> THEN @ ELSE bytes(rootfulDependency(@, found)),
            !.rpaths = MapRefs(SelectSeq(@, LAMBDA r : ~InJb(r)), bytes),
            !.strs = MapRefs(@, LAMBDA r : rootfulString(bytes(r)))]
    IN SignWithEntitlements(edited, ExtractEntitlements(f))

patchMachOForRoothide(f) ==
    signMachOWithPlatformEnts([f EXCEPT !.deps = MapRefs(@, jbrootReplace), !.rpaths = MapRefs(@, jbrootReplace)], {})

PatchPayloadForXina ==
    /\ At("payload") /\ Job.kind = "xina"
    /\ tree' = PatchText(Edit(tree, {p \in Files(tree) : MachO(tree[p])}, patchMachOForXina), xinaTextSeds)
    /\ UNCHANGED <<ctl, warned>> /\ Proceed

PatchPayloadForRootful ==
    /\ At("payload") /\ Job.kind = "rootful"
    /\ \E found \in Resolvers(tree) :
       tree' = PatchText(Edit(tree, {p \in Files(tree) : MachO(tree[p])},
                              LAMBDA f : patchMachOForRootful(f, found)), rootfulTextSeds)
    /\ UNCHANGED <<ctl, warned>> /\ Proceed

(* A mutant: the walk does not skip the mirror. *)
RoothidePatchedAll(t) == {p \in Files(t) : t[p].kind # "link"}
(* Every file but the links and the mirror; in mode auto each Mach-O gets a sibling link. *)
RoothidePatched(t) == {p \in Files(t) : t[p].kind # "link" /\ ~InMirror(p)}
Sibling(p) == Front(p) \o <<Last(p) \o ".roothidepatch">>
Link == [who |-> AutoPatches, kind |-> "link", deps |-> <<>>, id |-> <<>>, rpaths |-> <<>>, strs |-> <<>>,
         ents |-> {}, sig |-> "none"]
LaunchDaemonPlist(r) == IF InJb(r) THEN Abs(SubSeq(r, 4, Len(r))) ELSE r
PatchPayloadForRoothide ==
    LET patched == RoothidePatched(tree)
        machos == {p \in patched : MachO(tree[p])}
        daemons == {p \in patched : tree[p].kind = "plist" /\ \E i \in 1..Len(p) - 2 : SubSeq(p, i, i + 1) = <<"Library", "LaunchDaemons">>}
        texts == {p \in patched \ daemons :
                    \/ tree[p].kind = "script" /\ Last(p) \in {"preinst", "prerm", "postinst", "postrm", "extrainst_"}
                    \/ tree[p].kind = "plist" /\ \E i \in 1..Len(p) - 2 : SubSeq(p, i, i + 1) = <<"Library", "libSandy">>}
        links == IF Job.mode = "auto" THEN {Sibling(p) : p \in machos} ELSE {}
        edited(p) == IF p \in machos THEN patchMachOForRoothide(tree[p])
                     ELSE IF p \in daemons THEN [tree[p] EXCEPT !.strs = MapRefs(@, LaunchDaemonPlist)]
                     ELSE IF p \in texts THEN [tree[p] EXCEPT !.strs = MapRefs(@, patchScriptPaths)]
                     ELSE tree[p]
    IN /\ At("payload") /\ Job.kind = "roothide"
       /\ IF links \cap Files(tree) # {} THEN FailWith("code")
          ELSE /\ tree' = [p \in Files(tree) \cup links |-> IF p \in links THEN Link ELSE edited(p)]
               /\ UNCHANGED <<ctl, warned>> /\ Proceed

--------------------------------------------------------------------------
(* The audits, the sweep and the output. *)

(* rootless: dependencies, and the paths in text files, the converter would still rewrite *)
WarnFixedPaths ==
    LET named(f) == IF MachO(f) THEN f.deps ELSE f.strs IN
    /\ At("audit") /\ Job.kind = "rootless"
    /\ warned' = {tree[p].who : p \in {q \in Under(tree, Jb) :
                        \E i \in DOMAIN named(tree[q]) : ShouldConvert(named(tree[q])[i])}}
    /\ UNCHANGED <<tree, ctl>> /\ Proceed

(* roothide: whatever still mentions /var/jb *)
WarnRoothideFixedPaths ==
    LET named(f) == f.deps \o f.rpaths \o f.strs
        scanned == {p \in Files(tree) : tree[p].kind # "link" /\ \A i \in DOMAIN p : p[i] # "pkgmirror"} IN
    /\ At("audit") /\ Job.kind = "roothide"
    /\ warned' = {tree[p].who : p \in {q \in scanned :
                        \E i \in DOMAIN named(tree[q]) : HasPath(named(tree[q])[i], Jb)}}
    /\ UNCHANGED <<tree, ctl>> /\ Proceed

RemoveDSStore ==
    /\ At("sweep")
    /\ tree' = [p \in {q \in Files(tree) : Last(q) # ".DS_Store"} |-> tree[p]]
    /\ UNCHANGED <<ctl, warned>> /\ Proceed

LayoutOf(kind, layout) == IF kind = "debify" THEN "rootful" ELSE IF kind = "rootless" /\ layout = "xina" THEN "xina" ELSE kind
Build ==
    /\ At("build")
    /\ out' = [tree |-> tree, ctl |-> ctl, layout |-> LayoutOf(Job.kind, given.layout)]
    /\ made' = "whole" /\ status' = "written" /\ chain' = Tail(chain) /\ steps' = <<>>
    /\ ran' = Append(ran, Job)
    /\ UNCHANGED <<given, tree, ctl, warned, fault, first>>

(* A file operation fails; while the output is being written it leaves a part of it. *)
StepFails ==
    /\ status = "busy"
    /\ status' = "failed" /\ fault' = "io"
    /\ made' \in {made} \cup (IF Head(steps) = "build" THEN {"partial"} ELSE {})
    /\ UNCHANGED <<chain, steps, given, tree, ctl, warned, out, first, ran>>

ConvertInit ==
    /\ chain \in Chains /\ first \in Packages /\ given = first
    /\ tree = first.tree /\ ctl = first.ctl
    /\ steps = <<>> /\ warned = {} /\ out = first /\ made = "absent"
    /\ status = "idle" /\ fault = "none" /\ ran = <<>>

ConvertNext ==
    \/ Unpack \/ Refuse \/ RepackRootless \/ ApplyTweakInjectLayout \/ HoistRootlessPayload \/ HoistRootless
    \/ MakePkgMirror \/ Debify \/ CheckRootlessArch \/ EditControl \/ ConvertMachOs \/ ConvertScripts
    \/ PatchPayloadForXina \/ PatchPayloadForRootful \/ PatchPayloadForRoothide
    \/ WarnFixedPaths \/ WarnRoothideFixedPaths \/ RemoveDSStore \/ Build \/ StepFails

ConvertSpec == ConvertInit /\ [][ConvertNext]_convertVars

--------------------------------------------------------------------------
(* Properties. *)

Done == status = "written"
LastJob == Last(ran)

(* Where the device finds a reference.  The links are the jailbreaks', not xkvm's: *)
(* Xina's short names, and the old tweak directory as a link to the new one.       *)
xinaSymlinks == <<Rule(<<"var", "lib">>, "", Jb \o <<"usr", "lib">>), Rule(<<"var", "LIY">>, "", Jb \o <<"Library">>),
                  Rule(<<"var", "bin">>, "", Jb \o <<"usr", "bin">>), Rule(<<"var", "share">>, "", Jb \o <<"usr", "share">>),
                  Rule(<<"var", "sbin">>, "", Jb \o <<"usr", "sbin">>), Rule(<<"var", "libexec">>, "", Jb \o <<"usr", "libexec">>)>>
OldTweaks == Abs(<<"Library", "MobileSubstrate", "DynamicLibraries">>)
NewTweaks == Abs(<<"usr", "lib", "TweakInject">>)
AbsPlaces(layout, r) ==
    LET q == IF layout = "xina" THEN applySeds(xinaSymlinks, r) ELSE r
        p == IF layout = "roothide" THEN <<"/", "rootfs">> \o Tail(q) ELSE q
    IN {Tail(p), Tail(ReplaceIn(p, OldTweaks, NewTweaks))}
Places(layout, f, r) ==
    CASE r = <<>> -> {}
      [] IsAbs(r) -> AbsPlaces(layout, r)
      [] Head(r) = "@jbroot" -> {Tail(r), Tail(ReplaceIn(Abs(Tail(r)), OldTweaks, NewTweaks))}
      [] Head(r) = "@rpath" -> UNION {IF IsAbs(p) THEN AbsPlaces(layout, p \o Tail(r)) ELSE {Tail(p) \o Tail(r)} :
                                        p \in {q \in Range(f.rpaths) : Head(q) \in {"/", "@jbroot"}}}
      [] OTHER -> {}
Named(pkg, f, r) == {pkg.tree[p].who : p \in Places(pkg.layout, f, r) \cap Files(pkg.tree)}
Refs(f) == f.deps \o f.strs
Home(pkg, who) == CHOOSE p \in Files(pkg.tree) : pkg.tree[p].who = who /\ ~InMirror(p)
(* The binaries of a package that are in the output. *)
Binaries(pkg) == {p \in Files(pkg.tree) : /\ MachO(pkg.tree[p]) /\ ~InMirror(p)
                                          /\ \E q \in Files(out.tree) : out.tree[q].who = pkg.tree[p].who /\ ~InMirror(q)}
Now(f) == out.tree[Home(out, f.who)]

(* The state stays within its types: a busy job is inside its own list of steps, *)
(* a binary has no entitlements but its own and the platform's.                  *)
ConvertTypeOK ==
    /\ status \in {"idle", "busy", "written", "skipped", "failed"} /\ fault \in {"none", "io", "refused", "code"}
    /\ (status = "busy") => IsSuffix(steps, Steps(Job)) /\ steps # <<>>
    /\ \A p \in Files(tree) : MachO(tree[p]) => tree[p].ents \subseteq {KEEP, PLATFORM}
    /\ made \in {"absent", "whole", "partial"} /\ (Done => made = "whole" /\ out.tree = tree)

(* What the conversion leaves alone, on purpose or with a warning. *)
LeftAlone(f, r) ==
    CASE LastJob.kind = "rootless" -> \/ Vetoed(r) /\ ~Special(r)
                                      \/ Special(r) /\ given.layout # "rootful"
                                      \/ Head(r) = "@rpath" /\ ~LastJob.ti    \* run paths are left
                                      \/ f.who \in warned
      [] LastJob.kind = "roothide" -> f.who \in warned
      [] LastJob.kind = "debify" -> FALSE
      [] LastJob.kind = "xina" -> XinaBytes(r) = r
      [] LastJob.kind = "rootful" -> Head(r) = "@rpath" /\ Len(r) > 2

(* A converted binary still finds the files of its own package: a load command   *)
(* or string that named a package file before the conversion names the same file *)
(* after it, in the new layout.  Layout, control, load commands and strings are  *)
(* rewritten by different functions from different tables (rootless.go 178-581,  *)
(* xina.go 329-393, rootful.go 319-448, roothide.go 157-241 and 647-696).        *)
RefsFollow ==
    Done => \A p \in Binaries(given) : LET f == given.tree[p] IN
        \A i \in DOMAIN Refs(f) : LET was == Named(given, f, Refs(f)[i]) IN
            \/ was = {} \/ LeftAlone(f, Refs(f)[i])
            \/ Named(out, Now(f), Refs(Now(f))[i]) \cap was # {}

(* Through any chain of conversions an executable keeps the entitlements it came *)
(* with, if its signature can be read, and a library never becomes a platform    *)
(* binary: every converter strips the signature before it edits and has to carry *)
(* the entitlements over (rootless.go 508-515, roothide.go 594-643).             *)
EntitlementsKept ==
    Done => \A p \in Binaries(first) : LET f == first.tree[p] IN
        /\ f.kind = "exec" /\ f.sig = "good" => f.ents \subseteq Now(f).ents
        /\ f.kind = "dylib" => Now(f).ents \subseteq f.ents

(* No file is lost or doubled by the moves between layouts, a tweak that already *)
(* had a twin in TweakInject aside, and the package mirror is the unpacked input *)
(* as it was before any edit (roothide.go 97-106, 466-477).                      *)
PayloadKept ==
    Done => LET copies(f) == {q \in Files(out.tree) : out.tree[q].who = f.who /\ ~InMirror(q)} IN
        /\ \A p \in Files(given.tree) : LET f == given.tree[p] IN
            \/ Cardinality(copies(f)) = 1 \/ Last(p) = ".DS_Store"
            \/ LastJob.kind = "debify" /\ p \in DOMAIN LastJob.extra
            \/ \E q \in Files(given.tree) : q # p /\ Last(q) = Last(p) /\ LastJob.kind = "rootless" /\ LastJob.ti
        /\ \A q \in Files(out.tree) : InMirror(q) => out.tree[q] \in Range(given.tree)

(* "It undoes what those converters did, so a converted deb round-trips"         *)
(* (rootful.go 1-4): after a rootless or Xina conversion and back, every file is *)
(* at its place with the load commands and strings it had.  Paths that already   *)
(* had a rootless or short form, and the libraries of the system the Xina form   *)
(* renames, cannot be told apart afterwards, as the comment says; nor can two    *)
(* files of one base name.                                                       *)
Restorable(r) == /\ IsAbs(r) /\ ~Special(r) /\ ~systemDylibForRpath(r)
                 /\ ~(r[2] = "var" /\ Len(r) > 2 /\ \E s \in {"jb", "LIY", "lib", "bin", "sh"} : Matches(r[3], s))
Sole(t, p) == \A q \in Files(t) \ {p} : Last(q) # Last(p)
ThereAndBack == /\ Len(ran) = 2 /\ first.layout = "rootful" /\ ran[2].kind = "rootful"
                /\ ran[1].kind = "xina" \/ (ran[1].kind = "rootless" /\ ~ran[1].ti)
RoundTrip ==
    Done /\ ThereAndBack =>
        /\ out.ctl.arch = first.ctl.arch
        /\ \A p \in Files(first.tree) : LET f == first.tree[p] IN
            /\ p \in Files(out.tree) /\ out.tree[p].who = f.who
            /\ MachO(f) => LET g == out.tree[p] IN
                /\ \A i \in DOMAIN Refs(f) : Restorable(Refs(f)[i]) => Refs(g)[i] = Refs(f)[i]
                /\ f.id = Abs(p) /\ Sole(first.tree, p) => g.id = f.id
                /\ SelectSeq(g.rpaths, Restorable) = SelectSeq(f.rpaths, Restorable)

(* Violated.  The converters promise an output for every package of the layout   *)
(* they take: "A rootful package shipping /var content: move its children into   *)
(* var/jb" (rootless.go 345), "no rename can collide" (roothide.go 156).         *)
OnlyIoFails == fault # "code"
=============================================================================
