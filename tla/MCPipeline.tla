----------------------------- MODULE MCPipeline -----------------------------
(* Command lines: eight tweak lists around the interesting cases, under    *)
(* every combination of the options the properties of the injection speak  *)
(* of; ways to edit the bundle of an app with four extensions; recipes of  *)
(* two generators, merged in both orders; and tweaks that were extracted   *)
(* from an app before.                                                     *)
EXTENDS Options

CONSTANTS e0, e1, e2    \* no entitlements, the app's own, the given ones

Item_(n, k, deps) == [name |-> n, kind |-> k, deps |-> deps, link |-> FALSE]
Dylib(n, deps) == Item_(n, "dylib", deps)
Bundle(n, k, deps) == Item_(n, k, deps)
Sys(n) == Ref("system", n)
In(dir, it) == [base |-> BaseOf(it), dir |-> dir, deb |-> FALSE, items |-> <<it>>]
Plain(it) == In(<<"home">>, it)
Deb(n, its) == [base |-> <<n, "deb">>, dir |-> <<"home">>, deb |-> TRUE, items |-> its]

Hook == Dylib("hook", {Sys("MobileSubstrate")})
Swift == Dylib("swift", {Sys("Orion")})
Root == Plain(Dylib("root", {}))
Canon == Plain(Dylib("canon", {Ref("rpath", "CydiaSubstrate")}))
ShareDeb == Deb("share", <<Bundle("Share", "appex", {})>>)
FileLists == {
    <<>>,
    \* legacy rewriting, and a libhooker tweak after a substrate one
    <<Plain(Hook), Plain(Dylib("late", {Sys("libhooker")}))>>,
    \* two debs into one staging directory
    <<Deb("one", <<Hook>>), Deb("two", <<Swift, Bundle("Prefs", "other", {})>>)>>,
    \* a dependency that is canonical already, and an extension
    <<Canon, ShareDeb>>,
    \* an app-root dylib another item depends on
    <<Root, Plain(Dylib("user", {Sys("root"), Sys("Cephei")}))>>,
    \* a symlinked item, and a framework whose own dependencies stay
    <<Plain([Dylib("ln", {}) EXCEPT !.link = TRUE]), Plain(Dylib("onln", {Sys("ln")})),
      Plain(Bundle("Kit", "framework", {Sys("libhooker")}))>>,
    <<Plain(Dylib("panes", {Sys("CepheiPrefs")}))>>,
    \* built against ElleKit, in a run of the other runtime
    <<Plain(Dylib("modern", {Ref("rpath", "ElleKit")})), Plain(Hook)>> }

AppPlist == [id |-> <<"com.app">>, name |-> "New", display |-> "Old", sharing |-> "yes",
             devices |-> "some", families |-> "1,2"]
Share == Ext("Share", "PlugIns", <<"com.app", ".share">>)
AppExts == {Share, Ext("Old", "PlugIns", <<"com.app", ".x", "com.app">>),
            [Ext("Deep", "Watch", <<"com.app", ".watch">>) EXCEPT !.deep = TRUE],
            [Ext("Sealed", "Extensions", <<"com.app", ".s">>) EXCEPT !.encrypted = TRUE]}
App(plain, exts0) == [plist |-> plain, exts |-> exts0, has |-> {}, signed |-> FALSE, ents |-> e0]

OutDir == <<"home", "out">>
NoManifests == [d \in {} |-> {}]
Line(o, app) ==
    [cli |-> o, recipes |-> <<>>, fetched |-> <<>>, manifests |-> NoManifests, arts |-> <<>>, out |-> OutDir,
     app |-> app, place |-> "apart", exists |-> TRUE, toApp |-> FALSE]

(* The injection under every combination of its options. *)
Cases ==
    {c \in [files : FileLists, ellekit : BOOLEAN, fakesign : BOOLEAN, ents : {Unset, e2},
            glass : BOOLEAN, overwrite : BOOLEAN, has : {{}, {"CydiaSubstrate"}},
            signed : BOOLEAN, own : {e0, e1}, exists : BOOLEAN, toApp : BOOLEAN,
            place : {"apart", "same", "alias", "around", "inside"}] :
        /\ c.own # e0 => c.signed
        /\ c.overwrite => c.place = "same"
        /\ c.toApp => ~c.ellekit
        /\ c.fakesign => c.place = "apart"
        /\ c.place \in {"alias", "around", "inside"} => c.files = <<>> /\ ~c.signed
        /\ c.place = "around" => c.toApp /\ c.exists
        /\ ~c.exists => c.files = <<>>}
InjectionLines ==
    {[Line([Options EXCEPT !.files = c.files, !.roots = {Root}, !.ellekit = c.ellekit,
                           !.fakesign = c.fakesign, !.ents = c.ents, !.overwrite = c.overwrite,
                           !.patches = IF c.glass THEN <<"liquid-glass">> ELSE <<>>],
           [App(AppPlist, {}) EXCEPT !.has = c.has, !.signed = c.signed, !.ents = c.own])
       EXCEPT !.place = c.place, !.exists = c.exists, !.toApp = c.toApp] : c \in Cases}

(* Edits of the bundle, without tweaks and with an extension of the app's. *)
MergeOf(d, lists) == [set |-> d, lists |-> lists]
Edited == {
    Line([Options EXCEPT !.name = "New", !.id = <<"com.new">>, !.merge = MergeOf([name |-> "Last"], {}),
                         !.devices = TRUE, !.watch = TRUE, !.docs = TRUE,
                         !.patches = <<"force-fullscreen">>], App(AppPlist, AppExts)),
    Line([Options EXCEPT !.id = <<"com.app">>, !.min = "14", !.docs = TRUE, !.exts = TRUE,
                         !.merge = MergeOf([compat |-> "yes"], {}),
                         !.patches = <<"liquid-glass">>], App(AppPlist, AppExts)),
    Line([Options EXCEPT !.id = <<"com.app", ".beta">>, !.icon = "i", !.encrypted = TRUE,
                         !.merge = MergeOf([devices |-> "all"], {}), !.devices = TRUE],
         App(AppPlist, AppExts)),
    \* the two ways the plists of an app and of a merge can meet
    Line([Options EXCEPT !.merge = MergeOf([families |-> "1"], {"families"})], App(AppPlist, {})),
    Line([Options EXCEPT !.merge = MergeOf([modes |-> "audio", id |-> <<"com.x">>], {"modes"})],
         App(AppPlist, {})),
    \* no identifier of its own
    Line([Options EXCEPT !.id = <<"com.new">>], App(Without(AppPlist, "id"), {Share}))}
EditLines ==
    Edited \cup {[l EXCEPT !.cli.files = <<Canon, ShareDeb>>] : l \in Edited}

(* Two builds of one tweak, and recipes of both generators around them.    *)
NewHook == Plain(Dylib("hook", {}))
Cgen(o) == [by |-> "cgen", opts |-> o]
Other(o) == [by |-> "other", opts |-> o]
Recipes == {
    Cgen([Options EXCEPT !.files = <<NewHook, Canon, Root>>, !.roots = {Root}, !.name = "Baked",
                         !.ellekit = TRUE, !.patches = <<"force-fullscreen">>]),
    Other([Options EXCEPT !.files = <<Plain(Hook)>>, !.name = "Other", !.id = <<"com.other">>,
                          !.ents = e2, !.docs = TRUE]),
    \* a payload that is not there, no such patch, what validate refuses
    Other([Options EXCEPT !.roots = {Root}, !.min = "15"]),
    Other([Options EXCEPT !.patches = <<"glass">>, !.min = "15"]),
    Other([Options EXCEPT !.compress = 12, !.patches = <<"liquid-glass-compat">>]),
    \* archives cgen does not finish: a folder, a root that is not packed
    Cgen([Options EXCEPT !.files = <<Plain(Bundle("Kit", "framework", {}))>>, !.name = "Torn"]),
    Cgen([Options EXCEPT !.files = <<NewHook>>, !.roots = {Root}, !.name = "Unpacked"])}
RecipeLines ==
    {[Line([Options EXCEPT !.files = fs, !.name = name, !.fix = fix, !.min = "13",
                           !.patches = <<"liquid-glass">>], App(AppPlist, {}))
       EXCEPT !.recipes = rs, !.fetched = got] :
        fs \in {<<>>, <<Plain(Hook), Plain(Dylib("user", {Sys("root")}))>>, <<NewHook, Plain(Hook)>>},
        name \in {Unset, "Typed"}, fix \in BOOLEAN, got \in {<<>>, <<Deb("fetched", <<Swift>>)>>},
        rs \in {<<r>> : r \in Recipes} \cup {<<r, q>> : r, q \in Recipes}}

(* An app a tweak was put into before: extracted, and some of it injected  *)
(* again, from where it was extracted to, below it, or the current         *)
(* directory, with an older manifest higher up.                            *)
Arts == <<[base |-> <<"hook", "dylib">>, at |-> "rpath"], [base |-> <<"Kit", "framework">>, at |-> "rpath"],
          [base |-> <<"Share", "appex">>, at |-> "plugin"], [base |-> <<"hook", "dylib">>, at |-> "exec"],
          [base |-> <<"root", "dylib">>, at |-> "exec"], [base |-> <<"deep", "dylib">>, at |-> "other"]>>
ExtractLines ==
    {[Line([Options EXCEPT !.roots = roots, !.fix = fix,
                           !.files = <<In(dir, Hook), In(OutDir, Bundle("Kit", "framework", {})),
                                       In(dir, Bundle("Share", "appex", {})),
                                       In(dir, Dylib("root", {Ref("rpath", "hook")}))>>],
           App(AppPlist, AppExts))
       EXCEPT !.recipes = rs, !.arts = Arts,
              !.manifests = [d \in {OutDir, <<"home">>} |->
                                IF d = OutDir THEN ManifestOf(Arts)
                                ELSE {[base |-> <<"hook", "dylib">>, at |-> "exec"]}]] :
        dir \in {OutDir, OutDir \o <<"mine">>, OutDir \o <<"a", "b", "c", "d">>, <<>>},
        roots \in {{}, {Plain(Hook)}}, fix \in BOOLEAN,
        rs \in {<<>>} \cup {<<r>> : r \in Recipes}}

MCLines == InjectionLines \cup EditLines \cup RecipeLines \cup ExtractLines
LineJobs == {JobOf(l) : l \in MCLines}
MCRuns == {j.run : j \in LineJobs}
=============================================================================
