------------------------------ MODULE MCConvert ------------------------------
(* Four packages of the kinds the converters meet, and chains of two jobs.    *)
EXTENDS Convert

MCBegins == {<<"libhelper.dylib", "lib">>, <<"libSystem.B.dylib", "libSystem">>, <<"libmryipc.dylib", "libm">>,
             <<"libz.1.dylib", "libz">>, <<"MobileSubstrate", "MobileSub">>, <<"libexec", "lib">>,
             <<"libsys.dylib", ".dylib">>, <<"jb", "jb">>, <<"share", "sh">>}
MCTilde == {"icon~ipad.png"}

File(who, kind, deps, id, strs) ==
    [who |-> who, kind |-> kind, deps |-> deps, id |-> id, rpaths |-> <<>>, strs |-> strs,
     ents |-> IF kind = "exec" THEN {KEEP} ELSE {}, sig |-> IF kind \in {"exec", "dylib"} THEN "good" ELSE "none"]
Text(who, kind, strs) == File(who, kind, <<>>, <<>>, strs)

Dyn == <<"Library", "MobileSubstrate", "DynamicLibraries">>
Tool == <<"usr", "bin", "tool">>
Helper == <<"usr", "lib", "libhelper.dylib">>
Prefs == <<"Library", "PreferenceBundles", "T.bundle", "T">>
System == Abs(<<"usr", "lib", "libSystem.B.dylib">>)
Substrate == Abs(<<"Library", "Frameworks", "CydiaSubstrate.framework", "CydiaSubstrate">>)

Tweak(name) == File(name, "dylib", <<Abs(Helper), System, Substrate>>, Abs(Dyn \o <<name>>),
                    <<Abs(Prefs), Abs(Tool), Abs(<<"var", "mobile", "Library", "Preferences", "com.t.plist">>)>>)
RootfulTree ==
    (Dyn \o <<"T.dylib">>) :> Tweak("T.dylib") @@
    (Dyn \o <<"T.plist">>) :> Text("T.plist", "plist", <<Abs(Prefs)>>) @@
    Helper :> File("libhelper.dylib", "dylib", <<System, Abs(<<"usr", "lib", "libz.1.dylib">>)>>, Abs(Helper), <<>>) @@
    Tool :> File("tool", "exec", <<System, Abs(Helper), Abs(Dyn \o <<"T.dylib">>)>>, <<>>, <<Abs(<<"bin", "sh">>)>>) @@
    Prefs :> [File("T", "dylib", <<<<"@rpath", "libhelper.dylib">>, System>>, <<>>, <<Abs(Dyn \o <<"T.dylib">>)>>)
                EXCEPT !.rpaths = <<Abs(<<"usr", "lib">>)>>] @@
    <<"DEBIAN", "postinst">> :> Text("postinst", "script", <<<<"#!", "bin", "sh">>, Abs(Tool), Abs(Prefs)>>)
Control(arch) == [pkg |-> "com.t", arch |-> arch, depends |-> FALSE, name |-> FALSE, icon |-> <<>>,
                  version |-> "", conflicts |-> TRUE, pre |-> <<>>]
Rootful == [tree |-> RootfulTree, ctl |-> Control("iphoneos-arm"), layout |-> "rootful"]

(* A rootful package with a library the blacklist takes for Apple's, a daemon whose   *)
(* signature cannot be read, a twin in TweakInject, a special name, a system library. *)
Ipc == <<"usr", "lib", "libmryipc.dylib">>
Daemon == <<"usr", "libexec", "tweakd">>
Icon == <<"Library", "Application Support", "T", "icon~ipad.png">>
OddTree ==
    (Dyn \o <<"T.dylib">>) :> [Tweak("T.dylib") EXCEPT !.deps = Append(@, Abs(Ipc)), !.strs = Append(@, Abs(Icon))] @@
    <<"usr", "lib", "TweakInject", "T.dylib">> :> File("twin", "dylib", <<System>>, <<>>, <<>>) @@
    Ipc :> File("libmryipc.dylib", "dylib", <<Abs(<<"System", "Library", "libsys.dylib">>)>>, Abs(Ipc), <<>>) @@
    Daemon :> [File("tweakd", "exec", <<Abs(Ipc)>>, <<>>, <<Abs(Daemon), Abs(<<"usr", "share", "t", "x">>)>>) EXCEPT !.sig = "odd"] @@
    Icon :> Text("icon", "other", <<>>) @@
    <<"Library", "LaunchDaemons", "com.t.plist">> :> Text("com.t.plist", "plist", <<Abs(Daemon)>>) @@
    <<"Library", "LaunchDaemons", ".DS_Store">> :> Text("ds", "other", <<>>)
Odd == [tree |-> OddTree, ctl |-> [Control("iphoneos-arm") EXCEPT !.icon = Abs(Icon)], layout |-> "rootful"]

(* A package built for rootless devices, with system files beside its payload. *)
JbLib == Jb \o <<"usr", "lib", "libhelper.dylib">>
JbTool == Jb \o <<"usr", "bin", "tool">>
RootlessTree ==
    JbLib :> File("libhelper.dylib", "dylib", <<System>>, <<"@rpath", "libhelper.dylib">>, <<>>) @@
    JbTool :> [File("tool", "exec", <<<<"@rpath", "libhelper.dylib">>, Abs(JbLib)>>, <<>>, <<Abs(JbTool)>>)
                 EXCEPT !.rpaths = <<Abs(Jb \o <<"usr", "lib">>)>>] @@
    (Jb \o <<"Library", "LaunchDaemons", "com.t.plist">>) :> Text("com.t.plist", "plist", <<Abs(JbTool)>>) @@
    <<"DEBIAN", "prerm">> :> Text("prerm", "script", <<Abs(JbTool), Abs(<<"bin", "launchctl">>)>>) @@
    <<"var", "mobile", "t.txt">> :> Text("t.txt", "other", <<>>) @@
    <<"opt", "t.dylib">> :> File("t.dylib", "dylib", <<Abs(JbLib)>>, <<>>, <<>>)
Rootless == [tree |-> RootlessTree, ctl |-> [Control("iphoneos-arm64") EXCEPT !.depends = TRUE], layout |-> "rootless"]

(* A single tweak, for debify. *)
Single == [tree |-> <<"home", "T.dylib">> :> Tweak("T.dylib"), ctl |-> Control(""), layout |-> "dylib"]

MCPackages == {Rootful, Odd, Rootless, Single}
VarTree == Helper :> File("libhelper.dylib", "dylib", <<System>>, Abs(Helper), <<>>) @@
           <<"var", "mobile", "Library", "t.db">> :> Text("t.db", "other", <<>>)
MCVarPackages == {Rootful, [Rootful EXCEPT !.tree = VarTree]}

Make(kind, ti, mirror, mode) == [kind |-> kind, ti |-> ti, mirror |-> mirror, mode |-> mode, extra |-> <<>>]
Debified == [Make("debify", FALSE, FALSE, "") EXCEPT !.extra = (Dyn \o <<"T.plist">>) :> Text("filter", "plist", <<>>)]
ToRootless(ti) == Make("rootless", ti, FALSE, "")
Xina == Make("xina", FALSE, FALSE, "")
ToRootful == Make("rootful", FALSE, FALSE, "")
Roothide(mirror, mode) == Make("roothide", FALSE, mirror, mode)
MCChains ==
    {<<a, b>> : a \in {ToRootless(TRUE), ToRootless(FALSE)},
                b \in {ToRootless(TRUE), ToRootless(FALSE), ToRootful, Roothide(TRUE, "auto"), Roothide(FALSE, "dynamic")}} \cup
    {<<Xina, b>> : b \in {Xina, ToRootful}} \cup {<<ToRootful, ToRootless(FALSE)>>, <<ToRootful, Xina>>, <<Roothide(TRUE, "auto")>>, <<Roothide(FALSE, "")>>,
     <<Debified, ToRootless(TRUE)>>, <<Debified, Xina>>}
=============================================================================
