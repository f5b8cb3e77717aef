----------------------------- MODULE MCCheckFix -----------------------------
(***************************************************************************)
(* An app with a tweak, the tweak's bundle and maybe an extension.  A      *)
(* library of one name is loose and wanted at two places; Dep, which the   *)
(* shipped Kit loads, is in two debs; Lab is only dlopened; Online is not  *)
(* on disk and loads Raw, which nothing has shown to be missing before.    *)
(***************************************************************************)
EXTENDS CheckFix

Dep(via, n) == [via |-> via, name |-> n]
Bin(kind, deps, dlopens, family) ==
    [kind |-> kind, deps |-> deps, dlopens |-> dlopens, plist |-> TRUE,
     family |-> family, signable |-> TRUE]
Dir == [Bin("dir", {}, {}, "") EXCEPT !.plist = FALSE]

MCHolds == [n \in {"Frameworks", "PlugIns", "App", "Tweak", "Tweak.bundle", "Inner",
                   "Share", "Kit", "Dep", "lib", "Lab", "Online", "Raw"} |->
    CASE n \in {"Frameworks", "PlugIns"} -> Dir
      [] n = "App"   -> Bin("main", {Dep("@executable_path", "lib")}, {"Inner"}, "")
      [] n = "Tweak" -> Bin("dylib", {Dep("@loader_path", "lib")}, {"Lab", "Inner"}, "tweak")
      [] n = "Tweak.bundle" -> [Bin("bundle", {}, {}, "tweak") EXCEPT !.plist = FALSE]
      [] n = "Inner" -> Bin("framework", {Dep("@rpath", "swiftCore")}, {"UIKit"}, "")
      [] n = "Share" -> Bin("appex", {Dep("@executable_path", "lib"),
                                      Dep("@executable_path/Frameworks", "Online")}, {}, "")
      [] n = "Kit"   -> Bin("framework", {Dep("@rpath", "Dep")}, {}, "")
      [] n = "Dep"   -> Bin("framework", {}, {"UIKit"}, "")
      [] n = "lib"   -> Bin("dylib", {}, {}, "lib")
      [] n = "Raw"   -> [Bin("dylib", {}, {}, "raw") EXCEPT !.signable = FALSE]
      [] n = "Lab"   -> Bin("framework", {}, {"Inner"}, "")
      [] n = "Online" -> Bin("framework", {Dep("@loader_path", "Raw")}, {}, "")]

Plain == {Item(<<>>, "App"), Item(<<>>, "Tweak"), Item(<<>>, "Tweak.bundle"),
          Item(<<"Tweak.bundle">>, "Inner"), Item(<<"Frameworks">>, "Kit")}
Extended == Plain \cup {Item(<<"PlugIns">>, "Share")}
MCLoose == {"lib"}
MCDebs  == <<[has |-> {"Dep", "Lab"}, tried |-> {"Dep", "Lab"}],
             [has |-> {"Dep", "Raw"}, tried |-> {"Dep", "Lab", "Raw"}]>>
MCRepo  == {"Online"}
MCCommands ==
    {c \in [app : {Plain, Extended, {Item(<<>>, "App"), Item(<<>>, "lib")}},
            kind : {"ipa", "app"}, out : {"apart", "same", "alias", "around"},
            dirs : BOOLEAN, fetch : BOOLEAN, yes : BOOLEAN] :
        c.app = Extended => c.out = "apart" /\ c.kind = "app"}
=============================================================================
