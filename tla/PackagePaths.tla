---------------------------- MODULE PackagePaths ----------------------------
(***************************************************************************)
(* How the package converters (rootless/ *.go) rewrite a path that stands  *)
(* in a load command, a string, a script or a plist.  A reference is a     *)
(* sequence: a marker ("/" absolute, "file:" a file URL, "#!" a shebang,   *)
(* "@rpath", "@jbroot" for @loader_path/.jbroot) and the components; a     *)
(* relative path has no marker.  A place in a package is the sequence of   *)
(* its components.                                                         *)
(***************************************************************************)
EXTENDS Naturals, SequencesExt, FiniteSetsExt

CONSTANTS
    Begins,  \* pairs <<name, stem>>: names that start with a stem the tables below list
    Tilde    \* names that contain a tilde

ASSUME BeginsAssumption == \A b \in Begins : Len(b) = 2

Markers == {"/", "file:", "#!", "@rpath", "@jbroot"}
Abs(p) == <<"/">> \o p
IsAbs(r) == r # <<>> /\ Head(r) = "/"
Body(r) == IF r # <<>> /\ Head(r) \in Markers THEN Tail(r) ELSE r
Matches(name, stem) == name = stem \/ <<name, stem>> \in Begins

(* pat stands in r from position i on; only its last name may go on. *)
OccursAt(r, pat, i) ==
    /\ i + Len(pat) - 1 <= Len(r)
    /\ SubSeq(r, i, i + Len(pat) - 2) = Front(pat)
    /\ Matches(r[i + Len(pat) - 1], Last(pat))
(* A pattern that begins with a slash is not at the start of a relative path. *)
HasPath(r, pat) == \E i \in 2..Len(r) : OccursAt(r, pat, i)

--------------------------------------------------------------------------
(* The rootless ruleset. *)

bootstrapRoots == {"Applications", "bin", "boot", "etc", "lib", "Library",
                   "mnt", "sbin", "tmp", "User", "usr", "var"}

(* Two of the three special cases; "private/var/" cannot be reached: private is no root. *)
TmpAt(r) == {i \in 1..Len(r) : OccursAt(r, <<"var", "tmp">>, i)}
Special(r) == TmpAt(r) # {} \/ \E i \in DOMAIN r : r[i] \in Tilde

AppleLibs == {"libSystem", "libobjc", "libc++", "libstdc++", "libxml", "libresolv", "libdispatch",
              "libm", "libssl", "libcrypto", "libxpc", "libiconv", "dyld", "system", "swift",
              "libswift", "libsql", "libz"}
blacklist == {<<"usr", "lib", l>> : l \in AppleLibs} \cup
             {<<"System">>, <<"var", "jb">>, <<"var", "mobile", "Library", "SpringBoard">>,
              <<"var", "mobile", "Library", "WebClips">>, <<"Library", "Wallpaper">>,
              <<"var", "mobile", "Library", "Preferences", "com.apple.">>,
              <<"var", "mobile", "Library", "Caches", "com.apple.">>, <<"Library", "Ringtones">>}
Vetoed(r) == \E b \in blacklist : HasPath(r, b)

firstPathComponent(r) ==
    IF Len(r) < 2 THEN "" ELSE IF Head(r) \in {"/", "file:"} THEN r[2] ELSE Head(r)

ShouldConvert(r) ==
    /\ firstPathComponent(r) \in bootstrapRoots
    /\ Special(r) \/ Head(r) = "file:" \/ ~Vetoed(r)

Untmp(r) == IF TmpAt(r) = {} THEN r ELSE RemoveAt(r, Min(TmpAt(r)))
ConvertString(r) ==
    IF Head(r) = "file:" THEN <<"file:", "var", "jb">> \o Tail(r)
    ELSE IF IsAbs(r) THEN <<"/", "var", "jb">> \o Tail(Untmp(r))
    ELSE <<"var", "jb">> \o Untmp(r)

RootlessString(r) == IF ShouldConvert(r) THEN ConvertString(r) ELSE r

(* Only these dependencies are offered to the converter. *)
DepStarter(r) == \/ Head(r) \in {"@rpath", "@jbroot"}
                 \/ IsAbs(r) /\ Len(r) >= 3 /\ r[2] = "Library"
                 \/ Len(r) >= 4 /\ SubSeq(r, 1, 3) = <<"/", "usr", "lib">>
isSubstratePath(r) == Last(r) = "libsubstrate.dylib" \/ \E i \in DOMAIN r : r[i] = "CydiaSubstrate.framework"
Shim == <<"@rpath", "libsubstrate.dylib">>
RootlessDep(r, tweakinject) ==
    IF ~DepStarter(r) \/ ~ShouldConvert(r) THEN r
    ELSE IF tweakinject /\ isSubstratePath(ConvertString(r)) THEN Shim
    ELSE ConvertString(r)
RootlessId(r, tweakinject) ==
    IF ~ShouldConvert(r) THEN r
    ELSE IF tweakinject THEN <<"@rpath", Last(r)>> ELSE ConvertString(r)

--------------------------------------------------------------------------
(* Ordered replacements of a directory prefix, when the next name fits. *)

Rule(from, next, to) == [from |-> from, next |-> next, to |-> to]
Fits(rule, r) ==
    LET n == Len(rule.from) IN
    /\ Head(r) \in {"/", "#!"} /\ Len(r) >= n + 2
    /\ SubSeq(r, 2, n + 1) = rule.from
    /\ rule.next = "" \/ Matches(r[n + 2], rule.next)
Rewritten(rule, r) == <<Head(r)>> \o rule.to \o SubSeq(r, Len(rule.from) + 2, Len(r))
applySeds(rules, r) ==
    LET hits == {i \in DOMAIN rules : Fits(rules[i], r)} IN
    IF hits = {} THEN r ELSE Rewritten(rules[Min(hits)], r)

LIY == <<"var", "LIY">>
Jb == <<"var", "jb">>
LibraryStems == <<"MobileSub", "Sn", "Th", "Application Support", "LaunchD", "PreferenceB",
                  "PreferenceL", "Frameworks">>
xinaByteSeds == [i \in DOMAIN LibraryStems |-> Rule(<<"Library">>, LibraryStems[i], LIY)] \o
    <<Rule(<<"bin">>, "sh", <<"var">>), Rule(<<"usr">>, "lib", <<"var">>), Rule(<<"usr">>, "bin", <<"var">>)>>
(* The libraries the second batch of replacements gives back. *)
xinaRevertExceptions == {"libobjc.A.dylib", "libc++.1.dylib", "libSystem.B.dylib", "libstdc++.6.dylib",
                         "libMobileGestalt.dylib"}
UsrNames == <<"share", "bin", "lib", "sbin", "libexec">>
(* The plist list and the script list differ only in the byte before the path. *)
xinaTextSeds ==
    <<Rule(<<>>, "Applications", Jb), Rule(<<"Library">>, "i", LIY)>> \o
    [i \in DOMAIN UsrNames |-> Rule(<<"usr">>, UsrNames[i], <<"var">>)] \o
    <<Rule(<<"usr">>, "", Jb \o <<"usr">>), Rule(<<>>, "etc", <<"var">>),
      Rule(<<>>, "bin", <<"var">>), Rule(<<"Library">>, "", LIY)>>
rootfulByteSeds == [i \in DOMAIN LibraryStems |-> Rule(LIY, LibraryStems[i], <<"Library">>)] \o
    <<Rule(<<"var">>, "sh", <<"bin">>), Rule(<<"var">>, "lib", <<"usr">>), Rule(<<"var">>, "bin", <<"usr">>)>>
rootfulTextSeds ==
    <<Rule(Jb, "Applications", <<>>), Rule(LIY, "i", <<"Library">>)>> \o
    [i \in DOMAIN UsrNames |-> Rule(<<"var">>, UsrNames[i], <<"usr">>)] \o
    <<Rule(Jb \o <<"usr">>, "", <<"usr">>), Rule(<<"var">>, "etc", <<>>), Rule(LIY, "", <<"Library">>)>>

(* The bytes before a name in a load command end in NUL too, so these       *)
(* replacements reach load commands as well as strings.                     *)
XinaBytes(r) ==
    LET s == applySeds(xinaByteSeds, r) IN
    IF Len(s) = 4 /\ SubSeq(s, 1, 3) = <<"/", "var", "lib">> /\ s[4] \in xinaRevertExceptions
    THEN <<"/", "usr", "lib", s[4]>> ELSE s

systemDylibForRpath(r) ==
    /\ IsAbs(r) /\ Len(r) >= 4 /\ r[2] = "System"
    /\ r[Len(r) - 1] = "Library" /\ <<Last(r), ".dylib">> \in Begins
XinaDep(r) ==
    IF \E i \in DOMAIN r : r[i] = "CydiaSubstrate.framework" THEN Shim
    ELSE IF systemDylibForRpath(r) THEN <<"@rpath", Last(r)>> ELSE r

(* The first prefix that fits; whatever begins with /var/sh becomes /bin/sh. *)
rootfulStringRules == <<Rule(Jb, "", <<>>), Rule(LIY, "", <<"Library">>),
                        Rule(<<"var", "lib">>, "", <<"usr", "lib">>), Rule(<<"var", "bin">>, "", <<"usr", "bin">>)>>
rootfulString(r) ==
    IF IsAbs(r) /\ Len(r) >= 3 /\ r[2] = "var" /\ Matches(r[3], "sh") THEN Abs(<<"bin", "sh">>)
    ELSE applySeds(rootfulStringRules, r)
(* A mutant: a run path name is taken for a library in usr/lib. *)
rootfulDependencyUsrLib(r, found) ==
    IF Head(r) = "@rpath" THEN Abs(<<"usr", "lib">>) \o Tail(r) ELSE rootfulString(r)
(* found: the place of the first file of each base name. *)
rootfulDependency(r, found) ==
    IF r = Shim THEN Abs(<<"Library", "Frameworks", "CydiaSubstrate.framework", "CydiaSubstrate">>)
    ELSE IF Head(r) = "@rpath"
         THEN IF Len(r) = 2 /\ r[2] \in DOMAIN found THEN Abs(found[r[2]]) ELSE r
    ELSE rootfulString(r)

--------------------------------------------------------------------------
(* roothide *)

InJb(r) == Len(r) > 3 /\ SubSeq(r, 1, 3) = <<"/", "var", "jb">>
(* A mutant: the prefix is cut one name short. *)
jbrootReplaceShort(r) == IF InJb(r) THEN <<"@jbroot">> \o SubSeq(r, 3, Len(r)) ELSE r
jbrootReplace(r) == IF InJb(r) THEN <<"@jbroot">> \o SubSeq(r, 4, Len(r)) ELSE r
RootfsRoots == {"Applications", "Library", "private", "System", "sbin", "bin", "etc", "lib", "usr", "var"}
(* The bare /var/jb is protected from the second rule and restored. *)
patchScriptPaths(r) ==
    IF InJb(r) THEN Abs(SubSeq(r, 4, Len(r)))
    ELSE IF r = Abs(Jb) \/ ~IsAbs(r) \/ Len(r) < 3 \/ r[2] \notin RootfsRoots THEN r
    ELSE <<"/", "rootfs">> \o Tail(r)

--------------------------------------------------------------------------
(* The token rewrite of scripts: every replacement is made wherever its     *)
(* text stands, also inside a longer path, unless its result is already     *)
(* somewhere in the script.                                                 *)

FoundIn(r, sub) ==
    {i \in (IF IsAbs(sub) THEN 2 ELSE 1)..Len(r) :
        /\ i + Len(Body(sub)) - 1 <= Len(r)
        /\ SubSeq(r, i, i + Len(Body(sub)) - 1) = Body(sub)}
ReplaceIn(r, from, to) ==
    IF FoundIn(r, from) = {} THEN r
    ELSE LET i == Min(FoundIn(r, from)) IN
         SubSeq(r, 1, i - 1) \o Body(to) \o SubSeq(r, i + Len(Body(from)), Len(r))
patchScriptForRootless(toks) ==
    FoldLeft(LAMBDA out, from :
                IF Head(from) = "#!" \/ ~ShouldConvert(from)
                   \/ \E i \in DOMAIN out : FoundIn(out[i], ConvertString(from)) # {}
                THEN out
                ELSE [i \in DOMAIN out |-> ReplaceIn(out[i], from, ConvertString(from))],
             toks, toks)
=============================================================================
