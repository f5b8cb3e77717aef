------------------------------ MODULE Pipeline ------------------------------
(***************************************************************************)
(* One `xkvm' run (app/run.go, Run) around the injection of module Inject: *)
(* refuse to overwrite, copy the app to a scratch directory, inject, edit  *)
(* the bundle, sign, and write the output, with a failure or a crash       *)
(* possible at every step.  Fetched and bundled tweaks are part of         *)
(* run.tweaks.  Edits that do not touch the signature or a file of the     *)
(* injection (name, icon, plist, thinning) are added in AppRun.            *)
(***************************************************************************)
EXTENDS Inject

VARIABLE
    disk        \* the user's files: [input, output], see TypeOK

vars == <<injectVars, pc, disk>>

(* run.place tells how the output's path lies to the input's: "apart"; the *)
(* "same" once both are absolute; an "alias", another spelling that leads  *)
(* to the same file or directory (through a link, or in another case on a  *)
(* disk that does not tell cases apart); a directory "around" the input;   *)
(* or "inside" an .app input.  In the first case only does writing the     *)
(* output leave the input alone.  Removing what is around it removes it.   *)
PutOut(content) ==
    disk' = [output |-> content,
             input |-> CASE run.place \in {"same", "alias"} -> content
                         [] run.place = "around" -> "absent"
                         [] run.place = "inside" /\ content # disk.output -> "altered"
                         [] OTHER -> disk.input]

Step(from, to) == pc = from /\ pc' = to

Init ==
    /\ InjectInit
    /\ pc = "start"
    /\ disk = [input |-> "old",
               output |-> IF run.exists \/ run.place \in {"same", "alias", "around"}
                         THEN "old" ELSE "absent"]

(* Mutant: the paths are never compared. *)
StartUnchecked ==
    /\ Step("start", "prepare")
    /\ UNCHANGED <<injectVars, disk>>

(* Only the spellings are compared. *)
Start ==
    /\ pc = "start"
    /\ pc' = IF run.place = "same" /\ ~run.overwrite THEN "failed" ELSE "prepare"
    /\ UNCHANGED <<injectVars, disk>>

(* Copy or extract into the scratch directory, open the bundle, refuse an  *)
(* encrypted executable.  Without tweaks the injection is skipped.         *)
Prepare ==
    /\ pc = "prepare"
    /\ pc' = IF run.tweaks = <<>> THEN "entitle" ELSE "expand"
    /\ UNCHANGED <<injectVars, disk>>

Inject ==
    /\ InjectNext
    /\ UNCHANGED disk

(* The reference check, warnings only.  (For the edits see AppRun.) *)
EditBundle ==
    /\ Step("injected", "entitle")
    /\ UNCHANGED <<injectVars, disk>>

SignWithEntitlements(m, ents) == [m EXCEPT !.signed = TRUE, !.ents = ents]

Entitle ==
    /\ Step("entitle", "patch")
    /\ main' = IF run.newEnts = NoEnts THEN main
               ELSE SignWithEntitlements(main, run.newEnts)
    /\ UNCHANGED <<run, todo, staged, items, placed, mode, needed, saved, shipped, disk>>

(* Liquid Glass: read the entitlements, strip, edit, always sign again. *)
ReadableEnts(m) == IF m.signed THEN m.ents ELSE NoEnts
Patch ==
    /\ Step("patch", "fakesign")
    /\ main' = IF run.glass THEN SignWithEntitlements(main, ReadableEnts(main)) ELSE main
    /\ UNCHANGED <<run, todo, staged, items, placed, mode, needed, saved, shipped, disk>>

(* --fakesign keeps readable entitlements; a binary that cannot be signed  *)
(* is passed over.                                                         *)
Fakesign ==
    /\ Step("fakesign", "output")
    /\ \E ok \in {run.fakesign, FALSE} :
          main' = IF ok THEN SignWithEntitlements(main, ReadableEnts(main)) ELSE main
    /\ UNCHANGED <<run, todo, staged, items, placed, mode, needed, saved, shipped, disk>>

(* The archive is created in place: what was there is gone from here on.   *)
(* It cannot be where a directory is.                                      *)
CreateIpa ==
    /\ ~run.app /\ run.place # "around" /\ Step("output", "write")
    /\ PutOut("torn")
    /\ UNCHANGED injectVars

(* An .app output is removed first, then copied file by file. *)
RemoveApp ==
    /\ run.app /\ Step("output", "copy")
    /\ PutOut("absent")
    /\ UNCHANGED injectVars

CopyApp ==
    /\ pc = "copy"
    /\ \/ pc' = "close" /\ PutOut("torn")
       \/ pc' = "failed" /\ \E c \in {"absent", "torn"} : PutOut(c)
    /\ UNCHANGED injectVars

WriteZip ==
    /\ Step("write", "close")
    /\ UNCHANGED <<injectVars, disk>>

(* The last bytes reach the file, or the error is the run's error. *)
Close ==
    /\ pc = "close"
    /\ \/ pc' = "done" /\ PutOut("new")
       \/ pc' = "failed" /\ UNCHANGED disk
    /\ UNCHANGED injectVars

(* An error ends the run wherever it is; a crash leaves its files behind. *)
StepFails ==
    /\ pc \notin {"done", "failed", "crashed"}
    /\ pc' \in {"failed", "crashed"}
    /\ UNCHANGED <<injectVars, disk>>

Finished ==
    /\ pc \in {"done", "failed", "crashed"}
    /\ UNCHANGED vars

Next ==
    \/ Start \/ Prepare \/ Inject \/ EditBundle \/ Entitle \/ Patch \/ Fakesign
    \/ CreateIpa \/ RemoveApp \/ CopyApp \/ WriteZip \/ Close
    \/ StepFails \/ Finished

Spec == Init /\ [][Next]_vars
-----------------------------------------------------------------------------
(* The variables keep their shapes: modes, keys, phases and file states,   *)
(* and an unsigned executable carries no entitlements.                     *)
TypeOK ==
    /\ mode \in Modes /\ needed \subseteq Keys
    /\ main.signed \in BOOLEAN /\ main.rpath \in BOOLEAN
    /\ ~main.signed => main.ents = NoEnts
    /\ placed \in 0..Len(items)
    /\ disk.input \in {"old", "torn", "new", "absent", "altered"}
    /\ disk.output \in {"old", "torn", "new", "absent"}
    /\ pc \in {"start", "prepare", "expand", "strip", "dirs", "place", "auto",
               "injected", "entitle", "patch", "fakesign", "output", "write",
               "copy", "close", "done", "failed", "crashed"}

(* References to nothing the run knows: the fixes leave them as they are.  *)
Foreign ==
    UNION {{d \in it.deps : KeysOf(d) = {} /\ d.name \notin Names} : it \in Range_(items)}

(* A finished bundle has every file the injector made something load: the  *)
(* placed item behind each load command of the executable, and the         *)
(* framework or item behind each dependency it rewrote in a dylib.  Only a *)
(* rewrite that did not fit (warned about), a reference to what the run    *)
(* knows nothing of, and a symlinked item, which is named but never        *)
(* placed, are excused.  inject.go 221-264.                                *)
Linked == {it.name : it \in {i \in Range_(items) : i.link}}
RefsShipped ==
    pc = "done" =>
        /\ Range_(main.loads) \subseteq DOMAIN shipped
        /\ \A p \in DOMAIN shipped :
              shipped[p].from = "tweak" =>
                 \A d \in shipped[p].deps \ (shipped[p].stuck \cup Foreign) :
                    d.at \in {"rpath", "exec"} /\ d.name \notin Linked
                        => d \in DOMAIN shipped

(* Whatever the order of the items, one run brings in at most one hooking  *)
(* runtime, and no dylib it rewrote loads the other one: the pre-scan      *)
(* settles the mode before the first rewrite.  (A tweak built against      *)
(* ElleKit names no key of the table and keeps that reference; a tweak     *)
(* that IS a runtime is loaded as any other.)  inject.go 27-31, 163-176.   *)
OneRuntime ==
    \A n \in Runtimes \ {infoFor("substrate", mode)} :
        \A p \in DOMAIN shipped :
            /\ p = Ref("rpath", n) => shipped[p].from # "extras"
            /\ shipped[p].from = "tweak" /\ n \notin Names
                 => Ref("rpath", n) \notin shipped[p].deps \ (shipped[p].stuck \cup Foreign)

(* Through strip, edit and re-sign in three places, a finished executable  *)
(* carries the entitlements asked for, or else those it came with.         *)
SignatureSurvives ==
    pc = "done" =>
        /\ main.ents = IF run.newEnts # NoEnts THEN run.newEnts
                       ELSE IF run.signed THEN run.ents ELSE NoEnts
        /\ run.glass => main.signed

(* Failing and crashing runs included, the user's input is as it was until *)
(* the whole new bundle is built; then only an output whose path is that   *)
(* of the input, in a run with --overwrite, or leads to or around it in a  *)
(* way its spelling does not show, does away with it.  run.go 48-54,       *)
(* 266-285.                                                                *)
InputSurvives ==
    disk.input # "old" =>
        /\ run.place # "apart"
        /\ run.place = "same" => run.overwrite
        /\ pc \in {"write", "copy", "close", "done", "failed", "crashed"}

(* "refusing to overwrite the input; pass --overwrite" (run.go 53), and    *)
(* "aliases like `-i foo.ipa -o ./foo.ipa` are caught too" (48): the input *)
(* is replaced only when that was asked for.                               *)
(* Not checked by a run: the code violates it, see the README.             *)
OverwriteAsked == disk.input # "old" => run.overwrite

(* A run that reports success left a complete new output.  ipa.go 98-104.  *)
OutputHonest == pc = "done" => disk.output = "new"

(* No install name is loaded twice by the executable: tweaks are keyed by  *)
(* their base name (options.go 112-115).                                   *)
(* Not checked by a run: the code violates it, see the README.             *)
LoadOnce ==
    pc = "done" =>
        \A i, j \in DOMAIN main.loads : main.loads[i] = main.loads[j] => i = j

(* A framework the injector brings in has what it loads itself: "Orion has *)
(* a weak reference to substrate but still needs it present".              *)
(* Not checked by a run: the code violates it, see the README.             *)
RuntimeClosed ==
    pc = "done" =>
        \A p \in DOMAIN shipped :
            shipped[p].from = "extras" => shipped[p].deps \subseteq DOMAIN shipped
=============================================================================
