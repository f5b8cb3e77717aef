------------------------------- MODULE AppRun -------------------------------
(***************************************************************************)
(* A run of module Pipeline together with what it does to the rest of the  *)
(* bundle (appbundle/appbundle.go, patch/): the Info.plist, which a Bundle *)
(* keeps in memory and saves while the patches read and write the file,    *)
(* and the app's extensions, which are removed before the injection and    *)
(* renamed after it.                                                       *)
(*                                                                         *)
(* A plist is a function from keys to values, an identifier a sequence of  *)
(* the pieces it is written with.  What an option asks for is an edit; a   *)
(* job is a run with its bundle, and the edits in the order of app/run.go. *)
(***************************************************************************)
EXTENDS Pipeline

VARIABLES
    job,        \* [run, plist, exts, removal, edits, late, patches]: the job under way
    plist,      \* Bundle.Info
    plistFile,  \* Info.plist in the scratch copy
    localized,  \* the names in the *.lproj directories
    exts,       \* the extensions in the scratch copy
    edits       \* the edits still to make

bundleVars == <<job, plist, plistFile, localized, exts, edits>>
runVars == <<vars, bundleVars>>

(* An extension as it came: its name, the directory it is in, how deep, if *)
(* its plist can be read, and if its binary is encrypted. missed: its new  *)
(* identifier could not be written.                                        *)
Ext(name, dir, id) ==
    [name |-> name, dir |-> dir, id |-> id, was |-> id, deep |-> FALSE,
     readable |-> TRUE, encrypted |-> FALSE, missed |-> FALSE]

Nothing == <<>>
IdOf(p) == IF "id" \in DOMAIN p THEN p["id"] ELSE Nothing
Put_(p, q) == [k \in DOMAIN p \cup DOMAIN q |-> IF k \in DOMAIN q THEN q[k] ELSE p[k]]
Without(p, k) == [x \in DOMAIN p \ {k} |-> p[x]]

RunInit ==
    /\ run = job.run
    /\ Init
    /\ plist = job.plist /\ plistFile = job.plist
    /\ localized = "old"
    /\ exts = job.exts
    /\ edits = job.edits

(***************************************************************************)
(* Removal, between the copy and the injection.  What cannot be removed is *)
(* passed over.                                                            *)
(***************************************************************************)
Removable ==
    CASE job.removal = "all" -> {e \in exts : e.dir \in {"PlugIns", "Extensions"}}
      [] job.removal = "encrypted" -> {e \in exts : e.encrypted /\ e.readable /\ ~e.deep}
      [] OTHER -> {}

RunPrepare ==
    /\ Prepare
    /\ \E gone \in SUBSET Removable : exts' = exts \ gone
    /\ UNCHANGED <<job, plist, plistFile, localized, edits>>

(* Mutant: the extensions are removed once the tweaks are in. *)
InjectThenRemove ==
    /\ Inject
    /\ exts' = IF pc' = "injected" THEN exts \ Removable
               ELSE IF Placing("appex") /\ shipped' # shipped
                    THEN exts \cup {Ext(Item.name, "PlugIns", <<Item.name>>)} ELSE exts
    /\ UNCHANGED <<job, plist, plistFile, localized, edits>>

(* An injected extension replaces one of its name. *)
RunInject ==
    /\ Inject
    /\ exts' = IF Placing("appex") /\ shipped' # shipped
               THEN {e \in exts : e.dir # "PlugIns" \/ e.name # Item.name}
                       \cup {Ext(Item.name, "PlugIns", <<Item.name>>)}
               ELSE exts
    /\ UNCHANGED <<job, plist, plistFile, localized, edits>>
-----------------------------------------------------------------------------
(* Every occurrence of old in id, from the left; an empty old is found     *)
(* before every piece and at the end.                                      *)
ReplaceAll(id, old, new) ==
    LET n == Len(id)
        At(i) == i + Len(old) - 1 <= n /\ SubSeq(id, i, i + Len(old) - 1) = old
        rest[i \in 1..n + 1] ==
            IF i > n THEN IF old = Nothing THEN new ELSE <<>>
            ELSE IF old = Nothing THEN new \o <<id[i]>> \o rest[i + 1]
            ELSE IF At(i) THEN new \o rest[i + Len(old)]
            ELSE <<id[i]>> \o rest[i + 1]
    IN  rest[1]

(* Mutant: the old identifier is read after it was set to the new one. *)
RenamedLate(e, old, new) ==
    IF e.deep \/ ~e.readable \/ e.id = Nothing THEN e
    ELSE [e EXCEPT !.id = ReplaceAll(e.id, new, new)]

(* ChangeBundleID on an extension one directory down. *)
Renamed(e, old, new) ==
    IF e.deep \/ ~e.readable \/ e.id = Nothing THEN e
    ELSE [e EXCEPT !.id = ReplaceAll(e.id, old, new)]

(* Mutant: one key that is as asked counts for all of them. *)
AsksNothing(edit) == \E k \in DOMAIN edit.set : k \in DOMAIN plist /\ plist[k] = edit.set[k]

(* Nothing would change, so nothing is saved (Plist.change). *)
IsNoChange(edit) == \A k \in DOMAIN edit.set : k \in DOMAIN plist /\ plist[k] = edit.set[k]

(* Set the keys of an edit in memory and save. *)
Change(edit) ==
    IF IsNoChange(edit) THEN UNCHANGED <<plist, plistFile, localized, exts>>
    ELSE /\ plist' = Put_(plist, edit.set)
         /\ plistFile' = plist'
         /\ localized' \in IF edit.op = "name" THEN {localized, "new"} ELSE {localized}
         /\ IF edit.op = "id"
            THEN \E missed \in SUBSET exts :
                    exts' = {IF e \in missed THEN [e EXCEPT !.missed = TRUE]
                             ELSE Renamed(e, IdOf(plist), edit.set["id"]) : e \in exts}
            ELSE UNCHANGED exts

(* Two arrays or two dictionaries under one key are compared with ==.      *)
Incomparable(edit) ==
    edit.op = "merge" /\ \E k \in DOMAIN edit.set \cap DOMAIN plist : k \in edit.lists

Drop(edit) ==
    /\ plist' = Without(plist, edit.key)
    /\ plistFile' = IF edit.key \in DOMAIN plist THEN plist' ELSE plistFile
    /\ UNCHANGED <<localized, exts>>

RemoveWatch ==
    /\ \E gone \in SUBSET {e \in exts : e.dir = "Watch"} : exts' = exts \ gone
    /\ UNCHANGED <<plist, plistFile, localized>>

Edit ==
    /\ pc \in {"entitle", "patch"} /\ edits # <<>>
    /\ LET edit == Head(edits)
       IN  \/ /\ ~Incomparable(edit)
              /\ CASE edit.op = "drop" -> Drop(edit)
                   [] edit.op = "watch" -> RemoveWatch
                   [] OTHER -> Change(edit)
              /\ UNCHANGED pc
           \/ /\ Incomparable(edit)
              /\ pc' = "crashed"
              /\ UNCHANGED <<plist, plistFile, localized, exts>>
    /\ edits' = Tail(edits)
    /\ UNCHANGED <<injectVars, disk, job>>

(* New entitlements come between the first edits and the late ones. *)
RunEntitle ==
    /\ edits = <<>> /\ Entitle
    /\ edits' = job.late
    /\ UNCHANGED <<job, plist, plistFile, localized, exts>>

(* A patch opens the file, sets its key and writes it back. *)
RunPatch ==
    /\ edits = <<>> /\ Patch
    /\ plistFile' = Put_(plistFile, job.patches)
    /\ UNCHANGED <<job, plist, localized, exts, edits>>

RunNext ==
    \/ RunPrepare \/ RunInject \/ Edit \/ RunEntitle \/ RunPatch
    \/ /\ \/ Start \/ EditBundle \/ Fakesign \/ CreateIpa \/ RemoveApp \/ CopyApp
          \/ WriteZip \/ Close \/ StepFails \/ Finished
       /\ UNCHANGED bundleVars

RunSpec == RunInit /\ [][RunNext]_runVars
-----------------------------------------------------------------------------
(* A job as the options write it: an identifier is a list of pieces, only  *)
(* the option for it and a merge set one, the option never an empty one    *)
(* (run.go 199), and an extension begins with the identifier it came with. *)
Identified(j) ==
    /\ IsList(IdOf(j.plist))
    /\ \A e \in j.exts : /\ {"id", "was", "deep", "readable", "missed"} \subseteq DOMAIN e
                         /\ e.id = e.was /\ IsList(e.was)
    /\ \A edit \in Range_(j.edits \o j.late) :
          /\ edit.op = "id" => /\ "id" \in DOMAIN edit.set
                               /\ IsList(edit.set["id"]) /\ edit.set["id"] # Nothing
          /\ edit.op \notin {"id", "merge", "drop", "watch"} => "id" \notin DOMAIN edit.set

AllEdits == job.edits \o job.late
Asks(edit, k) == IF edit.op = "drop" THEN k = edit.key
                 ELSE edit.op # "watch" /\ k \in DOMAIN edit.set

(* The value the job leaves a key with: the patch's, else the last edit's  *)
(* that speaks of it, else what the app came with ({} when it has none).   *)
LeftWith(k) ==
    LET by == {i \in DOMAIN AllEdits : Asks(AllEdits[i], k)}
        last == AllEdits[CHOOSE i \in by : \A j \in by : j <= i]
    IN  IF k \in DOMAIN job.patches THEN {job.patches[k]}
        ELSE IF by # {} THEN IF last.op = "drop" THEN {} ELSE {last.set[k]}
        ELSE IF k \in DOMAIN job.plist THEN {job.plist[k]} ELSE {}

AllKeys ==
    DOMAIN job.plist \cup DOMAIN job.patches
        \cup UNION {DOMAIN AllEdits[i].set : i \in {j \in DOMAIN AllEdits :
                        AllEdits[j].op \notin {"drop", "watch"}}}

(* The Info.plist of a finished bundle is what the options ask for, key by *)
(* key, the last one to speak winning, and keeps everything else, though   *)
(* some edits are made in memory, some on the file, and those that change  *)
(* nothing save nothing.                                                   *)
SavedIsAsked ==
    pc = "done" =>
        /\ DOMAIN plistFile \subseteq AllKeys
        /\ \A k \in AllKeys : LeftWith(k) = IF k \in DOMAIN plistFile THEN {plistFile[k]} ELSE {}

(* When the app gets a new identifier, every extension one directory down  *)
(* that was below the old one is below the new one, whichever of them the  *)
(* user brought along.  An app without an identifier has none below it,    *)
(* and a merged plist that names another identifier renames nothing else.  *)
Below(id, of) == Len(id) > Len(of) /\ SubSeq(id, 1, Len(of)) = of
ExtensionsFollow ==
    pc = "done" /\ IdOf(job.plist) # Nothing
            /\ (\A i \in DOMAIN AllEdits :
                   AllEdits[i].op = "merge" => "id" \notin DOMAIN AllEdits[i].set) =>
        \A e \in exts :
            ~e.deep /\ e.readable /\ ~e.missed /\ Below(e.was, IdOf(job.plist))
                => Below(e.id, IdOf(plist))

(* "Extension removal runs before injection: the user may inject their     *)
(* own" (run.go 87): each one the injector placed is in the bundle.        *)
OwnExtensionsStay ==
    pc = "done" =>
        \A n \in {p.name : p \in {p \in DOMAIN shipped : p.at = "plugin"}} :
            \E e \in exts : e.name = n /\ e.dir = "PlugIns" /\ e.was = <<n>>
=============================================================================
