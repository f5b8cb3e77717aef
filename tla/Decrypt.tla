------------------------------- MODULE Decrypt -------------------------------
(***************************************************************************)
(* `xkvm decrypt' and the menu's decrypt screen: sign in to the App Store  *)
(* or take the saved session, buy, download and rewrite an app (decrypt/,  *)
(* app/decrypt.go), command after command, with a store that redirects,    *)
(* asks for approval and lets sessions expire, and a process that may be   *)
(* killed between any two steps.                                           *)
(***************************************************************************)
EXTENDS Naturals, FiniteSets, SequencesExt

CONSTANTS
    Accounts, Urls, Folders,
    NoAccount, NoSession, Torn,
    Archives,       \* what the store delivers, see ArchiveOk
    Commands,       \* what the user may ask, see CommandOk
    MaxRuns, MaxGrants

Unset == "unset"                    \* an empty folder name
Here == "."
Apps == {"main", "watch"}           \* directories ending in .app

(* entries: <<directory, file>> in the order of the zip; paths: the SinfPaths of each  *)
(* manifest, or Unset; exec: the executable of each app; sinfs: how many the store     *)
(* sends.  The store names no entry and no path twice.                                 *)
Named(seq) == seq \in Seq(Range(seq)) /\ IsInjective(seq)
ArchiveOk(z) ==
    /\ Named(z.entries) /\ \A i \in DOMAIN z.entries : Len(z.entries[i]) = 2
    /\ DOMAIN z.paths = Apps /\ \A a \in Apps : Named(z.paths[a])
    /\ DOMAIN z.exec = Apps /\ z.sinfs \in Nat
(* kind: "keep" (the saved session), "change" (credentials), "relogin" (log out, then *)
(* credentials), "logout"; password: "right", "wrong", "missing"; folder: the flag, or *)
(* the folder picked; pick: the answer to the menu's folder question                   *)
CommandOk(c) ==
    /\ c.kind \in {"keep", "change", "relogin", "logout"} /\ c.menu \in BOOLEAN
    /\ c.who \in Accounts \cup {NoAccount} /\ c.password \in {"right", "wrong", "missing"}
    /\ c.folder \in Folders \cup {Unset} /\ c.pick \in {"new", "last", "never"}
    /\ c.kind \in {"change", "relogin"} <=> c.who # NoAccount
    /\ c.menu => c.password # "missing" /\ c.kind # "logout"
    /\ c.kind = "relogin" => c.menu
ASSUME ArchivesAssumption == \A z \in Archives : ArchiveOk(z)
ASSUME BoundsAssumption == MaxRuns \in Nat /\ MaxGrants \in Nat
ASSUME CommandsAssumption == \A c \in Commands : CommandOk(c)

GenerateGUID(who) == <<"CAFEBABE", who>>
Sessions == [apple : Accounts, guid : {GenerateGUID(w) : w \in Accounts},
             pod : Accounts, token : 1..MaxGrants]
NoOutput == [at |-> <<>>, state |-> "none", file |-> <<>>]
NoAuth == [apple |-> NoAccount, guid |-> NoAccount, pod |-> NoAccount, token |-> 0]

VARIABLES
    auth, prefs,              \* auth.json and decrypt-prefs.json
    out,                      \* the archive this command writes, and where
    cmd, pc, result,
    client,                   \* the Client
    url, tries, said,         \* inside Authenticate; said: the body of the last answer
    dir, buy, zip,            \* output folder, last buy request, the archive
    granted, latest, live, trusted, runs    \* the store, and commands so far

disk == <<auth, prefs, out>>
inLogin == <<url, tries, said>>
store == <<granted, latest, live, trusted>>
download == <<dir, buy, zip>>
vars == <<disk, cmd, pc, result, client, inLogin, download, store, runs>>

Go(to) == pc' = to /\ UNCHANGED result
End(r) == pc' = "idle" /\ result' = r

--------------------------------------------------------------------------
(* The command, and the saved session. *)

HasSavedAuth == auth # NoSession
Begin(c) ==
    /\ pc = "idle" /\ runs < MaxRuns
    /\ c.menu => (c.kind \in {"keep", "relogin"} => HasSavedAuth)
    /\ cmd' = c /\ runs' = runs + 1 /\ client' = NoAuth
    /\ pc' = IF c.kind \in {"logout", "relogin"} THEN "logout" ELSE IF c.menu THEN "folder" ELSE "client"
    /\ result' = "busy" /\ tries' = 0 /\ said' = Unset /\ dir' = c.folder /\ buy' = NoAuth
    /\ url' = (CHOOSE u \in Urls : TRUE) /\ zip' = (CHOOSE z \in Archives : TRUE)
    /\ out' = NoOutput /\ UNCHANGED <<auth, prefs, store>>

(* The menu goes on to ask for credentials when the removal fails. *)
Logout ==
    /\ pc = "logout"
    /\ \E removed \in BOOLEAN :
       /\ auth' = IF removed THEN NoSession ELSE auth
       /\ IF cmd.kind = "relogin" THEN Go("folder") ELSE End(IF removed THEN "ok" ELSE "failed")
    /\ UNCHANGED <<prefs, out, cmd, client, inLogin, download, store, runs>>

(* flowDecrypt's folder question; the answer is kept before anything is downloaded. *)
LastFolder(p) == IF p.dir = Unset THEN Here ELSE p.dir
ChooseFolder ==
    LET chosen == IF prefs.mode # "ask" \/ cmd.pick # "new" THEN LastFolder(prefs)
                  ELSE IF cmd.folder = Unset THEN Here ELSE cmd.folder
        kept == [dir |-> chosen, mode |-> IF cmd.pick = "never" THEN "never" ELSE "ask"]
    IN /\ pc = "folder" /\ dir' = chosen
       /\ prefs' \in IF prefs.mode # "ask" THEN {prefs} ELSE {prefs, kept}
       /\ Go("client")
       /\ UNCHANGED <<auth, out, cmd, client, inLogin, buy, zip, store, runs>>

(* Every question of the screen can be left, also after the log-out. *)
Cancel == /\ pc = "folder" /\ End("cancelled")
          /\ UNCHANGED <<disk, cmd, client, inLogin, download, store, runs>>

(* A mutant: the pod is forgotten. *)
LoadForgetsPod(c) == IF auth = NoSession THEN c ELSE [auth EXCEPT !.pod = NoAccount]
Load(c) == IF auth = NoSession THEN c ELSE auth
HasAuth(c) == c.token # 0

decryptClient ==
    /\ pc = "client"
    /\ IF cmd.who # NoAccount
       THEN IF cmd.password = "missing" THEN End("usage") /\ UNCHANGED <<client, url>>
            ELSE /\ client' = [NoAuth EXCEPT !.apple = cmd.who, !.guid = GenerateGUID(cmd.who)]
                 /\ url' \in Urls /\ Go("login")      \* bagEndpoint, or its fallback
       ELSE /\ UNCHANGED url
            /\ IF auth = Torn THEN End("corrupt") /\ UNCHANGED client
               ELSE /\ client' = Load(client)
                    /\ IF HasAuth(Load(client)) THEN Go("resolve") ELSE End("nosession")
    /\ UNCHANGED <<disk, cmd, tries, said, download, store, runs>>

--------------------------------------------------------------------------
(* Authenticate: up to five requests. *)

MaxTries == 5
(* The bodies the store may send: a session only for the right password of an account *)
(* that needs no approval; "approve" is the Configurator_message.                      *)
Bodies == {"junk", "empty"} \cup
    (IF cmd.password = "wrong" THEN {"refused"}
     ELSE IF cmd.who \notin trusted THEN {"approve"}
     ELSE IF Cardinality(granted) < MaxGrants THEN {"session", "frontless"} ELSE {})
Granted == [apple |-> cmd.who, guid |-> client.guid, pod |-> cmd.who, token |-> Cardinality(granted) + 1]
GrantIf(body) ==
    IF body = "session"
    THEN granted' = granted \cup {Granted} /\ latest' = Granted /\ live' = live \cup {Granted} /\ UNCHANGED trusted
    ELSE UNCHANGED store
Reason(body) == IF body = "approve" THEN "twofactor" ELSE "rejected"

(* The answer names a pod: its body decides. *)
PodAnswer ==
    /\ pc = "login" /\ tries < MaxTries
    /\ \E body \in Bodies :
       /\ said' = body /\ GrantIf(body)
       /\ client' = IF body = "session" THEN [client EXCEPT !.pod = cmd.who, !.token = Granted.token]
                    ELSE [client EXCEPT !.pod = cmd.who]
       /\ IF body = "session" THEN Go("save") ELSE End(Reason(body))
    /\ UNCHANGED <<disk, cmd, url, tries, download, runs>>

(* A mutant: the reason is not read. *)
AbsorbedUnread(body) == "rejected"
Absorbed(body) == Reason(body)
(* The answer names no pod and comes from the same address. *)
NoPodAnswer ==
    /\ pc = "login" /\ tries < MaxTries
    /\ \E body \in Bodies : said' = body /\ GrantIf(body) /\ End(Absorbed(body))
    /\ UNCHANGED <<disk, cmd, client, url, tries, download, runs>>

(* A mutant: redirects are followed without a count. *)
CountedOnce(n) == 1
Counted(n) == n + 1
(* It names none and comes from another address, which is asked next. *)
Redirected ==
    /\ pc = "login" /\ tries < MaxTries
    /\ \E to \in Urls \ {url} : url' = to
    /\ tries' = Counted(tries) /\ said' = Unset /\ Go("login")
    /\ UNCHANGED <<disk, cmd, client, download, store, runs>>
(* After the fifth the body has been closed. *)
TooManyRedirects ==
    /\ pc = "login" /\ tries = MaxTries /\ End("rejected")
    /\ UNCHANGED <<disk, cmd, client, inLogin, download, store, runs>>

(* A mutant: the file is written in place. *)
SaveInPlace ==
    /\ pc = "save" /\ Go("saved") /\ auth' = Torn
    /\ UNCHANGED <<prefs, out, cmd, client, inLogin, download, store, runs>>
(* Save writes a temporary file nothing reads and renames it; a failure only warns. *)
Save ==
    /\ pc = "save" /\ Go("saved") /\ UNCHANGED auth
    /\ UNCHANGED <<prefs, out, cmd, client, inLogin, download, store, runs>>
SaveRename ==
    /\ pc = "saved" /\ Go("resolve") /\ auth' \in {auth, client}
    /\ UNCHANGED <<prefs, out, cmd, client, inLogin, download, store, runs>>

--------------------------------------------------------------------------
(* The download. *)

ResolveAppID ==
    /\ pc = "resolve"
    /\ dir' = IF dir # Unset THEN dir ELSE LastFolder(prefs)
    /\ Go("purchase") \/ End("failed")
    /\ UNCHANGED <<disk, cmd, client, inLogin, buy, zip, store, runs>>

(* The store sells to a session that is live, at its own pod. *)
Purchase ==
    /\ pc = "purchase" /\ buy' = client
    /\ \/ client \in live /\ Go("fetch") /\ zip' \in Archives
       \/ End("failed") /\ UNCHANGED zip
    /\ UNCHANGED <<disk, cmd, client, inLogin, dir, store, runs>>

(* Into the scratch directory, by way of a temporary file. *)
DownloadToPath ==
    /\ pc = "fetch" /\ (Go("inspect") \/ End("failed"))
    /\ UNCHANGED <<disk, cmd, client, inLogin, download, store, runs>>

Infos(z) == {i \in DOMAIN z.entries : z.entries[i][1] \in Apps /\ z.entries[i][2] = "Info.plist"}
appDir(z) == z.entries[CHOOSE i \in Infos(z) : \A j \in Infos(z) : i <= j][1]
HasManifest(z, app) == z.paths[app] # <<Unset>> /\ \E i \in DOMAIN z.entries : z.entries[i] = <<app, "Manifest.plist">>
sinfPaths(z) ==
    LET app == appDir(z) IN
    IF HasManifest(z, app) THEN [i \in DOMAIN z.paths[app] |-> <<app, z.paths[app][i]>>]
    ELSE <<<<app, z.exec[app]>>>>
Malformed(z) == Infos(z) = {} \/ (~HasManifest(z, appDir(z)) /\ z.exec[appDir(z)] = Unset)
Inspect ==
    /\ pc = "inspect"
    /\ IF Malformed(zip) THEN End("malformed") ELSE Go("create")
    /\ UNCHANGED <<disk, cmd, client, inLogin, download, store, runs>>

(* As many targets as both lists have. *)
targets(z) == [i \in 1..(IF z.sinfs < Len(sinfPaths(z)) THEN z.sinfs ELSE Len(sinfPaths(z))) |->
                 [name |-> sinfPaths(z)[i], from |-> i]]
(* A mutant: the entry that is replaced is copied as well. *)
isSinfTargetNever(name, ts) == FALSE
isSinfTarget(name, ts) == \E i \in DOMAIN ts : ts[i].name = name
Metadata == <<"", "iTunesMetadata.plist">>
FromZip(name) == [name |-> name, from |-> 0]
(* The entries that are copied, each at its number in the zip, then the metadata *)
(* and the DRM files: an archive is written in the order of these numbers.       *)
Rewritten(z) ==
    LET ts == targets(z)
        copy(e) == e[1] # "__MACOSX" /\ e # Metadata /\ ~isSinfTarget(e, ts)
        copied == {i \in DOMAIN z.entries : copy(z.entries[i])}
        last == Len(z.entries) + 1
    IN [i \in copied \cup last..last + Len(ts) |->
          IF i < last THEN FromZip(z.entries[i])
          ELSE IF i = last THEN [name |-> Metadata, from |-> client.apple]
          ELSE ts[i - last]]

Output == <<dir, appDir(zip)>>
(* os.Create empties what was there. *)
CreateOut ==
    /\ pc = "create"
    /\ \/ Go("write") /\ out' = [at |-> Output, state |-> "part", file |-> <<>>]
       \/ End("failed") /\ UNCHANGED out
    /\ UNCHANGED <<auth, prefs, cmd, client, inLogin, download, store, runs>>
WriteOut ==
    /\ pc = "write"
    /\ \/ End("ok") /\ out' = [out EXCEPT !.state = "whole", !.file = Rewritten(zip)]
       \/ End("failed") /\ UNCHANGED out
    /\ UNCHANGED <<auth, prefs, cmd, client, inLogin, download, store, runs>>

--------------------------------------------------------------------------
(* Around it: the user approves a sign-in on a trusted device, a session   *)
(* expires, the process is killed.                                         *)

Approve == /\ pc = "idle" /\ trusted' \in {trusted \cup {a} : a \in Accounts \ trusted}
           /\ UNCHANGED <<disk, cmd, pc, result, client, inLogin, download, granted, latest, live, runs>>
Expire == /\ pc = "idle" /\ live' \in {live \ {s} : s \in live}
          /\ UNCHANGED <<disk, cmd, pc, result, client, inLogin, download, granted, latest, trusted, runs>>
Crash == /\ pc # "idle" /\ End("killed")
         /\ UNCHANGED <<disk, cmd, client, inLogin, download, store, runs>>

Init ==
    /\ auth = NoSession /\ prefs = [dir |-> Unset, mode |-> "ask"]
    /\ out = NoOutput
    /\ cmd = (CHOOSE c \in Commands : TRUE) /\ pc = "idle" /\ result = "none" /\ client = NoAuth
    /\ url = (CHOOSE u \in Urls : TRUE) /\ tries = 0 /\ said = Unset
    /\ dir = Unset /\ buy = NoAuth /\ zip = (CHOOSE z \in Archives : TRUE)
    /\ granted = {} /\ latest = NoSession /\ live = {} /\ trusted \in SUBSET Accounts /\ runs = 0

Step == \/ Logout \/ ChooseFolder \/ Cancel \/ decryptClient \/ PodAnswer \/ NoPodAnswer \/ Redirected \/ TooManyRedirects
        \/ Save \/ SaveRename \/ ResolveAppID \/ Purchase \/ DownloadToPath \/ Inspect \/ CreateOut \/ WriteOut
Next == (\E c \in Commands : Begin(c)) \/ Step \/ Approve \/ Expire \/ Crash

(* Every request has a timeout (60 s, 30 s and 15 min), every other step is local. *)
Spec == Init /\ [][Next]_vars /\ WF_vars(Step)

--------------------------------------------------------------------------
(* Properties. *)

(* The variables stay within their types; a client has no session while it is *)
(* signing in, and a session of the account it names afterwards.              *)
TypeOK ==
    /\ auth \in Sessions \cup {NoSession} /\ client \in [apple : Accounts \cup {NoAccount}, guid : {GenerateGUID(w) : w \in Accounts} \cup {NoAccount}, pod : Accounts \cup {NoAccount}, token : 0..MaxGrants]
    /\ granted \subseteq Sessions /\ live \subseteq granted /\ tries \in 0..MaxTries
    /\ pc = "login" => ~HasAuth(client)

(* auth.json implements the abstract store: whatever fails or is killed, it names *)
(* the session it named, none after a log-out, or the one just granted to the     *)
(* account the user gave (auth.go 42-91, app/decrypt.go 66-93).                   *)
wishes == IF pc = "idle" THEN {} ELSE
          (IF cmd.who # NoAccount THEN {"replace"} ELSE {}) \cup
          (IF cmd.kind \in {"logout", "relogin"} THEN {"forget"} ELSE {})
Saved == INSTANCE SessionStore WITH saved <- auth, latest <- latest, wishes <- wishes
ImplementsStore == Saved!Spec

(* A purchase goes out as the session was granted: account, machine id, pod and    *)
(* token of one sign-in, also when it was saved by an earlier run, changed or torn *)
(* by a crash in between (client.go 288-320, auth.go 72-91).                       *)
BuysAsSignedIn == buy = NoAuth \/ buy \in granted

(* "ErrTwoFactor is returned by Authenticate when Apple reports that the account   *)
(* needs two-factor approval" (client.go 45): whichever way the answer came, a     *)
(* sign-in is reported as rejected only if the last answer did not ask for it.     *)
ApprovalReported == result = "rejected" => said # "approve"

(* A download reported as done left a whole archive where the user's folder is:    *)
(* no name in it twice, the buyer's name in it, each DRM file at its place and     *)
(* every other entry kept (download.go 164-213, flowDecrypt's folder question).    *)
(* Assumed of the archive: the app's own Info.plist comes before a watch app's.    *)
Folder == IF cmd.folder = Unset THEN LastFolder(prefs) ELSE cmd.folder
MainFirst(z) == Infos(z) # {} => appDir(z) = "main"
OutputRight ==
    (result = "ok" /\ cmd.kind # "logout" /\ MainFirst(zip)) =>
        LET f == out.file
            names == {f[i].name : i \in DOMAIN f}
            source(n) == {f[i].from : i \in {j \in DOMAIN f : f[j].name = n}} IN
        /\ out.at = <<dir, "main">> /\ out.state = "whole" /\ Cardinality(names) = Cardinality(DOMAIN f)
        /\ source(Metadata) = {buy.apple}
        /\ \A i \in 1..zip.sinfs : i <= Len(zip.paths["main"]) /\ HasManifest(zip, "main") =>
               source(<<"main", zip.paths["main"][i]>>) = {i}
        /\ \A i \in DOMAIN zip.entries : zip.entries[i][1] = "__MACOSX" \/ zip.entries[i] \in names
        /\ cmd.menu \/ dir = Folder

(* Every command ends: the redirects are counted and each request has a timeout.    *)
CommandEnds == pc # "idle" ~> pc = "idle"
=============================================================================
