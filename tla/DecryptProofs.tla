---------------------------- MODULE DecryptProofs ----------------------------
(***************************************************************************)
(* For any accounts, archives and commands, with the process killed at any *)
(* step: the saved login is the abstract store's (module SessionStore), a  *)
(* purchase carries a session as it was granted, and a sign-in that waits  *)
(* for the user's approval is not reported as rejected.                    *)
(***************************************************************************)
EXTENDS Decrypt, FiniteSetTheorems, TLAPS

(* The client that signs in has the account and its machine id, no more. *)
SigningIn(who) == [NoAuth EXCEPT !.apple = who, !.guid = GenerateGUID(who)]

(* Where the client's session comes from at each step of a command. *)
ClientInv ==
    /\ pc \in {"logout", "folder", "client"} => client = NoAuth
    /\ pc = "login" => /\ cmd.who \in Accounts \ {NoAccount}
                        /\ client = SigningIn(cmd.who)
    /\ pc \in {"save", "saved"} => cmd.who # NoAccount /\ client = latest /\ latest \in granted
    /\ pc \in {"resolve", "purchase"} => client \in granted

(* What the store has granted, and what names it. *)
GrantInv ==
    /\ granted \subseteq Sessions /\ IsFiniteSet(granted)
    /\ live \subseteq granted
    /\ auth \in granted \cup {NoSession} /\ latest \in granted \cup {NoSession}

CommandInv ==
    /\ pc # "idle" => cmd \in Commands /\ result = "busy"
    /\ pc = "logout" => cmd.kind \in {"logout", "relogin"}
    /\ pc \in {"logout", "folder", "client", "login"} => said = Unset

SignInInv == TypeOK /\ ClientInv /\ GrantInv /\ CommandInv /\ BuysAsSignedIn /\ ApprovalReported

-----------------------------------------------------------------------------
(* Lemmas: what an answer of the store brings, and the steps in between. *)

(* The record decryptClient builds, spelled out. *)
LEMMA SigningInIs ==
  ASSUME NEW who
  PROVE  SigningIn(who) = [apple |-> who, guid |-> GenerateGUID(who),
                           pod |-> NoAccount, token |-> 0]
<1> DEFINE named == [NoAuth EXCEPT !.apple = who]
<1>1. named = [apple |-> who, guid |-> NoAccount,
               pod |-> NoAccount, token |-> 0]
  BY DEF NoAuth
<1>2. SigningIn(who) = [named EXCEPT !.guid = GenerateGUID(who)]
  BY Zenon DEF SigningIn
<1> HIDE DEF named
<1>3. [named EXCEPT !.guid = GenerateGUID(who)] =
        [apple |-> who, guid |-> GenerateGUID(who),
         pod |-> NoAccount, token |-> 0]
  BY <1>1
<1> QED
  BY <1>2, <1>3, Zenon

(* A session the store grants is the account's, and one more than before. *)
LEMMA GrantedSession ==
  ASSUME SignInInv, pc = "login", Cardinality(granted) < MaxGrants
  PROVE  /\ Granted \in Sessions
         /\ Granted = [client EXCEPT !.pod = cmd.who, !.token = Granted.token]
         /\ IsFiniteSet(granted \cup {Granted})
<1>1. Cardinality(granted) \in Nat
  BY FS_CardinalityType DEF SignInInv, GrantInv
<1>2. Cardinality(granted) + 1 \in 1..MaxGrants
  BY <1>1, BoundsAssumption
<1>3. /\ cmd.who \in Accounts
      /\ client = SigningIn(cmd.who)
      /\ IsFiniteSet(granted)
  BY DEF SignInInv, ClientInv, GrantInv
<1>4. client = [apple |-> cmd.who, guid |-> GenerateGUID(cmd.who),
                pod |-> NoAccount, token |-> 0]
  BY <1>3, SigningInIs
<1>5. Granted \in Sessions /\ Granted.token \in Nat
  BY <1>2, <1>3, <1>4 DEF Granted, Sessions
<1>6. Granted = [client EXCEPT !.pod = cmd.who, !.token = Granted.token]
  <2> DEFINE placed == [client EXCEPT !.pod = cmd.who]
  <2>1. placed = [apple |-> cmd.who, guid |-> GenerateGUID(cmd.who),
                  pod |-> cmd.who, token |-> 0]
    BY <1>4
  <2>2. [client EXCEPT !.pod = cmd.who, !.token = Granted.token] =
          [placed EXCEPT !.token = Granted.token]
    BY Zenon
  <2> HIDE DEF placed
  <2>3. [placed EXCEPT !.token = Granted.token] = Granted
    BY <1>4, <2>1 DEF Granted
  <2> QED
    BY <2>2, <2>3, Zenon
<1>7. IsFiniteSet(granted \cup {Granted})
  BY <1>3, FS_AddElement
<1> QED
  BY <1>5, <1>6, <1>7

(* The store grants a session or leaves everything as it was. *)
LEMMA AnswerOfTheStore ==
  ASSUME SignInInv, pc = "login", NEW body \in Bodies, GrantIf(body),
         UNCHANGED auth
  PROVE  /\ GrantInv' /\ granted \subseteq granted'
         /\ \/ body = "session" /\ latest' = Granted /\ Granted \in granted'
            \/ body # "session" /\ UNCHANGED latest
<1>1. CASE body = "session"
  <2>1. Cardinality(granted) < MaxGrants
    BY <1>1 DEF Bodies
  <2>2. /\ Granted \in Sessions
        /\ IsFiniteSet(granted \cup {Granted})
    BY <2>1, GrantedSession
  <2>3. /\ granted' = granted \cup {Granted}
        /\ live' = live \cup {Granted}
        /\ latest' = Granted
    BY <1>1 DEF GrantIf
  <2> QED
    BY <1>1, <2>2, <2>3 DEF SignInInv, GrantInv
<1>2. CASE body # "session"
  BY <1>2 DEF GrantIf, store, SignInInv, GrantInv
<1> QED
  BY <1>1, <1>2

(* The records a client may be. *)
Clients == [apple : Accounts \cup {NoAccount},
            guid : {GenerateGUID(w) : w \in Accounts} \cup {NoAccount},
            pod : Accounts \cup {NoAccount}, token : 0..MaxGrants]

LEMMA ClientTypes ==
  /\ NoAuth \in Clients
  /\ Sessions \subseteq Clients
  /\ \A who \in Accounts : SigningIn(who) \in Clients
<1>1. NoAuth \in Clients
  BY BoundsAssumption DEF NoAuth, Clients
<1>2. Sessions \subseteq Clients
  BY BoundsAssumption DEF Sessions, Clients
<1>3. \A who \in Accounts : SigningIn(who) \in Clients
  BY BoundsAssumption, SigningInIs DEF Clients
<1> QED
  BY <1>1, <1>2, <1>3

(* A step of the command that neither signs in nor touches the saved login: *)
(* it ends the command, or goes on with a client that fits where it goes.   *)
LEMMA QuietStep ==
  ASSUME SignInInv, pc # "idle",
         UNCHANGED <<auth, cmd, client, tries, said, store, buy>>,
         \/ pc' = "idle" /\ result' # "rejected"
         \/ pc' = "client" /\ pc = "folder" /\ UNCHANGED result
         \/ pc' = "folder" /\ pc = "logout" /\ UNCHANGED result
         \/ pc' = "saved" /\ pc = "save" /\ UNCHANGED result
         \/ pc' = "purchase" /\ pc = "resolve" /\ UNCHANGED result
         \/ pc' \in {"inspect", "create", "write"} /\ UNCHANGED result
  PROVE  SignInInv'
<1>1. GrantInv'
  BY DEF SignInInv, GrantInv, store
<1>2. ClientInv'
  BY DEF SignInInv, ClientInv, store
<1>3. CommandInv'
  BY DEF SignInInv, CommandInv
<1>4. BuysAsSignedIn' /\ ApprovalReported'
  BY DEF SignInInv, BuysAsSignedIn, ApprovalReported, CommandInv, store
<1>5. TypeOK'
  BY DEF SignInInv, TypeOK, store
<1> QED
  BY <1>1, <1>2, <1>3, <1>4, <1>5 DEF SignInInv

-----------------------------------------------------------------------------
(* The invariant is inductive. *)

LEMMA InitInv == Init => SignInInv
<1> SUFFICES ASSUME Init PROVE SignInInv
  OBVIOUS
<1>1. GrantInv
  BY FS_EmptySet DEF Init, GrantInv
<1>2. TypeOK
  BY ClientTypes DEF Init, TypeOK, Clients, MaxTries
<1> QED
  BY <1>1, <1>2 DEF Init, SignInInv, ClientInv, CommandInv, BuysAsSignedIn,
                    ApprovalReported

(* Each answer to a sign-in keeps it: a session becomes the client's. *)
LEMMA PodAnswerInv == SignInInv /\ PodAnswer => SignInInv'
<1> SUFFICES ASSUME SignInInv, PodAnswer PROVE SignInInv'
  OBVIOUS
<1>1. PICK body \in Bodies :
        /\ said' = body /\ GrantIf(body)
        /\ client' = IF body = "session"
                     THEN [client EXCEPT !.pod = cmd.who, !.token = Granted.token]
                     ELSE [client EXCEPT !.pod = cmd.who]
        /\ IF body = "session" THEN Go("save") ELSE End(Reason(body))
  BY Zenon DEF PodAnswer
<1>2. /\ pc = "login"
      /\ UNCHANGED <<auth, cmd, tries, buy>>
  BY DEF PodAnswer, disk, download
<1>3. /\ GrantInv' /\ granted \subseteq granted'
      /\ \/ body = "session" /\ latest' = Granted /\ Granted \in granted'
         \/ body # "session" /\ UNCHANGED latest
  BY <1>1, <1>2, AnswerOfTheStore
<1>4. BuysAsSignedIn'
  BY <1>2, <1>3 DEF SignInInv, BuysAsSignedIn
<1>5. /\ cmd.who \in Accounts \ {NoAccount}
      /\ client = SigningIn(cmd.who)
      /\ cmd \in Commands /\ result = "busy"
  BY <1>2 DEF SignInInv, ClientInv, CommandInv
<1>6. CASE body = "session"
  <2>1. Cardinality(granted) < MaxGrants
    BY <1>6 DEF Bodies
  <2>2. client' = Granted
    BY <1>1, <1>2, <1>6, <2>1, GrantedSession, Zenon
  <2>3. pc' = "save" /\ result' = "busy"
    BY <1>1, <1>5, <1>6 DEF Go
  <2>4. ClientInv' /\ CommandInv' /\ ApprovalReported'
    BY <1>2, <1>3, <1>5, <1>6, <2>2, <2>3
    DEF ClientInv, CommandInv, ApprovalReported
  <2>5. client' \in Clients
    BY <1>2, <2>1, <2>2, GrantedSession, ClientTypes
  <2>6. TypeOK'
    BY <1>2, <1>3, <2>3, <2>5 DEF SignInInv, TypeOK, GrantInv, Clients
  <2> QED
    BY <1>3, <1>4, <2>4, <2>6 DEF SignInInv
<1>7. CASE body # "session"
  <2>1. pc' = "idle" /\ result' = Reason(body)
    BY <1>1, <1>7 DEF End
  <2>2. ClientInv' /\ CommandInv'
    BY <2>1 DEF ClientInv, CommandInv
  <2>3. ApprovalReported'
    BY <1>1, <2>1 DEF ApprovalReported, Reason
  <2>4. client' \in Clients
    <3>1. client \in Clients
      BY DEF SignInInv, TypeOK, Clients
    <3>2. [client EXCEPT !.pod = cmd.who] \in Clients
      BY <1>5, <3>1 DEF Clients
    <3> QED
      BY <1>1, <1>7, <3>2
  <2>5. TypeOK'
    BY <1>2, <1>3, <2>1, <2>4 DEF SignInInv, TypeOK, GrantInv, Clients
  <2> QED
    BY <1>3, <1>4, <2>2, <2>3, <2>5 DEF SignInInv
<1> QED
  BY <1>6, <1>7

LEMMA NoPodAnswerInv == SignInInv /\ NoPodAnswer => SignInInv'
<1> SUFFICES ASSUME SignInInv, NoPodAnswer PROVE SignInInv'
  OBVIOUS
<1>1. PICK body \in Bodies :
        said' = body /\ GrantIf(body) /\ End(Absorbed(body))
  BY DEF NoPodAnswer
<1>2. /\ pc = "login" /\ pc' = "idle" /\ result' = Reason(body)
      /\ UNCHANGED <<auth, cmd, client, tries, buy>>
  BY <1>1 DEF NoPodAnswer, End, Absorbed, disk, download
<1>3. GrantInv' /\ granted \subseteq granted'
  BY <1>1, <1>2, AnswerOfTheStore
<1>4. TypeOK'
  BY <1>2, <1>3 DEF SignInInv, TypeOK, GrantInv
<1> QED
  BY <1>1, <1>2, <1>3, <1>4
  DEF SignInInv, ClientInv, CommandInv, BuysAsSignedIn, ApprovalReported, Reason

(* The command starts with an empty client. *)
LEMMA BeginInv ==
  ASSUME SignInInv, NEW c \in Commands, Begin(c) PROVE SignInInv'
<1>1. /\ client' = NoAuth /\ buy' = NoAuth /\ tries' = 0 /\ said' = Unset
      /\ cmd' = c /\ result' = "busy" /\ UNCHANGED <<auth, store>>
      /\ pc' \in {"logout", "folder", "client"}
      /\ pc' = "logout" => c.kind \in {"logout", "relogin"}
  BY DEF Begin
<1>2. GrantInv'
  BY <1>1 DEF SignInInv, GrantInv, store
<1>3. TypeOK'
  BY <1>1, ClientTypes DEF SignInInv, TypeOK, MaxTries, store, Clients
<1> QED
  BY <1>1, <1>2, <1>3
  DEF SignInInv, ClientInv, CommandInv, BuysAsSignedIn, ApprovalReported

(* The client signs in as the account given, or is the one that was saved. *)
LEMMA ClientInvStep == SignInInv /\ decryptClient => SignInInv'
<1> SUFFICES ASSUME SignInInv, decryptClient PROVE SignInInv'
  OBVIOUS
<1>1. /\ pc = "client" /\ client = NoAuth /\ cmd \in Commands
      /\ result = "busy" /\ auth \in granted \cup {NoSession}
      /\ UNCHANGED <<auth, cmd, tries, said, store, buy>>
  BY DEF decryptClient, SignInInv, ClientInv, GrantInv, CommandInv,
         disk, download
<1>2. CASE cmd.who # NoAccount /\ cmd.password # "missing"
  <2>1. client' = SigningIn(cmd.who) /\ pc' = "login" /\ UNCHANGED result
    BY <1>2, Zenon DEF decryptClient, SigningIn, Go
  <2>2. cmd.who \in Accounts
    BY <1>1, <1>2, CommandsAssumption DEF CommandOk
  <2>3. ClientInv'
    <3>1. client' = SigningIn(cmd'.who)
      BY <1>1, <2>1, Zenon
    <3>2. cmd'.who \in Accounts \ {NoAccount} /\ pc' = "login"
      BY <1>1, <1>2, <2>1, <2>2
    <3> QED
      BY <3>1, <3>2 DEF ClientInv
  <2>4. client' \in Clients /\ client'.token = 0
    <3>1. client' \in Clients
      BY <2>1, <2>2, ClientTypes
    <3>2. client' = [apple |-> cmd.who, guid |-> GenerateGUID(cmd.who),
                     pod |-> NoAccount, token |-> 0]
      BY <2>1, SigningInIs
    <3> QED
      BY <3>1, <3>2
  <2>5. TypeOK'
    BY <1>1, <2>4 DEF SignInInv, TypeOK, Clients, HasAuth, store
  <2>6. said' = Unset
    BY <1>1 DEF SignInInv, CommandInv
  <2> QED
    BY <1>1, <2>1, <2>3, <2>5, <2>6
    DEF SignInInv, GrantInv, CommandInv, BuysAsSignedIn, ApprovalReported, store
<1>3. CASE cmd.who # NoAccount /\ cmd.password = "missing"
  <2>1. pc' = "idle" /\ result' = "usage" /\ UNCHANGED client
    BY <1>3 DEF decryptClient, End
  <2> QED
    BY <1>1, <2>1, QuietStep
<1>4. CASE cmd.who = NoAccount /\ auth = Torn
  <2>1. pc' = "idle" /\ result' = "corrupt" /\ UNCHANGED client
    BY <1>4 DEF decryptClient, End
  <2> QED
    BY <1>1, <2>1, QuietStep
<1>5. CASE cmd.who = NoAccount /\ auth # Torn
  <2>1. client' = Load(client)
    BY <1>5 DEF decryptClient
  <2>2. CASE auth = NoSession
    <3>1. pc' = "idle" /\ result' = "nosession" /\ UNCHANGED client
      BY <1>1, <1>5, <2>1, <2>2 DEF decryptClient, Load, HasAuth, NoAuth, End
    <3> QED
      BY <1>1, <3>1, QuietStep
  <2>3. CASE auth # NoSession
    <3>1. client' = auth /\ auth \in granted /\ auth \in Sessions
      BY <1>1, <2>1, <2>3 DEF Load, SignInInv, GrantInv
    <3>2. \/ pc' = "resolve" /\ UNCHANGED result
          \/ pc' = "idle" /\ result' = "nosession"
      BY <1>5 DEF decryptClient, Go, End
    <3>3. TypeOK'
      BY <1>1, <3>1, <3>2, ClientTypes DEF SignInInv, TypeOK, Clients, store
    <3> QED
      BY <1>1, <3>1, <3>2, <3>3
      DEF SignInInv, ClientInv, GrantInv, CommandInv, BuysAsSignedIn,
          ApprovalReported, store
  <2> QED
    BY <2>2, <2>3
<1> QED
  BY <1>2, <1>3, <1>4, <1>5

LEMMA InvStep == SignInInv /\ [Next]_vars => SignInInv'
<1> SUFFICES ASSUME SignInInv, [Next]_vars PROVE SignInInv'
  OBVIOUS
<1> USE DEF disk, inLogin, download
<1>1. ASSUME NEW c \in Commands, Begin(c) PROVE SignInInv'
  BY <1>1, BeginInv
<1>2. CASE Logout
  <2>1. /\ pc = "logout" /\ cmd.kind \in {"logout", "relogin"}
        /\ auth' \in {auth, NoSession}
        /\ UNCHANGED <<cmd, client, tries, said, store, buy>>
        /\ \/ pc' = "folder" /\ UNCHANGED result
           \/ pc' = "idle" /\ result' # "rejected"
    BY <1>2 DEF Logout, SignInInv, CommandInv, Go, End
  <2>2. GrantInv' /\ TypeOK'
    BY <2>1 DEF SignInInv, GrantInv, TypeOK, store
  <2> QED
    BY <2>1, <2>2 DEF SignInInv, ClientInv, CommandInv, BuysAsSignedIn,
                      ApprovalReported, store
<1>3. CASE ChooseFolder
  BY <1>3, QuietStep DEF ChooseFolder, Go
<1>4. CASE Cancel
  BY <1>4, QuietStep DEF Cancel, End
<1>5. CASE decryptClient
  BY <1>5, ClientInvStep
<1>6. CASE PodAnswer
  BY <1>6, PodAnswerInv
<1>7. CASE NoPodAnswer
  BY <1>7, NoPodAnswerInv
<1>8. CASE Redirected
  <2>1. /\ pc = "login" /\ pc' = "login" /\ said' = Unset /\ tries' = tries + 1
        /\ tries < MaxTries
        /\ UNCHANGED <<auth, cmd, client, store, buy, result>>
    BY <1>8 DEF Redirected, Go, Counted
  <2>2. TypeOK' /\ GrantInv'
    BY <2>1 DEF SignInInv, TypeOK, GrantInv, MaxTries, HasAuth, store
  <2>3. ClientInv'
    BY <2>1 DEF SignInInv, ClientInv, store
  <2> QED
    BY <2>1, <2>2, <2>3 DEF SignInInv, CommandInv, BuysAsSignedIn,
                            ApprovalReported, store
<1>9. CASE TooManyRedirects
  <2>1. /\ pc = "login" /\ said = Unset
        /\ pc' = "idle" /\ result' = "rejected"
        /\ UNCHANGED <<auth, cmd, client, tries, said, store, buy>>
    BY <1>9 DEF TooManyRedirects, SignInInv, CommandInv, End
  <2>2. ApprovalReported'
    BY <2>1 DEF ApprovalReported, Unset
  <2>3. TypeOK' /\ GrantInv' /\ ClientInv'
    BY <2>1 DEF SignInInv, TypeOK, GrantInv, ClientInv, store
  <2> QED
    BY <2>1, <2>2, <2>3 DEF SignInInv, CommandInv, BuysAsSignedIn, store
<1>10. CASE Save
  BY <1>10, QuietStep DEF Save, Go
<1>11. CASE SaveRename
  <2>1. /\ pc = "saved" /\ pc' = "resolve" /\ auth' \in {auth, client}
        /\ UNCHANGED <<cmd, client, tries, said, store, buy, result>>
        /\ client \in granted
    BY <1>11 DEF SaveRename, SignInInv, ClientInv, Go
  <2>2. TypeOK' /\ GrantInv'
    BY <2>1 DEF SignInInv, TypeOK, GrantInv, store
  <2> QED
    BY <2>1, <2>2 DEF SignInInv, ClientInv, CommandInv, BuysAsSignedIn,
                      ApprovalReported, store
<1>12. CASE ResolveAppID
  BY <1>12, QuietStep DEF ResolveAppID, Go, End
<1>13. CASE Purchase
  <2>1. /\ pc = "purchase" /\ buy' = client /\ client \in granted
        /\ UNCHANGED <<auth, cmd, client, tries, said, store>>
        /\ \/ pc' = "fetch" /\ UNCHANGED result
           \/ pc' = "idle" /\ result' = "failed"
    BY <1>13 DEF Purchase, SignInInv, ClientInv, Go, End
  <2>2. TypeOK' /\ GrantInv'
    BY <2>1 DEF SignInInv, TypeOK, GrantInv, store
  <2> QED
    BY <2>1, <2>2 DEF SignInInv, ClientInv, CommandInv, BuysAsSignedIn,
                      ApprovalReported, store
<1>14. CASE DownloadToPath
  BY <1>14, QuietStep DEF DownloadToPath, Go, End
<1>15. CASE Inspect
  BY <1>15, QuietStep DEF Inspect, Go, End
<1>16. CASE CreateOut
  BY <1>16, QuietStep DEF CreateOut, Go, End
<1>17. CASE WriteOut
  BY <1>17, QuietStep DEF WriteOut, Go, End
<1>18. CASE Approve \/ Expire
  <2>1. /\ pc = "idle" /\ pc' = "idle"
        /\ live' \subseteq live
        /\ UNCHANGED <<auth, cmd, result, client, tries, said, buy,
                       granted, latest>>
    BY <1>18 DEF Approve, Expire
  <2>2. TypeOK' /\ GrantInv'
    BY <2>1 DEF SignInInv, TypeOK, GrantInv
  <2> QED
    BY <2>1, <2>2 DEF SignInInv, ClientInv, CommandInv, BuysAsSignedIn,
                      ApprovalReported
<1>19. CASE Crash
  BY <1>19, QuietStep DEF Crash, End
<1>20. CASE UNCHANGED vars
  BY <1>20 DEF vars, store, SignInInv, TypeOK, GrantInv, ClientInv,
               CommandInv, BuysAsSignedIn, ApprovalReported
<1> QED
  BY <1>1, <1>2, <1>3, <1>4, <1>5, <1>6, <1>7, <1>8, <1>9, <1>10, <1>11,
     <1>12, <1>13, <1>14, <1>15, <1>16, <1>17, <1>18, <1>19, <1>20
  DEF Next, Step

(* Every state a run can reach has it, whatever is killed and whenever. *)
THEOREM SignInInvAlways == Spec => []SignInInv
  BY InitInv, InvStep, PTL DEF Spec

(* The types: a saved login is a session, whole, and a client signs in  *)
(* without one (client.go, auth.go 42-91).                               *)
THEOREM TypeCorrect == Spec => []TypeOK
<1>1. SignInInv => TypeOK
  BY DEF SignInInv
<1> QED
  BY <1>1, SignInInvAlways, PTL

(* A purchase goes out as one of the sessions the store granted, whole   *)
(* (client.go 288-320): no crash between the steps of saving a login, no *)
(* log-out and no change of account mixes two of them.                   *)
THEOREM BuysAsSignedInAlways == Spec => []BuysAsSignedIn
<1>1. SignInInv => BuysAsSignedIn
  BY DEF SignInInv
<1> QED
  BY <1>1, SignInInvAlways, PTL

(* A sign-in the store wants approved is not reported as rejected        *)
(* (client.go 45 and Authenticate), with a pod in the answer or without. *)
THEOREM ApprovalReportedAlways == Spec => []ApprovalReported
<1>1. SignInInv => ApprovalReported
  BY DEF SignInInv
<1> QED
  BY <1>1, SignInInvAlways, PTL

-----------------------------------------------------------------------------
(* The refinement: auth.json is the abstract store. *)

LEMMA StoreInit == Init => Saved!Init
  BY DEF Init, Saved!Init, wishes

(* A step that leaves the file and the last session granted alone. *)
LEMMA KeepStep ==
  ASSUME UNCHANGED <<auth, latest>> PROVE Saved!Next
  BY DEF Saved!Next, Saved!Ask, Saved!Keep, wishes

(* A session is granted while the file is left alone. *)
LEMMA GrantStep ==
  ASSUME SignInInv, pc = "login", UNCHANGED auth,
         NEW body \in Bodies, GrantIf(body)
  PROVE  Saved!Next
<1>1. Saved!Ask
  BY DEF Saved!Ask, wishes
<1>2. latest' \in Sessions \/ UNCHANGED latest
  BY AnswerOfTheStore, GrantedSession DEF Bodies
<1> QED
  BY <1>1, <1>2 DEF Saved!Next, Saved!Grant, Saved!Keep

LEMMA StoreStep == SignInInv /\ [Next]_vars => [Saved!Next]_(Saved!storeVars)
<1> SUFFICES ASSUME SignInInv, [Next]_vars PROVE [Saved!Next]_(Saved!storeVars)
  OBVIOUS
<1> USE DEF disk, store
<1>1. ASSUME NEW c \in Commands, Begin(c) PROVE Saved!Next
  BY <1>1, KeepStep DEF Begin
<1>2. CASE Logout
  <2>1. /\ auth' \in {auth, NoSession} /\ UNCHANGED latest
        /\ pc = "logout" /\ cmd.kind \in {"logout", "relogin"}
    BY <1>2 DEF Logout, SignInInv, CommandInv
  <2>2. "forget" \in wishes /\ Saved!Ask
    BY <2>1 DEF wishes, Saved!Ask
  <2> QED
    BY <2>1, <2>2 DEF Saved!Next, Saved!Forget, Saved!Keep
<1>3. CASE SaveRename
  <2>1. /\ auth' \in {auth, latest} /\ UNCHANGED latest
        /\ pc = "saved" /\ cmd.who # NoAccount /\ latest \in Sessions
    BY <1>3 DEF SaveRename, SignInInv, ClientInv, GrantInv
  <2>2. "replace" \in wishes /\ Saved!Ask
    BY <2>1 DEF wishes, Saved!Ask
  <2> QED
    BY <2>1, <2>2 DEF Saved!Next, Saved!Store, Saved!Keep
<1>4. CASE PodAnswer
  BY <1>4, GrantStep DEF PodAnswer
<1>5. CASE NoPodAnswer
  BY <1>5, GrantStep DEF NoPodAnswer
<1>6. CASE ChooseFolder \/ Cancel \/ decryptClient \/ Redirected
           \/ TooManyRedirects \/ Save \/ ResolveAppID \/ Purchase
  BY <1>6, KeepStep DEF ChooseFolder, Cancel, decryptClient, Redirected,
                        TooManyRedirects, Save, ResolveAppID, Purchase
<1>7. CASE DownloadToPath \/ Inspect \/ CreateOut \/ WriteOut
           \/ Approve \/ Expire \/ Crash
  BY <1>7, KeepStep DEF DownloadToPath, Inspect, CreateOut, WriteOut,
                        Approve, Expire, Crash
<1>8. CASE UNCHANGED vars
  BY <1>8, KeepStep DEF vars
<1> QED
  BY <1>1, <1>2, <1>3, <1>4, <1>5, <1>6, <1>7, <1>8 DEF Next, Step

(* auth.json implements the abstract store (auth.go 42-91, app/decrypt.go *)
(* 66-93): whatever fails or is killed, it changes only to the session    *)
(* just granted to the account the user gave, or to none at a log-out.    *)
THEOREM StoreImplemented == Spec => ImplementsStore
  BY StoreInit, StoreStep, SignInInvAlways, PTL
  DEF Spec, ImplementsStore, Saved!Spec
-----------------------------------------------------------------------------
(***************************************************************************)
(* The output.  Its invariant follows the download from the folder the     *)
(* user named to the archive that is written.                              *)
(***************************************************************************)

(* Entries that all have names of their own have as many names. *)
LEMMA AsManyNames ==
  ASSUME NEW f, IsFiniteSet(DOMAIN f),
         \A i, j \in DOMAIN f : f[i].name = f[j].name => i = j
  PROVE  Cardinality({f[i].name : i \in DOMAIN f}) = Cardinality(DOMAIN f)
<1> DEFINE D == DOMAIN f
           T == {f[i].name : i \in D}
           g == [i \in D |-> f[i].name]
<1>1. g \in [D -> T] /\ \A t \in T : \E i \in D : g[i] = t
  OBVIOUS
<1>2. \A i, j \in D : g[i] = g[j] => i = j
  OBVIOUS
<1> HIDE DEF g, T
<1>3. g \in Injection(D, T) /\ g \in Surjection(D, T)
  BY <1>1, <1>2 DEF Injection, Surjection, IsInjective
<1> QED
  BY <1>3, FS_Surjection DEF T

(* A file of the app is not the metadata at the root. *)
LEMMA InTheApp == \A q : <<"main", q>> # Metadata
<1> SUFFICES ASSUME NEW q, <<"main", q>> = Metadata PROVE FALSE
  OBVIOUS
<1>1. <<"main", q>>[1] = "main" /\ Metadata[1] = ""
  BY DEF Metadata
<1> QED
  BY <1>1, Zenon

(* The DRM files that go into the archive: in the app's own directory, one  *)
(* name each, in the order of the manifest.                                 *)
LEMMA TargetsOfTheApp ==
  ASSUME NEW z, ArchiveOk(z), ~Malformed(z), MainFirst(z)
  PROVE  LET p == sinfPaths(z) IN
         \E n \in Nat :
            /\ targets(z) = [i \in 1..n |-> [name |-> p[i], from |-> i]]
            /\ \A i \in 1..n : p[i] # Metadata
            /\ \A i, j \in 1..n : p[i] = p[j] => i = j
            /\ \A i \in 1..z.sinfs : i <= Len(z.paths["main"]) /\ HasManifest(z, "main") =>
                  i \in 1..n /\ p[i] = <<"main", z.paths["main"][i]>>
<1> DEFINE p == sinfPaths(z)
           listed == z.paths["main"]
           n == IF z.sinfs < Len(p) THEN z.sinfs ELSE Len(p)
<1>1. appDir(z) = "main" /\ "main" \in Apps /\ z.sinfs \in Nat
  BY DEF Malformed, MainFirst, ArchiveOk, Apps
<1>2. Named(listed)
  BY <1>1 DEF ArchiveOk
<1>3. targets(z) = [i \in 1..n |-> [name |-> p[i], from |-> i]]
  BY DEF targets
<1>4. CASE HasManifest(z, "main")
  <2>1. p = [i \in DOMAIN listed |-> <<"main", listed[i]>>]
    BY <1>1, <1>4 DEF sinfPaths
  <2>2. /\ Len(listed) \in Nat /\ DOMAIN listed = 1..Len(listed)
        /\ \A i, j \in DOMAIN listed : listed[i] = listed[j] => i = j
    <3>1. listed \in Seq(Range(listed)) /\ IsInjective(listed)
      BY <1>2 DEF Named
    <3> HIDE DEF listed
    <3> QED
      BY <3>1 DEF IsInjective
  <2> HIDE DEF listed, p
  <2>3. Len(p) = Len(listed)
    BY <2>1, <2>2
  <2>4. n \in Nat /\ n <= Len(listed) /\ n <= z.sinfs /\ \A i \in 1..z.sinfs : i <= Len(listed) => i <= n
    BY <1>1, <2>2, <2>3
  <2> HIDE DEF n
  <2>5. \A i \in 1..n : i \in DOMAIN listed /\ p[i] = <<"main", listed[i]>>
    BY <2>1, <2>2, <2>4
  <2>6. \A i \in 1..n : p[i] # Metadata
    BY <2>5, InTheApp
  <2>7. \A i, j \in 1..n : p[i] = p[j] => i = j
    BY <2>2, <2>5
  <2>8. \A i \in 1..z.sinfs : i <= Len(listed) => i \in 1..n
    BY <1>1, <2>4
  <2> QED
    BY <1>3, <2>4, <2>5, <2>6, <2>7, <2>8 DEF p, listed
<1>5. CASE ~HasManifest(z, "main")
  <2>1. p = <<<<"main", z.exec["main"]>>>>
    BY <1>1, <1>5 DEF sinfPaths
  <2> HIDE DEF p
  <2>2. n \in 0..1 /\ \A i \in 1..n : i = 1 /\ p[i] = <<"main", z.exec["main"]>>
    BY <1>1, <2>1
  <2> HIDE DEF n
  <2>3. \A i \in 1..n : p[i] # Metadata
    BY <2>2, InTheApp
  <2> QED
    BY <1>3, <1>5, <2>2, <2>3 DEF p
<1> QED
  BY <1>4, <1>5

(* The rewritten archive, part by part: the copied entries at the numbers they *)
(* had, the metadata behind them, and then the DRM files.                      *)
Parts(z, f, p, last, n, copied) ==
  /\ DOMAIN f = copied \cup last..(last + n)
  /\ \A i \in copied : f[i] = [name |-> z.entries[i], from |-> 0]
  /\ f[last] = [name |-> Metadata, from |-> client.apple]
  /\ \A i \in (last + 1)..(last + n) : f[i] = [name |-> p[i - last], from |-> i - last]
  /\ \A i \in 1..(last - 1) :
        i \in copied <=> /\ z.entries[i][1] # "__MACOSX" /\ z.entries[i] # Metadata
                        /\ \A j \in 1..n : p[j] # z.entries[i]
  /\ \A i, j \in 1..(last - 1) : z.entries[i] = z.entries[j] => i = j
  /\ \A i \in 1..n : p[i] # Metadata
  /\ \A i, j \in 1..n : p[i] = p[j] => i = j
  /\ \A i \in 1..z.sinfs : i <= Len(z.paths["main"]) /\ HasManifest(z, "main") =>
        i \in 1..n /\ p[i] = <<"main", z.paths["main"][i]>>

(* The entries of a good archive are told apart by their names. *)
LEMMA PartsOfTheArchive ==
  ASSUME NEW z, ArchiveOk(z), ~Malformed(z), MainFirst(z)
  PROVE  \E last \in Nat, n \in Nat : \E copied \in SUBSET (1..(last - 1)) :
            /\ DOMAIN z.entries = 1..(last - 1)
            /\ Parts(z, Rewritten(z), sinfPaths(z), last, n, copied)
<1> DEFINE f == Rewritten(z)
           p == sinfPaths(z)
           ts == targets(z)
           es == z.entries
           last == Len(es) + 1
           copy(e) == e[1] # "__MACOSX" /\ e # Metadata /\ ~isSinfTarget(e, ts)
           copied == {i \in DOMAIN es : copy(es[i])}
           meta == [name |-> Metadata, from |-> client.apple]
<1>1. PICK n \in Nat :
        /\ ts = [i \in 1..n |-> [name |-> p[i], from |-> i]]
        /\ \A i \in 1..n : p[i] # Metadata
        /\ \A i, j \in 1..n : p[i] = p[j] => i = j
        /\ \A i \in 1..z.sinfs : i <= Len(z.paths["main"]) /\ HasManifest(z, "main") =>
              i \in 1..n /\ p[i] = <<"main", z.paths["main"][i]>>
  BY TargetsOfTheApp
<1>2. /\ Len(es) \in Nat /\ DOMAIN es = 1..Len(es)
      /\ \A i, j \in 1..Len(es) : es[i] = es[j] => i = j
  <2>1. es \in Seq(Range(es)) /\ IsInjective(es)
    BY DEF ArchiveOk, Named
  <2> HIDE DEF es
  <2> QED
    BY <2>1 DEF IsInjective
<1>3. f = [i \in copied \cup last..(last + Len(ts)) |->
             IF i < last THEN FromZip(es[i]) ELSE IF i = last THEN meta ELSE ts[i - last]]
  BY DEF Rewritten
<1> HIDE DEF f, p, ts, es, meta
<1>4. /\ Len(ts) = n
      /\ \A i \in 1..n : ts[i] = [name |-> p[i], from |-> i]
      /\ \A e : isSinfTarget(e, ts) <=> \E j \in 1..n : p[j] = e
  <2>1. Len(ts) = n /\ DOMAIN ts = 1..n /\ \A i \in 1..n : ts[i] = [name |-> p[i], from |-> i]
    BY <1>1
  <2> QED
    BY <2>1 DEF isSinfTarget
<1>5. /\ last \in Nat /\ copied \in SUBSET (1..(last - 1)) /\ last - 1 = Len(es)
      /\ \A i \in 1..(last - 1) : i \in copied <=> copy(es[i])
  BY <1>2
<1>6. /\ DOMAIN f = copied \cup last..(last + n)
      /\ \A i \in copied : f[i] = FromZip(es[i])
      /\ f[last] = meta
      /\ \A i \in (last + 1)..(last + n) : f[i] = ts[i - last]
  <2> HIDE DEF copied, last
  <2> QED
    BY <1>3, <1>4, <1>5
<1>7. \A i \in (last + 1)..(last + n) : ts[i - last] = [name |-> p[i - last], from |-> i - last]
  <2> HIDE DEF last
  <2> QED
    BY <1>4, <1>5
<1>8. \A i \in 1..(last - 1) :
        i \in copied <=> /\ es[i][1] # "__MACOSX" /\ es[i] # Metadata
                        /\ \A j \in 1..n : p[j] # es[i]
  <2> HIDE DEF copied, last
  <2> QED
    BY <1>4, <1>5
<1>9. \A i, j \in 1..(last - 1) : es[i] = es[j] => i = j
  BY <1>2, <1>5
<1>10. \A i \in copied : f[i] = [name |-> es[i], from |-> 0]
  BY <1>6 DEF FromZip
<1> HIDE DEF copied, last
<1>11. Parts(z, f, p, last, n, copied)
  <2>1. f[last] = [name |-> Metadata, from |-> client.apple]
    BY <1>6 DEF meta
  <2>2. \A i \in (last + 1)..(last + n) : f[i] = [name |-> p[i - last], from |-> i - last]
    BY <1>6, <1>7
  <2> QED
    BY <1>1, <1>6, <1>8, <1>9, <1>10, <2>1, <2>2 DEF Parts, es
<1>12. DOMAIN z.entries = 1..(last - 1)
  BY <1>2, <1>5 DEF es
<1> QED
  BY <1>5, <1>11, <1>12 DEF f, p

(* What the file says of an entry: the name it has, and where that came from. *)
NamesOf(f) == {f[i].name : i \in DOMAIN f}
SourceOf(f, n) == {f[i].from : i \in {j \in DOMAIN f : f[j].name = n}}

(* No name is in it twice, the buyer is, every DRM file is at its place, and *)
(* nothing else is lost.                                                     *)
LEMMA ArchiveRight ==
  ASSUME NEW z, ArchiveOk(z), ~Malformed(z), MainFirst(z)
  PROVE  LET f == Rewritten(z) IN
         /\ Cardinality(NamesOf(f)) = Cardinality(DOMAIN f)
         /\ SourceOf(f, Metadata) = {client.apple}
         /\ \A i \in 1..z.sinfs : i <= Len(z.paths["main"]) /\ HasManifest(z, "main") =>
                SourceOf(f, <<"main", z.paths["main"][i]>>) = {i}
         /\ \A i \in DOMAIN z.entries :
                z.entries[i][1] = "__MACOSX" \/ z.entries[i] \in NamesOf(f)
<1> DEFINE f == Rewritten(z)
           p == sinfPaths(z)
           es == z.entries
<1>1. PICK last \in Nat, n \in Nat : \E copied \in SUBSET (1..(last - 1)) :
            DOMAIN es = 1..(last - 1) /\ Parts(z, f, p, last, n, copied)
  BY PartsOfTheArchive
<1>2. PICK copied \in SUBSET (1..(last - 1)) :
            DOMAIN es = 1..(last - 1) /\ Parts(z, f, p, last, n, copied)
  BY <1>1
<1> HIDE DEF f, p
<1>3. /\ DOMAIN f = copied \cup last..(last + n)
      /\ \A i \in copied : f[i].name = es[i]
      /\ f[last].name = Metadata /\ f[last].from = client.apple
      /\ \A i \in (last + 1)..(last + n) : f[i].name = p[i - last] /\ f[i].from = i - last
  <2>1. /\ DOMAIN f = copied \cup last..(last + n)
        /\ \A i \in copied : f[i] = [name |-> es[i], from |-> 0]
        /\ f[last] = [name |-> Metadata, from |-> client.apple]
        /\ \A i \in (last + 1)..(last + n) :
              f[i] = [name |-> p[i - last], from |-> i - last]
    BY <1>2 DEF Parts
  <2> HIDE DEF es
  <2>2. \A i \in copied : f[i].name = es[i]
    BY <2>1
  <2>3. f[last].name = Metadata /\ f[last].from = client.apple
    BY <2>1
  <2>4. ASSUME NEW i \in (last + 1)..(last + n)
        PROVE  f[i].name = p[i - last] /\ f[i].from = i - last
    <3>1. f[i] = [name |-> p[i - last], from |-> i - last]
      BY <2>1
    <3> QED
      BY <3>1
  <2> QED
    BY <2>1, <2>2, <2>3, <2>4
<1>4. /\ \A i \in 1..(last - 1) :
            i \in copied <=> /\ es[i][1] # "__MACOSX" /\ es[i] # Metadata
                            /\ \A j \in 1..n : p[j] # es[i]
      /\ \A i, j \in 1..(last - 1) : es[i] = es[j] => i = j
      /\ \A i \in 1..n : p[i] # Metadata
      /\ \A i, j \in 1..n : p[i] = p[j] => i = j
  BY <1>2 DEF Parts
<1> HIDE DEF es
<1>5. \A i \in (last + 1)..(last + n) : i - last \in 1..n /\ i # last
  OBVIOUS
<1>6. \A i \in DOMAIN f : \/ i \in copied /\ i \in 1..(last - 1)
                          \/ i = last
                          \/ i \in (last + 1)..(last + n)
  <2> SUFFICES ASSUME NEW i \in DOMAIN f, i \notin copied, i # last
               PROVE  i \in (last + 1)..(last + n)
    OBVIOUS
  <2>1. i \in last..(last + n)
    BY <1>3
  <2> QED
    BY <2>1
<1>7. \A i, j \in DOMAIN f : f[i].name = f[j].name => i = j
  <2> SUFFICES ASSUME NEW i \in DOMAIN f, NEW j \in DOMAIN f, f[i].name = f[j].name
               PROVE  i = j
    OBVIOUS
  <2>1. CASE i \in copied /\ j \in copied
    BY <1>3, <1>4, <2>1
  <2>2. CASE i \in (last + 1)..(last + n) /\ j \in (last + 1)..(last + n)
    <3>1. p[i - last] = p[j - last]
      BY <1>3, <2>2
    <3>2. i - last = j - last
      BY <1>4, <1>5, <2>2, <3>1
    <3> QED
      BY <2>2, <3>2
  <2>3. CASE i = last /\ j = last
    BY <2>3
  <2>4. ASSUME NEW k \in copied PROVE f[k].name # Metadata
    BY <1>3, <1>4
  <2>5. ASSUME NEW k \in (last + 1)..(last + n) PROVE f[k].name # Metadata
    BY <1>3, <1>4, <1>5
  <2>6. ASSUME NEW k \in copied, NEW l \in (last + 1)..(last + n)
        PROVE  f[k].name # f[l].name
    BY <1>3, <1>4, <1>5
  <2> QED
    BY <1>3, <1>6, <2>1, <2>2, <2>3, <2>4, <2>5, <2>6
<1>8. Cardinality(NamesOf(f)) = Cardinality(DOMAIN f)
  <2>1. IsFiniteSet(1..(last + n)) /\ IsFiniteSet(0..(last + n))
    BY FS_Interval
  <2>2. DOMAIN f \in SUBSET (0..(last + n))
    BY <1>3
  <2>3. IsFiniteSet(DOMAIN f)
    BY <2>1, <2>2, FS_Subset
  <2> QED
    BY <1>7, <2>3, AsManyNames DEF NamesOf
<1>9. ASSUME NEW i \in DOMAIN f PROVE SourceOf(f, f[i].name) = {f[i].from}
  BY <1>7 DEF SourceOf
<1>10. SourceOf(f, Metadata) = {client.apple}
  <2>1. last \in DOMAIN f
    BY <1>3
  <2> QED
    BY <1>3, <1>9, <2>1
<1>11. ASSUME NEW i \in 1..z.sinfs, i <= Len(z.paths["main"]), HasManifest(z, "main")
       PROVE  SourceOf(f, <<"main", z.paths["main"][i]>>) = {i}
  <2>1. i \in 1..n /\ p[i] = <<"main", z.paths["main"][i]>>
    BY <1>2, <1>11 DEF Parts
  <2>2. last + i \in (last + 1)..(last + n) /\ last + i - last = i
    BY <2>1
  <2>3. last + i \in DOMAIN f /\ f[last + i].name = p[i] /\ f[last + i].from = i
    BY <1>3, <2>2
  <2> QED
    BY <1>9, <2>1, <2>3
<1>12. ASSUME NEW i \in DOMAIN es, es[i][1] # "__MACOSX" PROVE es[i] \in NamesOf(f)
  <2>1. CASE i \in copied
    BY <1>3, <2>1 DEF NamesOf
  <2>2. CASE es[i] = Metadata
    <3>1. last \in DOMAIN f
      BY <1>3
    <3> QED
      BY <1>3, <2>2, <3>1 DEF NamesOf
  <2>3. ASSUME NEW j \in 1..n, p[j] = es[i] PROVE es[i] \in NamesOf(f)
    <3>1. last + j \in (last + 1)..(last + n) /\ last + j - last = j
      OBVIOUS
    <3>2. last + j \in DOMAIN f /\ f[last + j].name = es[i]
      BY <1>3, <2>3, <3>1
    <3> QED
      BY <3>2 DEF NamesOf
  <2> QED
    BY <1>2, <1>4, <1>12, <2>1, <2>2, <2>3
<1> QED
  BY <1>8, <1>10, <1>11, <1>12 DEF f, es

(* The output as the property wants it. *)
Delivered(o, z, d, b) ==
  /\ o.at = <<d, "main">> /\ o.state = "whole" /\ Cardinality(NamesOf(o.file)) = Cardinality(DOMAIN o.file)
  /\ SourceOf(o.file, Metadata) = {b.apple}
  /\ \A i \in 1..z.sinfs : i <= Len(z.paths["main"]) /\ HasManifest(z, "main") =>
        SourceOf(o.file, <<"main", z.paths["main"][i]>>) = {i}
  /\ \A i \in DOMAIN z.entries :
        z.entries[i][1] = "__MACOSX" \/ z.entries[i] \in NamesOf(o.file)

Reported(r, c, z) == r = "ok" /\ c.kind # "logout" /\ MainFirst(z)

(* What Rewritten delivers is the archive the property asks for. *)
LEMMA DeliveredIsRight ==
  /\ OutputRight <=>
       (Reported(result, cmd, zip) => Delivered(out, zip, dir, buy) /\ (cmd.menu \/ dir = Folder))
  /\ OutputRight' <=>
       (Reported(result', cmd', zip') => Delivered(out', zip', dir', buy') /\ (cmd'.menu \/ dir' = Folder'))
<1>1. OutputRight <=>
       (Reported(result, cmd, zip) => Delivered(out, zip, dir, buy) /\ (cmd.menu \/ dir = Folder))
  BY DEF OutputRight, Delivered, Reported, NamesOf, SourceOf
<1>2. OutputRight' <=>
       (Reported(result', cmd', zip') => Delivered(out', zip', dir', buy') /\ (cmd'.menu \/ dir' = Folder'))
  BY DEF OutputRight, Delivered, Reported, NamesOf, SourceOf
<1> QED
  BY <1>1, <1>2

(* From the purchase on, what is downloaded is an archive of the store's, and *)
(* from its inspection on one that is whole.                                  *)
ArchiveInv ==
  /\ pc \in {"fetch", "inspect", "create", "write"} => zip \in Archives /\ buy = client
  /\ pc \in {"create", "write"} => ~Malformed(zip)
  /\ pc = "write" => out = [at |-> Output, state |-> "part", file |-> <<>>]

(* Without the menu the folder is the flag's, or the last one used. *)
FolderInv ==
  /\ pc = "logout" => cmd.menu \/ cmd.kind = "logout"
  /\ pc = "folder" => cmd.menu
  /\ ~cmd.menu /\ pc \in {"client", "login", "save", "saved", "resolve"} => dir = cmd.folder
  /\ ~cmd.menu /\ pc \in {"purchase", "fetch", "inspect", "create", "write"} => dir = Folder

DownloadInv == ArchiveInv /\ FolderInv /\ OutputRight

(* Nothing is downloaded or written when the command starts. *)
LEMMA InitDownload == Init => DownloadInv
  BY DEF Init, DownloadInv, ArchiveInv, FolderInv, OutputRight

(* Nothing is reported as done but by the last step and by a log-out. *)
LEMMA NotDone == result' # "ok" => OutputRight'
  BY DEF OutputRight

(* Before the download the archive is of no matter, and a sign-in does not *)
(* move the folder.                                                        *)
LEMMA SigningInStep ==
  ASSUME DownloadInv, UNCHANGED <<cmd, dir, prefs>>, result' # "ok",
         \/ pc' = "idle"
         \/ pc' \in {"login", "save", "saved", "resolve"} /\ pc \in {"client", "login", "save", "saved"}
         \/ pc' = "folder" /\ pc = "logout" /\ cmd.kind = "relogin"
  PROVE  DownloadInv'
  BY NotDone DEF DownloadInv, ArchiveInv, FolderInv

(* A download that fails, or goes on. *)
LEMMA DownloadStep ==
  ASSUME DownloadInv, UNCHANGED <<cmd, dir, prefs, buy, client, zip>>, result' # "ok",
         \/ pc' = "idle"
         \/ pc' = "inspect" /\ pc = "fetch"
         \/ pc' = "create" /\ pc = "inspect" /\ ~Malformed(zip)
         \/ pc' = "write" /\ pc = "create" /\ out' = [at |-> Output, state |-> "part", file |-> <<>>]
  PROVE  DownloadInv'
<1>1. OutputRight'
  BY NotDone
<1>2. FolderInv'
  BY DEF DownloadInv, FolderInv, Folder
<1>3. ArchiveInv'
  BY DEF DownloadInv, ArchiveInv, Output
<1> QED
  BY <1>1, <1>2, <1>3 DEF DownloadInv

(* What is written is right. *)
LEMMA WriteStep == SignInInv /\ DownloadInv /\ WriteOut => DownloadInv'
<1> SUFFICES ASSUME SignInInv, DownloadInv, WriteOut PROVE DownloadInv'
  OBVIOUS
<1>1. /\ pc = "write" /\ pc' = "idle" /\ UNCHANGED <<cmd, dir, prefs, buy, client, zip>>
      /\ \/ result' = "ok" /\ out' = [out EXCEPT !.state = "whole", !.file = Rewritten(zip)]
         \/ result' = "failed"
  BY DEF WriteOut, End, download
<1>2. CASE result' = "failed"
  BY <1>1, <1>2, DownloadStep
<1>3. CASE result' = "ok"
  <2>1. ArchiveInv' /\ FolderInv'
    BY <1>1 DEF ArchiveInv, FolderInv
  <2>2. /\ zip \in Archives /\ buy = client /\ ~Malformed(zip)
        /\ out = [at |-> Output, state |-> "part", file |-> <<>>]
        /\ cmd.menu \/ dir = Folder
    BY <1>1 DEF DownloadInv, ArchiveInv, FolderInv
  <2>3. ArchiveOk(zip)
    BY <2>2, ArchivesAssumption
  <2> DEFINE f == Rewritten(zip)
             whole == [out EXCEPT !.state = "whole"]
  <2>4. out'.at = Output /\ out'.state = "whole" /\ out'.file = f
    <3>1. whole = [at |-> Output, state |-> "whole", file |-> <<>>]
      <4>1. out = [at |-> Output, state |-> "part", file |-> <<>>]
        BY <2>2
      <4> QED
        BY ONLY <4>1
    <3>2. out' = [whole EXCEPT !.file = f]
      BY <1>1, <1>3, Zenon
    <3> HIDE DEF whole, f
    <3> QED
      BY <3>1, <3>2
  <2>5. Folder' = Folder
    BY <1>1 DEF Folder
  <2>6. ASSUME MainFirst(zip)
        PROVE  Delivered(out', zip, dir, buy)
    <3>1. appDir(zip) = "main"
      BY <2>2, <2>6 DEF Malformed, MainFirst
    <3>2. Output = <<dir, "main">>
      BY <3>1 DEF Output
    <3> QED
      BY <2>2, <2>3, <2>4, <2>6, <3>2, ArchiveRight DEF Delivered
  <2> HIDE DEF f
  <2>7. OutputRight'
    BY <1>1, <2>2, <2>5, <2>6, DeliveredIsRight DEF Reported
  <2> QED
    BY <2>1, <2>7 DEF DownloadInv
<1> QED
  BY <1>1, <1>2, <1>3

(* Every step of the command keeps the three invariants. *)
LEMMA NextDownload == SignInInv /\ DownloadInv /\ [Next]_vars => DownloadInv'
<1> SUFFICES ASSUME SignInInv, DownloadInv, [Next]_vars PROVE DownloadInv'
  OBVIOUS
<1> USE DEF disk, inLogin, download, store, Go, End
<1>0. pc # "idle" => result # "ok"
  BY DEF SignInInv, CommandInv
<1>1. ASSUME NEW c \in Commands, Begin(c) PROVE DownloadInv'
  <2>1. /\ cmd' = c /\ dir' = c.folder /\ result' = "busy" /\ CommandOk(c)
        /\ pc' = IF c.kind \in {"logout", "relogin"} THEN "logout"
                 ELSE IF c.menu THEN "folder" ELSE "client"
    BY <1>1, CommandsAssumption DEF Begin
  <2>2. FolderInv' /\ ArchiveInv'
    BY <2>1 DEF FolderInv, ArchiveInv, CommandOk
  <2> QED
    BY <2>1, <2>2, NotDone DEF DownloadInv
<1>2. CASE Logout
  <2>1. CASE cmd.kind = "relogin"
    BY <1>0, <1>2, <2>1, SigningInStep DEF Logout
  <2>2. CASE cmd.kind # "relogin"
    <3>1. cmd.kind = "logout" /\ pc' = "idle" /\ UNCHANGED cmd
      BY <1>2, <2>2 DEF Logout, SignInInv, CommandInv
    <3> QED
      BY <3>1 DEF DownloadInv, ArchiveInv, FolderInv, OutputRight
  <2> QED
    BY <2>1, <2>2
<1>3. CASE ChooseFolder
  <2>1. pc = "folder" /\ pc' = "client" /\ cmd.menu /\ result' # "ok" /\ UNCHANGED cmd
    BY <1>0, <1>3 DEF ChooseFolder, DownloadInv, FolderInv
  <2> QED
    BY <2>1, NotDone DEF DownloadInv, FolderInv, ArchiveInv
<1>4. CASE Cancel
  BY <1>4, SigningInStep DEF Cancel
<1>5. CASE decryptClient
  BY <1>0, <1>5, SigningInStep DEF decryptClient
<1>6. CASE PodAnswer
  BY <1>0, <1>6, SigningInStep DEF PodAnswer, Reason
<1>7. CASE NoPodAnswer
  BY <1>7, SigningInStep DEF NoPodAnswer, Absorbed, Reason
<1>8. CASE Redirected
  BY <1>0, <1>8, SigningInStep DEF Redirected
<1>9. CASE TooManyRedirects
  BY <1>9, SigningInStep DEF TooManyRedirects
<1>10. CASE Save
  BY <1>0, <1>10, SigningInStep DEF Save
<1>11. CASE SaveRename
  BY <1>0, <1>11, SigningInStep DEF SaveRename
<1>12. CASE ResolveAppID
  <2>1. /\ pc = "resolve" /\ pc' \in {"purchase", "idle"} /\ result' # "ok"
        /\ UNCHANGED <<cmd, prefs>>
        /\ dir' = IF dir # Unset THEN dir ELSE LastFolder(prefs)
    BY <1>0, <1>12 DEF ResolveAppID
  <2>2. FolderInv' /\ ArchiveInv'
    BY <2>1 DEF DownloadInv, FolderInv, ArchiveInv, Folder
  <2> QED
    BY <2>1, <2>2, NotDone DEF DownloadInv
<1>13. CASE Purchase
  <2>1. /\ pc = "purchase" /\ result' # "ok" /\ buy' = client
        /\ UNCHANGED <<cmd, prefs, dir, client>>
        /\ pc' = "idle" \/ (pc' = "fetch" /\ zip' \in Archives)
    BY <1>0, <1>13 DEF Purchase
  <2>2. FolderInv' /\ ArchiveInv'
    BY <2>1 DEF DownloadInv, FolderInv, ArchiveInv, Folder
  <2> QED
    BY <2>1, <2>2, NotDone DEF DownloadInv
<1>14. CASE DownloadToPath
  BY <1>0, <1>14, DownloadStep DEF DownloadToPath
<1>15. CASE Inspect
  BY <1>0, <1>15, DownloadStep DEF Inspect
<1>16. CASE CreateOut
  BY <1>0, <1>16, DownloadStep DEF CreateOut
<1>17. CASE WriteOut
  BY <1>17, WriteStep
<1>18. CASE Approve \/ Expire \/ UNCHANGED vars
  <2>1. UNCHANGED <<pc, result, cmd, dir, prefs, buy, client, zip, out>>
    BY <1>18 DEF Approve, Expire, vars
  <2>2. OutputRight'
    BY <2>1, DeliveredIsRight DEF DownloadInv, Folder
  <2>3. FolderInv' /\ ArchiveInv'
    BY <2>1 DEF DownloadInv, FolderInv, ArchiveInv, Folder, Output
  <2> QED
    BY <2>2, <2>3 DEF DownloadInv
<1>19. CASE Crash
  BY <1>19, SigningInStep DEF Crash
<1> QED
  BY <1>1, <1>2, <1>3, <1>4, <1>5, <1>6, <1>7, <1>8, <1>9, <1>10, <1>11,
     <1>12, <1>13, <1>14, <1>15, <1>16, <1>17, <1>18, <1>19
  DEF Next, Step

(* A download that is reported as done left a whole archive where the user's *)
(* folder is: no name twice, the buyer's name, each DRM file at its place    *)
(* and every other entry (download.go 164-213).                              *)
THEOREM OutputRightAlways == Spec => []OutputRight
<1>1. DownloadInv => OutputRight
  BY DEF DownloadInv
<1> QED
  BY <1>1, InitDownload, NextDownload, SignInInvAlways, PTL DEF Spec
=============================================================================
