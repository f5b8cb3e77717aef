---------------------------- MODULE SessionStore ----------------------------
(***************************************************************************)
(* What the saved App Store login (decrypt/auth.go) promises: the file     *)
(* names no session or one session, whole, that the store granted; it      *)
(* changes only to the session just granted, when the user gave            *)
(* credentials, or to none, when the user asked to log out.  Module        *)
(* Decrypt is shown to implement it, crashes included.                     *)
(***************************************************************************)
CONSTANTS Sessions,     \* what the store may grant
          NoSession

VARIABLES saved,        \* the session on disk
          latest,       \* the session granted last
          wishes        \* what the user's command allows: "replace", "forget"

storeVars == <<saved, latest, wishes>>

Init == saved = NoSession /\ latest = NoSession /\ wishes = {}

(* The next command may be there as soon as this one is done. *)
Ask == wishes' \in SUBSET {"replace", "forget"}
Grant == latest' \in Sessions /\ UNCHANGED saved
Store == /\ "replace" \in wishes /\ latest \in Sessions
         /\ saved' = latest /\ UNCHANGED latest
Forget == "forget" \in wishes /\ saved' = NoSession /\ UNCHANGED latest
Keep == UNCHANGED <<saved, latest>>

Next == Ask /\ (Grant \/ Store \/ Forget \/ Keep)

Spec == Init /\ [][Next]_storeVars
=============================================================================
