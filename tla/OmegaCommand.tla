---------------------------- MODULE OmegaCommand ----------------------------
(***************************************************************************)
(* What comes before a restore (module OmegaRestore): `xkvm device omega'  *)
(* (cli/devcmd.go) and the menu's blacklist remover (tui/device.go) pick a *)
(* device (device/device.go), read its iOS version, look it up in the      *)
(* table of device/versions.go and ask the user.  Devices come and go at   *)
(* any time, and every operation looks for its own by UDID again           *)
(* (device/goios.go).                                                      *)
(***************************************************************************)
EXTENDS OmegaRestore

CONSTANTS
    Devices,        \* UDIDs
    ProductVersion, \* [Devices -> Versions]
    Versions,       \* <<major, minor>>
    Invocations,    \* [menu, udid, ios, yes]: where from, --udid, --ios, --yes
    Unset           \* no device; no version, or one that is none

ASSUME CommandAssumption ==
    /\ Unset \notin Devices \cup Versions
    /\ ProductVersion \in [Devices -> Versions]
    /\ \A v \in Versions : v \in Nat \X Nat
    /\ \A c \in Invocations : /\ c.udid \in Devices \cup {Unset}
                              /\ c.ios \in Versions \cup {Unset}
                              /\ c.menu => c.udid = Unset /\ c.ios = Unset /\ ~c.yes

VARIABLES
    invoked,    \* the command that runs
    step,       \* "resolve", "info", "ask", "confirm", "open", "restore", "over"
    attached,   \* what usbmuxd lists: <<UDID, transport>>
    target,     \* the device the command is for
    byHand      \* its version was given by the user

frontVars == <<invoked, step, attached, target, byHand>>
commandVars == <<vars, frontVars>>

Rows == Devices \X {"USB", "Network"}
-----------------------------------------------------------------------------
(* The version table, and what is in no row of it. *)
OmegaPolicy == {
    [min |-> <<0, 0>>,  max |-> <<15, 999>>, verdict |-> "unsupported"],
    [min |-> <<16, 0>>, max |-> <<18, 999>>, verdict |-> "supported"],
    [min |-> <<26, 0>>, max |-> <<26, 999>>, verdict |-> "supported"],
    [min |-> <<27, 0>>, max |-> <<27, 999>>, verdict |-> "unsupported"]}

lessEq(a, b) == a[1] < b[1] \/ (a[1] = b[1] /\ a[2] <= b[2])
NeverReleased(v) == v[1] \in 19..25

OmegaVerdict(v) ==
    LET rows == {r \in OmegaPolicy : lessEq(r.min, v) /\ lessEq(v, r.max)}
    IN  IF NeverReleased(v) THEN "unsupported"
        ELSE IF rows = {} THEN "untested" ELSE (CHOOSE r \in rows : TRUE).verdict

(* A device is listed once per transport. *)
Distinct(rows) == {r[1] : r \in rows}

(* The devices an operation may reach for a UDID: the one that has it, if  *)
(* it is there.                                                            *)
EntryOfAny(udid) == Distinct(attached)     \* Mutant: whichever is attached
Entry(udid) == Distinct(attached) \cap {udid}
-----------------------------------------------------------------------------
(* An --ios that is no version, or not supported, ends the command at once. *)
CommandInit ==
    /\ Init
    /\ invoked \in Invocations
    /\ step = IF invoked.ios = Unset THEN "resolve" ELSE "confirm"
    /\ invoked.ios # Unset => OmegaVerdict(invoked.ios) # "unsupported"
    /\ attached \in SUBSET Rows
    /\ target = Unset
    /\ byHand = (invoked.ios # Unset)

Front(from) == step = from /\ UNCHANGED <<vars, invoked, attached>>
GiveUp == step' = "over" /\ UNCHANGED <<target, byHand>>

(* The device that was named, or the only one there is.  No list is an     *)
(* empty one.                                                              *)
Resolve ==
    /\ Front("resolve")
    /\ LET devs == Distinct(attached)
           fits == IF invoked.udid = Unset THEN devs ELSE devs \cap {invoked.udid}
       IN  \/ \E d \in fits : /\ fits = {d}
                              /\ target' = d /\ step' = "info" /\ UNCHANGED byHand
           \/ ~(\E d \in fits : fits = {d}) /\ GiveUp

(* What is known of the version decides; nobody is asked about a version   *)
(* that is not supported.                                                  *)
Judge(v) ==
    /\ step' = IF v = Unset \/ OmegaVerdict(v) = "unsupported" THEN "over" ELSE "confirm"
    /\ UNCHANGED target

ReadInfo ==
    /\ Front("info")
    /\ \E d \in Entry(target) : Judge(ProductVersion[d])
    /\ UNCHANGED byHand

(* The device is gone, locked, or does not answer in time. *)
InfoFails ==
    /\ Front("info")
    /\ step' = IF invoked.menu THEN "ask" ELSE "over"
    /\ UNCHANGED <<target, byHand>>

AskVersion ==
    /\ Front("ask")
    /\ \E v \in Versions \cup {Unset} : Judge(v)
    /\ byHand' = TRUE

Confirm ==
    /\ Front("confirm")
    /\ step' = "open" /\ UNCHANGED <<target, byHand>>

Decline ==
    /\ Front("confirm") /\ ~invoked.yes
    /\ GiveUp

(* Which devices are listed is no matter from here on: the connection is   *)
(* up until LinkEnds.  With --ios the device was never resolved, and no    *)
(* device has the UDID that is looked for.                                 *)
Open ==
    /\ step = "open"
    /\ \E d \in Entry(target) : target' = d
    /\ step' = "restore" /\ attached' = {}
    /\ UNCHANGED <<vars, invoked, byHand>>

OpenFails == Front("open") /\ GiveUp

Plugged ==
    /\ step \notin {"restore", "over"}
    /\ attached' \in SUBSET Rows
    /\ UNCHANGED <<vars, invoked, step, target, byHand>>

Restoring(A) == step = "restore" /\ A /\ UNCHANGED frontVars

CommandNext ==
    \/ Resolve \/ ReadInfo \/ InfoFails \/ AskVersion \/ Confirm \/ Decline
    \/ Open \/ OpenFails \/ Plugged
    \/ Restoring(Next)

CommandSpec ==
    /\ CommandInit /\ [][CommandNext]_commandVars
    /\ WF_commandVars(Restoring(Host)) /\ WF_commandVars(Restoring(DeviceReads))
-----------------------------------------------------------------------------
(* "[hard block] omega on iOS ... is NOT supported - xkvm will not run it" *)
(* (tui/device.go 354): whatever was plugged in and out since it was       *)
(* judged and while the user was asked, the restore reaches the device     *)
(* that was named, and none whose iOS is unsupported, unless its version   *)
(* could not be read and the user gave another.                            *)
RestoresWhatWasJudged ==
    step = "restore" =>
        /\ invoked.udid \in {Unset, target}
        /\ byHand \/ OmegaVerdict(ProductVersion[target]) # "unsupported"

=============================================================================
