--------------------------- MODULE MCOmegaCommand ----------------------------
(***************************************************************************)
(* Two devices, one of them with an iOS the restore is blocked on, and     *)
(* every way to ask for a restore.  The backup has one file of three       *)
(* bytes, and a name is asked for that it lacks: the device asks for       *)
(* batches of one and two names, spelled both ways, between other          *)
(* requests.                                                               *)
(***************************************************************************)
EXTENDS OmegaCommand

CONSTANTS present, absent, old, new

MCFiles  == {present}
MCAbsent == {absent}
MCSize   == [f \in MCFiles |-> 3]

MCDevices  == {old, new}
MCProduct  == [d \in MCDevices |-> IF d = old THEN <<26, 1>> ELSE <<27, 0>>]
MCVersions == {<<15, 8>>, <<18, 5>>, <<19, 0>>, <<26, 1>>, <<27, 0>>, <<28, 0>>}

Command(menu, udid, ios, yes) ==
    [menu |-> menu, udid |-> udid, ios |-> ios, yes |-> yes]

MCInvocations == {
    Command(TRUE, Unset, Unset, FALSE),        \* the menu
    Command(FALSE, Unset, Unset, FALSE),       \* device omega
    Command(FALSE, old, Unset, TRUE),          \* ... --udid old --yes
    Command(FALSE, old, <<26, 1>>, FALSE)}     \* ... --udid old --ios 26.1
==============================================================================
