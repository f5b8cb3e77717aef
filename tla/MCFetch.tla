------------------------------- MODULE MCFetch -------------------------------
(***************************************************************************)
(* Three packages that depend on each other in a cycle, an explicit source *)
(* with an index of its own, a repository known to Canister and two of the *)
(* default ones.  Before and after a release: versions 1 and 2 of a share  *)
(* a file name, one build is replaced without a new version, and two       *)
(* stanzas name no file.                                                   *)
(***************************************************************************)
EXTENDS Fetch, TLC

CONSTANTS a, b, c, core, src, hub, d1, d2

MCIds     == {a, b, c}
MCSafe    == [v \in {1, 2, 3} |-> 1]
MCSources == <<src>>
MCDefaults == <<d1, d2>>

Stz(id, ver, arm64, build, sha, depends) ==
  [id |-> id, ver |-> ver, arm64 |-> arm64, build |-> build, sha |-> sha,
   file |-> TRUE, depends |-> depends]

\* A stanza without a Filename.
NoFile(stanza) == [stanza EXCEPT !.file = FALSE]

Rec(ver, latest, quality) ==
  [repo |-> hub, ver |-> ver, build |-> 1, sha |-> TRUE, file |-> TRUE,
   latest |-> latest, quality |-> quality]

\* a needs c and one of b and c; b needs a or a core package; c needs b.
DependsA == <<<<c>>, <<b, c>>, <<core>>>>
DependsB == <<<<core, a>>>>
DependsC == <<<<b>>>>

Before ==
  [index |-> (src :> <<Stz(c, 1, TRUE, 1, FALSE, DependsC)>>) @@
             (hub :> <<Stz(a, 1, FALSE, 1, TRUE, <<>>),
                       Stz(a, 1, TRUE, 1, TRUE, DependsA)>>) @@
             (d1 :> <<Stz(b, 1, TRUE, 1, TRUE, DependsB),
                      Stz(c, 1, TRUE, 1, TRUE, DependsC)>>) @@
             (d2 :> <<>>),
   catalogue |-> (a :> <<Rec(1, FALSE, 2), Rec(1, TRUE, 0), Rec(1, TRUE, 1)>>)
                 @@ (b :> <<>>) @@ (c :> <<>>)]

After ==
  [index |-> (src :> <<>>) @@
             (hub :> <<NoFile(Stz(a, 2, TRUE, 1, FALSE, DependsA)),
                       Stz(a, 1, TRUE, 1, TRUE, DependsA)>>) @@
             (d1 :> <<Stz(b, 1, TRUE, 2, TRUE, DependsB),
                      Stz(c, 1, TRUE, 1, TRUE, DependsC)>>) @@
             (d2 :> <<NoFile(Stz(c, 1, TRUE, 2, FALSE, DependsC))>>),
   catalogue |-> (a :> <<Rec(1, FALSE, 0), Rec(2, TRUE, 0)>>)
                 @@ (b :> <<>>) @@ (c :> <<>>)]

MCWorlds == {Before, After}

Ask(ids, pin, noRecurse) ==
  [ids |-> ids, pins |-> [id \in MCIds |-> IF id = a THEN pin ELSE NoPin],
   noRecurse |-> noRecurse]

MCRequests == {Ask(<<a, b, a>>, NoPin, FALSE), Ask(<<a>>, 1, FALSE),
               Ask(<<b>>, NoPin, FALSE), Ask(<<a, c>>, 3, TRUE)}
==============================================================================
