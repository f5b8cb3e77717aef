------------------------------- MODULE MCMenu --------------------------------
(* Four lines through a channel of two: it fills, the handler waits with one  *)
(* more in its hands, and there is another to lose after that.  One line is   *)
(* typed ahead, which the reader and the menu may both take.                  *)
EXTENDS Menu
==============================================================================
