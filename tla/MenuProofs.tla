----------------------------- MODULE MenuProofs -----------------------------
(***************************************************************************)
(* For any channel capacity, any number of log lines and of typed lines,   *)
(* whatever the tools of the menu are asked: the live syslog prints what   *)
(* the device logged, in its order and once, up to where it ends, what it  *)
(* does not print any more is bounded, and nothing that cannot be taken    *)
(* back is started without an answer that says so.                         *)
(***************************************************************************)
EXTENDS Menu, FiniteSetTheorems, TLAPS

(* The line in the handler's hands is the last the device logged. *)
HandInv ==
  /\ handler \in {"open", "gated", "check", "read", "write", "full", "exited"}
  /\ handler \in {"write", "full"} => produced > 0 /\ line = produced
  /\ handler \notin {"write", "full"} => line = 0

(* A line is given up only when nothing can follow it: the context is      *)
(* looked at before the next line, and only a new screen revives it.       *)
LossInv ==
  /\ lost \in {{}, {produced}}
  /\ lost # {} => /\ ctx = "cancelled" /\ handler \in {"check", "exited"}
                  /\ produced > 0
  /\ ~opened => lost = {} /\ handler = "exited"

(* What is printed, in the channel and in hand is the stream as it came. *)
StreamInv ==
  /\ printed \in Seq(Nat) /\ lines \in Seq(Nat) /\ produced \in Nat
  /\ printed \o lines \o InHand = First(Through)

LinesInv == HandInv /\ LossInv /\ StreamInv

-----------------------------------------------------------------------------
(* Lemmas about the three sequences a line passes through. *)

(* Pieces put together in any order. *)
LEMMA Associates ==
  ASSUME NEW p \in Seq(Nat), NEW l \in Seq(Nat), NEW r \in Seq(Nat)
  PROVE  (p \o l) \o r = p \o (l \o r)
<1> DEFINE a == (p \o l) \o r
<1> DEFINE b == p \o (l \o r)
<1>1. a \in Seq(Nat) /\ Len(a) = Len(p) + Len(l) + Len(r)
  OBVIOUS
<1>2. b \in Seq(Nat) /\ Len(b) = Len(p) + Len(l) + Len(r)
  OBVIOUS
<1>3. ASSUME NEW i \in 1..Len(a)
      PROVE  a[i] = b[i]
  OBVIOUS
<1> HIDE DEF a, b
<1>4. a = b
  BY <1>1, <1>2, <1>3
<1> QED
  BY <1>4 DEF a, b

(* A line goes from the hand to the end of the channel. *)
LEMMA SendKeeps ==
  ASSUME NEW p \in Seq(Nat), NEW l \in Seq(Nat), NEW x \in Nat
  PROVE  p \o Append(l, x) \o <<>> = p \o l \o <<x>>
<1>1. Append(l, x) = l \o <<x>>
  OBVIOUS
<1>2. p \o Append(l, x) \o <<>> = p \o Append(l, x)
  OBVIOUS
<1> DEFINE c == <<x>>
<1>3. c \in Seq(Nat)
  OBVIOUS
<1> HIDE DEF c
<1>4. (p \o l) \o c = p \o (l \o c)
  BY <1>3, Associates
<1> QED
  BY <1>1, <1>2, <1>4, Zenon DEF c

(* A line goes from the front of the channel to the screen. *)
LEMMA PrintKeeps ==
  ASSUME NEW p \in Seq(Nat), NEW l \in Seq(Nat), l # <<>>
  PROVE  Append(p, Head(l)) \o Tail(l) = p \o l
<1>1. Append(p, Head(l)) = p \o <<Head(l)>>
  OBVIOUS
<1>2. l = <<Head(l)>> \o Tail(l)
  OBVIOUS
<1> DEFINE c == <<Head(l)>>
<1> DEFINE t == Tail(l)
<1>3. c \in Seq(Nat) /\ t \in Seq(Nat)
  OBVIOUS
<1> HIDE DEF c, t
<1>4. (p \o c) \o t = p \o (c \o t)
  BY <1>3, Associates
<1> QED
  BY <1>1, <1>2, <1>4, Zenon DEF c, t

(* The next line is numbered next. *)
LEMMA NextLine ==
  ASSUME NEW p \in Seq(Nat), NEW l \in Seq(Nat), NEW k \in Nat,
         p \o l \o <<>> = First(k)
  PROVE  p \o l \o <<k + 1>> = First(k + 1)
<1> USE DEF First
<1> DEFINE q == p \o l
<1>1. q \in Seq(Nat)
  OBVIOUS
<1>2. q \o <<>> = q
  BY <1>1
<1>3. q = First(k)
  BY <1>2
<1> HIDE DEF q
<1>4. Len(q) = k /\ \A n \in 1..k : q[n] = n
  BY <1>1, <1>3
<1>5. q \o <<k + 1>> = First(k + 1)
  BY <1>1, <1>4
<1> QED
  BY <1>5 DEF q

(* Two pieces put together, and three from either end. *)
LEMMA TwoPieces ==
  ASSUME NEW a \in Seq(Nat), NEW b \in Seq(Nat)
  PROVE  a \o b \in Seq(Nat) /\ Len(a \o b) = Len(a) + Len(b)
  OBVIOUS

LEMMA ThreePieces ==
  ASSUME NEW p \in Seq(Nat), NEW l \in Seq(Nat), NEW r \in Seq(Nat)
  PROVE  /\ l \o r \in Seq(Nat) /\ p \o l \o r = p \o (l \o r)
         /\ Len(p \o l \o r) = Len(p) + Len(l) + Len(r)
<1>1. p \o l \in Seq(Nat) /\ Len(p \o l) = Len(p) + Len(l)
  BY TwoPieces
<1>2. Len((p \o l) \o r) = Len(p \o l) + Len(r)
  BY <1>1, TwoPieces
<1>3. l \o r \in Seq(Nat)
  BY TwoPieces
<1>4. p \o l \o r = p \o (l \o r)
  BY Associates
<1>5. Len(p \o l \o r) = Len(p) + Len(l) + Len(r)
  BY <1>1, <1>2
<1> QED
  BY <1>3, <1>4, <1>5

(* The channel, when a line leaves or enters it. *)
LEMMA ChannelLength ==
  ASSUME NEW l \in Seq(Nat), NEW x \in Nat
  PROVE  /\ Len(l) \in Nat /\ Len(Append(l, x)) = Len(l) + 1
         /\ l # <<>> => Len(l) > 0 /\ Len(Tail(l)) = Len(l) - 1
  OBVIOUS

-----------------------------------------------------------------------------
(* The lines, step by step. *)

(* A step that moves no line and revives no context. *)
LEMMA NoLineMoves ==
  ASSUME LinesInv,
         UNCHANGED <<handler, produced, line, lost, printed, lines, opened>>,
         ctx' \in {ctx, "cancelled"}
  PROVE  LinesInv'
<1>1. HandInv' /\ LossInv'
  BY DEF LinesInv, HandInv, LossInv
<1>2. StreamInv'
  BY DEF LinesInv, StreamInv, InHand, Through
<1> QED
  BY <1>1, <1>2 DEF LinesInv

(* The handler goes on with nothing in its hands. *)
LEMMA HandlerMoves ==
  ASSUME LinesInv, opened,
         UNCHANGED <<produced, line, lost, printed, lines, ctx, opened>>,
         handler \notin {"write", "full"},
         \/ handler' = "exited"
         \/ handler' \in {"gated", "open", "check"} /\ lost = {}
         \/ handler' = "read" /\ lost = {}
  PROVE  LinesInv'
<1>1. HandInv' /\ LossInv'
  BY DEF LinesInv, HandInv, LossInv
<1>2. StreamInv'
  BY DEF LinesInv, StreamInv, InHand, Through
<1> QED
  BY <1>1, <1>2 DEF LinesInv

(* A line moves from the channel to the screen. *)
LEMMA PrintInv ==
  ASSUME LinesInv, NEW next, PrintTo(next) PROVE LinesInv'
<1>1. /\ lines # <<>>
      /\ printed' = Append(printed, Head(lines)) /\ lines' = Tail(lines)
      /\ UNCHANGED <<handler, produced, line, lost, ctx, opened>>
  BY DEF PrintTo, handlerVars, inputVars
<1>2. HandInv' /\ LossInv'
  BY <1>1 DEF LinesInv, HandInv, LossInv
<1>3. /\ printed \in Seq(Nat) /\ lines \in Seq(Nat) /\ produced \in Nat
      /\ printed \o lines \o InHand = First(Through)
  BY DEF LinesInv, StreamInv
<1>4. printed' \o lines' = printed \o lines
  BY <1>1, <1>3, PrintKeeps
<1>5. InHand' = InHand /\ Through' = Through
  BY <1>1 DEF InHand, Through
<1>6. printed' \in Seq(Nat) /\ lines' \in Seq(Nat)
  BY <1>1, <1>3
<1> QED
  BY <1>1, <1>2, <1>3, <1>4, <1>5, <1>6 DEF LinesInv, StreamInv

(* The line in hand goes into the channel. *)
LEMMA SendInv ==
  ASSUME LinesInv, handler \in {"write", "full"}, Send,
         UNCHANGED <<produced, printed, ctx, opened>>
  PROVE  LinesInv'
<1>1. /\ lines' = Append(lines, line) /\ handler' = "check" /\ line' = 0
      /\ lost' = lost /\ line = produced /\ line \in Nat \ {0} /\ lost = {}
  BY DEF Send, LinesInv, HandInv, LossInv, StreamInv
<1>2. /\ printed \in Seq(Nat) /\ lines \in Seq(Nat) /\ produced \in Nat
      /\ printed \o lines \o <<line>> = First(Through)
  BY <1>1 DEF LinesInv, StreamInv, InHand
<1>3. printed' \o lines' \o <<>> = printed \o lines \o <<line>>
  BY <1>1, <1>2, SendKeeps
<1>4. InHand' = <<>> /\ Through' = Through
  BY <1>1 DEF InHand, Through
<1>5. StreamInv'
  <2>1. lines' \in Seq(Nat)
    BY <1>1, <1>2
  <2>2. printed' \o lines' \o InHand' = First(Through')
    BY <1>2, <1>3, <1>4
  <2> QED
    BY <1>2, <2>1, <2>2 DEF StreamInv
<1>6. HandInv' /\ LossInv'
  BY <1>1 DEF LinesInv, HandInv, LossInv
<1> QED
  BY <1>5, <1>6 DEF LinesInv

(* The line in hand is given up: it was the last. *)
LEMMA GiveUpInv ==
  ASSUME LinesInv, handler = "full", ctx = "cancelled", opened,
         lost' = lost \cup {line}, line' = 0, handler' = "check",
         UNCHANGED <<produced, printed, lines, ctx, opened>>
  PROVE  LinesInv'
<1>1. /\ lost = {} /\ line = produced /\ produced \in Nat \ {0}
      /\ lost' = {produced}
  BY DEF LinesInv, HandInv, LossInv, StreamInv
<1>2. Cardinality(lost) = 0 /\ Cardinality(lost') = 1
  BY <1>1, FS_EmptySet, FS_Singleton
<1>3. Through = produced /\ Through' = produced - 1
  BY <1>1, <1>2 DEF Through
<1>4. /\ printed \in Seq(Nat) /\ lines \in Seq(Nat)
      /\ printed \o lines \o <<produced>> = First(produced)
  BY <1>1, <1>3 DEF LinesInv, StreamInv, InHand
<1> DEFINE q == printed \o lines
<1>5. q \in Seq(Nat)
  BY <1>4
<1>6. q \o <<produced>> = First(produced)
  BY <1>4
<1> HIDE DEF q
<1>7. Len(q \o <<produced>>) = Len(q) + 1
  BY <1>1, <1>5
<1>8. Len(q) = produced - 1
  BY <1>1, <1>5, <1>6, <1>7 DEF First
<1>9. \A n \in 1..(produced - 1) : q[n] = (q \o <<produced>>)[n]
  BY <1>1, <1>5, <1>8
<1>10. q = First(produced - 1)
  <2>1. \A n \in 1..(produced - 1) : q[n] = n
    <3>1. \A n \in 1..produced : First(produced)[n] = n
      BY DEF First
    <3> QED
      BY <1>1, <1>6, <1>9, <3>1
  <2> QED
    BY <1>1, <1>5, <1>8, <2>1 DEF First
<1>11. q \o <<>> = First(produced - 1)
  BY <1>5, <1>10
<1>12. InHand' = <<>> /\ printed' \o lines' = q
  BY DEF InHand, q
<1>13. StreamInv'
  BY <1>1, <1>3, <1>4, <1>11, <1>12 DEF StreamInv
<1>14. HandInv' /\ LossInv'
  BY <1>1 DEF LinesInv, HandInv, LossInv
<1> QED
  BY <1>13, <1>14 DEF LinesInv

(* The device logs a line. *)
LEMMA ReadLineInv == LinesInv /\ opened /\ ReadLine => LinesInv'
<1> SUFFICES ASSUME LinesInv, opened, ReadLine PROVE LinesInv'
  OBVIOUS
<1>1. /\ handler = "read" /\ handler' = "write"
      /\ produced' = produced + 1 /\ line' = produced + 1
      /\ UNCHANGED <<lost, lines, ctx, printed, opened>>
      /\ lost = {} /\ line = 0 /\ produced \in Nat
  BY DEF ReadLine, screenVars, inputVars, LinesInv, HandInv, LossInv, StreamInv
<1>2. Through = produced /\ Through' = produced + 1
  BY <1>1, FS_EmptySet DEF Through
<1>3. /\ printed \in Seq(Nat) /\ lines \in Seq(Nat)
      /\ printed \o lines \o <<>> = First(produced)
  BY <1>1, <1>2 DEF LinesInv, StreamInv, InHand
<1>4. printed \o lines \o <<produced + 1>> = First(produced + 1)
  BY <1>1, <1>3, NextLine
<1>5. StreamInv'
  <2>1. InHand' = <<produced + 1>>
    BY <1>1 DEF InHand
  <2>2. printed' \o lines' \o InHand' = First(Through')
    BY <1>1, <1>2, <1>4, <2>1
  <2>3. printed' \in Seq(Nat) /\ lines' \in Seq(Nat) /\ produced' \in Nat
    BY <1>1, <1>3
  <2> QED
    BY <2>2, <2>3 DEF StreamInv, First
<1>6. HandInv' /\ LossInv'
  BY <1>1 DEF LinesInv, HandInv, LossInv
<1> QED
  BY <1>5, <1>6 DEF LinesInv

(* Whatever the handler, the screen and the input do. *)
LEMMA ScreenStep ==
  ASSUME LinesInv,
         \/ HandlerRuns \/ HandlerWaits \/ ScreenRuns
         \/ TimerFires \/ PressEnter \/ InputEnds \/ ReaderReturns
  PROVE  LinesInv'
<1> USE DEF handlerVars, screenVars, inputVars, outputVars
<1>1. handler # "exited" => opened
  BY DEF LinesInv, LossInv
<1>2. handler \in {"open", "gated", "read"} => lost = {}
  BY DEF LinesInv, LossInv
<1>3. lost # {} => ctx = "cancelled"
  BY DEF LinesInv, LossInv
<1>4. CASE Open \/ Fallback \/ CheckContext \/ StreamEnds
  <2>1. /\ handler \in {"open", "gated", "check", "read"}
        /\ UNCHANGED <<produced, line, lost, printed, lines, ctx, opened>>
        /\ \/ handler' = "exited"
           \/ handler' \in {"gated", "open", "check"} /\ lost = {}
           \/ handler' = "read" /\ lost = {}
    BY <1>2, <1>3, <1>4 DEF Open, Fallback, CheckContext, StreamEnds, Exit
  <2> QED
    BY <1>1, <2>1, HandlerMoves
<1>5. CASE WriteLine
  <2>1. CASE Len(lines) < Cap
    BY <1>5, <2>1, SendInv DEF WriteLine
  <2>2. CASE ~(Len(lines) < Cap)
    <3>1. /\ handler = "write" /\ handler' = "full"
          /\ UNCHANGED <<produced, line, lost, printed, lines, ctx, opened>>
      BY <1>5, <2>2 DEF WriteLine
    <3>2. HandInv' /\ LossInv'
      BY <3>1 DEF LinesInv, HandInv, LossInv
    <3> QED
      BY <3>1, <3>2 DEF LinesInv, StreamInv, InHand, Through
  <2> QED
    BY <2>1, <2>2
<1>6. CASE WriteFull
  <2>1. /\ handler = "full" /\ UNCHANGED <<produced, printed, ctx, opened>>
        /\ \/ Send
           \/ /\ ctx = "cancelled" /\ lost' = lost \cup {line}
              /\ line' = 0 /\ handler' = "check" /\ UNCHANGED lines
    BY <1>6 DEF WriteFull
  <2> QED
    BY <1>1, <2>1, SendInv, GiveUpInv
<1>7. CASE ReadLine
  BY <1>1, <1>7, ReadLineInv DEF ReadLine
<1>8. CASE PrintLine \/ DrainLine \/ WaitLine
  BY <1>8, PrintInv DEF PrintLine, DrainLine, WaitLine
<1>9. CASE StopPressed \/ StreamOver \/ DrainEmpty \/ WaitDone \/ WaitTimeout
  BY <1>9, NoLineMoves
  DEF StopPressed, StreamOver, DrainEmpty, WaitDone, WaitTimeout, Finish
<1>10. CASE TimerFires \/ PressEnter \/ InputEnds \/ ReaderReturns
  BY <1>10, NoLineMoves DEF TimerFires, PressEnter, InputEnds, ReaderReturns
<1> QED
  BY <1>4, <1>5, <1>6, <1>7, <1>8, <1>9, <1>10
  DEF HandlerRuns, HandlerWaits, ScreenRuns

(* A screen is opened over a stream that has not begun. *)
LEMMA OpenInv == LinesInv /\ OpenScreen => LinesInv'
<1> SUFFICES ASSUME LinesInv, OpenScreen PROVE LinesInv'
  OBVIOUS
<1>1. /\ ~opened /\ opened' /\ handler' = "open"
      /\ UNCHANGED <<produced, line, lost, lines, printed>>
  BY DEF OpenScreen
<1>2. lost = {} /\ line = 0
  BY <1>1 DEF LinesInv, LossInv, HandInv
<1>3. HandInv' /\ LossInv'
  BY <1>1, <1>2 DEF LinesInv, HandInv, LossInv
<1> QED
  BY <1>1, <1>3 DEF LinesInv, StreamInv, InHand, Through

-----------------------------------------------------------------------------
(* How the screen ends, and what it leaves unprinted. *)

(* The line a handler that is stuck in its read may still bring. *)
Coming == IF handler = "read" THEN 1 ELSE 0

EndInv ==
  /\ screen = "select" <=> ctx = "live"
  /\ banner # "none" => opened /\ screen = "ended"
  /\ screen # "ended" => opened
  /\ done \in {"nil", "error"} => handler = "exited"
  /\ Len(lines) <= Cap
  /\ screen = "wait" \/ banner = "stopped" => Swallowed + Coming <= 1
  /\ banner \in {"error", "quiet"} => handler = "exited" /\ Swallowed <= Cap

(* The lines in the four places a line may be. *)
LEMMA CountedLines ==
  ASSUME LinesInv
  PROVE  /\ Len(printed) \in Nat /\ Len(lines) \in Nat /\ produced \in Nat
         /\ Len(InHand) \in 0..1 /\ Cardinality(lost) \in 0..1
         /\ line = 0 => Len(InHand) = 0
         /\ lost = {} => Cardinality(lost) = 0
         /\ Swallowed = Len(lines) + Len(InHand) + Cardinality(lost)
<1>1. /\ printed \in Seq(Nat) /\ lines \in Seq(Nat) /\ produced \in Nat
      /\ printed \o lines \o InHand = First(Through)
      /\ lost \in {{}, {produced}} /\ line \in Nat
      /\ lost # {} => produced > 0
  BY DEF LinesInv, StreamInv, LossInv, HandInv
<1>2. /\ Cardinality(lost) \in 0..1
      /\ lost = {} => Cardinality(lost) = 0
      /\ lost # {} => Cardinality(lost) = 1
  <2>1. CASE lost = {}
    BY <2>1, FS_EmptySet
  <2>2. CASE lost = {produced}
    <3>1. Cardinality(lost) = 1 /\ lost # {}
      BY <2>2, FS_Singleton
    <3> QED
      BY <3>1
  <2> QED
    BY <1>1, <2>1, <2>2
<1>3. /\ InHand \in Seq(Nat) /\ Len(InHand) \in 0..1
      /\ line = 0 => Len(InHand) = 0
  BY <1>1 DEF InHand
<1>4. Len(printed \o lines \o InHand) = Len(printed) + Len(lines) + Len(InHand)
  BY <1>1, <1>3, ThreePieces
<1>5. Len(printed) \in Nat /\ Len(lines) \in Nat
  BY <1>1
<1>6. Through \in Nat /\ Through = produced - Cardinality(lost)
  BY <1>1, <1>2 DEF Through
<1>7. Len(First(Through)) = Through
  BY <1>6 DEF First
<1>8. Len(printed) + Len(lines) + Len(InHand) = produced - Cardinality(lost)
  BY <1>1, <1>4, <1>6, <1>7
<1>9. Swallowed = Len(lines) + Len(InHand) + Cardinality(lost)
  <2>1. /\ Len(printed) \in Nat /\ Len(lines) \in Nat /\ produced \in Nat
        /\ Len(InHand) \in Nat /\ Cardinality(lost) \in Nat
    BY <1>1, <1>2, <1>3, <1>5
  <2> QED
    BY <1>8, <2>1 DEF Swallowed
<1> QED
  BY <1>1, <1>2, <1>3, <1>5, <1>9

(* What is printed is the beginning of the stream. *)
LEMMA PrintedFirst ==
  ASSUME LinesInv
  PROVE  printed = First(Len(printed))
<1>1. /\ printed \in Seq(Nat) /\ lines \in Seq(Nat)
      /\ printed \o lines \o InHand = First(Through)
      /\ line \in Nat
  BY DEF LinesInv, StreamInv, HandInv
<1> DEFINE rest == lines \o InHand
<1>6. InHand \in Seq(Nat)
  BY <1>1 DEF InHand
<1>2. rest \in Seq(Nat)
  BY <1>1, <1>6, ThreePieces
<1>3. printed \o rest = First(Through)
  BY <1>1, <1>6, ThreePieces
<1> HIDE DEF rest
<1>4. \A k \in 1..Len(printed) : printed[k] = First(Through)[k]
  BY <1>1, <1>2, <1>3
<1>5. \A k \in 1..Len(printed) : k \in DOMAIN First(Through)
  BY <1>1, <1>2, <1>3
<1>7. \A k \in 1..Len(printed) : printed[k] = k
  BY <1>4, <1>5 DEF First
<1> QED
  BY <1>1, <1>7 DEF First

(* A stream that was cancelled reads no further line unless it is in the   *)
(* middle of a read; the channel takes no more than its capacity.          *)
LEMMA EndHandler ==
  ASSUME LinesInv, EndInv, HandlerRuns \/ HandlerWaits PROVE EndInv'
<1> USE DEF screenVars, inputVars
<1>1. CASE Open \/ Fallback \/ CheckContext \/ StreamEnds
  BY <1>1, CountedLines DEF Open, Fallback, CheckContext, StreamEnds, Exit,
                            EndInv, Swallowed, Coming
<1>2. CASE ReadLine
  BY <1>2, CountedLines DEF ReadLine, EndInv, Swallowed, Coming
<1>3. CASE WriteLine \/ WriteFull
  <2>1. /\ handler \in {"write", "full"} /\ handler' \in {"check", "full"}
        /\ UNCHANGED <<produced, printed, done, ctx, screen, banner, opened>>
        /\ Len(lines') <= Cap
    <3>1. /\ lines \in Seq(Nat) /\ line \in Nat /\ Len(lines) \in Nat
          /\ Len(lines) <= Cap /\ Cap \in Nat
      BY SyslogAssumption, CountedLines DEF EndInv, LinesInv, StreamInv, HandInv
    <3>2. Len(Append(lines, line)) = Len(lines) + 1
      BY <3>1, ChannelLength
    <3>3. /\ handler \in {"write", "full"} /\ handler' \in {"check", "full"}
          /\ UNCHANGED <<produced, printed, done, ctx, screen, banner, opened>>
          /\ \/ lines' = lines
             \/ Len(lines) < Cap /\ lines' = Append(lines, line)
      BY <1>3 DEF WriteLine, WriteFull, Send
    <3>4. Len(lines') <= Cap
      BY <3>1, <3>2, <3>3
    <3> QED
      BY <3>3, <3>4
  <2> QED
    BY <2>1 DEF EndInv, Swallowed, Coming
<1> QED
  BY <1>1, <1>2, <1>3 DEF HandlerRuns, HandlerWaits

(* The screen waits once the channel is empty, and takes the stream's end  *)
(* with whatever is in the channel then.                                   *)
LEMMA EndScreen ==
  ASSUME LinesInv, EndInv, ScreenRuns PROVE EndInv'
<1> USE DEF handlerVars, inputVars
<1>1. handler \in {"open", "gated", "check", "read", "write", "full", "exited"}
  BY DEF LinesInv, HandInv
<1>2. CASE PrintLine \/ DrainLine \/ WaitLine
  <2>1. /\ UNCHANGED <<handler, produced, done, ctx, banner, opened>>
        /\ lines # <<>> /\ lines' = Tail(lines)
        /\ printed' = Append(printed, Head(lines))
        /\ \/ screen = "select" /\ screen' = "select"
           \/ screen \in {"drain", "wait"} /\ screen' = "drain"
    BY <1>2 DEF PrintLine, DrainLine, WaitLine, PrintTo
  <2>2. Len(lines') <= Cap
    <3>1. lines \in Seq(Nat) /\ Len(lines) <= Cap /\ Cap \in Nat
      BY SyslogAssumption DEF LinesInv, StreamInv, EndInv
    <3>2. Len(lines) \in Nat /\ Len(Tail(lines)) = Len(lines) - 1
      BY <2>1, <3>1, ChannelLength
    <3> QED
      BY <2>1, <3>1, <3>2
  <2> QED
    BY <2>1, <2>2 DEF EndInv, Swallowed, Coming
<1>3. CASE DrainEmpty
  <2>1. Swallowed + Coming <= 1
    <3>1. line # 0 <=> handler \in {"write", "full"}
      BY DEF LinesInv, HandInv
    <3>2. lost # {} => handler \in {"check", "exited"}
      BY DEF LinesInv, LossInv
    <3>3. Len(lines) = 0
      BY <1>3 DEF DrainEmpty
    <3>4. Swallowed = Len(InHand) + Cardinality(lost)
      BY <3>3, CountedLines
    <3>6. CASE line # 0
      <4>1. lost = {} /\ Coming = 0
        BY <3>1, <3>2, <3>6 DEF Coming
      <4>2. Cardinality(lost) = 0 /\ Len(InHand) \in 0..1
        BY <4>1, CountedLines
      <4>3. Swallowed = Len(InHand)
        BY <3>4, <4>2
      <4>4. Swallowed \in 0..1
        BY <4>2, <4>3
      <4> QED
        BY <4>1, <4>4
    <3>7. CASE line = 0
      <4>1. lost # {} => Coming = 0
        BY <3>2 DEF Coming
      <4>2. Coming \in 0..1
        BY DEF Coming
      <4> QED
        BY <3>4, <3>7, <4>1, <4>2, CountedLines
    <3> QED
      BY <3>6, <3>7
  <2> QED
    BY <1>3, <2>1 DEF DrainEmpty, EndInv, Swallowed, Coming
<1>4. CASE StopPressed
  BY <1>4 DEF StopPressed, EndInv, Swallowed, Coming
<1>5. CASE StreamOver
  <2>1. handler = "exited" /\ lost = {} /\ line = 0
    BY <1>5 DEF StreamOver, EndInv, LinesInv, LossInv, HandInv
  <2>2. Swallowed <= Cap
    BY <2>1, CountedLines DEF EndInv
  <2> QED
    BY <1>5, <2>1, <2>2 DEF StreamOver, Finish, EndInv, Swallowed, Coming
<1>6. CASE WaitDone \/ WaitTimeout
  BY <1>6 DEF WaitDone, WaitTimeout, Finish, EndInv, Swallowed, Coming
<1> QED
  BY <1>2, <1>3, <1>4, <1>5, <1>6 DEF ScreenRuns

-----------------------------------------------------------------------------
(* The questions.  One that leads to something weighty takes nothing but a *)
(* good answer for it; a run leads to no other; what is weighty is a run.  *)
Careful(q) ==
  /\ q.off \cap Weighty = {}
  /\ q.on \cap Weighty # {} => q.kind \in {"pick", "exact", "no"}
  /\ q.name \in Weighty => q.kind = "run"

LEMMA QuestionsCareful == \A q \in Questions : Careful(q)
<1> USE DEF Careful, Weighty, Q, Ask, Run
<1>1. \A q \in Levels \cup Inject \cup RunInject : Careful(q)
  BY DEF Levels, Inject, RunInject
<1>2. \A q \in Extract \cup Convert \cup Build \cup Cgen : Careful(q)
  BY DEF Extract, Convert, Build, Cgen
<1>3. \A q \in CyanCheck \cup Fetch \cup Check : Careful(q)
  BY DEF CyanCheck, Fetch, Check
<1>4. \A q \in Cache \cup Decrypt : Careful(q)
  BY DEF Cache, Decrypt
<1>5. \A q \in DeviceCards \cup DeviceApps \cup DeviceAsks \cup Omega : Careful(q)
  BY DEF DeviceCards, DeviceApps, DeviceAsks, Omega
<1> QED
  BY <1>1, <1>2, <1>3, <1>4, <1>5 DEF Questions

(* The tool of a name is one of the questions, and has that name. *)
LEMMA ToolIsQuestion ==
  ASSUME NEW n \in DOMAIN Tools
  PROVE  Tools[n] \in Questions /\ Tools[n].name = n
<1>1. n \in {q.name : q \in Questions}
  BY DEF Tools
<1>2. \E q \in Questions : q.name = n
  BY <1>1
<1>3. Tools[n] = CHOOSE q \in Questions : q.name = n
  BY <1>1 DEF Tools
<1> QED
  BY <1>2, <1>3

LEMMA WeightyAreTools == Weighty \subseteq DOMAIN Tools
<1> DEFINE clear  == Run("cache.clear", {"enter"})
           logout == Run("decrypt.logout", {"decrypt.id"})
           remove == Run("dv.uninstall", {"enter"})
           omega  == Run("omega.run", {"enter"})
<1>1. clear \in Cache /\ logout \in Decrypt /\ remove \in DeviceApps /\ omega \in Omega
  BY DEF Cache, Decrypt, DeviceApps, Omega
<1>2. {clear, logout, remove, omega} \subseteq Questions
  BY <1>1 DEF Questions
<1>3. /\ clear.name = "cache.clear" /\ logout.name = "decrypt.logout"
      /\ remove.name = "dv.uninstall" /\ omega.name = "omega.run"
  BY DEF Run, Q
<1> HIDE DEF clear, logout, remove, omega
<1>4. DOMAIN Tools = {q.name : q \in Questions}
  BY DEF Tools
<1> QED
  BY <1>2, <1>3, <1>4 DEF Weighty

(* What lies ahead of an answer is weighty only if the answer is good. *)
LEMMA OnlyGoodIsWeighty ==
  ASSUME Asked, NEW answer \in Answers, NEW next \in Ahead(answer),
         next \in Weighty
  PROVE  answer = "good" \/ answer \in Ways[Here.kind].again
<1>1. Here \in Questions /\ Careful(Here)
  BY ToolIsQuestion, QuestionsCareful DEF Asked, Here
<1>2. next \in Here.on /\ Here.kind \in {"pick", "exact", "no"}
  BY <1>1 DEF Ahead, Careful
<1>3. answer \in Ways[Here.kind].off => answer \in Ways[Here.kind].either
  BY <1>1 DEF Ahead, Careful
<1>4. /\ Ways["pick"].off = {"empty", "cancel"} /\ Ways["pick"].again = {"bad"}
      /\ Ways["exact"].off = {"empty", "cancel", "bad"}
      /\ Ways["no"].off = {"empty", "cancel", "bad"}
      /\ Ways["pick"].either = {} /\ Ways["exact"].either = {}
      /\ Ways["no"].either = {"good"}
  BY DEF Ways, Way
<1> QED
  BY <1>2, <1>3, <1>4 DEF Answers

(* A question, answered. *)
LEMMA RespondInv ==
  ASSUME LinesInv, NothingUnasked, Asked, NEW answer \in Answers,
         Respond(answer)
  PROVE  LinesInv' /\ NothingUnasked'
<1>1. CASE answer \in Ways[Here.kind].again \/ Nudges(answer)
  <2>1. UNCHANGED <<at, by, opened, outputVars>>
    BY <1>1 DEF Respond
  <2>2. LinesInv'
    BY <2>1, NoLineMoves DEF outputVars, handlerVars, screenVars
  <2> QED
    BY <2>1, <2>2 DEF NothingUnasked
<1>2. CASE ~(answer \in Ways[Here.kind].again \/ Nudges(answer))
  <2>1. PICK next \in Ahead(answer) : Enter(next, answer)
    BY <1>2 DEF Respond
  <2>2. LinesInv'
    BY <2>1, OpenInv, NoLineMoves DEF Enter, outputVars, handlerVars, screenVars
  <2>3. next \in Weighty => answer = "good"
    BY <1>2, OnlyGoodIsWeighty
  <2>4. next \in Weighty => next \in DOMAIN Tools /\ Tools[next].kind = "run"
    BY WeightyAreTools, ToolIsQuestion, QuestionsCareful DEF Careful
  <2>5. NothingUnasked'
    BY <2>1, <2>3, <2>4 DEF Enter, NothingUnasked
  <2> QED
    BY <2>2, <2>5
<1> QED
  BY <1>1, <1>2

(* A screen entered by nobody's answer is not a weighty one. *)
LEMMA EnterInv ==
  ASSUME LinesInv, NEW next, next \notin Weighty, Enter(next, "none")
  PROVE  LinesInv' /\ NothingUnasked'
  BY OpenInv, NoLineMoves
  DEF Enter, NothingUnasked, outputVars, handlerVars, screenVars

LEMMA MenuStep ==
  LinesInv /\ NothingUnasked /\ [MenuNext]_allVars => LinesInv' /\ NothingUnasked'
<1> SUFFICES ASSUME LinesInv, NothingUnasked, [MenuNext]_allVars
             PROVE  LinesInv' /\ NothingUnasked'
  OBVIOUS
<1>1. CASE ReadAnswer
  <2>1. PICK answer \in Answers : Respond(answer)
    BY <1>1 DEF ReadAnswer, Answers
  <2> QED
    BY <1>1, <2>1, RespondInv DEF ReadAnswer
<1>2. CASE PickByKeys
  <2>1. PICK answer \in Answers : Respond(answer)
    BY <1>2 DEF PickByKeys, Answers
  <2> QED
    BY <1>2, <2>1, RespondInv DEF PickByKeys
<1>3. CASE RunEnds
  <2>1. PICK next \in Here.on : Enter(next, "none")
    BY <1>3 DEF RunEnds, Running
  <2>2. Here.kind = "run" /\ Careful(Here)
    BY <1>3, ToolIsQuestion, QuestionsCareful DEF RunEnds, Running, Here
  <2>3. next \notin Weighty
    BY <2>1, <2>2 DEF Careful
  <2> QED
    BY <2>1, <2>3, EnterInv
<1>4. CASE SyslogEnds \/ PressEnterToContinue
  BY <1>4, EnterInv DEF SyslogEnds, PressEnterToContinue, Weighty
<1>5. CASE Beside(HandlerRuns \/ HandlerWaits \/ ScreenRuns \/ TimerFires
                  \/ PressEnter \/ MenuInputEnds \/ ReaderReturns)
  <2>1. LinesInv'
    BY <1>5, ScreenStep DEF Beside, MenuInputEnds
  <2>2. UNCHANGED <<at, by>>
    BY <1>5 DEF Beside, menuVars
  <2> QED
    BY <2>1, <2>2 DEF NothingUnasked
<1>6. CASE UNCHANGED allVars
  BY <1>6, NoLineMoves DEF allVars, vars, menuVars, NothingUnasked
<1> QED
  BY <1>1, <1>2, <1>3, <1>4, <1>5, <1>6 DEF MenuNext, MenuRuns

(* What a step of the menu is to the live syslog. *)
LEMMA MenuIsScreen ==
  ASSUME [MenuNext]_allVars
  PROVE  \/ OpenScreen \/ HandlerRuns \/ HandlerWaits \/ ScreenRuns
         \/ UNCHANGED <<handler, produced, printed, lines, done, ctx, screen,
                        banner, opened>>
<1> USE DEF outputVars, handlerVars, screenVars
<1>1. CASE ReadAnswer \/ PickByKeys
  BY <1>1 DEF ReadAnswer, PickByKeys, Respond, Enter
<1>2. CASE RunEnds \/ SyslogEnds \/ PressEnterToContinue
  BY <1>2 DEF RunEnds, SyslogEnds, PressEnterToContinue, Enter
<1>3. CASE Beside(HandlerRuns \/ HandlerWaits \/ ScreenRuns \/ TimerFires
                  \/ PressEnter \/ MenuInputEnds \/ ReaderReturns)
  BY <1>3 DEF Beside, MenuInputEnds, TimerFires, PressEnter, InputEnds,
              ReaderReturns, inputVars
<1>4. CASE UNCHANGED allVars
  BY <1>4 DEF allVars, vars
<1> QED
  BY <1>1, <1>2, <1>3, <1>4 DEF MenuNext, MenuRuns

LEMMA EndStep ==
  LinesInv /\ EndInv /\ [MenuNext]_allVars => EndInv'
<1> SUFFICES ASSUME LinesInv, EndInv, [MenuNext]_allVars PROVE EndInv'
  OBVIOUS
<1>1. CASE OpenScreen
  BY <1>1 DEF OpenScreen, EndInv, Swallowed, Coming
<1>2. CASE HandlerRuns \/ HandlerWaits
  BY <1>2, EndHandler
<1>3. CASE ScreenRuns
  BY <1>3, EndScreen
<1>4. CASE UNCHANGED <<handler, produced, printed, lines, done, ctx, screen,
                       banner, opened>>
  BY <1>4 DEF EndInv, Swallowed, Coming
<1> QED
  BY <1>1, <1>2, <1>3, <1>4, MenuIsScreen

LEMMA MenuInitInv == MenuInit => LinesInv /\ NothingUnasked
<1> SUFFICES ASSUME MenuInit PROVE LinesInv /\ NothingUnasked
  OBVIOUS
<1>1. NothingUnasked
  BY DEF MenuInit, NothingUnasked, Weighty
<1>2. HandInv /\ LossInv
  BY DEF MenuInit, Init, HandInv, LossInv
<1>3. Through = 0
  BY FS_EmptySet DEF MenuInit, Init, Through
<1>4. StreamInv
  BY <1>3 DEF MenuInit, Init, StreamInv, InHand, First
<1> QED
  BY <1>1, <1>2, <1>4 DEF LinesInv

LEMMA MenuInvAlways == MenuSpec => [](LinesInv /\ NothingUnasked)
  BY MenuInitInv, MenuStep, PTL DEF MenuSpec

(* The live syslog shows the device's lines from the first on, in order,   *)
(* none twice and without a gap, and while it is open none goes missing    *)
(* but the one chanWriter gives up after the stop (tui/device.go 232-248,  *)
(* 271-312), through a channel of any capacity and beside the menu.        *)
THEOREM InOrderAlways == MenuSpec => []InOrder
<1>1. LinesInv => InOrder
  BY PrintedFirst DEF LinesInv, LossInv, StreamInv, InOrder
<1> QED
  BY <1>1, MenuInvAlways, PTL

(* What the screen leaves unprinted when it returns: after a stop one line *)
(* at most, whatever the channel holds, since a cancelled stream reads no  *)
(* more than the line it waits for; at the end of the stream what the      *)
(* channel held (tui/device.go 293-313, goios.go 472-483).                 *)
THEOREM DropsBoundedAlways == MenuSpec => []DropsBounded
<1>1. LinesInv /\ EndInv => DropsBounded
  <2> SUFFICES ASSUME LinesInv, EndInv PROVE DropsBounded
    OBVIOUS
  <2>1. Swallowed \in Int /\ Coming \in 0..1
    BY CountedLines DEF Swallowed, Coming
  <2> QED
    BY <2>1 DEF EndInv, DropsBounded
<1>2. MenuSpec => []EndInv
  <2>1. MenuInit => EndInv
    BY SyslogAssumption DEF MenuInit, Init, EndInv, Swallowed, Coming
  <2>2. LinesInv /\ EndInv /\ [MenuNext]_allVars => EndInv'
    BY EndStep
  <2> QED
    BY <2>1, <2>2, MenuInvAlways, PTL DEF MenuSpec
<1> QED
  BY <1>1, <1>2, MenuInvAlways, PTL

(* Both: the order of the lines, and how many are left behind.             *)
THEOREM LinesInOrderAlways == MenuSpec => []LinesInOrder
<1>1. InOrder /\ DropsBounded => LinesInOrder
  BY DEF LinesInOrder
<1> QED
  BY <1>1, InOrderAlways, DropsBoundedAlways, PTL

(* Nothing that cannot be taken back is started by an empty line, a word   *)
(* the question does not know, or the end of the input (tui.go 324-337 and *)
(* the questions of flowCache, flowDecrypt, dvApps and dvOmega).           *)
THEOREM NothingUnaskedAlways == MenuSpec => []NothingUnasked
  BY MenuInvAlways, PTL
=============================================================================
