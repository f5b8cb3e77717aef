---------------------------- MODULE SyslogScreen -----------------------------
(***************************************************************************)
(* The live syslog of the menu: dvSyslog and chanWriter of                 *)
(* internal/tui/device.go, and the stream of internal/device/goios.go that *)
(* feeds it.                                                               *)
(*                                                                         *)
(* Three goroutines meet.  The handler reads log lines from the device and *)
(* writes them to a bounded channel; the screen prints them and stops on   *)
(* Enter; the reader waits for that Enter on standard input.  When the     *)
(* stream ends by itself the reader is left behind and reads on beside the *)
(* menu (module Menu).                                                     *)
(***************************************************************************)
EXTENDS Naturals, Sequences, FiniteSets, SequencesExt

CONSTANTS Cap,       \* capacity of the line channel (128 in the code)
          MaxLines,  \* lines the device logs (bounds the stream)
          MaxKeys    \* lines typed ahead (bounds the input)

ASSUME SyslogAssumption == /\ Cap \in Nat \ {0}
                           /\ MaxLines \in Nat
                           /\ MaxKeys \in Nat

VARIABLES
  handler,   \* where the handler goroutine stands
  source,    \* the stream it reads: the classic relay, or os_trace
  produced,  \* lines read from the device, numbered from 1
  line,      \* the line in its hands, 0 for none
  lost,      \* lines chanWriter gave up
  lines,     \* the line channel
  done,      \* the handler's result: a channel of capacity one
  ctx,       \* the stream's context
  screen,    \* where the screen stands
  timer,     \* its two-second timer
  printed,   \* the lines it has printed
  banner,    \* how it ended
  left,      \* lines that were in the channel at that moment
  stop,      \* the stop channel is closed
  reader,    \* the goroutine that waits for Enter
  keys,      \* lines typed and not yet read
  eof,       \* standard input has ended
  opened     \* the screen was opened

handlerVars == <<handler, source, produced, line, lost>>
screenVars  == <<screen, timer, printed, banner, left>>
inputVars   == <<stop, reader, keys, eof, opened>>
vars == <<handler, source, produced, line, lost, lines, done, ctx, screen,
          timer, printed, banner, left, stop, reader, keys, eof,
          opened>>

LineNumbers == 1..MaxLines

TypeOK == /\ handler \in {"open", "gated", "check", "read", "write", "full",
                          "exited"}
          /\ source \in {"relay", "ostrace"}
          /\ produced \in 0..MaxLines
          /\ line \in 0..MaxLines
          /\ lost \in SUBSET LineNumbers
          /\ lines \in Seq(LineNumbers) /\ Len(lines) <= Cap
          /\ done \in {"empty", "nil", "error", "taken"}
          /\ ctx \in {"live", "cancelled"}
          /\ screen \in {"select", "drain", "wait", "ended"}
          /\ timer \in {"off", "armed", "fired"}
          /\ printed \in Seq(LineNumbers)
          /\ banner \in {"none", "stopped", "error", "quiet"}
          /\ left \in Seq(LineNumbers)
          /\ stop \in BOOLEAN
          /\ reader \in {"reading", "finished"}
          /\ keys \in 0..MaxKeys
          /\ eof \in BOOLEAN
          /\ opened \in BOOLEAN

\* No screen is open.
Init == /\ handler = "exited"
        /\ source = "relay"
        /\ produced = 0
        /\ line = 0
        /\ lost = {}
        /\ lines = <<>>
        /\ done = "taken"
        /\ ctx = "cancelled"
        /\ screen = "ended"
        /\ timer = "off"
        /\ printed = <<>>
        /\ banner = "none"
        /\ left = <<>>
        /\ stop = FALSE
        /\ reader = "finished"
        /\ opened = FALSE
        /\ keys = 0
        /\ eof = FALSE

\* dvSyslog starts the handler and the reader.  One screen a session is
\* followed.
OpenScreen ==
  /\ ~opened
  /\ opened' = TRUE
  /\ handler' = "open"
  /\ reader' = "reading"
  /\ done' = "empty"
  /\ ctx' = "live"
  /\ screen' = "select"
  /\ UNCHANGED <<source, produced, line, lost, lines, timer, printed, banner,
                 left, stop>>

-----------------------------------------------------------------------------
(* Deliberately wrong variants of definitions below. *)

\* chanWriter, once it finds the channel full, waits for the context only.
WaitForStop ==
  /\ handler = "full"
  /\ ctx = "cancelled"
  /\ lost' = lost \cup {line}
  /\ line' = 0
  /\ handler' = "check"
  /\ UNCHANGED <<source, produced, lines, done, ctx, screenVars, inputVars>>

\* The drain has no timeout.
StopWithoutTimer ==
  /\ screen = "select"
  /\ stop
  /\ ctx' = "cancelled"
  /\ screen' = "drain"
  /\ UNCHANGED <<handlerVars, lines, done, timer, printed, banner, left,
                 inputVars>>

-----------------------------------------------------------------------------
(* The handler goroutine *)

\* Syslog returns r; the goroutine sends it to done.
Exit(r) == /\ handler' = "exited"
           /\ done' = r

\* The device is resolved and the stream is opened, or refused: by the iOS 17
\* gate, for the relay only, or for good.
Open ==
  /\ handler = "open"
  /\ \/ handler' = "check" /\ UNCHANGED done
     \/ source = "relay" /\ ctx = "live" /\ handler' = "gated" /\ UNCHANGED done
     \/ Exit("error")
  /\ UNCHANGED <<source, produced, line, lost, lines, ctx, screenVars,
                 inputVars>>

\* tunnelReady, then os_trace over the tunnel.
Fallback ==
  /\ handler = "gated"
  /\ \/ source' = "ostrace" /\ handler' = "open" /\ UNCHANGED done
     \/ Exit("error") /\ UNCHANGED source
  /\ UNCHANGED <<produced, line, lost, lines, ctx, screenVars, inputVars>>

\* Deliberately wrong variant of the next definition: the stream does not look
\* at its context between lines.
CheckNothing ==
  /\ handler = "check"
  /\ handler' = "read"
  /\ UNCHANGED <<source, produced, line, lost, lines, done, ctx, screenVars,
                 inputVars>>

CheckContext ==
  /\ handler = "check"
  /\ \/ ctx = "live" /\ handler' = "read" /\ UNCHANGED done
     \/ ctx = "cancelled" /\ Exit("error")
  /\ UNCHANGED <<source, produced, line, lost, lines, ctx, screenVars,
                 inputVars>>

\* Blocks until the device logs a line, whatever the context.
ReadLine ==
  /\ handler = "read"
  /\ produced < MaxLines
  /\ produced' = produced + 1
  /\ line' = produced + 1
  /\ handler' = "write"
  /\ UNCHANGED <<source, lost, lines, done, ctx, screenVars, inputVars>>

StreamEnds ==
  /\ handler = "read"
  /\ \E r \in {"nil", "error"} : Exit(r)
  /\ UNCHANGED <<source, produced, line, lost, lines, ctx, screenVars,
                 inputVars>>

\* The first select of chanWriter.Write.
Send == /\ lines' = Append(lines, line)
        /\ handler' = "check"
        /\ line' = 0
        /\ UNCHANGED lost

WriteLine ==
  /\ handler = "write"
  /\ IF Len(lines) < Cap THEN Send
                         ELSE handler' = "full" /\ UNCHANGED <<line, lost, lines>>
  /\ UNCHANGED <<source, produced, done, ctx, screenVars, inputVars>>

\* The second one: room or the context, whichever the select takes.
WriteFull ==
  /\ handler = "full"
  /\ \/ Len(lines) < Cap /\ Send
     \/ /\ ctx = "cancelled"
        /\ lost' = lost \cup {line}
        /\ line' = 0
        /\ handler' = "check"
        /\ UNCHANGED lines
  /\ UNCHANGED <<source, produced, done, ctx, screenVars, inputVars>>

-----------------------------------------------------------------------------
(* The screen.  Its select picks any case that is ready.  (The ctx.Done case   *)
(* is never ready: only the screen itself cancels.)                            *)

PrintTo(next) == /\ lines # <<>>
                 /\ printed' = Append(printed, Head(lines))
                 /\ lines' = Tail(lines)
                 /\ screen' = next
                 /\ UNCHANGED <<handlerVars, done, ctx, timer, banner, left,
                                inputVars>>

\* The screen returns; cancel is deferred.
Finish(b) == /\ screen' = "ended"
             /\ banner' = b
             /\ left' = lines
             /\ ctx' = "cancelled"
             /\ UNCHANGED <<handlerVars, lines, timer, printed, inputVars>>

PrintLine == screen = "select" /\ PrintTo("select")

StopPressed ==
  /\ screen = "select"
  /\ stop
  /\ ctx' = "cancelled"
  /\ timer' = "armed"
  /\ screen' = "drain"
  /\ UNCHANGED <<handlerVars, lines, done, printed, banner, left, inputVars>>

StreamOver ==
  /\ screen = "select"
  /\ done \in {"nil", "error"}
  /\ done' = "taken"
  /\ Finish(IF done = "error" THEN "error" ELSE "quiet")

DrainLine == screen = "drain" /\ PrintTo("drain")

DrainEmpty ==
  /\ screen = "drain"
  /\ lines = <<>>
  /\ screen' = "wait"
  /\ UNCHANGED <<handlerVars, lines, done, ctx, timer, printed, banner, left,
                 inputVars>>

WaitLine == screen = "wait" /\ PrintTo("drain")

WaitDone ==
  /\ screen = "wait"
  /\ done \in {"nil", "error"}
  /\ done' = "taken"
  /\ Finish("stopped")

WaitTimeout ==
  /\ screen = "wait"
  /\ timer = "fired"
  /\ Finish("stopped")
  /\ UNCHANGED done

TimerFires ==
  /\ timer = "armed"
  /\ timer' = "fired"
  /\ UNCHANGED <<handlerVars, lines, done, ctx, screen, printed, banner, left,
                 inputVars>>

-----------------------------------------------------------------------------
(* Standard input *)

outputVars == <<handlerVars, lines, done, ctx, screenVars>>

PressEnter ==
  /\ keys < MaxKeys
  /\ ~eof
  /\ keys' = keys + 1
  /\ UNCHANGED <<outputVars, stop, reader, eof, opened>>

InputEnds ==
  /\ ~eof
  /\ eof' = TRUE
  /\ UNCHANGED <<outputVars, stop, reader, keys, opened>>

\* readLine returns a line, or "" at the end of the input.
GetsLine == IF keys > 0 THEN keys' = keys - 1 ELSE eof /\ UNCHANGED keys

ReaderReturns ==
  /\ reader = "reading"
  /\ GetsLine
  /\ reader' = "finished"
  /\ stop' = TRUE
  /\ UNCHANGED <<outputVars, eof, opened>>

-----------------------------------------------------------------------------

\* What the handler does without the device, and what it has to wait for the
\* device or a tunnel to do, without a bound of its own.
HandlerRuns  == CheckContext \/ WriteLine \/ WriteFull
HandlerWaits == Open \/ Fallback \/ ReadLine \/ StreamEnds

ScreenRuns == \/ PrintLine \/ StopPressed \/ StreamOver
              \/ DrainLine \/ DrainEmpty
              \/ WaitLine \/ WaitDone \/ WaitTimeout

Next == \/ OpenScreen /\ UNCHANGED <<keys, eof>>
        \/ HandlerRuns \/ HandlerWaits
        \/ ScreenRuns \/ TimerFires
        \/ PressEnter \/ InputEnds \/ ReaderReturns

Spec == Init /\ [][Next]_vars

-----------------------------------------------------------------------------
(* Correctness *)

\* What is printed is what the device logged, from the first line on, without
\* a gap or a repetition; while the screen is open every line read is printed,
\* in the channel or in the handler's hands, except one that chanWriter gives
\* up after the stop, the last: the stream looks at the context before the
\* next.
InHand  == IF line = 0 THEN <<>> ELSE <<line>>
Through == produced - Cardinality(lost)
First(k) == [n \in 1..k |-> n]

InOrder ==
  /\ printed = First(Len(printed))
  /\ screen # "ended" => printed \o lines \o InHand = First(Through)
  /\ lost # {} => ctx = "cancelled" /\ lost = {produced}

\* The screen returns without looking into the channel once more.  A stop then
\* swallows at most one line, however long the channel: the one the handler was
\* reading or writing when the stream was cancelled.  A stream that ends by
\* itself may take with it all that was buffered, a channel full of lines.
Swallowed == produced - Len(printed)

DropsBounded ==
  /\ banner = "stopped" => Swallowed <= 1
  /\ banner \in {"error", "quiet"} => Swallowed <= Cap

\* The lines of a live syslog (tui/device.go 226-317): none is out of its order,
\* none is left out on the way, and few are left behind at the end.
LinesInOrder == InOrder /\ DropsBounded

\* "printing the line first guarantees no log line is swallowed by the
\* "stopped" banner" (tui/device.go 281): a stop that did not run into its
\* timeout leaves nothing in the channel.  The code does not keep this: the
\* last select may take the handler's exit beside its last line.
\* Not checked by a run: the code violates it, see the README.
NoneSwallowed == banner = "stopped" /\ timer # "fired" => left = <<>>

\* Enter ends the screen, also when the device is silent and the handler is
\* stuck in its read.
StopEndsScreen == stop ~> screen = "ended"

==============================================================================
