-------------------------------- MODULE Menu --------------------------------
(***************************************************************************)
(* `xkvm tui' (tui/tui.go, tui/select.go, tui/device.go): the menu, the    *)
(* questions of each tool, and the live syslog of module SyslogScreen,     *)
(* whose reader shares standard input with the questions.                  *)
(*                                                                         *)
(* A tool is a graph of questions and runs.  What a line says is chosen    *)
(* when it is read: "good" is an answer the question takes, "bad" one it   *)
(* does not, "cancel" one of the words of isCancel.                        *)
(***************************************************************************)
EXTENDS SyslogScreen

VARIABLES
    at,         \* the question asked, or the run under way
    nudged,     \* an empty answer to it was met with a second chance
    by,         \* the answer that started the run under way
    tty         \* which of standard input and output are terminals

menuVars == <<at, nudged, by, tty>>
allVars == <<vars, menuVars>>

Answers == {"good", "bad", "empty", "cancel"}

(* What a kind of question does with an answer: ask again, go one way, or  *)
(* take it as yes or no; with every other answer it goes on.               *)
Way(off, again, either) == [off |-> off, again |-> again, either |-> either]
Ways == [
    pick    |-> Way({"empty", "cancel"}, {"bad"}, {}),
    multi   |-> Way({"cancel"}, {}, {}),
    level   |-> Way({"cancel"}, {"bad"}, {}),
    require |-> Way({"empty", "cancel"}, {}, {}),
    path    |-> Way({}, {}, {}),
    dir     |-> Way({"cancel"}, {}, {}),
    first   |-> Way({"empty", "cancel"}, {}, {}),
    more    |-> Way({}, {"good", "bad"}, {}),
    line    |-> Way({"empty"}, {}, {}),
    exact   |-> Way({"empty", "cancel", "bad"}, {}, {}),
    no      |-> Way({"empty", "cancel", "bad"}, {}, {"good"}),
    yes     |-> Way({}, {}, {"good"})]

Q(name, kind, on, off) == [name |-> name, kind |-> kind, on |-> on, off |-> off]
Ask(name, kind, on) == Q(name, kind, {on}, {"enter"})
Run(name, then) == Q(name, "run", then, {})
-----------------------------------------------------------------------------
(* The tools, question by question. *)

Levels == {
    Q("top", "pick", {"apps", "tweaks", "convert", "device", "info"}, {"bye"}),
    Q("apps", "pick", {"inject.app", "check.app", "decrypt.login", "decrypt.id"}, {"enter"}),
    Q("tweaks", "pick", {"extract.from", "fetch.ids", "build", "cache", "enter"}, {"enter"}),
    Ask("convert", "pick", "convert.which"),
    Ask("info", "pick", "enter"),
    (* Without a phone none of these starts. *)
    Q("device", "pick", {"dv.run", "dv.apps", "dv.install", "dv.launch", "dv.kill",
                         "dv.syslog", "omega.version", "omega", "enter"}, {"enter"})}

Inject == {
    Ask("inject.app", "require", "inject.files"),
    Ask("inject.files", "first", "inject.files2"),
    Ask("inject.files2", "more", "inject.out")}

RunInject == {
    Ask("inject.out", "path", "inject.cyans"),
    Q("inject.cyans", "first", {"inject.cyans2"}, {"inject.custom"}),
    Ask("inject.cyans2", "more", "inject.custom"),
    Q("inject.custom", "multi", {"inject.value", "inject.extras"}, {"enter"}),
    Q("inject.value", "require", {"inject.value", "inject.extras"}, {"enter"}),
    Ask("inject.extras", "multi", "inject.level"),
    Q("inject.level", "level", {"inject.root", "inject.run"}, {"enter"}),
    Q("inject.root", "no", {"inject.root", "inject.run"}, {"inject.root", "inject.run"}),
    Run("inject.run", {"enter"})}

Extract == {
    Ask("extract.from", "pick", "extract.out"),
    Ask("extract.out", "path", "extract.in"),
    Ask("extract.in", "require", "extract.run"),
    Run("extract.run", {"enter"})}

Convert == {
    Ask("convert.which", "pick", "convert.in"),
    Ask("convert.in", "require", "convert.out"),
    Q("convert.out", "path", {"convert.thin", "convert.mirror", "convert.run"}, {}),
    Q("convert.thin", "no", {"convert.inject"}, {"convert.inject"}),
    Q("convert.inject", "no", {"convert.run"}, {"convert.run"}),
    Q("convert.mirror", "no", {"convert.mode"}, {"convert.mode"}),
    Ask("convert.mode", "path", "convert.run"),
    Run("convert.run", {"enter"})}

Build == {
    Q("build", "pick", {"debify.in", "cgen.files", "cyan.in"}, {"enter"}),
    Ask("debify.in", "require", "debify.out"),
    Ask("debify.out", "path", "debify.extra"),
    Q("debify.extra", "multi", {"debify.value", "debify.run"}, {"enter"}),
    Q("debify.value", "path", {"debify.value", "debify.run"}, {}),
    Run("debify.run", {"enter"})}

Cgen == {
    Ask("cgen.files", "first", "cgen.files2"),
    Ask("cgen.files2", "more", "cgen.out"),
    Ask("cgen.out", "dir", "cgen.extra"),
    Q("cgen.extra", "multi", {"cgen.name", "cgen.patches", "cgen.root", "cgen.run"}, {"enter"}),
    Q("cgen.name", "path", {"cgen.patches", "cgen.root", "cgen.run"}, {}),
    Q("cgen.patches", "multi", {"cgen.root", "cgen.run"}, {"enter"}),
    Q("cgen.root", "no", {"cgen.root", "cgen.run"}, {"cgen.root", "cgen.run"}),
    Run("cgen.run", {"enter"})}

CyanCheck == {
    Ask("cyan.in", "require", "cyan.run"),
    Run("cyan.run", {"enter"})}

Fetch == {
    Ask("fetch.ids", "first", "fetch.ids2"),
    Ask("fetch.ids2", "more", "fetch.repo"),
    Ask("fetch.repo", "path", "fetch.deps"),
    Q("fetch.deps", "yes", {"fetch.out"}, {"fetch.out"}),
    Q("fetch.out", "path", {"fetch.version", "fetch.run"}, {}),
    Q("fetch.version", "pick", {"fetch.version", "fetch.run"}, {"enter"}),
    Run("fetch.run", {"fetch.zip", "enter"}),
    Q("fetch.zip", "yes", {"fetch.zipPath"}, {"fetch.inject"}),
    Ask("fetch.zipPath", "path", "fetch.pack"),
    Run("fetch.pack", {"fetch.inject"}),
    Q("fetch.inject", "yes", {"fetch.app"}, {"enter"}),
    Ask("fetch.app", "require", "inject.out")}

Check == {
    Ask("check.app", "require", "check.fix"),
    Q("check.fix", "no", {"check.dir"}, {"check.run"}),
    Q("check.dir", "line", {"check.dir"}, {"check.fetch"}),
    Q("check.fetch", "yes", {"check.out"}, {"check.out"}),
    Ask("check.out", "path", "check.run"),
    Run("check.run", {"enter"})}

Cache == {
    Q("cache", "pick", {"cache.prune", "cache.clear"}, {"enter"}),
    Run("cache.prune", {"enter"}),
    Run("cache.clear", {"enter"})}

Decrypt == {
    Q("decrypt.login", "pick", {"decrypt.app", "decrypt.id", "decrypt.logout"}, {"enter"}),
    Run("decrypt.logout", {"decrypt.id"}),
    Ask("decrypt.id", "require", "decrypt.password"),
    Ask("decrypt.password", "require", "decrypt.app"),
    Ask("decrypt.app", "require", "decrypt.version"),
    Q("decrypt.version", "path", {"decrypt.folder", "decrypt.run"}, {}),
    Q("decrypt.folder", "pick", {"decrypt.dir", "decrypt.run"}, {"enter"}),
    Ask("decrypt.dir", "dir", "decrypt.run"),
    Run("decrypt.run", {"enter"})}

(* Pair, info, battery, and what follows the question of another tool. *)
DeviceCards == {
    Run("dv.run", {"enter"})}

DeviceApps == {
    Run("dv.apps", {"dv.pick", "enter"}),
    Ask("dv.pick", "pick", "dv.action"),
    Q("dv.action", "pick", {"dv.run", "dv.sure"}, {"enter"}),
    Ask("dv.sure", "no", "dv.uninstall"),
    Run("dv.uninstall", {"enter"})}

DeviceAsks == {
    Ask("dv.install", "require", "dv.run"),
    Ask("dv.launch", "line", "dv.run"),
    Ask("dv.kill", "exact", "dv.run")}

(* An OS version that is not supported, or none, ends it. *)
Omega == {
    Q("omega.version", "line", {"omega", "enter"}, {"enter"}),
    Ask("omega", "exact", "omega.run"),
    Run("omega.run", {"enter"})}

Questions == Levels \cup Inject \cup RunInject \cup Extract \cup Convert \cup Build \cup Cgen
             \cup CyanCheck \cup Fetch \cup Check \cup Cache \cup Decrypt
             \cup DeviceCards \cup DeviceApps \cup DeviceAsks \cup Omega
Tools == [n \in {q.name : q \in Questions} |-> CHOOSE q \in Questions : q.name = n]
Here == Tools[at]
Asked == at \in DOMAIN Tools /\ Here.kind # "run"
Running == at \in DOMAIN Tools /\ Here.kind = "run"
-----------------------------------------------------------------------------
(* Deliberately wrong: every empty answer is met with another chance. *)
NudgesForever(answer) == Here.kind = "require" /\ answer = "empty"
(* requireAnswer asks again after the first empty answer in a row. *)
Nudges(answer) == Here.kind = "require" /\ answer = "empty" /\ ~nudged

(* Deliberately wrong: whatever is not a no is a yes. *)
UnlessNo(answer) ==
    IF answer \in Ways[Here.kind].either THEN Here.on \cup Here.off
    ELSE IF answer \in Ways[Here.kind].off /\ Here.kind # "no" THEN Here.off ELSE Here.on
Ahead(answer) ==
    IF answer \in Ways[Here.kind].either THEN Here.on \cup Here.off
    ELSE IF answer \in Ways[Here.kind].off THEN Here.off ELSE Here.on

(* The syslog starts its goroutines, a run is noted with what started it. *)
Enter(next, answer) ==
    /\ at' = next /\ nudged' = FALSE
    /\ by' = IF next \in DOMAIN Tools /\ Tools[next].kind = "run" THEN answer ELSE "none"
    /\ IF next = "dv.syslog" THEN OpenScreen
       ELSE UNCHANGED <<opened, outputVars, stop, reader>>

Respond(answer) ==
    IF answer \in Ways[Here.kind].again \/ Nudges(answer)
    THEN /\ nudged' = (nudged \/ answer = "empty")
         /\ UNCHANGED <<at, by, opened, outputVars, stop, reader>>
    ELSE \E next \in Ahead(answer) : Enter(next, answer)

(* On two terminals the pickers read keys, everything else reads lines. *)
ByKeys(kind) == tty.in /\ tty.out /\ kind \in {"pick", "multi", "level"}

(* readLine: a line, or "" at the end of the input. *)
ReadAnswer ==
    /\ Asked /\ ~ByKeys(Here.kind) /\ GetsLine
    /\ \E answer \in IF keys > 0 THEN Answers ELSE {"empty"} : Respond(answer)
    /\ UNCHANGED <<tty, eof>>

PickByKeys ==
    /\ Asked /\ ByKeys(Here.kind)
    /\ \E answer \in {"good", "cancel"} : Respond(answer)
    /\ UNCHANGED <<tty, keys, eof>>

RunEnds ==
    /\ Running
    /\ \E next \in Here.on : Enter(next, "none")
    /\ UNCHANGED <<tty, keys, eof>>

SyslogEnds ==
    /\ at = "dv.syslog" /\ screen = "ended"
    /\ Enter("enter", "none")
    /\ UNCHANGED <<tty, keys, eof>>

PressEnterToContinue ==
    /\ at = "enter"
    /\ IF tty.out THEN GetsLine ELSE UNCHANGED keys
    /\ Enter("top", "none")
    /\ UNCHANGED <<tty, eof>>

(* On a terminal the end of the input is an empty line, and input goes on. *)
MenuInputEnds == ~tty.in /\ InputEnds

MenuInit ==
    /\ Init
    /\ at = "top" /\ nudged = FALSE /\ by = "none"
    /\ tty \in [in : BOOLEAN, out : BOOLEAN]

MenuRuns == ReadAnswer \/ SyslogEnds \/ PressEnterToContinue
Beside(A) == A /\ UNCHANGED menuVars

(* A session that is over takes its goroutines with it. *)
MenuNext ==
    /\ at # "bye"
    /\ \/ MenuRuns \/ RunEnds \/ PickByKeys
       \/ Beside(HandlerRuns \/ HandlerWaits \/ ScreenRuns \/ TimerFires
                 \/ PressEnter \/ MenuInputEnds \/ ReaderReturns)

(* Go runs every goroutine that can run and the timer fires.  Nothing      *)
(* makes the device log or answer, the user type, or a run end.  The menu  *)
(* reads what there is.                                                    *)
MenuSpec ==
    /\ MenuInit /\ [][MenuNext]_allVars
    /\ WF_allVars(at # "bye" /\ MenuRuns)
    /\ WF_allVars(at # "bye" /\ Beside(HandlerRuns))
    /\ WF_allVars(at # "bye" /\ Beside(ScreenRuns))
    /\ WF_allVars(at # "bye" /\ Beside(TimerFires))
    /\ WF_allVars(at # "bye" /\ Beside(ReaderReturns))
-----------------------------------------------------------------------------
(* What cannot be taken back is done only after an answer that says so,    *)
(* typed or picked at its own question: an empty line, a word the question *)
(* does not know and the end of the input start none of it, on any way     *)
(* through the menu.                                                       *)
Weighty == {"cache.clear", "decrypt.logout", "dv.uninstall", "omega.run"}
NothingUnasked == at \in Weighty => by = "good"

(* The handler is not left behind on a full channel nobody reads, though   *)
(* the menu goes on.                                                       *)
NotStuckOnChannel == handler = "full" ~> handler # "full" \/ at = "bye"

(* "scripted/closed input exits instead of re-prompting forever" (tui.go   *)
(* 48): once the input has ended the session does, whatever question it    *)
(* ended at and though a reader of an earlier syslog may take lines too,   *)
(* unless a run the menu has started never comes back.                     *)
SessionEnds == eof ~> (at = "bye" \/ []Running)
=============================================================================
