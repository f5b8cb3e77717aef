------------------------------- MODULE Tunnel --------------------------------
(***************************************************************************)
(* The developer-tunnel manager of internal/device/tunnel.go.              *)
(*                                                                         *)
(* Gated operations (install, launch, kill, screenshot on iOS 17+) call    *)
(* ensure(udid): probe the local tunnel endpoint; when nothing answers,    *)
(* take m.mu, join the process registered for the UDID or start one, then  *)
(* poll until coordinates are published, the process exits, the caller's   *)
(* context ends or the readiness budget is spent.  Several goroutines may  *)
(* be inside ensure; m.mu protects only the registry `running`.            *)
(*                                                                         *)
(* The spawned command is `go run <module> tunnel start`: the child we     *)
(* hold a handle on is the go tool (`wrapper`), and the tunnel proper is   *)
(* the go tool's own child (`agent`), which inherits the stderr pipe.      *)
(* Kill reaches the wrapper only, and Wait returns once the wrapper is     *)
(* gone AND nobody holds the pipe.                                         *)
(*                                                                         *)
(* Time is counted in polls: Budget stands for tunnelBudget / tunnelPoll.  *)
(***************************************************************************)
EXTENDS Naturals, FiniteSets

CONSTANTS Callers,   \* goroutines that may call ensure
          UDIDs,     \* devices
          Procs,     \* processes the session can spawn (bounds the spawns)
          Budget,    \* polls before ensure gives up
          NoProc,    \* nil tunnelProc
          NoUDID,    \* no device
          Nobody     \* m.mu is free

ASSUME TunnelAssumption == /\ NoProc \notin Procs
                           /\ NoUDID \notin UDIDs
                           /\ Nobody \notin Callers
                           /\ Budget \in Nat

VARIABLES
  mu,         \* who holds m.mu
  running,    \* m.running: the process registered for each UDID
  base,       \* m.base: "live" or "cancelled"
  closer,     \* the goroutine in Close: "open", "locking", "closed"
  disabled,   \* XKVM_NO_AUTO_TUNNEL is set
  pc,         \* where each caller is inside ensure
  target,     \* ensure's udid argument
  proc,       \* ensure's local variable proc
  polls,      \* polls made in this call
  answer,     \* what ensure returned
  owner,      \* the UDID each process was spawned for
  wrapper,    \* the `go run` process: "unused", "alive", "exited", "killed"
  agent,      \* the tunnel it runs: "none", "starting", "published", "gone"
  done,       \* cmdProc.done: "empty", "full", "drained"
  outside,    \* UDIDs served by a tunnel somebody else started
  overlapped  \* history: UDIDs on which two ensure calls overlapped

registryVars == <<mu, running>>
sessionVars  == <<base, closer, disabled>>
callerVars   == <<pc, target, proc, polls, answer>>
processVars  == <<owner, wrapper, agent, done>>
vars == <<mu, running, base, closer, disabled, pc, target, proc, polls, answer,
          owner, wrapper, agent, done, outside, overlapped>>

Locations == {"idle", "probe", "lock", "locked", "poll", "forget", "stop",
              "done"}

Refusals == {"exited", "timeout", "startFailed", "disabled"}
Answers  == Refusals \cup {"none", "ready"}

-----------------------------------------------------------------------------
(* State functions *)

\* The coordinates the endpoint publishes for u come from an outside tunnel
\* or from an agent of ours.
Published(u) == \/ u \in outside
                \/ \E p \in Procs : owner[p] = u /\ agent[p] = "published"

InEnsure(c) == pc[c] \notin {"idle", "done"}

\* The caller is past the spawn and works with its local variable proc.
Waits(c) == pc[c] \in {"poll", "forget", "stop"}

TypeOK == /\ mu \in Callers \cup {Nobody}
          /\ running \in [UDIDs -> Procs \cup {NoProc}]
          /\ base \in {"live", "cancelled"}
          /\ closer \in {"open", "locking", "closed"}
          /\ disabled \in BOOLEAN
          /\ pc \in [Callers -> Locations]
          /\ target \in [Callers -> UDIDs \cup {NoUDID}]
          /\ \A c \in Callers : InEnsure(c) => target[c] \in UDIDs
          /\ proc \in [Callers -> Procs \cup {NoProc}]
          /\ polls \in [Callers -> 0..Budget]
          /\ answer \in [Callers -> Answers]
          /\ owner \in [Procs -> UDIDs \cup {NoUDID}]
          /\ wrapper \in [Procs -> {"unused", "alive", "exited", "killed"}]
          /\ agent \in [Procs -> {"none", "starting", "published", "gone"}]
          /\ done \in [Procs -> {"empty", "full", "drained"}]
          /\ outside \in SUBSET UDIDs
          /\ overlapped \in SUBSET UDIDs

Init == /\ mu = Nobody
        /\ running = [u \in UDIDs |-> NoProc]
        /\ base = "live"
        /\ closer = "open"
        /\ disabled \in BOOLEAN
        /\ pc = [c \in Callers |-> "idle"]
        /\ target = [c \in Callers |-> NoUDID]
        /\ proc = [c \in Callers |-> NoProc]
        /\ polls = [c \in Callers |-> 0]
        /\ answer = [c \in Callers |-> "none"]
        /\ owner = [p \in Procs |-> NoUDID]
        /\ wrapper = [p \in Procs |-> "unused"]
        /\ agent = [p \in Procs |-> "none"]
        /\ done = [p \in Procs |-> "empty"]
        /\ outside \in SUBSET UDIDs
        /\ overlapped = {}

Goto(c, l) == pc' = [pc EXCEPT ![c] = l]

\* ensure returns r and its locals end.
Return(c, r) == /\ Goto(c, "done")
                /\ answer' = [answer EXCEPT ![c] = r]
                /\ target' = [target EXCEPT ![c] = NoUDID]
                /\ proc' = [proc EXCEPT ![c] = NoProc]
                /\ polls' = [polls EXCEPT ![c] = 0]

\* kill() of a set of processes: SIGKILL to the go tool, nothing to its child.
Kill(S) == wrapper' = [p \in Procs |-> IF p \in S /\ wrapper[p] = "alive"
                                       THEN "killed" ELSE wrapper[p]]

-----------------------------------------------------------------------------
(* Deliberately wrong variants of actions below: what each property catches. *)

\* stopLocked kills the process and leaves it in the registry.
StopKeepsEntry(c) ==
  /\ pc[c] = "stop"
  /\ mu = Nobody
  /\ Kill({running[target[c]]} \ {NoProc})
  /\ Return(c, "timeout")
  /\ UNCHANGED <<mu, running, sessionVars, owner, agent, done, outside,
                 overlapped>>

\* stopLocked deletes the entry (as forget does) and kills nothing.
StopSparesProcess(c) ==
  /\ pc[c] = "stop"
  /\ mu = Nobody
  /\ running' = [running EXCEPT ![target[c]] = NoProc]
  /\ Return(c, "timeout")
  /\ UNCHANGED <<mu, sessionVars, processVars, outside, overlapped>>

\* A second caller starts a process of its own beside the registered one.
SpawnAnyway(c, p) ==
  /\ pc[c] = "locked"
  /\ base = "live"
  /\ wrapper[p] = "unused"
  /\ wrapper' = [wrapper EXCEPT ![p] = "alive"]
  /\ owner' = [owner EXCEPT ![p] = target[c]]
  /\ proc' = [proc EXCEPT ![c] = p]
  /\ running' = [running EXCEPT ![target[c]] = IF @ = NoProc THEN p ELSE @]
  /\ mu' = Nobody
  /\ Goto(c, "poll")
  /\ UNCHANGED <<sessionVars, target, polls, answer, agent, done, outside,
                 overlapped>>

\* The early return after a failed start forgets m.mu.Unlock().
StartFailsLocked(c) ==
  /\ pc[c] = "locked"
  /\ running[target[c]] = NoProc
  /\ Return(c, "startFailed")
  /\ UNCHANGED <<registryVars, sessionVars, processVars, outside, overlapped>>

\* Close forgets m.cancel().
CloseWithoutCancel ==
  /\ closer = "open"
  /\ closer' = "locking"
  /\ UNCHANGED <<registryVars, base, disabled, callerVars, processVars, outside,
                 overlapped>>

-----------------------------------------------------------------------------
(* ensure, as one caller runs it *)

\* A gated operation calls ensure.  No command does so once it has closed the
\* session.
Call(c, u) ==
  /\ pc[c] = "idle"
  /\ closer = "open"
  /\ Goto(c, "probe")
  /\ target' = [target EXCEPT ![c] = u]
  /\ overlapped' = IF \E d \in Callers : InEnsure(d) /\ target[d] = u
                   THEN overlapped \cup {u} ELSE overlapped
  /\ UNCHANGED <<registryVars, sessionVars, proc, polls, answer, processVars,
                 outside>>

\* m.info finds coordinates: at once, or in a later poll.
Ready(c) ==
  /\ pc[c] \in {"probe", "poll"}
  /\ Published(target[c])
  /\ Return(c, "ready")
  /\ UNCHANGED <<registryVars, sessionVars, processVars, outside, overlapped>>

\* The first probe fails: no tunnel, or an answer that was late or malformed.
Disabled(c) ==
  /\ pc[c] = "probe"
  /\ disabled
  /\ Return(c, "disabled")
  /\ UNCHANGED <<registryVars, sessionVars, processVars, outside, overlapped>>

NotUp(c) ==
  /\ pc[c] = "probe"
  /\ ~disabled
  /\ Goto(c, "lock")
  /\ UNCHANGED <<registryVars, sessionVars, target, proc, polls, answer,
                 processVars, outside, overlapped>>

Acquire(c) ==
  /\ pc[c] = "lock"
  /\ mu = Nobody
  /\ mu' = c
  /\ Goto(c, "locked")
  /\ UNCHANGED <<running, sessionVars, target, proc, polls, answer,
                 processVars, outside, overlapped>>

\* A process is registered for the device: wait for that one.
Join(c) ==
  /\ pc[c] = "locked"
  /\ running[target[c]] # NoProc
  /\ proc' = [proc EXCEPT ![c] = running[target[c]]]
  /\ mu' = Nobody
  /\ Goto(c, "poll")
  /\ UNCHANGED <<running, sessionVars, target, polls, answer, processVars,
                 outside, overlapped>>

\* None is registered: spawn one, bound to m.base, and register it.
Spawn(c, p) ==
  /\ pc[c] = "locked"
  /\ running[target[c]] = NoProc
  /\ base = "live"
  /\ wrapper[p] = "unused"
  /\ wrapper' = [wrapper EXCEPT ![p] = "alive"]
  /\ owner' = [owner EXCEPT ![p] = target[c]]
  /\ running' = [running EXCEPT ![target[c]] = p]
  /\ proc' = [proc EXCEPT ![c] = p]
  /\ mu' = Nobody
  /\ Goto(c, "poll")
  /\ UNCHANGED <<sessionVars, target, polls, answer, agent, done, outside,
                 overlapped>>

\* The go tool is not on PATH, the fork fails, or m.base has been cancelled.
StartFails(c) ==
  /\ pc[c] = "locked"
  /\ running[target[c]] = NoProc
  /\ mu' = Nobody
  /\ Return(c, "startFailed")
  /\ UNCHANGED <<running, sessionVars, processVars, outside, overlapped>>

\* One round of the loop is one step: a probe may miss at any time, so nothing
\* is lost by taking the checks that follow it together with it.
\* exitErr takes the single value out of p.done: no other caller will see it.
SeesExit(c) ==
  /\ pc[c] = "poll"
  /\ done[proc[c]] = "full"
  /\ done' = [done EXCEPT ![proc[c]] = "drained"]
  /\ Goto(c, "forget")
  /\ UNCHANGED <<registryVars, sessionVars, target, proc, polls, answer, owner,
                 wrapper, agent, outside, overlapped>>

\* forget deletes whatever is registered under the UDID by now.
Forget(c) ==
  /\ pc[c] = "forget"
  /\ mu = Nobody
  /\ running' = [running EXCEPT ![target[c]] = NoProc]
  /\ Return(c, "exited")
  /\ UNCHANGED <<mu, sessionVars, processVars, outside, overlapped>>

\* The operation's context has ended; the process is left to a later call.
CtxDone(c) ==
  /\ pc[c] = "poll"
  /\ done[proc[c]] # "full"
  /\ Return(c, "timeout")
  /\ UNCHANGED <<registryVars, sessionVars, processVars, outside, overlapped>>

\* Within the budget: sleep, then round the loop.
PollAgain(c) ==
  /\ pc[c] = "poll"
  /\ done[proc[c]] # "full"
  /\ polls[c] < Budget
  /\ polls' = [polls EXCEPT ![c] = @ + 1]
  /\ UNCHANGED <<registryVars, sessionVars, pc, target, proc, answer,
                 processVars, outside, overlapped>>

BudgetSpent(c) ==
  /\ pc[c] = "poll"
  /\ done[proc[c]] # "full"
  /\ polls[c] = Budget
  /\ Goto(c, "stop")
  /\ UNCHANGED <<registryVars, sessionVars, target, proc, polls, answer,
                 processVars, outside, overlapped>>

\* stopLocked kills and deletes whatever is registered under the UDID by now.
Stop(c) ==
  /\ pc[c] = "stop"
  /\ mu = Nobody
  /\ Kill({running[target[c]]} \ {NoProc})
  /\ running' = [running EXCEPT ![target[c]] = NoProc]
  /\ Return(c, "timeout")
  /\ UNCHANGED <<mu, sessionVars, owner, agent, done, outside, overlapped>>

\* The operation takes the answer; a later one may call ensure again.
Collect(c) ==
  /\ pc[c] = "done"
  /\ Goto(c, "idle")
  /\ answer' = [answer EXCEPT ![c] = "none"]
  /\ UNCHANGED <<registryVars, sessionVars, target, proc, polls, processVars,
                 outside, overlapped>>

-----------------------------------------------------------------------------
(* Close *)

CloseCancel ==
  /\ closer = "open"
  /\ closer' = "locking"
  /\ base' = "cancelled"
  /\ UNCHANGED <<registryVars, disabled, callerVars, processVars, outside,
                 overlapped>>

CloseKill ==
  /\ closer = "locking"
  /\ mu = Nobody
  /\ Kill({running[u] : u \in UDIDs} \ {NoProc})
  /\ running' = [u \in UDIDs |-> NoProc]
  /\ closer' = "closed"
  /\ UNCHANGED <<mu, base, disabled, callerVars, owner, agent, done, outside,
                 overlapped>>

-----------------------------------------------------------------------------
(* The spawned processes and the rest of the machine *)

\* os/exec's watcher: CommandContext kills the child when its context ends.
ContextKills(p) ==
  /\ base = "cancelled"
  /\ wrapper[p] = "alive"
  /\ Kill({p})
  /\ UNCHANGED <<registryVars, sessionVars, callerVars, owner, agent, done,
                 outside, overlapped>>

\* The goroutine in cmd.Wait: the go tool is gone and the pipe is closed.
Waited(p) ==
  /\ wrapper[p] \in {"exited", "killed"}
  /\ agent[p] \in {"none", "gone"}
  /\ done[p] = "empty"
  /\ done' = [done EXCEPT ![p] = "full"]
  /\ UNCHANGED <<registryVars, sessionVars, callerVars, owner, wrapper, agent,
                 outside, overlapped>>

\* The go tool has built the module and starts it.
AgentStarts(p) ==
  /\ wrapper[p] = "alive"
  /\ agent[p] = "none"
  /\ agent' = [agent EXCEPT ![p] = "starting"]
  /\ UNCHANGED <<registryVars, sessionVars, callerVars, owner, wrapper, done,
                 outside, overlapped>>

AgentPublishes(p) ==
  /\ agent[p] = "starting"
  /\ agent' = [agent EXCEPT ![p] = "published"]
  /\ UNCHANGED <<registryVars, sessionVars, callerVars, owner, wrapper, done,
                 outside, overlapped>>

\* The device is unplugged, the port is taken, or the agent crashes.
AgentExits(p) ==
  /\ agent[p] \in {"starting", "published"}
  /\ agent' = [agent EXCEPT ![p] = "gone"]
  /\ UNCHANGED <<registryVars, sessionVars, callerVars, owner, wrapper, done,
                 outside, overlapped>>

\* The go tool ends by itself: the build failed or the agent has ended.
WrapperExits(p) ==
  /\ wrapper[p] = "alive"
  /\ agent[p] \in {"none", "gone"}
  /\ wrapper' = [wrapper EXCEPT ![p] = "exited"]
  /\ UNCHANGED <<registryVars, sessionVars, callerVars, owner, agent, done,
                 outside, overlapped>>

OutsideChanges(u) ==
  /\ outside' = IF u \in outside THEN outside \ {u} ELSE outside \cup {u}
  /\ UNCHANGED <<registryVars, sessionVars, callerVars, processVars, overlapped>>

-----------------------------------------------------------------------------

\* The steps of ensure that its goroutine takes by itself.
Ensure(c) ==
  \/ Ready(c)
  \/ Disabled(c)
  \/ NotUp(c)
  \/ Acquire(c)
  \/ Join(c)
  \/ \E p \in Procs : Spawn(c, p)
  \/ StartFails(c)
  \/ SeesExit(c)
  \/ Forget(c)
  \/ CtxDone(c)
  \/ PollAgain(c)
  \/ BudgetSpent(c)
  \/ Stop(c)

Caller(c) ==
  \/ \E u \in UDIDs : Call(c, u)
  \/ Ensure(c)
  \/ Collect(c)

Process(p) ==
  \/ ContextKills(p)
  \/ Waited(p)
  \/ AgentStarts(p)
  \/ AgentPublishes(p)
  \/ AgentExits(p)
  \/ WrapperExits(p)

Next ==
  \/ \E c \in Callers : Caller(c)
  \/ \E p \in Procs : Process(p)
  \/ \E u \in UDIDs : OutsideChanges(u)
  \/ CloseCancel
  \/ CloseKill

\* A goroutine inside ensure keeps running and a sync.Mutex waiter is not
\* starved (SF on the steps that lock: Go's mutex hands over to a waiter after
\* 1 ms); a started Close goes on and os/exec's watcher runs.  The spawned
\* processes promise nothing.
Fairness == /\ \A c \in Callers : WF_vars(Ensure(c))
            /\ \A c \in Callers : SF_vars(Acquire(c) \/ Forget(c) \/ Stop(c))
            /\ SF_vars(CloseKill)
            /\ \A p \in Procs : WF_vars(ContextKills(p))

Spec == Init /\ [][Next]_vars
FairSpec == Spec /\ Fairness

-----------------------------------------------------------------------------
(* Correctness *)

\* What the registry holds is usable: the process registered for a device was
\* spawned for that device, and until Close cancels the session no process
\* the manager has killed is handed to a later caller.
RegistryHonest ==
  \A u \in UDIDs : running[u] # NoProc =>
    /\ owner[running[u]] = u
    /\ base = "live" => wrapper[running[u]] # "killed"

\* forget and stopLocked go by UDID, not by process.  That is sound as long as
\* the calls on a device never overlapped: whoever is about to forget or stop
\* the entry finds the very process it has been waiting on there.
WaitsOnRegistered ==
  base = "live" =>
    \A c \in Callers : Waits(c) /\ target[c] \notin overlapped =>
      running[target[c]] = proc[c]

\* The session loses sight of a live process only on a device where two calls
\* overlapped (one of them forgets or kills the successor of the process it
\* waited on).  Everywhere else a process that runs is registered, so there is
\* at most one per device.
Tracked ==
  base = "live" =>
    \A p \in Procs : wrapper[p] = "alive" /\ owner[p] \notin overlapped =>
      running[owner[p]] = p

\* Close ends every go tool this session started, the ones the registry lost
\* sight of and one that a concurrent ensure is starting included.
CloseEndsWrappers ==
  closer = "closed" ~> [](\A p \in Procs : wrapper[p] # "alive")

\* Every call of ensure is answered once, and "ready" only while the device is
\* reachable: the manager implements TunnelService.
Service == INSTANCE TunnelService WITH
  reachable <- {u \in UDIDs : Published(u)},
  call <- [c \in Callers |->
             IF pc[c] = "idle" THEN [state |-> "idle"]
             ELSE IF pc[c] = "done"
                  THEN [state |-> "answered", result |-> answer[c]]
                  ELSE [state |-> "waiting", udid |-> target[c]]]

ImplementsService == Service!Spec

\* The comment on Close ("tears down every tunnel this session spawned") and
\* the one on goIOSModuleRef ("Tunnels die with the xkvm process"): once Close
\* has returned, no operation is in flight and every go tool is gone, no tunnel
\* is left.
\* Not checked by a run: the code violates it, see the README.
CloseTearsDown ==
  /\ closer = "closed"
  /\ \A c \in Callers : ~InEnsure(c)
  /\ \A p \in Procs : wrapper[p] # "alive"
  => \A p \in Procs : agent[p] \in {"none", "gone"}

==============================================================================
