------------------------------ MODULE DeviceOps ------------------------------
(***************************************************************************)
(* The gated device operations of internal/device/goios.go: Install,       *)
(* Launch, Kill and Screenshot share one shape.  Resolve the device entry  *)
(* (through a published tunnel if there is one), run the body under the    *)
(* operation timeout, and when the device answers with the iOS 17 service  *)
(* gate, make sure a tunnel is up and run the body once more over it.      *)
(* Only the body is under the timeout: the lookups of the device entry run *)
(* on the operation's own goroutine and may never come back.               *)
(*                                                                         *)
(* run() cannot cancel go-ios: on a timeout it abandons the goroutine that *)
(* executes the body, which goes on and may still take effect on the       *)
(* device.  One handler serves the operations of a session one after the   *)
(* other (one in a CLI command, many in the menu), so a goroutine left     *)
(* behind by one operation runs beside the next.                           *)
(*                                                                         *)
(* The tunnel manager is TunnelService, which module Tunnel implements.    *)
(***************************************************************************)
EXTENDS Naturals, FiniteSets

CONSTANTS Udid,     \* the device the session talks to
          MaxOps    \* operations in a session (bounds the menu's loop)

ASSUME DeviceOpsAssumption == MaxOps \in Nat \ {0}

VARIABLES
  pc,         \* where the operation in progress stands
  n,          \* its number, 0 before the first
  route,      \* each operation's device entry: "plain" or "tunnel"
  worker,     \* the goroutines run() started for each operation
  applied,    \* how many times each operation took effect on the device
  reply,      \* what each operation returned
  cause,      \* the error underneath: of the first attempt, always
  device,     \* iOS major version, developer image mounted
  reachable,  \* TunnelService: UDIDs with published coordinates
  call        \* TunnelService: the one caller's call of ensure

session == "session"
ops == 1..MaxOps

Service == INSTANCE TunnelService WITH Callers <- {session}, UDIDs <- {Udid}

opVars == <<pc, n, route, worker, applied, reply, cause, device>>
vars == <<pc, n, route, worker, applied, reply, cause, device,
          reachable, call>>

Jobs == {"first", "version", "retry"}
Bodies == {"first", "retry"}

\* A goroutine is "dialing" until the service accepts or refuses it, "applied"
\* between the effect and the answer, and then has a result.
Results == {"ok", "gate", "error"}
WorkerStates == {"none", "dialing", "applied"} \cup Results
Replies == {"none", "ok", "manual", "failed"}
Causes  == {"none", "gate", "error", "timeout", "noDevice"}

TypeOK == /\ pc \in {"idle", "entry", "first", "info", "version", "ensure",
                     "asking", "reentry", "retry"}
          /\ n \in 0..MaxOps
          /\ route \in [ops -> {"plain", "tunnel"}]
          /\ worker \in [ops -> [Jobs -> WorkerStates]]
          /\ applied \in [ops -> 0..2]
          /\ reply \in [ops -> Replies]
          /\ cause \in [ops -> Causes]
          /\ device \in [major : {16, 17}, mounted : BOOLEAN]
          /\ reachable \in SUBSET {Udid}
          /\ call \in [{session} ->
                         {Service!Idle, Service!Waiting(Udid)} \cup
                         {Service!Answered(r) :
                            r \in Service!Refusals \cup {"ready"}}]

Init == /\ pc = "idle"
        /\ n = 0
        /\ route = [i \in ops |-> "plain"]
        /\ worker = [i \in ops |-> [j \in Jobs |-> "none"]]
        /\ applied = [i \in ops |-> 0]
        /\ reply = [i \in ops |-> "none"]
        /\ cause = [i \in ops |-> "none"]
        /\ device \in [major : {16, 17}, mounted : BOOLEAN]
        /\ Service!Init

\* Instruments, the install conduit and screenshots: behind the developer
\* tunnel from iOS 17 on, behind the Developer Disk Image before.
Gated(r) == IF device.major >= 17 THEN r = "plain" \/ Udid \notin reachable
                                  ELSE ~device.mounted

Reply(r, why) == /\ reply' = [reply EXCEPT ![n] = r]
                 /\ cause' = [cause EXCEPT ![n] = why]
                 /\ pc' = "idle"

SetWorker(i, j, s) == worker' = [worker EXCEPT ![i][j] = s]

-----------------------------------------------------------------------------
(* Deliberately wrong variants of actions below: what each property catches. *)

\* A timeout is taken for the gate and the body is run again.
TimeoutIsGate ==
  /\ pc = "first"
  /\ pc' = "ensure"
  /\ UNCHANGED <<n, route, worker, applied, reply, cause, device,
                 reachable, call>>

\* run waits for the body without a timeout.
NoTimeout == FALSE /\ UNCHANGED vars

\* The result of the body is not waited for.
FirstOkEarly ==
  /\ pc = "first"
  /\ Reply("ok", "none")
  /\ UNCHANGED <<n, route, worker, applied, device, reachable, call>>

-----------------------------------------------------------------------------
(* The operation *)

StartOp ==
  /\ pc = "idle"
  /\ n < MaxOps
  /\ n' = n + 1
  /\ pc' = "entry"
  /\ UNCHANGED <<route, worker, applied, reply, cause, device,
                 reachable, call>>

\* tunneledEntry comes back: through the tunnel when its coordinates are
\* published and usable, otherwise with the plain entry.  The device list and
\* the RSD handshake are waited for without a timeout; the body is then started
\* in a goroutine of its own.
Resolve(from, to, job) ==
  /\ pc = from
  /\ \/ route' = [route EXCEPT ![n] = "plain"]
     \/ Udid \in reachable /\ route' = [route EXCEPT ![n] = "tunnel"]
  /\ SetWorker(n, job, "dialing")
  /\ pc' = to
  /\ UNCHANGED <<n, applied, reply, cause, device, reachable, call>>

FirstAttempt == Resolve("entry", "first", "first")

\* The device may have been unplugged.
NoDevice ==
  /\ pc = "entry"
  /\ Reply("failed", "noDevice")
  /\ UNCHANGED <<n, route, worker, applied, device, reachable, call>>

\* run returns the body's result: success, the gate, or another error.
FirstOk ==
  /\ pc = "first"
  /\ worker[n]["first"] = "ok"
  /\ Reply("ok", "none")
  /\ UNCHANGED <<n, route, worker, applied, device, reachable, call>>

FirstFails ==
  /\ pc = "first"
  /\ worker[n]["first"] = "error"
  /\ Reply("failed", "error")
  /\ UNCHANGED <<n, route, worker, applied, device, reachable, call>>

\* run gives up on the body; the timeout does not look like the gate.
FirstTimesOut ==
  /\ pc = "first"
  /\ Reply("failed", "timeout")
  /\ UNCHANGED <<n, route, worker, applied, device, reachable, call>>

\* tunnelGate holds: tunnelReady looks the device up once more, to ask for its
\* iOS version.
FirstGated ==
  /\ pc = "first"
  /\ worker[n]["first"] = "gate"
  /\ pc' = "info"
  /\ UNCHANGED <<n, route, worker, applied, reply, cause, device,
                 reachable, call>>

\* Info asks in another goroutine, unless the device cannot be found any more.
InfoLookup ==
  /\ pc = "info"
  /\ \/ pc' = "version" /\ SetWorker(n, "version", "dialing")
     \/ pc' = "ensure" /\ UNCHANGED worker
  /\ UNCHANGED <<n, route, applied, reply, cause, device, reachable,
                 call>>

\* iOS 16 and older: a tunnel cannot help.
VersionTooOld ==
  /\ pc = "version"
  /\ worker[n]["version"] = "ok"
  /\ device.major < 17
  /\ Reply("failed", "gate")
  /\ UNCHANGED <<n, route, worker, applied, device, reachable, call>>

\* iOS 17 and later, or no answer on the version (an error or a timeout).
VersionAllows ==
  /\ pc = "version"
  /\ worker[n]["version"] = "ok" => device.major >= 17
  /\ pc' = "ensure"
  /\ UNCHANGED <<n, route, worker, applied, reply, cause, device,
                 reachable, call>>

AskTunnel ==
  /\ pc = "ensure"
  /\ Service!Request(session, Udid)
  /\ pc' = "asking"
  /\ UNCHANGED <<n, route, worker, applied, reply, cause, device>>

\* tunnelReady is false: the error of the first attempt is wrapped with the
\* operation's own hint.
TunnelRefused ==
  /\ pc = "asking"
  /\ \E r \in Service!Refusals : call[session] = Service!Answered(r)
  /\ Service!Collect(session)
  /\ Reply("failed", "gate")
  /\ UNCHANGED <<n, route, worker, applied, device>>

TunnelIsReady ==
  /\ pc = "asking"
  /\ call[session] = Service!Answered("ready")
  /\ Service!Collect(session)
  /\ pc' = "reentry"
  /\ UNCHANGED <<n, route, worker, applied, reply, cause, device>>

Retry == Resolve("reentry", "retry", "retry")

\* The device is gone, or the second attempt fails in whatever way: the error
\* of the FIRST attempt is returned, with the manual tunnel instructions.
DeviceLost ==
  /\ pc = "reentry"
  /\ Reply("manual", "gate")
  /\ UNCHANGED <<n, route, worker, applied, device, reachable, call>>

RetryLost ==
  /\ pc = "retry"
  /\ worker[n]["retry"] \in {"gate", "error"}
  /\ Reply("manual", "gate")
  /\ UNCHANGED <<n, route, worker, applied, device, reachable, call>>

RetryTimesOut ==
  /\ pc = "retry"
  /\ Reply("manual", "gate")
  /\ UNCHANGED <<n, route, worker, applied, device, reachable, call>>

RetryOk ==
  /\ pc = "retry"
  /\ worker[n]["retry"] = "ok"
  /\ Reply("ok", "none")
  /\ UNCHANGED <<n, route, worker, applied, device, reachable, call>>

-----------------------------------------------------------------------------
(* The goroutines, awaited or abandoned *)

WorkerStep(i, j, from, to) ==
  /\ worker[i][j] = from
  /\ SetWorker(i, j, to)
  /\ UNCHANGED <<pc, n, route, reply, cause, device, reachable, call>>

\* The service is refused before anything is done.
BodyGated(i, j) ==
  /\ j \in Bodies
  /\ Gated(route[i])
  /\ WorkerStep(i, j, "dialing", "gate")
  /\ UNCHANGED applied

\* The device performs the operation.
BodyApplies(i, j) ==
  /\ j \in Bodies
  /\ ~Gated(route[i])
  /\ WorkerStep(i, j, "dialing", "applied")
  /\ applied' = [applied EXCEPT ![i] = @ + 1]

BodyAnswers(i, j) ==
  /\ j \in Bodies
  /\ \/ WorkerStep(i, j, "applied", "ok")
     \/ WorkerStep(i, j, "applied", "error")
  /\ UNCHANGED applied

WorkerFails(i, j) ==
  /\ WorkerStep(i, j, "dialing", "error")
  /\ UNCHANGED applied

VersionAnswers(i) ==
  /\ WorkerStep(i, "version", "dialing", "ok")
  /\ UNCHANGED applied

-----------------------------------------------------------------------------

TunnelAnswers == Service!Answer(session) /\ UNCHANGED opVars
TunnelsChange == Service!Environment /\ UNCHANGED opVars

\* The lookups of the device entry: usbmuxd's device list and, through a
\* tunnel, a connection and a handshake with it.
Lookups == FirstAttempt \/ NoDevice \/ InfoLookup \/ Retry \/ DeviceLost

\* What the operation's goroutine does by itself when it is not in a lookup.
\* The timeouts of run() are part of it: time.After always fires.
Awaits ==
  \/ FirstOk \/ FirstFails \/ FirstTimesOut \/ FirstGated
  \/ VersionTooOld \/ VersionAllows
  \/ AskTunnel \/ TunnelRefused \/ TunnelIsReady
  \/ RetryLost \/ RetryTimesOut \/ RetryOk

Operation == Lookups \/ Awaits

Worker(i) ==
  \/ \E j \in Jobs : \/ BodyGated(i, j)
                     \/ BodyApplies(i, j)
                     \/ BodyAnswers(i, j)
                     \/ WorkerFails(i, j)
  \/ VersionAnswers(i)

Next == \/ StartOp
        \/ Operation
        \/ \E i \in ops : Worker(i)
        \/ TunnelAnswers
        \/ TunnelsChange

\* The operation's goroutine runs, and the tunnel manager answers (checked of
\* Tunnel under its own fairness).  Nothing is assumed of the goroutines inside
\* go-ios, nor of the lookups: no context, timeout or run() bounds the calls
\* they make.
Spec == Init /\ [][Next]_vars
FairSpec == Spec /\ WF_vars(Awaits) /\ WF_vars(TunnelAnswers)

-----------------------------------------------------------------------------
(* Correctness *)

\* The retry never repeats what the first attempt did: an operation takes
\* effect on the device at most once, abandoned goroutines included, and one
\* that reports success has taken effect by then.
AppliedAsReported ==
  \A i \in ops : /\ applied[i] <= 1
                 /\ reply[i] = "ok" => applied[i] = 1

\* After the reply nothing of the operation can still take effect, except when
\* run gave up on a body: the first attempt timed out, or the retry did (which
\* the reply, built from the first attempt's error, does not say).
Pending(i) == {j \in Bodies : worker[i][j] = "dialing"}

NoLateEffect ==
  \A i \in ops : reply[i] # "none" =>
    /\ "first" \in Pending(i) => cause[i] = "timeout"
    /\ "retry" \in Pending(i) => reply[i] = "manual"
    /\ reply[i] = "ok" => Pending(i) = {}

\* Every operation that is started returns, whatever the device or go-ios does,
\* unless one of the lookups outside run() never comes back: that hang is the
\* only one, since the gate, the version, the tunnel and the second attempt are
\* each waited for with a bound.
LookingUp == pc \in {"entry", "info", "reentry"}

OperationsReturn ==
  \A i \in ops : n = i ~> (reply[i] # "none" \/ []LookingUp)

==============================================================================
