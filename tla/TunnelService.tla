---------------------------- MODULE TunnelService ----------------------------
(***************************************************************************)
(* What tunnelManager.ensure (device/tunnel.go) promises the gated device  *)
(* operations that call it, with no word on processes, locks or budgets:   *)
(* a call is answered exactly once, "ready" only while the device is       *)
(* reachable through somebody's tunnel, and every call is answered.        *)
(* Module Tunnel is shown to implement it; module DeviceOps relies on it.  *)
(***************************************************************************)
CONSTANTS Callers,      \* goroutines that may be inside ensure
          UDIDs         \* the devices

VARIABLES reachable,    \* the UDIDs for which tunnel coordinates are published
          call          \* [Callers -> Idle, Waiting(u) or Answered(r)]

serviceVars == <<reachable, call>>

Refusals == {"exited", "timeout", "startFailed", "disabled"}

Idle        == [state |-> "idle"]
Waiting(u)  == [state |-> "waiting", udid |-> u]
Answered(r) == [state |-> "answered", result |-> r]

Init == /\ reachable \in SUBSET UDIDs
        /\ call = [c \in Callers |-> Idle]

Request(c, u) == /\ call[c] = Idle
                 /\ call' = [call EXCEPT ![c] = Waiting(u)]
                 /\ UNCHANGED reachable

AnswerReady(c, u) == /\ call[c] = Waiting(u)
                     /\ u \in reachable
                     /\ call' = [call EXCEPT ![c] = Answered("ready")]
                     /\ UNCHANGED reachable

Refuse(c, u) == /\ call[c] = Waiting(u)
                /\ \E r \in Refusals : call' = [call EXCEPT ![c] = Answered(r)]
                /\ UNCHANGED reachable

Collect(c) == /\ call[c].state = "answered"
              /\ call' = [call EXCEPT ![c] = Idle]
              /\ UNCHANGED reachable

\* Tunnels come and go under the callers' feet.
Environment == /\ reachable' \in SUBSET UDIDs
               /\ UNCHANGED call

Answer(c) == \E u \in UDIDs : AnswerReady(c, u) \/ Refuse(c, u)

Next == \/ \E c \in Callers : \/ \E u \in UDIDs : Request(c, u)
                              \/ Answer(c)
                              \/ Collect(c)
        \/ Environment

Safety == Init /\ [][Next]_serviceVars

Spec == Safety /\ \A c \in Callers : WF_serviceVars(Answer(c))
==============================================================================
