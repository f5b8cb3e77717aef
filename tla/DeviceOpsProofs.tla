--------------------------- MODULE DeviceOpsProofs ---------------------------
(***************************************************************************)
(* For any number of operations in a session, with the goroutines run()    *)
(* abandons going on beside later ones: an operation takes effect at most  *)
(* once, success is reported only of what has happened, and what can still *)
(* happen after a reply is what a timeout has left behind.                 *)
(***************************************************************************)
EXTENDS DeviceOps, TLAPS

(* The attempt that may have reached the device: the first one, unless the *)
(* gate refused it and there is a second.                                  *)
Last(i) == IF worker[i]["retry"] = "none" THEN worker[i]["first"]
                                          ELSE worker[i]["retry"]

(* The effect is told by the last attempt alone. *)
EffectInv(i) ==
  /\ worker[i]["retry"] # "none" => worker[i]["first"] = "gate"
  /\ applied[i] \in 0..1
  /\ Last(i) \in {"none", "dialing", "gate"} => applied[i] = 0
  /\ Last(i) \in {"applied", "ok"} => applied[i] = 1

(* An operation that has returned left nothing it did not account for. *)
ReplyInv(i) ==
  /\ reply[i] = "ok" => Last(i) = "ok"
  /\ reply[i] # "none" =>
       /\ worker[i]["first"] = "dialing" => cause[i] = "timeout"
       /\ worker[i]["retry"] = "dialing" => reply[i] = "manual"

(* An operation that has not begun has started nothing. *)
Fresh(i) == /\ worker[i]["first"] = "none"
            /\ worker[i]["retry"] = "none"
            /\ reply[i] = "none"

(* What the goroutines of the operation in progress have come to. *)
ProgressInv ==
  /\ \A i \in ops : i > n => Fresh(i)
  /\ pc # "idle" => n \in ops /\ reply[n] = "none"
  /\ pc = "entry" => Fresh(n)
  /\ pc = "first" => worker[n]["retry"] = "none"
  /\ pc \in {"info", "version", "ensure", "asking", "reentry", "retry"} =>
       worker[n]["first"] = "gate"
  /\ pc \in {"info", "version", "ensure", "asking", "reentry"} =>
       worker[n]["retry"] = "none"

OpsInv == /\ TypeOK
          /\ \A i \in ops : EffectInv(i) /\ ReplyInv(i)
          /\ ProgressInv

-----------------------------------------------------------------------------
(* Lemmas: what each kind of step does to the records of the operations. *)

LEMMA WorkerSet ==
  ASSUME TypeOK, NEW i \in ops, NEW j \in Jobs, NEW s \in WorkerStates,
         SetWorker(i, j, s)
  PROVE  /\ worker' \in [ops -> [Jobs -> WorkerStates]]
         /\ \A k \in ops, l \in Jobs :
              worker'[k][l] = IF k = i /\ l = j THEN s ELSE worker[k][l]
  BY DEF SetWorker, TypeOK

(* The tunnel manager's side of a step. *)
ServiceType ==
  /\ reachable \in SUBSET {Udid}
  /\ call \in [{session} ->
       {Service!Idle, Service!Waiting(Udid)} \cup
       {Service!Answered(r) : r \in Service!Refusals \cup {"ready"}}]

LEMMA ServiceStep ==
  ASSUME ServiceType,
         \/ Service!Request(session, Udid) \/ Service!Answer(session)
         \/ Service!Collect(session) \/ Service!Environment
  PROVE  ServiceType'
  BY DEF ServiceType, Service!Request, Service!Answer, Service!AnswerReady,
         Service!Refuse, Service!Collect, Service!Environment, Service!Idle,
         Service!Waiting, Service!Answered, Service!Refusals

(* A step of the operation that starts no goroutine and does not reply. *)
LEMMA QuietStep ==
  ASSUME OpsInv, pc # "idle", ServiceType',
         UNCHANGED <<n, worker, applied, reply, cause, device, route>>,
         pc' \in {"info", "ensure", "asking", "reentry"},
         \/ pc \in {"info", "version", "ensure", "asking", "reentry"}
         \/ pc = "first" /\ worker[n]["first"] = "gate"
  PROVE  OpsInv'
  <1>1. TypeOK'
    BY DEF OpsInv, TypeOK, ServiceType
  <1>2. ProgressInv'
    BY DEF OpsInv, ProgressInv, Fresh
  <1>3. \A i \in ops : EffectInv(i)' /\ ReplyInv(i)'
    BY DEF OpsInv, EffectInv, ReplyInv, Last
  <1>. QED BY <1>1, <1>2, <1>3 DEF OpsInv

(* The operation returns. *)
LEMMA ReplyStep ==
  ASSUME OpsInv, pc # "idle", ServiceType',
         UNCHANGED <<n, worker, applied, device, route>>,
         NEW r \in Replies \ {"none"}, NEW why \in Causes, Reply(r, why),
         r = "ok" => Last(n) = "ok",
         worker[n]["first"] = "dialing" => why = "timeout",
         worker[n]["retry"] = "dialing" => r = "manual"
  PROVE  OpsInv'
  <1>0. n \in ops /\ n \in Nat
    BY DEF OpsInv, ProgressInv, ops
  <1>1. TypeOK'
    BY <1>0 DEF OpsInv, TypeOK, ServiceType, Reply
  <1>2. /\ \A i \in ops : i # n => reply'[i] = reply[i] /\ cause'[i] = cause[i]
        /\ reply'[n] = r /\ cause'[n] = why /\ pc' = "idle"
    BY <1>0 DEF Reply, OpsInv, TypeOK
  <1>3. ProgressInv'
    BY <1>0, <1>2 DEF OpsInv, ProgressInv, Fresh, ops
  <1>4. ASSUME NEW i \in ops PROVE EffectInv(i)' /\ ReplyInv(i)'
    <2>1. CASE i = n
      BY <1>2, <2>1 DEF OpsInv, EffectInv, ReplyInv, Last
    <2>2. CASE i # n
      BY <1>2, <2>2 DEF OpsInv, EffectInv, ReplyInv, Last
    <2>. QED BY <2>1, <2>2
  <1>. QED BY <1>1, <1>3, <1>4 DEF OpsInv

(* A goroutine goes on, whether its operation waits for it or not. *)
LEMMA WorkerGoesOn ==
  ASSUME OpsInv, NEW i \in ops, NEW j \in Jobs, NEW s \in WorkerStates,
         SetWorker(i, j, s),
         UNCHANGED <<pc, n, route, reply, cause, device, reachable, call>>,
         \/ /\ j \in Bodies /\ worker[i][j] = "dialing" /\ s = "applied"
            /\ applied' = [applied EXCEPT ![i] = @ + 1]
         \/ /\ UNCHANGED applied
            /\ \/ worker[i][j] = "dialing" /\ s \in {"gate", "error"} 
               \/ worker[i][j] = "applied" /\ s \in {"ok", "error"}
               \/ j = "version"
  PROVE  OpsInv'
  <1>1. /\ worker' \in [ops -> [Jobs -> WorkerStates]]
        /\ \A k \in ops, l \in Jobs :
             worker'[k][l] = IF k = i /\ l = j THEN s ELSE worker[k][l]
    BY WorkerSet DEF OpsInv
  <1>2. PICK a \in 0..1 : a = applied[i]
    BY DEF OpsInv, EffectInv
  <1>3. /\ \A k \in ops : k # i => applied'[k] = applied[k]
        /\ applied'[i] = IF j \in Bodies /\ worker[i][j] = "dialing" /\ s = "applied"
                           /\ applied # applied'
                         THEN applied[i] + 1 ELSE applied[i]
    BY DEF OpsInv, TypeOK
  <1>4. EffectInv(i)' /\ ReplyInv(i)'
    BY <1>1, <1>2, <1>3 DEF OpsInv, EffectInv, ReplyInv, Last, Jobs, Bodies, TypeOK
  <1>5. ASSUME NEW k \in ops, k # i PROVE EffectInv(k)' /\ ReplyInv(k)'
    BY <1>1, <1>3, <1>5 DEF OpsInv, EffectInv, ReplyInv, Last, Jobs
  <1>6. ProgressInv'
    BY <1>1 DEF OpsInv, ProgressInv, Fresh, Jobs
  <1>7. applied' \in [ops -> 0..2]
    BY <1>2 DEF OpsInv, TypeOK
  <1>8. TypeOK'
    BY <1>1, <1>7 DEF OpsInv, TypeOK
  <1>. QED BY <1>4, <1>5, <1>6, <1>8 DEF OpsInv

(* The operation starts a goroutine: its first attempt, the version query  *)
(* or its second attempt.                                                  *)
LEMMA GoroutineStarts ==
  ASSUME OpsInv, NEW from, NEW to, NEW j \in Jobs,
         pc = from, pc' = to, SetWorker(n, j, "dialing"),
         route' \in [ops -> {"plain", "tunnel"}],
         UNCHANGED <<n, applied, reply, cause, device, reachable, call>>,
         \/ from = "entry" /\ to = "first" /\ j = "first"
         \/ from = "info" /\ to = "version" /\ j = "version"
         \/ from = "reentry" /\ to = "retry" /\ j = "retry"
  PROVE  OpsInv'
  <1>0. n \in ops /\ n \in Nat
    BY DEF OpsInv, ProgressInv, ops
  <1>1. /\ worker' \in [ops -> [Jobs -> WorkerStates]]
        /\ \A k \in ops, l \in Jobs :
             worker'[k][l] = IF k = n /\ l = j THEN "dialing" ELSE worker[k][l]
    BY <1>0, WorkerSet DEF OpsInv, WorkerStates
  <1>2. TypeOK'
    BY <1>1 DEF OpsInv, TypeOK
  <1>3. ProgressInv'
    BY <1>0, <1>1 DEF OpsInv, ProgressInv, Fresh, Jobs, ops
  <1>4. EffectInv(n)' /\ ReplyInv(n)'
    BY <1>0, <1>1 DEF OpsInv, ProgressInv, Fresh, EffectInv, ReplyInv, Last, Jobs
  <1>5. ASSUME NEW k \in ops, k # n PROVE EffectInv(k)' /\ ReplyInv(k)'
    BY <1>1, <1>5 DEF OpsInv, EffectInv, ReplyInv, Last, Jobs
  <1>. QED BY <1>2, <1>3, <1>4, <1>5 DEF OpsInv
-----------------------------------------------------------------------------
(* The invariant is inductive. *)

LEMMA InitOps == Init => OpsInv
  <1>. SUFFICES ASSUME Init PROVE OpsInv
    OBVIOUS
  <1>1. TypeOK
    BY DeviceOpsAssumption DEF Init, TypeOK, Service!Init, Service!Idle, Service!Waiting,
       Service!Answered, Service!Refusals, Replies, Causes, WorkerStates
  <1>2. \A i \in ops : Fresh(i) /\ EffectInv(i) /\ ReplyInv(i)
    BY DEF Init, Fresh, EffectInv, ReplyInv, Last, Jobs
  <1>. QED BY <1>1, <1>2 DEF OpsInv, ProgressInv, Init

(* What run() and the functions above it do. *)
LEMMA OperationOps == OpsInv /\ Operation => OpsInv'
  <1>. SUFFICES ASSUME OpsInv, Operation PROVE OpsInv'
    OBVIOUS
  <1>0. ServiceType /\ n \in Nat /\ (pc # "idle" => n \in ops)
    BY DEF OpsInv, TypeOK, ServiceType, ProgressInv, ops
  <1>s. UNCHANGED <<reachable, call>> => ServiceType'
    BY <1>0 DEF ServiceType
  <1>1. CASE FirstAttempt
    BY <1>0, <1>1, GoroutineStarts DEF FirstAttempt, Resolve, OpsInv, TypeOK, Jobs
  <1>2. CASE NoDevice
    BY <1>2, <1>s, ReplyStep DEF NoDevice, OpsInv, ProgressInv, Fresh, Replies, Causes
  <1>3. CASE FirstOk
    BY <1>3, <1>s, ReplyStep DEF FirstOk, OpsInv, ProgressInv, Last, Replies, Causes
  <1>4. CASE FirstFails
    BY <1>4, <1>s, ReplyStep DEF FirstFails, OpsInv, ProgressInv, Replies, Causes
  <1>5. CASE FirstTimesOut
    BY <1>5, <1>s, ReplyStep DEF FirstTimesOut, OpsInv, ProgressInv, Replies, Causes
  <1>6. CASE FirstGated
    BY <1>6, <1>s, QuietStep DEF FirstGated
  <1>16. CASE InfoLookup
    <2>1. CASE pc' = "version" /\ SetWorker(n, "version", "dialing")
      BY <1>16, <2>1, GoroutineStarts DEF InfoLookup, Jobs, OpsInv, TypeOK
    <2>2. CASE pc' = "ensure" /\ UNCHANGED worker
      BY <1>16, <2>2, <1>s, QuietStep DEF InfoLookup
    <2>. QED BY <1>16, <2>1, <2>2 DEF InfoLookup
  <1>7. CASE VersionTooOld
    BY <1>7, <1>s, ReplyStep DEF VersionTooOld, OpsInv, ProgressInv, Replies, Causes
  <1>8. CASE VersionAllows
    BY <1>8, <1>s, QuietStep DEF VersionAllows
  <1>9. CASE AskTunnel
    BY <1>0, <1>9, ServiceStep, QuietStep DEF AskTunnel
  <1>10. CASE TunnelRefused
    BY <1>0, <1>10, ServiceStep, ReplyStep
       DEF TunnelRefused, OpsInv, ProgressInv, Replies, Causes
  <1>11. CASE TunnelIsReady
    BY <1>0, <1>11, ServiceStep, QuietStep DEF TunnelIsReady
  <1>12. CASE Retry
    BY <1>0, <1>12, GoroutineStarts DEF Retry, Resolve, OpsInv, TypeOK, Jobs
  <1>17. CASE DeviceLost
    BY <1>17, <1>s, ReplyStep DEF DeviceLost, OpsInv, ProgressInv, Replies, Causes
  <1>13. CASE RetryLost
    BY <1>13, <1>s, ReplyStep DEF RetryLost, OpsInv, ProgressInv, Replies, Causes
  <1>14. CASE RetryTimesOut
    BY <1>14, <1>s, ReplyStep DEF RetryTimesOut, OpsInv, ProgressInv, Replies, Causes
  <1>15. CASE RetryOk
    BY <1>15, <1>s, ReplyStep DEF RetryOk, OpsInv, ProgressInv, Last, Replies, Causes
  <1>. QED BY <1>1, <1>2, <1>3, <1>4, <1>5, <1>6, <1>7, <1>8, <1>9, <1>10, <1>11,
              <1>12, <1>13, <1>14, <1>15, <1>16, <1>17
           DEF Operation, Lookups, Awaits

LEMMA WorkerOps == ASSUME OpsInv, NEW i \in ops, Worker(i) PROVE OpsInv'
  <1>. USE DEF WorkerStep, WorkerStates, Results, Jobs
  <1>1. CASE \E j \in Jobs : BodyGated(i, j)
    BY <1>1, WorkerGoesOn DEF BodyGated
  <1>2. CASE \E j \in Jobs : BodyApplies(i, j)
    BY <1>2, WorkerGoesOn DEF BodyApplies
  <1>3. CASE \E j \in Jobs : BodyAnswers(i, j)
    BY <1>3, WorkerGoesOn DEF BodyAnswers
  <1>4. CASE \E j \in Jobs : WorkerFails(i, j)
    BY <1>4, WorkerGoesOn DEF WorkerFails
  <1>5. CASE VersionAnswers(i)
    BY <1>5, WorkerGoesOn DEF VersionAnswers
  <1>. QED BY <1>1, <1>2, <1>3, <1>4, <1>5 DEF Worker

LEMMA NextOps == OpsInv /\ [Next]_vars => OpsInv'
  <1>. SUFFICES ASSUME OpsInv, [Next]_vars PROVE OpsInv'
    OBVIOUS
  <1>1. CASE StartOp
    <2>1. n \in Nat /\ n' = n + 1 /\ n' \in ops
      BY <1>1, DeviceOpsAssumption DEF StartOp, OpsInv, TypeOK, ops
    <2>2. TypeOK'
      BY <1>1, <2>1 DEF StartOp, OpsInv, TypeOK, ops
    <2>3. ProgressInv'
      BY <1>1, <2>1 DEF StartOp, OpsInv, ProgressInv, Fresh, ops
    <2>4. \A i \in ops : EffectInv(i)' /\ ReplyInv(i)'
      BY <1>1 DEF StartOp, OpsInv, EffectInv, ReplyInv, Last
    <2>. QED BY <2>2, <2>3, <2>4 DEF OpsInv
  <1>2. CASE Operation
    BY <1>2, OperationOps
  <1>3. CASE \E i \in ops : Worker(i)
    BY <1>3, WorkerOps
  <1>4. CASE TunnelAnswers \/ TunnelsChange \/ UNCHANGED vars
    <2>1. UNCHANGED opVars /\ ServiceType'
      <3>1. ServiceType
        BY DEF OpsInv, TypeOK, ServiceType
      <3>. QED BY <1>4, <3>1, ServiceStep
               DEF TunnelAnswers, TunnelsChange, vars, opVars, ServiceType
    <2>2. TypeOK'
      BY <2>1 DEF opVars, OpsInv, TypeOK, ServiceType
    <2>3. ProgressInv'
      BY <2>1 DEF opVars, OpsInv, ProgressInv, Fresh
    <2>4. \A i \in ops : EffectInv(i)' /\ ReplyInv(i)'
      BY <2>1 DEF opVars, OpsInv, EffectInv, ReplyInv, Last
    <2>. QED BY <2>2, <2>3, <2>4 DEF OpsInv
  <1>. QED BY <1>1, <1>2, <1>3, <1>4 DEF Next

THEOREM OpsInvAlways == Spec => []OpsInv
  BY InitOps, NextOps, PTL DEF Spec
-----------------------------------------------------------------------------
(* The variables of a session keep their types. *)
THEOREM TypeCorrect == Spec => []TypeOK
  <1>1. OpsInv => TypeOK
    BY DEF OpsInv
  <1>. QED BY <1>1, OpsInvAlways, PTL

(* Over any session the retry never repeats what the first attempt did,    *)
(* also when that one is still under way, and a success is reported only   *)
(* of what has happened (goios.go 280-299, 741-761).                       *)
THEOREM AppliedAsReportedAlways == Spec => []AppliedAsReported
  <1>1. OpsInv => AppliedAsReported
    BY DEF OpsInv, EffectInv, ReplyInv, AppliedAsReported
  <1>. QED BY <1>1, OpsInvAlways, PTL

(* What may still take effect after a reply is a body run() gave up on:    *)
(* the reply says timeout, or is the one of a retry (goios.go 744-761).    *)
THEOREM NoLateEffectAlways == Spec => []NoLateEffect
  <1>1. OpsInv => NoLateEffect
    BY DEF OpsInv, EffectInv, ReplyInv, Last, NoLateEffect, Pending, Bodies
  <1>. QED BY <1>1, OpsInvAlways, PTL
==============================================================================
