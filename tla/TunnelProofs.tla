---------------------------- MODULE TunnelProofs -----------------------------
(***************************************************************************)
(* Theorems about the tunnel manager for any number of callers, devices    *)
(* and processes and any readiness budget.                                 *)
(***************************************************************************)
EXTENDS Tunnel, TLAPS

\* Callers have a process while they wait for it.
CallersHonest == \A c \in Callers : Waits(c) => proc[c] \in Procs

\* Two callers inside ensure for one device have been recorded as overlapping.
OverlapRecorded ==
  \A c, d \in Callers :
    c # d /\ InEnsure(c) /\ InEnsure(d) /\ target[c] = target[d]
      => target[c] \in overlapped

\* What is known of a process: it belongs to a device once it is spawned, its
\* exit value exists only after its end, and a caller that is about to forget
\* it has taken that value.
ProcessesHonest ==
  /\ \A p \in Procs : /\ wrapper[p] # "unused" => owner[p] \in UDIDs
                      /\ done[p] # "empty" => wrapper[p] \in {"exited", "killed"}
  /\ \A c \in Callers : pc[c] = "forget" => done[proc[c]] # "empty"
  /\ \A u \in UDIDs : running[u] # NoProc => wrapper[running[u]] # "unused"

\* Close cancels the session before it touches the registry.
ClosingIsCancelled == closer # "open" => base = "cancelled"

\* The inductive invariant: Tracked alone is not inductive, since forget and
\* stopLocked empty a slot by UDID; it takes WaitsOnRegistered to know that the
\* slot holds the caller's own process, and the history to know that nobody
\* else was there to replace it.
IInv == /\ TypeOK
        /\ CallersHonest
        /\ OverlapRecorded
        /\ ProcessesHonest
        /\ ClosingIsCancelled
        /\ RegistryHonest
        /\ WaitsOnRegistered
        /\ Tracked
-----------------------------------------------------------------------------
(* Type correctness *)

\* The initial state has the declared types.
LEMMA InitTypeOK == Init => TypeOK
  BY TunnelAssumption DEF Init, TypeOK, InEnsure, Locations, Answers, Refusals

\* Every step keeps them.
LEMMA NextTypeOK == TypeOK /\ [Next]_vars => TypeOK'
<1> SUFFICES ASSUME TypeOK, [Next]_vars PROVE TypeOK'
  OBVIOUS
<1> USE TunnelAssumption DEF TypeOK, Locations, Answers, Refusals, InEnsure,
        Goto, Return, Kill, registryVars, sessionVars, callerVars, processVars
<1>1. ASSUME NEW c \in Callers, NEW u \in UDIDs, Call(c, u) PROVE TypeOK'
  BY <1>1 DEF Call
<1>2. ASSUME NEW c \in Callers, Ready(c) PROVE TypeOK'
  BY <1>2 DEF Ready
<1>3. ASSUME NEW c \in Callers, Disabled(c) PROVE TypeOK'
  BY <1>3 DEF Disabled
<1>4. ASSUME NEW c \in Callers, NotUp(c) PROVE TypeOK'
  BY <1>4 DEF NotUp
<1>5. ASSUME NEW c \in Callers, Acquire(c) PROVE TypeOK'
  BY <1>5 DEF Acquire
<1>6. ASSUME NEW c \in Callers, Join(c) PROVE TypeOK'
  BY <1>6 DEF Join
<1>7. ASSUME NEW c \in Callers, NEW p \in Procs, Spawn(c, p) PROVE TypeOK'
  <2>1. running' \in [UDIDs -> Procs \cup {NoProc}]
    BY <1>7 DEF Spawn
  <2>2. owner' \in [Procs -> UDIDs \cup {NoUDID}]
    BY <1>7 DEF Spawn
  <2>3. QED
    BY <1>7, <2>1, <2>2 DEF Spawn
<1>8. ASSUME NEW c \in Callers, StartFails(c) PROVE TypeOK'
  BY <1>8 DEF StartFails
<1>9. ASSUME NEW c \in Callers, SeesExit(c) PROVE TypeOK'
  BY <1>9 DEF SeesExit
<1>10. ASSUME NEW c \in Callers, Forget(c) PROVE TypeOK'
  <2>1. running' \in [UDIDs -> Procs \cup {NoProc}]
    BY <1>10 DEF Forget
  <2>2. QED
    BY <1>10, <2>1 DEF Forget
<1>11. ASSUME NEW c \in Callers, CtxDone(c) PROVE TypeOK'
  BY <1>11 DEF CtxDone
<1>12. ASSUME NEW c \in Callers, PollAgain(c) PROVE TypeOK'
  BY <1>12 DEF PollAgain
<1>13. ASSUME NEW c \in Callers, BudgetSpent(c) PROVE TypeOK'
  BY <1>13 DEF BudgetSpent
<1>14. ASSUME NEW c \in Callers, Stop(c) PROVE TypeOK'
  <2>1. running' \in [UDIDs -> Procs \cup {NoProc}]
    BY <1>14 DEF Stop
  <2>2. wrapper' \in [Procs -> {"unused", "alive", "exited", "killed"}]
    BY <1>14 DEF Stop
  <2>3. QED
    BY <1>14, <2>1, <2>2 DEF Stop
<1>15. ASSUME NEW c \in Callers, Collect(c) PROVE TypeOK'
  BY <1>15 DEF Collect
<1>16. ASSUME NEW p \in Procs, ContextKills(p) PROVE TypeOK'
  BY <1>16 DEF ContextKills
<1>17. ASSUME NEW p \in Procs, Waited(p) PROVE TypeOK'
  BY <1>17 DEF Waited
<1>18. ASSUME NEW p \in Procs, AgentStarts(p) PROVE TypeOK'
  BY <1>18 DEF AgentStarts
<1>19. ASSUME NEW p \in Procs, AgentPublishes(p) PROVE TypeOK'
  BY <1>19 DEF AgentPublishes
<1>20. ASSUME NEW p \in Procs, AgentExits(p) PROVE TypeOK'
  BY <1>20 DEF AgentExits
<1>21. ASSUME NEW p \in Procs, WrapperExits(p) PROVE TypeOK'
  BY <1>21 DEF WrapperExits
<1>22. ASSUME NEW u \in UDIDs, OutsideChanges(u) PROVE TypeOK'
  BY <1>22 DEF OutsideChanges
<1>23. CASE CloseCancel
  BY <1>23 DEF CloseCancel
<1>24. CASE CloseKill
  BY <1>24 DEF CloseKill
<1>25. CASE UNCHANGED vars
  BY <1>25 DEF vars
<1>26. QED
  BY <1>1, <1>2, <1>3, <1>4, <1>5, <1>6, <1>7, <1>8, <1>9, <1>10, <1>11, <1>12, <1>13, <1>14, <1>15, <1>16, <1>17, <1>18, <1>19, <1>20, <1>21, <1>22, <1>23, <1>24, <1>25
     DEF Next, Caller, Ensure, Process

\* Every reachable state has the declared types.
THEOREM TypeCorrect == Spec => []TypeOK
<1>1. QED
  BY InitTypeOK, NextTypeOK, PTL DEF Spec

-----------------------------------------------------------------------------
(* The registry *)

\* The strengthened invariant holds at the start.
LEMMA InitIInv == Init => IInv
<1> SUFFICES ASSUME Init PROVE IInv
  OBVIOUS
<1>1. TypeOK
  BY InitTypeOK
<1>2. QED
  BY <1>1, TunnelAssumption
     DEF Init, IInv, CallersHonest, OverlapRecorded, ProcessesHonest,
         ClosingIsCancelled, RegistryHonest, WaitsOnRegistered, Tracked,
         InEnsure, Waits

\* Every step keeps it.
LEMMA NextIInv == IInv /\ [Next]_vars => IInv'
<1> SUFFICES ASSUME IInv, [Next]_vars PROVE IInv'
  OBVIOUS
<1> USE TunnelAssumption
    DEF IInv, CallersHonest, OverlapRecorded, ProcessesHonest,
        ClosingIsCancelled, RegistryHonest, WaitsOnRegistered, Tracked,
        InEnsure, Waits, Goto, Return, Kill, registryVars, sessionVars,
        callerVars, processVars
<1>0. TypeOK'
  BY NextTypeOK
<1>1. ASSUME NEW c \in Callers, NEW u \in UDIDs, Call(c, u) PROVE IInv'
  BY <1>0, <1>1 DEF TypeOK, Call
<1>2. ASSUME NEW c \in Callers, Ready(c) PROVE IInv'
  BY <1>0, <1>2 DEF TypeOK, Ready
<1>3. ASSUME NEW c \in Callers, Disabled(c) PROVE IInv'
  BY <1>0, <1>3 DEF TypeOK, Disabled
<1>4. ASSUME NEW c \in Callers, NotUp(c) PROVE IInv'
  BY <1>0, <1>4 DEF TypeOK, NotUp
<1>5. ASSUME NEW c \in Callers, Acquire(c) PROVE IInv'
  BY <1>0, <1>5 DEF TypeOK, Acquire
<1>6. ASSUME NEW c \in Callers, Join(c) PROVE IInv'
  BY <1>0, <1>6 DEF TypeOK, Join
<1>7. ASSUME NEW c \in Callers, NEW p \in Procs, Spawn(c, p) PROVE IInv'
  BY <1>0, <1>7 DEF TypeOK, Spawn
<1>8. ASSUME NEW c \in Callers, StartFails(c) PROVE IInv'
  BY <1>0, <1>8 DEF TypeOK, StartFails
<1>9. ASSUME NEW c \in Callers, SeesExit(c) PROVE IInv'
  BY <1>0, <1>9 DEF TypeOK, SeesExit
<1>10. ASSUME NEW c \in Callers, Forget(c) PROVE IInv'
  BY <1>0, <1>10 DEF TypeOK, Forget
<1>11. ASSUME NEW c \in Callers, CtxDone(c) PROVE IInv'
  BY <1>0, <1>11 DEF TypeOK, CtxDone
<1>12. ASSUME NEW c \in Callers, PollAgain(c) PROVE IInv'
  BY <1>0, <1>12 DEF TypeOK, PollAgain
<1>13. ASSUME NEW c \in Callers, BudgetSpent(c) PROVE IInv'
  BY <1>0, <1>13 DEF TypeOK, BudgetSpent
<1>14. ASSUME NEW c \in Callers, Stop(c) PROVE IInv'
  BY <1>0, <1>14 DEF TypeOK, Stop
<1>15. ASSUME NEW c \in Callers, Collect(c) PROVE IInv'
  BY <1>0, <1>15 DEF TypeOK, Collect
<1>16. ASSUME NEW p \in Procs, ContextKills(p) PROVE IInv'
  BY <1>0, <1>16 DEF TypeOK, ContextKills
<1>17. ASSUME NEW p \in Procs, Waited(p) PROVE IInv'
  BY <1>0, <1>17 DEF TypeOK, Waited
<1>18. ASSUME NEW p \in Procs, AgentStarts(p) PROVE IInv'
  BY <1>0, <1>18 DEF TypeOK, AgentStarts
<1>19. ASSUME NEW p \in Procs, AgentPublishes(p) PROVE IInv'
  BY <1>0, <1>19 DEF TypeOK, AgentPublishes
<1>20. ASSUME NEW p \in Procs, AgentExits(p) PROVE IInv'
  BY <1>0, <1>20 DEF TypeOK, AgentExits
<1>21. ASSUME NEW p \in Procs, WrapperExits(p) PROVE IInv'
  BY <1>0, <1>21 DEF TypeOK, WrapperExits
<1>22. ASSUME NEW u \in UDIDs, OutsideChanges(u) PROVE IInv'
  BY <1>0, <1>22 DEF TypeOK, OutsideChanges
<1>23. CASE CloseCancel
  BY <1>0, <1>23 DEF TypeOK, CloseCancel
<1>24. CASE CloseKill
  BY <1>0, <1>24 DEF TypeOK, CloseKill
<1>25. CASE UNCHANGED vars
  BY <1>0, <1>25 DEF TypeOK, vars
<1>26. QED
  BY <1>0, <1>1, <1>2, <1>3, <1>4, <1>5, <1>6, <1>7, <1>8, <1>9, <1>10, <1>11, <1>12, <1>13, <1>14, <1>15, <1>16, <1>17, <1>18, <1>19, <1>20, <1>21, <1>22, <1>23, <1>24, <1>25
     DEF TypeOK, Next, Caller, Ensure, Process

\* On a device where no two calls ever overlapped, a live process is the
\* registered one, for any number of callers, devices and processes.
THEOREM TrackedAlways == Spec => []Tracked
<1>1. IInv => Tracked
  BY DEF IInv
<1>2. QED
  BY InitIInv, NextIInv, <1>1, PTL DEF Spec

\* Whoever is about to forget or stop the entry of such a device finds the
\* process it has been waiting on there.
THEOREM WaitsOnRegisteredAlways == Spec => []WaitsOnRegistered
<1>1. IInv => WaitsOnRegistered
  BY DEF IInv
<1>2. QED
  BY InitIInv, NextIInv, <1>1, PTL DEF Spec

\* The registry never holds a process of another device or, before Close, a
\* process the manager has killed, overlapping calls included.
THEOREM RegistryHonestAlways == Spec => []RegistryHonest
<1>1. IInv => RegistryHonest
  BY DEF IInv
<1>2. QED
  BY InitIInv, NextIInv, <1>1, PTL DEF Spec

-----------------------------------------------------------------------------
(* Refinement: the manager implements the safety part of TunnelService. *)

LEMMA InitService == Init => Service!Init
  BY DEF Init, Service!Init, Service!Idle

\* A step that answers the call of c answers it as TunnelService does; every
\* other step moves at most the set of reachable devices.
LEMMA NextService == IInv /\ [Next]_vars => [Service!Next]_(Service!serviceVars)
<1> SUFFICES ASSUME IInv, [Next]_vars
             PROVE  [Service!Next]_(Service!serviceVars)
  OBVIOUS
<1> DEFINE reach == {u \in UDIDs : Published(u)}
           view == [c \in Callers |->
                      IF pc[c] = "idle" THEN [state |-> "idle"]
                      ELSE IF pc[c] = "done"
                           THEN [state |-> "answered", result |-> answer[c]]
                           ELSE [state |-> "waiting", udid |-> target[c]]]
<1> USE DEF registryVars, sessionVars, callerVars, processVars
<1>1. ASSUME view' = view PROVE [Service!Next]_(Service!serviceVars)
  <2>1. reach' \in SUBSET UDIDs
    OBVIOUS
  <2>2. Service!Environment
    BY <1>1, <2>1 DEF Service!Environment
  <2>3. QED
    BY <2>2 DEF Service!Next
<1>2. ASSUME NEW c \in Callers, NEW u \in UDIDs, Call(c, u)
      PROVE  [Service!Next]_(Service!serviceVars)
  <2>1. reach' = reach
    BY <1>2 DEF Call, Published
  <2>2. view' = [view EXCEPT ![c] = [state |-> "waiting", udid |-> u]]
    BY <1>2 DEF Call, Goto, IInv, TypeOK
  <2>3. view[c] = [state |-> "idle"]
    BY <1>2 DEF Call
  <2>4. Service!Request(c, u)
    BY <2>1, <2>2, <2>3 DEF Service!Request, Service!Idle, Service!Waiting
  <2>5. QED
    BY <2>4 DEF Service!Next
<1>3. ASSUME NEW c \in Callers, NEW r \in Answers, Return(c, r),
             pc[c] \notin {"idle", "done"},
             UNCHANGED <<owner, agent, outside>>
      PROVE  /\ target[c] \in UDIDs
             /\ reach' = reach
             /\ view[c] = [state |-> "waiting", udid |-> target[c]]
             /\ view' = [view EXCEPT ![c] = [state |-> "answered", result |-> r]]
  <2>1. target[c] \in UDIDs
    BY <1>3 DEF IInv, TypeOK, InEnsure
  <2>2. reach' = reach
    BY <1>3 DEF Published
  <2>3. view[c] = [state |-> "waiting", udid |-> target[c]]
    BY <1>3
  <2>4. view' = [view EXCEPT ![c] = [state |-> "answered", result |-> r]]
    BY <1>3 DEF Return, Goto, IInv, TypeOK
  <2>5. QED
    BY <2>1, <2>2, <2>3, <2>4
<1>4. ASSUME NEW c \in Callers, NEW r \in Refusals, Return(c, r),
             pc[c] \notin {"idle", "done"},
             UNCHANGED <<owner, agent, outside>>
      PROVE  [Service!Next]_(Service!serviceVars)
  <2>1. r \in Service!Refusals
    BY DEF Refusals, Service!Refusals
  <2>2. r \in Answers
    BY DEF Answers
  <2>3. PICK u \in UDIDs : u = target[c]
    BY <1>3, <1>4, <2>2
  <2>4. Service!Refuse(c, u)
    BY <1>3, <1>4, <2>1, <2>2, <2>3
       DEF Service!Refuse, Service!Waiting, Service!Answered
  <2>5. Service!Answer(c)
    BY <2>4 DEF Service!Answer
  <2>6. QED
    BY <2>5 DEF Service!Next
<1>5. ASSUME NEW c \in Callers, Ready(c)
      PROVE  [Service!Next]_(Service!serviceVars)
  <2>1. /\ Return(c, "ready")
        /\ pc[c] \notin {"idle", "done"}
        /\ UNCHANGED <<owner, agent, outside>>
        /\ Published(target[c])
    BY <1>5 DEF Ready
  <2>2. /\ target[c] \in UDIDs
        /\ reach' = reach
        /\ view[c] = [state |-> "waiting", udid |-> target[c]]
        /\ view' = [view EXCEPT ![c] = [state |-> "answered",
                                       result |-> "ready"]]
    BY <1>3, <2>1 DEF Answers
  <2>3. PICK u \in UDIDs : u = target[c]
    BY <2>2
  <2>4. Service!AnswerReady(c, u)
    BY <2>1, <2>2, <2>3
       DEF Service!AnswerReady, Service!Waiting, Service!Answered
  <2>5. Service!Answer(c)
    BY <2>4 DEF Service!Answer
  <2>6. QED
    BY <2>5 DEF Service!Next
<1>6. ASSUME NEW c \in Callers, Collect(c)
      PROVE  [Service!Next]_(Service!serviceVars)
  <2>1. reach' = reach
    BY <1>6 DEF Collect, Published
  <2>2. view[c].state = "answered"
    BY <1>6 DEF Collect
  <2>3. view' = [view EXCEPT ![c] = [state |-> "idle"]]
    BY <1>6 DEF Collect, Goto, IInv, TypeOK
  <2>4. Service!Collect(c)
    BY <2>1, <2>2, <2>3 DEF Service!Collect, Service!Idle
  <2>5. QED
    BY <2>4 DEF Service!Next
<1>7. ASSUME NEW c \in Callers, Ensure(c)
      PROVE  [Service!Next]_(Service!serviceVars)
  <2>1. CASE NotUp(c) \/ Acquire(c) \/ Join(c) \/ SeesExit(c) \/ PollAgain(c)
             \/ BudgetSpent(c) \/ \E p \in Procs : Spawn(c, p)
    <3>1. view' = view
      BY <2>1 DEF NotUp, Acquire, Join, SeesExit, PollAgain, BudgetSpent, Spawn,
                  Goto, IInv, TypeOK
    <3>2. QED
      BY <3>1, <1>1
  <2>2. CASE Disabled(c)
    BY <2>2, <1>4 DEF Disabled, Refusals
  <2>3. CASE StartFails(c)
    BY <2>3, <1>4 DEF StartFails, Refusals
  <2>4. CASE Forget(c)
    BY <2>4, <1>4 DEF Forget, Refusals
  <2>5. CASE CtxDone(c)
    BY <2>5, <1>4 DEF CtxDone, Refusals
  <2>6. CASE Stop(c)
    BY <2>6, <1>4 DEF Stop, Refusals
  <2>7. QED
    BY <1>7, <1>5, <2>1, <2>2, <2>3, <2>4, <2>5, <2>6 DEF Ensure
<1>8. CASE \/ \E p \in Procs : Process(p)
           \/ \E u \in UDIDs : OutsideChanges(u)
           \/ CloseCancel
           \/ CloseKill
           \/ UNCHANGED vars
  <2>1. view' = view
    BY <1>8 DEF Process, ContextKills, Waited, AgentStarts, AgentPublishes,
                AgentExits, WrapperExits, OutsideChanges, CloseCancel,
                CloseKill, vars
  <2>2. QED
    BY <2>1, <1>1
<1>9. QED
  BY <1>2, <1>6, <1>7, <1>8 DEF Next, Caller

\* Every behaviour of the manager is one of TunnelService: calls are answered
\* once, and "ready" only while the device is reachable.
THEOREM ImplementsServiceSafety == Spec => Service!Safety
<1>1. QED
  BY InitService, NextService, InitIInv, NextIInv, PTL
     DEF Spec, Service!Safety
==============================================================================
