-------------------------- MODULE SupervisorProofs --------------------------
(***************************************************************************)
(* Machine-checked proofs about Supervisor, for any finite set of requests,*)
(* any number of slots, any faults and any number of crashes.              *)
(***************************************************************************)
EXTENDS Supervisor, FiniteSetTheorems, TLAPS

(* The type invariant bounds the semaphore by NSlots, which holds because  *)
(* of SlotConservation; RunningBounded holds because a running sandbox     *)
(* belongs to a thread that still has its slot.                            *)
IInv == TypeOK /\ SlotConservation /\ SandboxSupervised

-----------------------------------------------------------------------------
(* Holders and its cardinality under one step of one thread.               *)

LEMMA HoldersFinite ==
  IsFiniteSet(Holders) /\ Cardinality(Holders) \in Nat
<1>1. Holders \subseteq Jobs
  BY DEF Holders
<1>2. IsFiniteSet(Holders)
  BY <1>1, SupervisorAssumption, FS_Subset
<1> QED
  BY <1>2, FS_CardinalityType

LEMMA HoldersSame ==
  ASSUME TypeOK, NEW j \in Jobs, NEW label \in Label,
         pc' = [pc EXCEPT ![j] = label],
         pc[j] \in Holding <=> label \in Holding
  PROVE  Holders' = Holders
BY DEF TypeOK, JobsTypeOK, Holders

LEMMA HoldersAdd ==
  ASSUME TypeOK, NEW j \in Jobs, NEW label \in Holding,
         pc' = [pc EXCEPT ![j] = label],
         pc[j] \notin Holding
  PROVE  Cardinality(Holders') = Cardinality(Holders) + 1
<1>1. Holders' = Holders \cup {j} /\ j \notin Holders
  BY DEF TypeOK, JobsTypeOK, Holders
<1> QED
  BY <1>1, HoldersFinite, FS_AddElement

LEMMA HoldersRemove ==
  ASSUME TypeOK, NEW j \in Jobs, NEW label \in Label \ Holding,
         pc' = [pc EXCEPT ![j] = label],
         pc[j] \in Holding
  PROVE  Cardinality(Holders') = Cardinality(Holders) - 1
<1>1. Holders' = Holders \ {j} /\ j \in Holders
  BY DEF TypeOK, JobsTypeOK, Holders
<1> QED
  BY <1>1, HoldersFinite, FS_RemoveElement

-----------------------------------------------------------------------------
LEMMA InitIInv == Init => IInv
<1> SUFFICES ASSUME Init PROVE IInv
  OBVIOUS
<1>1. TypeOK
  BY SupervisorAssumption
  DEF Init, TypeOK, JobsTypeOK, Label, AllRequests, Outcome, ProxyState, BoxState, Fixed, FdNames
<1>2. Holders = {}
  BY DEF Init, Holders, Holding
<1>3. SlotConservation
  BY <1>2, FS_EmptySet, SupervisorAssumption DEF Init, SlotConservation
<1>4. SandboxSupervised
  BY DEF Init, SandboxSupervised, Running
<1> QED
  BY <1>1, <1>3, <1>4 DEF IInv

-----------------------------------------------------------------------------
(* The three parts of IInv, one action at a time. Between its acquire and  *)
(* its release a thread only walks along the labels of Holding.            *)

InsideStep(j) ==
  /\ pc[j] \in Holding
  /\ slots' = slots
  /\ \E label \in Holding : pc' = [pc EXCEPT ![j] = label]

LEMMA InsideStepConserves ==
  ASSUME TypeOK, SlotConservation, NEW j \in Jobs, InsideStep(j)
  PROVE  SlotConservation'
<1>1. PICK label \in Holding : pc' = [pc EXCEPT ![j] = label]
  BY DEF InsideStep
<1>2. Holders' = Holders
  BY <1>1, HoldersSame DEF InsideStep, Holding
<1> QED
  BY <1>2 DEF SlotConservation, InsideStep

(* The steps that neither take nor give back a slot.                       *)
InsideAction(j) ==
  \/ ParsePolicy(j) /\ req[j] # "badJson"
  \/ WritePolicy(j) \/ ReadConfig(j)
  \/ StartEgress(j) \/ EgressReady(j) \/ EgressNotReady(j)
  \/ StartDb(j) \/ DbReady(j) \/ DbNotReady(j)
  \/ Inject(j) \/ Launch(j) \/ ApplyCgroup(j) \/ ReadOutput(j)
  \/ StopEgress(j) \/ StopDb(j) \/ RemovePolicy(j) \/ RemoveCgroup(j)
  \/ KillBox(j)

LEMMA InsideActionStep ==
  ASSUME TypeOK, NEW j \in Jobs, InsideAction(j)
  PROVE  InsideStep(j)
<1> USE DEF InsideStep, At, Goto, Answer, Raise, Holding, Label
<1>1. CASE ParsePolicy(j) /\ req[j] # "badJson"
  BY <1>1 DEF ParsePolicy
<1>2. CASE WritePolicy(j)
  BY <1>2 DEF WritePolicy
<1>3. CASE ReadConfig(j)
  BY <1>3 DEF ReadConfig, AfterConfig, AfterEgress
<1>4. CASE StartEgress(j)
  BY <1>4 DEF StartEgress
<1>5. CASE EgressReady(j)
  BY <1>5 DEF EgressReady, AfterEgress
<1>6. CASE EgressNotReady(j)
  BY <1>6 DEF EgressNotReady
<1>7. CASE StartDb(j)
  BY <1>7 DEF StartDb
<1>8. CASE DbReady(j)
  BY <1>8 DEF DbReady
<1>9. CASE DbNotReady(j)
  BY <1>9 DEF DbNotReady
<1>10. CASE Inject(j)
  BY <1>10 DEF Inject
<1>11. CASE Launch(j)
  BY <1>11 DEF Launch
<1>12. CASE ApplyCgroup(j)
  BY <1>12 DEF ApplyCgroup
<1>13. CASE ReadOutput(j)
  BY <1>13 DEF ReadOutput
<1>14. CASE StopEgress(j)
  BY <1>14 DEF StopEgress
<1>15. CASE StopDb(j)
  BY <1>15 DEF StopDb
<1>16. CASE RemovePolicy(j)
  BY <1>16 DEF RemovePolicy
<1>17. CASE RemoveCgroup(j)
  BY <1>17 DEF RemoveCgroup
<1>18. CASE KillBox(j)
  BY <1>18 DEF KillBox
<1> QED
  BY <1>1, <1>2, <1>3, <1>4, <1>5, <1>6, <1>7, <1>8, <1>9, <1>10, <1>11, <1>12,
     <1>13, <1>14, <1>15, <1>16, <1>17, <1>18 DEF InsideAction

-----------------------------------------------------------------------------
(* Every thread step conserves the slots.                                  *)
LEMMA StepConserves ==
  ASSUME TypeOK, SlotConservation, NEW j \in Jobs, Submit(j) \/ Step(j)
  PROVE  SlotConservation'
<1>0. Cardinality(Holders) \in Nat /\ NSlots \in Nat /\ slots \in Nat
  BY HoldersFinite, SupervisorAssumption DEF TypeOK
<1>1. CASE Submit(j)
  <2>1. pc[j] = "idle" /\ pc' = [pc EXCEPT ![j] = "wait"] /\ slots' = slots
    BY <1>1 DEF Submit, At, Goto
  <2>2. Holders' = Holders
    BY <2>1, HoldersSame DEF Holding, Label
  <2> QED
    BY <2>1, <2>2 DEF SlotConservation
<1>2. CASE Acquire(j)
  <2>1. pc[j] = "wait" /\ pc' = [pc EXCEPT ![j] = "parse"] /\ slots' = slots - 1
    BY <1>2 DEF Acquire, At, Goto
  <2>2. Cardinality(Holders') = Cardinality(Holders) + 1
    BY <2>1, HoldersAdd DEF Holding, Label
  <2> QED
    BY <1>0, <2>1, <2>2 DEF SlotConservation
<1>3. CASE Overloaded(j)
  <2>1. pc[j] = "wait" /\ pc' = [pc EXCEPT ![j] = "done"] /\ slots' = slots
    BY <1>3 DEF Overloaded, At, Answer
  <2>2. Holders' = Holders
    BY <2>1, HoldersSame DEF Holding, Label
  <2> QED
    BY <2>1, <2>2 DEF SlotConservation
<1>4. CASE (ParsePolicy(j) /\ req[j] = "badJson") \/ Release(j)
  <2>1. /\ pc[j] \in {"parse", "release"}
        /\ pc' = [pc EXCEPT ![j] = "done"]
        /\ slots' = slots + 1
    BY <1>4 DEF ParsePolicy, Release, At, Goto, Answer
  <2>2. Cardinality(Holders') = Cardinality(Holders) - 1
    BY <2>1, HoldersRemove DEF Holding, Label
  <2> QED
    BY <1>0, <2>1, <2>2 DEF SlotConservation
<1>5. CASE InsideAction(j)
  BY <1>5, InsideActionStep, InsideStepConserves
<1> QED
  BY <1>1, <1>2, <1>3, <1>4, <1>5 DEF Step, InsideAction

-----------------------------------------------------------------------------
(* Types are preserved, one action at a time.                              *)
LEMMA StepTypes ==
  ASSUME TypeOK, NEW j \in Jobs, Submit(j) \/ Step(j) \/ Environment(j)
  PROVE  JobsTypeOK' /\ slots' \in Nat /\ crashes' = crashes
<1> USE SupervisorAssumption
    DEF TypeOK, JobsTypeOK, At, Goto, Answer, Raise, Label, Outcome,
        resources, egressVars, dbVars, boxVars
<1>1. CASE Submit(j)
  BY <1>1 DEF Submit, AllRequests
<1>2. CASE Acquire(j)
  BY <1>2 DEF Acquire
<1>3. CASE Overloaded(j)
  BY <1>3 DEF Overloaded
<1>4. CASE ParsePolicy(j)
  BY <1>4 DEF ParsePolicy
<1>5. CASE WritePolicy(j)
  <2>1. pc' \in [Jobs -> Label] /\ outcome' \in [Jobs -> Outcome]
    BY <1>5 DEF WritePolicy
  <2>2. policyFile' \in [Jobs -> BOOLEAN]
    BY <1>5 DEF WritePolicy
  <2> QED
    BY <1>5, <2>1, <2>2 DEF WritePolicy
<1>6. CASE ReadConfig(j)
  BY <1>6 DEF ReadConfig, AfterConfig, AfterEgress
<1>7. CASE StartEgress(j)
  <2>1. pc' \in [Jobs -> Label] /\ outcome' \in [Jobs -> Outcome]
    BY <1>7 DEF StartEgress
  <2>2. egress' \in [Jobs -> ProxyState] /\ egressDir' \in [Jobs -> BOOLEAN]
    BY <1>7 DEF StartEgress, ProxyState
  <2> QED
    BY <1>7, <2>1, <2>2 DEF StartEgress
<1>8. CASE EgressReady(j)
  BY <1>8 DEF EgressReady, AfterEgress
<1>9. CASE EgressNotReady(j)
  BY <1>9 DEF EgressNotReady, Signalled, ProxyState
<1>10. CASE StartDb(j)
  <2>1. pc' \in [Jobs -> Label] /\ outcome' \in [Jobs -> Outcome]
    BY <1>10 DEF StartDb
  <2>2. db' \in [Jobs -> ProxyState] /\ dbDir' \in [Jobs -> BOOLEAN]
    BY <1>10 DEF StartDb, ProxyState
  <2> QED
    BY <1>10, <2>1, <2>2 DEF StartDb
<1>11. CASE DbReady(j)
  BY <1>11 DEF DbReady
<1>12. CASE DbNotReady(j)
  BY <1>12 DEF DbNotReady
<1>13. CASE Inject(j)
  <2>1. \E held \in SUBSET FdNames : fds' = [fds EXCEPT ![j] = held]
    BY <1>13 DEF Inject, Fixed, FdNames
  <2>2. pc' \in [Jobs -> Label] /\ outcome' \in [Jobs -> Outcome]
    BY <1>13 DEF Inject
  <2> QED
    BY <1>13, <2>1, <2>2 DEF Inject
<1>14. CASE Launch(j)
  BY <1>14 DEF Launch, BoxState
<1>15. CASE ApplyCgroup(j)
  BY <1>15 DEF ApplyCgroup, CloseFds
<1>16. CASE ReadOutput(j)
  BY <1>16 DEF ReadOutput, BoxState
<1>17. CASE StopEgress(j)
  <2>1. pc' \in [Jobs -> Label] /\ outcome' \in [Jobs -> Outcome]
    BY <1>17 DEF StopEgress
  <2>2. Stopped(egress[j]) \subseteq ProxyState
    BY DEF Stopped, ProxyState
  <2>3. egress' \in [Jobs -> ProxyState]
    BY <1>17, <2>2 DEF StopEgress
  <2>4. egressDir' \in [Jobs -> BOOLEAN]
    BY <1>17 DEF StopEgress
  <2> QED
    BY <1>17, <2>1, <2>3, <2>4 DEF StopEgress
<1>18. CASE StopDb(j)
  BY <1>18 DEF StopDb, Stopped, ProxyState
<1>19. CASE RemovePolicy(j)
  BY <1>19 DEF RemovePolicy
<1>20. CASE RemoveCgroup(j)
  <2>1. pc' \in [Jobs -> Label] /\ outcome' \in [Jobs -> Outcome]
    BY <1>20 DEF RemoveCgroup
  <2>2. cgroup' \in [Jobs -> BOOLEAN]
    BY <1>20 DEF RemoveCgroup
  <2> QED
    BY <1>20, <2>1, <2>2 DEF RemoveCgroup
<1>21. CASE KillBox(j)
  BY <1>21 DEF KillBox, BoxState
<1>22. CASE Release(j)
  BY <1>22 DEF Release, CloseFds
<1>23. CASE EgressMoves(j)
  BY <1>23 DEF EgressMoves
<1>24. CASE DbMoves(j)
  BY <1>24 DEF DbMoves
<1>25. CASE BoxExits(j)
  BY <1>25 DEF BoxExits, BoxState
<1>26. CASE BoxReaped(j)
  BY <1>26 DEF BoxReaped, BoxState
<1> QED
  BY <1>1, <1>2, <1>3, <1>4, <1>5, <1>6, <1>7, <1>8, <1>9, <1>10, <1>11, <1>12, <1>13, <1>14, <1>15, <1>16, <1>17, <1>18, <1>19, <1>20, <1>21, <1>22, <1>23, <1>24, <1>25, <1>26
     DEF Step, Environment

-----------------------------------------------------------------------------
(* A sandbox starts to run in Launch only, and while it runs its thread    *)
(* goes from one supervising label to the next; KillBox leaves none.       *)
LEMMA StepSupervises ==
  ASSUME TypeOK, SandboxSupervised, NEW j \in Jobs,
         Submit(j) \/ Step(j) \/ Environment(j)
  PROVE  SandboxSupervised'
<1> USE DEF TypeOK, JobsTypeOK, SandboxSupervised, Running, At, Goto, Answer,
            Raise, resources, boxVars
<1>1. CASE Submit(j) \/ Acquire(j) \/ Overloaded(j) \/ ParsePolicy(j)
  BY <1>1 DEF Submit, Acquire, Overloaded, ParsePolicy
<1>2. CASE WritePolicy(j) \/ ReadConfig(j)
  BY <1>2 DEF WritePolicy, ReadConfig
<1>3. CASE StartEgress(j) \/ EgressReady(j) \/ EgressNotReady(j)
  BY <1>3 DEF StartEgress, EgressReady, EgressNotReady
<1>4. CASE StartDb(j) \/ DbReady(j) \/ DbNotReady(j)
  BY <1>4 DEF StartDb, DbReady, DbNotReady
<1>5. CASE Inject(j)
  BY <1>5 DEF Inject
<1>6. CASE Launch(j)
  BY <1>6 DEF Launch
<1>7. CASE ApplyCgroup(j)
  BY <1>7 DEF ApplyCgroup
<1>8. CASE ReadOutput(j)
  BY <1>8 DEF ReadOutput
<1>9. CASE StopEgress(j) \/ StopDb(j) \/ RemovePolicy(j)
  BY <1>9 DEF StopEgress, StopDb, RemovePolicy
<1>10. CASE RemoveCgroup(j)
  BY <1>10 DEF RemoveCgroup
<1>11. CASE KillBox(j)
  BY <1>11 DEF KillBox
<1>12. CASE Release(j)
  BY <1>12 DEF Release, CloseFds
<1>13. CASE Environment(j)
  BY <1>13 DEF Environment, EgressMoves, DbMoves, BoxExits, BoxReaped
<1> QED
  BY <1>1, <1>2, <1>3, <1>4, <1>5, <1>6, <1>7, <1>8, <1>9, <1>10, <1>11, <1>12,
     <1>13 DEF Step

(* A crash empties the set of holders and kills every sandbox.             *)
LEMMA CrashIInv ==
  ASSUME IInv, Crash
  PROVE  IInv'
<1> USE DEF IInv, TypeOK, JobsTypeOK, Crash, ThreadsDie
<1>1. JobsTypeOK'
  BY DEF Label, Outcome, BoxState, dbVars, egressVars
<1>2. slots' \in 0 .. NSlots /\ crashes' \in 0 .. MaxCrashes
  BY SupervisorAssumption
<1>3. Holders' = {}
  BY DEF Holders, Holding, InFlight
<1>4. SlotConservation'
  BY <1>3, FS_EmptySet, SupervisorAssumption DEF SlotConservation
<1>5. SandboxSupervised'
  BY DEF SandboxSupervised, Running
<1> QED
  BY <1>1, <1>2, <1>4, <1>5

LEMMA NextIInv ==
  ASSUME IInv, [Next]_vars
  PROVE  IInv'
<1>1. CASE UNCHANGED vars
  BY <1>1 DEF vars, resources, egressVars, dbVars, boxVars, IInv, TypeOK,
     JobsTypeOK, SlotConservation, Holders, SandboxSupervised, Running
<1>2. CASE Crash
  BY <1>2, CrashIInv
<1>3. ASSUME NEW j \in Jobs, Submit(j) \/ Step(j) \/ Environment(j)
      PROVE  IInv'
  <2>1. TypeOK /\ SlotConservation /\ SandboxSupervised
    BY DEF IInv
  <2>2. JobsTypeOK' /\ slots' \in Nat /\ crashes' = crashes
    BY <1>3, <2>1, StepTypes
  <2>3. SlotConservation'
    <3>1. CASE Submit(j) \/ Step(j)
      BY <2>1, <3>1, StepConserves
    <3>2. CASE Environment(j)
      <4>1. slots' = slots /\ pc' = pc
        BY <3>2 DEF Environment, EgressMoves, DbMoves, BoxExits, BoxReaped
      <4> QED
        BY <2>1, <4>1 DEF SlotConservation, Holders
    <3> QED
      BY <1>3, <3>1, <3>2
  <2>4. slots' <= NSlots
    <3>1. IsFiniteSet(Holders')
      <4>1. Holders' \subseteq Jobs
        BY DEF Holders
      <4> QED
        BY <4>1, SupervisorAssumption, FS_Subset
    <3>2. Cardinality(Holders') \in Nat
      BY <3>1, FS_CardinalityType
    <3> QED
      BY <2>2, <2>3, <3>2, SupervisorAssumption DEF SlotConservation
  <2>5. SandboxSupervised'
    BY <1>3, <2>1, StepSupervises
  <2> QED
    BY <2>1, <2>2, <2>3, <2>4, <2>5, SupervisorAssumption DEF IInv, TypeOK
<1> QED
  BY <1>1, <1>2, <1>3 DEF Next

(* A running sandbox's thread is among the holders, so there are no more   *)
(* running sandboxes than slots taken.                                     *)
LEMMA IInvBoundsRunning ==
  ASSUME IInv
  PROVE  RunningBounded
<1>1. Running \subseteq Holders
  BY DEF IInv, SandboxSupervised, Running, Holders, Holding, Label
<1>2. Cardinality(Running) <= Cardinality(Holders) /\ Cardinality(Running) \in Nat
  BY <1>1, HoldersFinite, FS_Subset, FS_CardinalityType
<1> QED
  BY <1>2, HoldersFinite, SupervisorAssumption
  DEF IInv, TypeOK, SlotConservation, RunningBounded

-----------------------------------------------------------------------------
(* IInv holds in every reachable state of the supervisor.                  *)
THEOREM InductiveInvariant == Spec => []IInv
<1>1. Init => IInv
  BY InitIInv
<1>2. IInv /\ [Next]_vars => IInv'
  BY NextIInv
<1> QED
  BY <1>1, <1>2, PTL DEF Spec

(* Every variable keeps its type; in particular no sequence of releases    *)
(* lifts the semaphore above N_SLOTS.                                      *)
THEOREM TypeInvariant == Spec => []TypeOK
<1>1. IInv => TypeOK
  BY DEF IInv
<1> QED
  BY <1>1, InductiveInvariant, PTL

(* No path through handle_request leaks a slot or gives one back twice.    *)
THEOREM SlotsConserved == Spec => []SlotConservation
<1>1. IInv => SlotConservation
  BY DEF IInv
<1> QED
  BY <1>1, InductiveInvariant, PTL

(* No sandbox outlives the supervision of its thread.                      *)
THEOREM SandboxesSupervised == Spec => []SandboxSupervised
<1>1. IInv => SandboxSupervised
  BY DEF IInv
<1> QED
  BY <1>1, InductiveInvariant, PTL

(* Never more than N_SLOTS sandboxes at a time, whatever fails or crashes. *)
THEOREM SandboxesBounded == Spec => []RunningBounded
<1>1. IInv => RunningBounded
  BY IInvBoundsRunning
<1> QED
  BY <1>1, InductiveInvariant, PTL
=============================================================================
