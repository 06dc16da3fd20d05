------------------------ MODULE SupervisorRefinement ------------------------
(* The safety part of ImplementsSlotPool: every step of the supervisor is  *)
(* a step of SlotPool or changes no request's status, for any finite set   *)
(* of requests, any number of slots, any faults and any number of crashes. *)
EXTENDS SupervisorProofs

PoolStatus == [j \in Jobs |-> StatusOf(j)]

(* An overload answer is final: StatusOf reads the outcome of a request    *)
(* only when it is done, and one that was refused must not be served.      *)
RefusedIsDone == \A j \in Jobs : outcome[j] = "overloaded" => pc[j] = "done"

RInv == IInv /\ RefusedIsDone

-----------------------------------------------------------------------------
(* The requests SlotPool calls admitted are those that hold a slot.        *)
LEMMA AdmittedAreHolders ==
  ASSUME TypeOK PROVE Pool!Admitted = Holders
BY DEF TypeOK, JobsTypeOK, Pool!Admitted, PoolStatus, StatusOf, Holders, Holding,
       Label

(* The instance has a copy of FiniteSets of its own.                       *)
LEMMA SameCardinality ==
  ASSUME NEW S PROVE Pool!Cardinality(S) = Cardinality(S)
BY DEF Cardinality, Pool!Cardinality, IsFiniteSet, Pool!IsFiniteSet

(* A step of one thread changes the status of its request only.            *)
LEMMA OneStatusChanges ==
  ASSUME TypeOK, NEW j \in Jobs, NEW to,
         \A k \in Jobs \ {j} : pc'[k] = pc[k] /\ outcome'[k] = outcome[k],
         StatusOf(j)' = to
  PROVE  PoolStatus' = [PoolStatus EXCEPT ![j] = to]
<1>1. \A k \in Jobs \ {j} : StatusOf(k)' = StatusOf(k)
  BY DEF StatusOf
<1>2. PoolStatus' = [k \in Jobs |-> StatusOf(k)']
  BY DEF PoolStatus
<1>3. PoolStatus = [k \in Jobs |-> StatusOf(k)]
  BY DEF PoolStatus
<1>4. \A k \in Jobs : StatusOf(k)' = IF k = j THEN to ELSE StatusOf(k)
  BY <1>1
<1> QED
  BY <1>2, <1>3, <1>4

LEMMA OthersUntouched ==
  ASSUME TypeOK, NEW j \in Jobs, Submit(j) \/ Step(j)
  PROVE  \A k \in Jobs \ {j} : pc'[k] = pc[k] /\ outcome'[k] = outcome[k]
<1> USE DEF TypeOK, JobsTypeOK, Goto, Answer, Raise
<1>1. CASE Submit(j) \/ Acquire(j) \/ Overloaded(j) \/ ParsePolicy(j)
  BY <1>1 DEF Submit, Acquire, Overloaded, ParsePolicy
<1>2. CASE WritePolicy(j) \/ ReadConfig(j) \/ StartEgress(j) \/ EgressReady(j)
             \/ EgressNotReady(j)
  BY <1>2 DEF WritePolicy, ReadConfig, StartEgress, EgressReady, EgressNotReady
<1>3. CASE StartDb(j) \/ DbReady(j) \/ DbNotReady(j) \/ Inject(j) \/ Launch(j)
             \/ ApplyCgroup(j) \/ ReadOutput(j)
  BY <1>3 DEF StartDb, DbReady, DbNotReady, Inject, Launch, ApplyCgroup, ReadOutput
<1>4. CASE StopEgress(j) \/ StopDb(j) \/ RemovePolicy(j) \/ RemoveCgroup(j)
             \/ KillBox(j) \/ Release(j)
  BY <1>4 DEF StopEgress, StopDb, RemovePolicy, RemoveCgroup, KillBox, Release
<1> QED
  BY <1>1, <1>2, <1>3, <1>4 DEF Step

-----------------------------------------------------------------------------
(* RefusedIsDone is inductive: a thread that is done takes no step.        *)
LEMMA NextRInv ==
  ASSUME RInv, [Next]_vars
  PROVE  RInv'
<1> USE DEF RInv, IInv
<1>1. IInv'
  BY NextIInv
<1>2. CASE UNCHANGED vars
  BY <1>1, <1>2 DEF vars, RefusedIsDone
<1>3. CASE Crash
  BY <1>1, <1>3
     DEF RefusedIsDone, Crash, ThreadsDie, InFlight, TypeOK, JobsTypeOK
<1>4. ASSUME NEW j \in Jobs, Environment(j) PROVE RInv'
  BY <1>1, <1>4
     DEF RefusedIsDone, Environment, EgressMoves, DbMoves, BoxExits, BoxReaped
<1>5. ASSUME NEW j \in Jobs, Submit(j) \/ Step(j) PROVE RInv'
  <2>1. \A k \in Jobs \ {j} : pc'[k] = pc[k] /\ outcome'[k] = outcome[k]
    BY <1>5, OthersUntouched
  <2>2. outcome'[j] = "overloaded" => pc'[j] = "done"
    <3> USE DEF TypeOK, JobsTypeOK, RefusedIsDone, At, Goto, Answer, Raise
    <3>1. CASE Submit(j) \/ Acquire(j) \/ Overloaded(j) \/ ParsePolicy(j)
      BY <3>1 DEF Submit, Acquire, Overloaded, ParsePolicy
    <3>2. CASE InsideAction(j)
      <4>1. pc[j] # "done"
        BY <3>2, InsideActionStep DEF InsideStep, Holding
      <4>2. outcome[j] # "overloaded"
        BY <4>1
      <4>3. CASE WritePolicy(j) \/ ReadConfig(j) \/ StartEgress(j)
                   \/ EgressReady(j) \/ EgressNotReady(j)
        BY <4>2, <4>3
           DEF WritePolicy, ReadConfig, StartEgress, EgressReady, EgressNotReady
      <4>4. CASE StartDb(j) \/ DbReady(j) \/ DbNotReady(j) \/ Inject(j)
                   \/ Launch(j) \/ ApplyCgroup(j) \/ ReadOutput(j)
        BY <4>2, <4>4
           DEF StartDb, DbReady, DbNotReady, Inject, Launch, ApplyCgroup, ReadOutput
      <4>5. CASE StopEgress(j) \/ StopDb(j) \/ RemovePolicy(j) \/ RemoveCgroup(j)
                   \/ KillBox(j)
        BY <4>2, <4>5 DEF StopEgress, StopDb, RemovePolicy, RemoveCgroup, KillBox
      <4> QED
        BY <3>1, <3>2, <4>3, <4>4, <4>5 DEF InsideAction
    <3>3. CASE Release(j)
      BY <3>3 DEF Release
    <3> QED
      BY <1>5, <3>1, <3>2, <3>3 DEF Step, InsideAction
  <2> QED
    BY <1>1, <2>1, <2>2 DEF RefusedIsDone
<1> QED
  BY <1>2, <1>3, <1>4, <1>5 DEF Next

-----------------------------------------------------------------------------
LEMMA InitRefines == ASSUME Init PROVE Pool!Init
BY DEF Init, Pool!Init, StatusOf

(* Acquire admits below the limit and Overloaded refuses at the limit,     *)
(* which is what conservation of the slots says of the semaphore's value.  *)
LEMMA AdmissionRefines ==
  ASSUME RInv, NEW j \in Jobs, Acquire(j) \/ Overloaded(j)
  PROVE  Pool!Admit(j) \/ Pool!Refuse(j)
<1> USE DEF RInv, IInv
<1>1. \A k \in Jobs \ {j} : pc'[k] = pc[k] /\ outcome'[k] = outcome[k]
  BY OthersUntouched DEF Step
<1>2. Cardinality(Pool!Admitted) + slots = NSlots
        /\ Cardinality(Pool!Admitted) \in Nat /\ slots \in Nat /\ NSlots \in Nat
  BY AdmittedAreHolders, HoldersFinite, SupervisorAssumption
     DEF SlotConservation, TypeOK
<1>3. PoolStatus[j] = "waiting"
  BY DEF PoolStatus, StatusOf, Acquire, Overloaded, At
<1>4. CASE Acquire(j)
  <2>1. StatusOf(j)' = "admitted"
    BY <1>4 DEF Acquire, Goto, StatusOf, TypeOK, JobsTypeOK
  <2>2. PoolStatus' = [PoolStatus EXCEPT ![j] = "admitted"]
    BY <1>1, <2>1, OneStatusChanges
  <2>3. Pool!Cardinality(Pool!Admitted) < NSlots
    BY <1>2, <1>4, SameCardinality DEF Acquire
  <2> QED
    BY <1>3, <2>2, <2>3 DEF Pool!Admit, Pool!Move, PoolStatus
<1>5. CASE Overloaded(j)
  <2>1. StatusOf(j)' = "refused"
    BY <1>5 DEF Overloaded, Answer, StatusOf, TypeOK, JobsTypeOK
  <2>2. PoolStatus' = [PoolStatus EXCEPT ![j] = "refused"]
    BY <1>1, <2>1, OneStatusChanges
  <2>3. Pool!Cardinality(Pool!Admitted) = NSlots
    BY <1>2, <1>5, SameCardinality DEF Overloaded
  <2> QED
    BY <1>3, <2>2, <2>3 DEF Pool!Refuse, Pool!Move, PoolStatus
<1> QED
  BY <1>4, <1>5

(* The other steps of a thread: a submission, an answer, or a step between *)
(* two labels that both hold a slot.                                       *)
LEMMA ThreadRefines ==
  ASSUME RInv, NEW j \in Jobs, Submit(j) \/ Step(j)
  PROVE  Pool!Next \/ PoolStatus' = PoolStatus
<1> USE DEF RInv, IInv
<1>1. \A k \in Jobs \ {j} : pc'[k] = pc[k] /\ outcome'[k] = outcome[k]
  BY OthersUntouched
<1>2. CASE Submit(j)
  <2>1. StatusOf(j) = "new" /\ StatusOf(j)' = "waiting"
    BY <1>2 DEF Submit, At, Goto, StatusOf, TypeOK, JobsTypeOK
  <2>2. PoolStatus' = [PoolStatus EXCEPT ![j] = "waiting"]
    BY <1>1, <2>1, OneStatusChanges
  <2>3. Pool!Submit(j)
    BY <2>1, <2>2 DEF Pool!Submit, Pool!Move, PoolStatus
  <2> QED
    BY <2>3 DEF Pool!Next
<1>3. CASE Acquire(j) \/ Overloaded(j)
  BY <1>3, AdmissionRefines DEF Pool!Next
<1>4. CASE (ParsePolicy(j) /\ req[j] = "badJson") \/ Release(j)
  <2>1. pc[j] \in {"parse", "release"}
    BY <1>4 DEF ParsePolicy, Release, At
  <2>2. outcome[j] # "overloaded"
    BY <2>1 DEF RefusedIsDone
  <2>3. pc'[j] = "done" /\ outcome'[j] # "overloaded"
    BY <1>4, <2>2 DEF ParsePolicy, Release, Goto, Answer, TypeOK, JobsTypeOK
  <2>4. StatusOf(j) = "admitted" /\ StatusOf(j)' = "served"
    BY <2>1, <2>3 DEF StatusOf
  <2>5. PoolStatus' = [PoolStatus EXCEPT ![j] = "served"]
    BY <1>1, <2>4, OneStatusChanges
  <2>6. Pool!Serve(j)
    BY <2>4, <2>5 DEF Pool!Serve, Pool!Move, PoolStatus
  <2> QED
    BY <2>6 DEF Pool!Next
<1>5. CASE InsideAction(j)
  <2>1. pc[j] \in Holding /\ pc'[j] \in Holding
    BY <1>5, InsideActionStep DEF InsideStep, TypeOK, JobsTypeOK
  <2>2. StatusOf(j) = "admitted" /\ StatusOf(j)' = "admitted"
    BY <2>1 DEF StatusOf, Holding
  <2> QED
    BY <1>1, <2>2 DEF PoolStatus, StatusOf
<1> QED
  BY <1>2, <1>3, <1>4, <1>5 DEF Step, InsideAction

(* A crash loses the requests in flight and no other.                      *)
LEMMA CrashRefines ==
  ASSUME RInv, Crash PROVE Pool!Die
BY DEF RInv, IInv, TypeOK, JobsTypeOK, Crash, ThreadsDie, InFlight, StatusOf,
       Pool!Die, Label

LEMMA StepRefines ==
  ASSUME RInv, [Next]_vars
  PROVE  [Pool!Next]_PoolStatus
<1>1. CASE UNCHANGED vars
  BY <1>1 DEF vars, PoolStatus, StatusOf
<1>2. CASE Crash
  BY <1>2, CrashRefines DEF Pool!Next
<1>3. ASSUME NEW j \in Jobs, Environment(j)
      PROVE  PoolStatus' = PoolStatus
  BY <1>3 DEF PoolStatus, StatusOf, Environment, EgressMoves, DbMoves, BoxExits,
              BoxReaped
<1>4. ASSUME NEW j \in Jobs, Submit(j) \/ Step(j)
      PROVE  Pool!Next \/ PoolStatus' = PoolStatus
  BY <1>4, ThreadRefines
<1> QED
  BY <1>1, <1>2, <1>3, <1>4 DEF Next

-----------------------------------------------------------------------------
(* An overload answer is never followed by anything else.                  *)
THEOREM RefusalsAreFinal == Spec => []RInv
<1>1. Init => RInv
  BY InitIInv DEF RInv, RefusedIsDone, Init
<1>2. RInv /\ [Next]_vars => RInv'
  BY NextRInv
<1> QED
  BY <1>1, <1>2, PTL DEF Spec

(* handle_request keeps SlotPool's promise: it admits only below N_SLOTS,  *)
(* refuses only at N_SLOTS, and what it admitted it serves or loses with   *)
(* the process.                                                            *)
THEOREM SlotPoolImplemented == Spec => Pool!Safe
<1>1. Init => Pool!Init
  BY InitRefines
<1>2. RInv /\ [Next]_vars => [Pool!Next]_PoolStatus
  BY StepRefines
<1> QED
  BY <1>1, <1>2, RefusalsAreFinal, PTL DEF Spec, Pool!Safe, PoolStatus
=============================================================================
