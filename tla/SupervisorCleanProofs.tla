----------------------- MODULE SupervisorCleanProofs -----------------------
(***************************************************************************)
(* Proof that an answered job leaves nothing behind: the finally block of  *)
(* handle_request undoes whatever part of the setup was done, whichever    *)
(* step of it failed. And that the setup launches no sandbox before the    *)
(* proxies it needs.                                                       *)
(***************************************************************************)
EXTENDS SupervisorProofs

(* Where in its life a job may own what. A job that was lost in a crash    *)
(* keeps what it had.                                                      *)
Finally  == {"stopEgress", "stopDb", "removePolicy", "removeCgroup", "killBox",
             "release"}
AfterDb  == {"inject", "launch", "cgroup", "read", "stopEgress"}

MayOwnPolicyFile == {"config", "egressStart", "egressWait", "dbStart", "dbWait",
                     "stopDb", "removePolicy", "lost"} \cup AfterDb
MayOwnEgress     == {"dbStart", "dbWait", "lost"} \cup AfterDb
MayOwnDb         == {"dbWait", "stopDb", "lost"} \cup AfterDb
MayOwnFds        == {"launch", "cgroup", "raised"} \cup Finally
MayOwnCgroup     == {"read", "stopEgress", "stopDb", "removePolicy",
                     "removeCgroup", "raised", "lost"}
BeforeEgress     == {"idle", "wait", "parse", "policy", "config", "egressStart"}

EgressOwned(j) ==
  \/ pc[j] \in {"egressWait", "lost"}
  \/ egressKnown[j] /\ pc[j] \in MayOwnEgress

JobClean(j) ==
  /\ policyFile[j] => pc[j] \in MayOwnPolicyFile
  /\ egress[j] \in Alive => EgressOwned(j)
  /\ egressDir[j] => EgressOwned(j) \/ egress[j] = "none"
  /\ pc[j] \in BeforeEgress => egress[j] = "none"
  /\ dbDir[j] \/ db[j] \in Alive => pc[j] \in MayOwnDb
  /\ pc[j] \notin MayOwnFds => fds[j] \subseteq {"lost"}
  /\ cgroup[j] => \/ pc[j] \in MayOwnCgroup
                  \/ /\ pc[j] \in {"killBox", "release", "done"}
                     /\ box[j] \in {"killed", "reaped"} \/ outcome[j] = "error"
  /\ box[j] = "running" /\ pc[j] \in Finally => outcome[j] = "error"

CleanInv == \A j \in Jobs : JobClean(j)

-----------------------------------------------------------------------------
LEMMA InitClean == Init => CleanInv
BY DEF Init, CleanInv, JobClean, Alive, BeforeEgress

(* A step of one job leaves the state of every other job as it is.         *)
Untouched(k) ==
  /\ pc'[k] = pc[k] /\ req'[k] = req[k] /\ outcome'[k] = outcome[k]
  /\ policyFile'[k] = policyFile[k]
  /\ egress'[k] = egress[k] /\ egressDir'[k] = egressDir[k]
  /\ egressKnown'[k] = egressKnown[k]
  /\ db'[k] = db[k] /\ dbDir'[k] = dbDir[k]
  /\ fds'[k] = fds[k] /\ box'[k] = box[k] /\ cgroup'[k] = cgroup[k]

LEMMA UntouchedClean ==
  ASSUME NEW k \in Jobs, JobClean(k), Untouched(k)
  PROVE  JobClean(k)'
BY DEF JobClean, Untouched, EgressOwned

LEMMA StepFrame ==
  ASSUME TypeOK, NEW j \in Jobs, NEW k \in Jobs, k # j,
         Submit(j) \/ Step(j) \/ Environment(j)
  PROVE  Untouched(k)
<1> USE DEF TypeOK, JobsTypeOK, Untouched, Goto, Answer, Raise, resources,
            egressVars, dbVars, boxVars
<1>1. CASE Submit(j)
  BY <1>1 DEF Submit
<1>2. CASE Acquire(j) \/ Overloaded(j) \/ ParsePolicy(j)
  BY <1>2 DEF Acquire, Overloaded, ParsePolicy
<1>3. CASE WritePolicy(j)
  BY <1>3 DEF WritePolicy
<1>4. CASE ReadConfig(j)
  BY <1>4 DEF ReadConfig
<1>5. CASE StartEgress(j)
  BY <1>5 DEF StartEgress
<1>6. CASE EgressReady(j)
  BY <1>6 DEF EgressReady
<1>7. CASE EgressNotReady(j)
  BY <1>7 DEF EgressNotReady
<1>8. CASE StartDb(j)
  BY <1>8 DEF StartDb
<1>9. CASE DbReady(j) \/ DbNotReady(j)
  BY <1>9 DEF DbReady, DbNotReady
<1>10. CASE Inject(j)
  BY <1>10 DEF Inject
<1>11. CASE Launch(j)
  BY <1>11 DEF Launch
<1>12. CASE ApplyCgroup(j)
  BY <1>12 DEF ApplyCgroup, CloseFds
<1>13. CASE ReadOutput(j)
  BY <1>13 DEF ReadOutput
<1>14. CASE StopEgress(j)
  BY <1>14 DEF StopEgress
<1>15. CASE StopDb(j)
  BY <1>15 DEF StopDb
<1>16. CASE RemovePolicy(j)
  BY <1>16 DEF RemovePolicy
<1>17. CASE RemoveCgroup(j)
  BY <1>17 DEF RemoveCgroup
<1>18. CASE KillBox(j)
  BY <1>18 DEF KillBox
<1>19. CASE Release(j)
  BY <1>19 DEF Release, CloseFds
<1>20. CASE EgressMoves(j) \/ DbMoves(j)
  BY <1>20 DEF EgressMoves, DbMoves
<1>21. CASE BoxExits(j) \/ BoxReaped(j)
  BY <1>21 DEF BoxExits, BoxReaped
<1> QED
  BY <1>1, <1>2, <1>3, <1>4, <1>5, <1>6, <1>7, <1>8, <1>9, <1>10, <1>11, <1>12,
     <1>13, <1>14, <1>15, <1>16, <1>17, <1>18, <1>19, <1>20, <1>21 DEF Step, Environment

(* A step of a job keeps the job's own part.                               *)
LEMMA StepClean ==
  ASSUME TypeOK, SandboxSupervised, NEW j \in Jobs, JobClean(j),
         Submit(j) \/ Step(j) \/ Environment(j)
  PROVE  JobClean(j)'
<1> USE DEF TypeOK, JobsTypeOK, JobClean, EgressOwned, SandboxSupervised, Running,
            At, Goto, Answer, Raise, resources, egressVars, dbVars, boxVars,
            Alive, Finally, AfterDb, MayOwnPolicyFile, MayOwnEgress, MayOwnDb,
            MayOwnFds, MayOwnCgroup, BeforeEgress
<1>1. CASE Submit(j)
  BY <1>1 DEF Submit
<1>2. CASE Acquire(j) \/ Overloaded(j) \/ ParsePolicy(j)
  <2>1. CASE Acquire(j)
    BY <2>1 DEF Acquire
  <2>2. CASE Overloaded(j)
    BY <2>2 DEF Overloaded
  <2>3. CASE ParsePolicy(j)
    BY <2>3 DEF ParsePolicy
  <2> QED
    BY <1>2, <2>1, <2>2, <2>3
<1>3. CASE WritePolicy(j)
  BY <1>3 DEF WritePolicy
<1>4. CASE ReadConfig(j)
  BY <1>4 DEF ReadConfig, AfterConfig, AfterEgress
<1>5. CASE StartEgress(j)
  BY <1>5 DEF StartEgress
<1>6. CASE EgressReady(j)
  BY <1>6 DEF EgressReady, AfterEgress
<1>7. CASE EgressNotReady(j)
  BY <1>7 DEF EgressNotReady, Signalled
<1>8. CASE StartDb(j)
  BY <1>8 DEF StartDb
<1>9. CASE DbReady(j) \/ DbNotReady(j)
  BY <1>9 DEF DbReady, DbNotReady
<1>10. CASE Inject(j)
  BY <1>10 DEF Inject
<1>11. CASE Launch(j)
  BY <1>11 DEF Launch
<1>12. CASE ApplyCgroup(j)
  BY <1>12 DEF ApplyCgroup, CloseFds
<1>13. CASE ReadOutput(j)
  BY <1>13 DEF ReadOutput
<1>14. CASE StopEgress(j)
  BY <1>14 DEF StopEgress, Stopped
<1>15. CASE StopDb(j)
  BY <1>15 DEF StopDb, Stopped
<1>16. CASE RemovePolicy(j)
  BY <1>16 DEF RemovePolicy
<1>17. CASE RemoveCgroup(j)
  BY <1>17 DEF RemoveCgroup
<1>18. CASE KillBox(j)
  BY <1>18 DEF KillBox
<1>19. CASE Release(j)
  BY <1>19 DEF Release, CloseFds
<1>20. CASE EgressMoves(j) \/ DbMoves(j)
  BY <1>20 DEF EgressMoves, DbMoves, MayBecome
<1>21. CASE BoxExits(j) \/ BoxReaped(j)
  BY <1>21 DEF BoxExits, BoxReaped
<1> QED
  BY <1>1, <1>2, <1>3, <1>4, <1>5, <1>6, <1>7, <1>8, <1>9, <1>10, <1>11, <1>12,
     <1>13, <1>14, <1>15, <1>16, <1>17, <1>18, <1>19, <1>20, <1>21 DEF Step, Environment

(* In a crash every job that owns anything is lost, and a job that is      *)
(* already answered keeps its answer.                                      *)
LEMMA CrashClean ==
  ASSUME TypeOK, SandboxSupervised, CleanInv, Crash
  PROVE  CleanInv'
<1> SUFFICES ASSUME NEW k \in Jobs PROVE JobClean(k)'
  BY DEF CleanInv
<1> USE DEF Crash, ThreadsDie, TypeOK, JobsTypeOK, egressVars, dbVars
<1>1. JobClean(k)
  BY DEF CleanInv
<1>2. CASE k \in InFlight
  <2>1. pc'[k] = "lost" /\ fds'[k] = {}
    BY <1>2
  <2> QED
    BY <2>1 DEF JobClean, EgressOwned, MayOwnPolicyFile, MayOwnEgress, MayOwnDb,
       MayOwnCgroup, BeforeEgress, Finally
<1>3. CASE k \notin InFlight
  <2>1. pc'[k] = pc[k] /\ outcome'[k] = outcome[k] /\ fds'[k] = {}
    BY <1>3
  <2>2. box'[k] = box[k]
    <3>1. box[k] # "running"
      BY <1>3 DEF InFlight, SandboxSupervised, Running
    <3> QED
      BY <3>1
  <2> QED
    BY <1>1, <2>1, <2>2 DEF JobClean, EgressOwned
<1> QED
  BY <1>2, <1>3

LEMMA NextClean ==
  ASSUME IInv, CleanInv, [Next]_vars
  PROVE  CleanInv'
<1>1. CASE UNCHANGED vars
  BY <1>1 DEF vars, resources, egressVars, dbVars, boxVars, CleanInv, JobClean,
     EgressOwned
<1>2. CASE Crash
  BY <1>2, CrashClean DEF IInv
<1>3. ASSUME NEW j \in Jobs, Submit(j) \/ Step(j) \/ Environment(j)
      PROVE  CleanInv'
  <2> SUFFICES ASSUME NEW k \in Jobs PROVE JobClean(k)'
    BY DEF CleanInv
  <2>1. JobClean(k) /\ JobClean(j) /\ TypeOK /\ SandboxSupervised
    BY DEF CleanInv, IInv
  <2>2. CASE k = j
    BY <1>3, <2>1, <2>2, StepClean
  <2>3. CASE k # j
    BY <1>3, <2>1, <2>3, StepFrame, UntouchedClean
  <2> QED
    BY <2>2, <2>3
<1> QED
  BY <1>1, <1>2, <1>3 DEF Next

-----------------------------------------------------------------------------
(* handle_request: a job whose request has been answered has no policy     *)
(* file, no DB directory, no running sandbox and no unsignalled proxy, and *)
(* no descriptor but one whose variable was overwritten.                   *)
THEOREM AnsweredJobsClean == Spec => []AnsweredClean
<1>1. Init => CleanInv
  BY InitClean
<1>2. IInv /\ CleanInv /\ [Next]_vars => CleanInv'
  BY NextClean
<1>3. IInv /\ CleanInv => AnsweredClean
  <2> SUFFICES ASSUME IInv, CleanInv, NEW j \in Jobs, pc[j] = "done"
               PROVE  /\ ~policyFile[j] /\ ~dbDir[j] /\ fds[j] \subseteq {"lost"}
                      /\ box[j] # "running"
                      /\ egress[j] \notin Alive /\ db[j] \notin Alive
                      /\ egressDir[j] => egress[j] = "none"
                      /\ cgroup[j] => \/ box[j] \in {"killed", "reaped"}
                                      \/ outcome[j] = "error"
    BY DEF AnsweredClean
  <2>1. JobClean(j)
    BY DEF CleanInv
  <2>2. box[j] # "running"
    BY DEF IInv, SandboxSupervised, Running
  <2> QED
    BY <2>1, <2>2 DEF JobClean, EgressOwned, MayOwnPolicyFile, MayOwnEgress,
       MayOwnDb, MayOwnFds, MayOwnCgroup, AfterDb, Finally
<1> QED
  BY <1>1, <1>2, <1>3, InductiveInvariant, PTL DEF Spec

(* While nothing else removes a policy file the finally block cannot raise,*)
(* and then no slot is missing once every request has ended.               *)
THEOREM SlotsComeBack ==
  ASSUME "removePolicy" \notin Faults
  PROVE  Spec => []AllSlotsBack
<1> DEFINE NeverRaised == \A j \in Jobs : pc[j] # "raised"
<1>1. Init => NeverRaised
  BY DEF Init
<1>2. ASSUME IInv, NeverRaised, [Next]_vars
      PROVE  NeverRaised'
  <2> USE DEF IInv, TypeOK, JobsTypeOK
  <2>1. CASE UNCHANGED vars
    BY <1>2, <2>1 DEF vars
  <2>2. CASE Crash
    BY <1>2, <2>2 DEF Crash, ThreadsDie
  <2>3. ASSUME NEW j \in Jobs, Submit(j) \/ Step(j) \/ Environment(j)
        PROVE  NeverRaised'
    <3>1. ASSUME NEW k \in Jobs, k # j PROVE pc'[k] = pc[k]
      BY <1>2, <2>3, <3>1, StepFrame DEF Untouched
    <3>2. pc'[j] # "raised"
      BY <1>2, <2>3 DEF Submit, Step, Environment, Acquire, Overloaded,
         ParsePolicy, WritePolicy, ReadConfig, StartEgress, EgressReady,
         EgressNotReady, StartDb, DbReady, DbNotReady, Inject, Launch,
         ApplyCgroup, ReadOutput, StopEgress, StopDb, RemovePolicy,
         RemoveCgroup, KillBox, Release, EgressMoves, DbMoves, BoxExits,
         BoxReaped, Goto, Answer, Raise, AfterConfig, AfterEgress
    <3> QED
      BY <1>2, <3>1, <3>2
  <2> QED
    BY <1>2, <2>1, <2>2, <2>3 DEF Next
<1>3. IInv /\ NeverRaised => AllSlotsBack
  <2> SUFFICES ASSUME IInv, NeverRaised,
                      \A j \in Jobs : pc[j] \in {"idle", "done", "raised", "lost"}
               PROVE  slots = NSlots
    BY DEF AllSlotsBack
  <2>1. Holders = {}
    BY DEF Holders, Holding
  <2> QED
    BY <2>1, FS_EmptySet, SupervisorAssumption DEF IInv, TypeOK, SlotConservation
<1> QED
  BY <1>1, <1>2, <1>3, InductiveInvariant, PTL DEF Spec

-----------------------------------------------------------------------------
(* What the setup has behind it: a proxy that opened its socket stays one  *)
(* that did, whatever happens to its process later.                        *)
Opened       == ProxyState \ {"none", "starting", "failed"}
BeforeLaunch == {"idle", "wait", "parse", "policy", "config", "egressStart",
                 "egressWait", "dbStart", "dbWait", "inject", "launch"}

JobReady(j) ==
  /\ pc[j] \in BeforeLaunch => box[j] = "none"
  /\ NeedsEgress(j) /\ (pc[j] \in {"dbStart", "dbWait", "inject", "launch"}
                           \/ box[j] # "none") => egress[j] \in Opened
  /\ NeedsDb(j) /\ (pc[j] \in {"inject", "launch"} \/ box[j] # "none")
       => db[j] \in Opened

ReadyInv == \A j \in Jobs : JobReady(j)

(* A step of a job keeps the job's own part.                               *)
LEMMA StepReady ==
  ASSUME TypeOK, NEW j \in Jobs, JobReady(j),
         Submit(j) \/ Step(j) \/ Environment(j)
  PROVE  JobReady(j)'
<1> USE DEF TypeOK, JobsTypeOK, JobReady, Opened, BeforeLaunch, ProxyState,
            NeedsEgress, NeedsDb, At, Goto, Answer, Raise, resources,
            egressVars, dbVars, boxVars
<1>1. CASE Submit(j)
  BY <1>1 DEF Submit
<1>2. CASE Acquire(j) \/ Overloaded(j) \/ ParsePolicy(j)
  BY <1>2 DEF Acquire, Overloaded, ParsePolicy
<1>3. CASE WritePolicy(j)
  BY <1>3 DEF WritePolicy
<1>4. CASE ReadConfig(j)
  BY <1>4 DEF ReadConfig, AfterConfig, AfterEgress
<1>5. CASE StartEgress(j)
  BY <1>5 DEF StartEgress
<1>6. CASE EgressReady(j)
  BY <1>6 DEF EgressReady, AfterEgress
<1>7. CASE EgressNotReady(j)
  BY <1>7 DEF EgressNotReady, Signalled, Alive
<1>8. CASE StartDb(j)
  BY <1>8 DEF StartDb
<1>9. CASE DbReady(j) \/ DbNotReady(j)
  BY <1>9 DEF DbReady, DbNotReady
<1>10. CASE Inject(j)
  BY <1>10 DEF Inject
<1>11. CASE Launch(j)
  BY <1>11 DEF Launch
<1>12. CASE ApplyCgroup(j)
  BY <1>12 DEF ApplyCgroup, CloseFds
<1>13. CASE ReadOutput(j)
  BY <1>13 DEF ReadOutput
<1>14. CASE StopEgress(j)
  BY <1>14 DEF StopEgress, Stopped, Alive
<1>15. CASE StopDb(j)
  BY <1>15 DEF StopDb, Stopped, Alive
<1>16. CASE RemovePolicy(j) \/ RemoveCgroup(j)
  BY <1>16 DEF RemovePolicy, RemoveCgroup
<1>17. CASE KillBox(j) \/ Release(j)
  BY <1>17 DEF KillBox, Release
<1>18. CASE EgressMoves(j) \/ DbMoves(j)
  BY <1>18 DEF EgressMoves, DbMoves, MayBecome
<1>19. CASE BoxExits(j) \/ BoxReaped(j)
  BY <1>19 DEF BoxExits, BoxReaped
<1> QED
  BY <1>1, <1>2, <1>3, <1>4, <1>5, <1>6, <1>7, <1>8, <1>9, <1>10, <1>11, <1>12,
     <1>13, <1>14, <1>15, <1>16, <1>17, <1>18, <1>19 DEF Step, Environment

LEMMA NextReady ==
  ASSUME TypeOK, ReadyInv, [Next]_vars
  PROVE  ReadyInv'
<1> SUFFICES ASSUME NEW k \in Jobs PROVE JobReady(k)'
  BY DEF ReadyInv
<1>1. JobReady(k)
  BY DEF ReadyInv
<1>2. CASE UNCHANGED vars
  BY <1>1, <1>2 DEF vars, resources, egressVars, dbVars, boxVars, JobReady,
     NeedsEgress, NeedsDb
<1>3. CASE Crash
  BY <1>1, <1>3 DEF Crash, ThreadsDie, TypeOK, JobsTypeOK, egressVars, dbVars,
     JobReady, BeforeLaunch, NeedsEgress, NeedsDb
<1>4. ASSUME NEW j \in Jobs, Submit(j) \/ Step(j) \/ Environment(j)
      PROVE  JobReady(k)'
  <2>1. CASE k = j
    BY <1>1, <1>4, <2>1, StepReady
  <2>2. CASE k # j
    <3>1. Untouched(k)
      BY <1>4, <2>2, StepFrame
    <3> QED
      BY <1>1, <3>1 DEF JobReady, Untouched, NeedsEgress, NeedsDb
  <2> QED
    BY <2>1, <2>2
<1> QED
  BY <1>2, <1>3, <1>4 DEF Next

(* handle_request launches no sandbox before every proxy its policy asks   *)
(* for has opened its socket, whichever steps fail and whenever a proxy or *)
(* the supervisor dies.                                                    *)
THEOREM ProxiesFirst == Spec => []ProxiesBeforeSandbox
<1>1. Init => ReadyInv
  BY DEF Init, ReadyInv, JobReady, BeforeLaunch
<1>2. IInv /\ ReadyInv /\ [Next]_vars => ReadyInv'
  BY NextReady DEF IInv
<1>3. ReadyInv => ProxiesBeforeSandbox
  BY DEF ReadyInv, JobReady, Opened, ProxiesBeforeSandbox
<1> QED
  BY <1>1, <1>2, <1>3, InductiveInvariant, PTL DEF Spec
=============================================================================
