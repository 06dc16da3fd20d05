----------------------------- MODULE Supervisor -----------------------------
(***************************************************************************)
(* advanced-sandbox/supervisor.py: the threads that each run               *)
(* handle_request, the semaphore they share, and every resource a job      *)
(* creates outside its own stack: the policy file, the two proxy processes *)
(* and their socket directories, the injected descriptors, the bwrap       *)
(* process and its cgroup.                                                 *)
(*                                                                         *)
(* A job is one request. pc[j] is the next thing its thread does; between  *)
(* two steps any other thread, proxy or sandbox may move, and the whole    *)
(* supervisor may die (Crash). Reading the sandbox's output is one step    *)
(* here and is modelled in detail by ReadOutput.                           *)
(***************************************************************************)
EXTENDS Naturals, FiniteSets

CONSTANTS Jobs,        \* requests, each handled by a thread of its own
          NSlots,      \* SANDBOX_MAX_SLOTS
          Requests,    \* the kinds of policy the callers send
          Faults,      \* the operating-system calls that may fail
          MaxCrashes   \* bound on deaths of the supervisor process

VARIABLES slots,       \* value of slot_semaphore
          pc,          \* Jobs -> Label, where the thread is
          req,         \* Jobs -> AllRequests
          outcome,     \* Jobs -> Outcome, what handle_request returns
          policyFile,  \* Jobs -> BOOLEAN, the temporary policy file exists
          egress,      \* Jobs -> ProxyState, the egress proxy process
          egressDir,   \* Jobs -> BOOLEAN, its socket directory exists
          egressKnown, \* Jobs -> BOOLEAN, task_egress_proc/_sock_dir are set
          db,          \* Jobs -> ProxyState, the DB proxy process
          dbDir,       \* Jobs -> BOOLEAN, its socket directory exists
          fds,         \* Jobs -> SUBSET FdNames, descriptors still held
          box,         \* Jobs -> BoxState, the bwrap process tree
          cgroup,      \* Jobs -> BOOLEAN, the job's pids cgroup exists
          crashes      \* deaths of the supervisor so far

egressVars == <<egress, egressDir, egressKnown>>
dbVars     == <<db, dbDir>>
boxVars    == <<fds, box, cgroup>>
resources  == <<policyFile, egressVars, dbVars, boxVars>>
vars       == <<slots, pc, req, outcome, resources, crashes>>

-----------------------------------------------------------------------------
(* "malformed" is valid JSON that is not an object of objects, so that a   *)
(* .get() on it raises; "BadDriver" names a driver without a socket name.  *)
AllRequests == {"denyAll", "badJson", "malformed", "net", "db", "netDb",
                "badDriver", "netBadDriver"}

NeedsEgress(j)  == req[j] \in {"net", "netDb", "netBadDriver"}
NeedsDb(j)      == req[j] \in {"db", "netDb", "badDriver", "netBadDriver"}
KnownDriver(j)  == req[j] \notin {"badDriver", "netBadDriver"}

AllFaults == {"mkstemp", "policyWrite", "egressDir", "egressSpawn", "dbSetup",
              "dbSpawn", "inject", "args", "launch", "read", "removePolicy"}

(* The descriptors handle_request creates for bwrap, by the variable that  *)
(* names each; "lost" are those whose variable was overwritten, which no   *)
(* one can close.                                                          *)
Fixed   == {"code", "req", "seccomp"}
FdNames == Fixed \cup {"args", "lost"}

Label == {"idle", "wait", "parse", "policy", "config", "egressStart",
          "egressWait", "dbStart", "dbWait", "inject", "launch", "cgroup",
          "read", "stopEgress", "stopDb", "removePolicy", "removeCgroup",
          "killBox", "release", "done", "raised", "lost"}

(* A thread at one of these labels has acquired and not released; one      *)
(* whose finally block raised never will.                                  *)
Holding == Label \ {"idle", "wait", "done", "lost"}
Holders == {j \in Jobs : pc[j] \in Holding}

Outcome == {"none", "overloaded", "badPolicy", "result", "error", "raised",
            "lost"}

(* "failed" died before its socket appeared, "crashed" after; "term" and   *)
(* "kill" have that signal pending.                                        *)
ProxyState == {"none", "starting", "up", "failed", "crashed", "term", "kill",
               "dead"}
Alive == {"starting", "up"}
Ended == {"none", "failed", "crashed", "dead"}

(* "killed": bwrap has been sent SIGKILL but processes of its PID          *)
(* namespace may still be exiting; "reaped": they are gone.                *)
BoxState == {"none", "running", "exited", "killed", "reaped"}

JobsTypeOK ==
  /\ pc \in [Jobs -> Label]
  /\ req \in [Jobs -> AllRequests]
  /\ outcome \in [Jobs -> Outcome]
  /\ policyFile \in [Jobs -> BOOLEAN]
  /\ egress \in [Jobs -> ProxyState]
  /\ egressDir \in [Jobs -> BOOLEAN]
  /\ egressKnown \in [Jobs -> BOOLEAN]
  /\ db \in [Jobs -> ProxyState]
  /\ dbDir \in [Jobs -> BOOLEAN]
  /\ fds \in [Jobs -> SUBSET FdNames]
  /\ box \in [Jobs -> BoxState]
  /\ cgroup \in [Jobs -> BOOLEAN]

TypeOK ==
  /\ slots \in 0 .. NSlots
  /\ crashes \in 0 .. MaxCrashes
  /\ JobsTypeOK

ASSUME SupervisorAssumption ==
  /\ IsFiniteSet(Jobs)
  /\ NSlots \in Nat
  /\ Requests \subseteq AllRequests
  /\ Faults \subseteq AllFaults
  /\ MaxCrashes \in Nat

Init ==
  /\ slots = NSlots
  /\ pc = [j \in Jobs |-> "idle"]
  /\ req = [j \in Jobs |-> "denyAll"]
  /\ outcome = [j \in Jobs |-> "none"]
  /\ policyFile = [j \in Jobs |-> FALSE]
  /\ egress = [j \in Jobs |-> "none"]
  /\ egressDir = [j \in Jobs |-> FALSE]
  /\ egressKnown = [j \in Jobs |-> FALSE]
  /\ db = [j \in Jobs |-> "none"]
  /\ dbDir = [j \in Jobs |-> FALSE]
  /\ fds = [j \in Jobs |-> {}]
  /\ box = [j \in Jobs |-> "none"]
  /\ cgroup = [j \in Jobs |-> FALSE]
  /\ crashes = 0

-----------------------------------------------------------------------------
(* Control: the thread of j goes from one label to the next, or an         *)
(* exception takes it to the finally block with an error response.         *)
At(j, label)   == pc[j] = label
Goto(j, label) == pc' = [pc EXCEPT ![j] = label] /\ UNCHANGED outcome
Answer(j, answer, label) ==
  /\ pc' = [pc EXCEPT ![j] = label]
  /\ outcome' = [outcome EXCEPT ![j] = answer]
Raise(j) == Answer(j, "error", "stopEgress")

-----------------------------------------------------------------------------
(* Admission.                                                              *)

Submit(j) ==
  /\ At(j, "idle")
  /\ \E kind \in Requests : req' = [req EXCEPT ![j] = kind]
  /\ Goto(j, "wait")
  /\ UNCHANGED <<slots, resources, crashes>>

Acquire(j) ==
  /\ At(j, "wait")
  /\ slots > 0
  /\ slots' = slots - 1
  /\ Goto(j, "parse")
  /\ UNCHANGED <<req, resources, crashes>>

(* Mutant: a timed wait that gives up without looking at the value again.  *)
OverloadedUnchecked(j) ==
  /\ At(j, "wait")
  /\ Answer(j, "overloaded", "done")
  /\ UNCHANGED <<slots, req, resources, crashes>>

(* Mutant: the overload answer goes through the release.                   *)
OverloadedReleases(j) ==
  /\ At(j, "wait")
  /\ slots = 0
  /\ slots' = slots + 1
  /\ Answer(j, "overloaded", "done")
  /\ UNCHANGED <<req, resources, crashes>>

(* Semaphore.acquire gives up only if the value is zero when MAX_WAIT_S    *)
(* has passed.                                                             *)
Overloaded(j) ==
  /\ At(j, "wait")
  /\ slots = 0
  /\ Answer(j, "overloaded", "done")
  /\ UNCHANGED <<slots, req, resources, crashes>>

(* Mutant: the early return keeps the slot.                                *)
ParsePolicyKeepsSlot(j) ==
  /\ At(j, "parse")
  /\ IF req[j] = "badJson"
       THEN Answer(j, "badPolicy", "done")
       ELSE Goto(j, "policy")
  /\ UNCHANGED <<slots, req, resources, crashes>>

ParsePolicy(j) ==
  /\ At(j, "parse")
  /\ IF req[j] = "badJson"
       THEN slots' = slots + 1 /\ Answer(j, "badPolicy", "done")
       ELSE UNCHANGED slots /\ Goto(j, "policy")
  /\ UNCHANGED <<req, resources, crashes>>

-----------------------------------------------------------------------------
(* Setting the job up.                                                     *)

WritePolicy(j) ==
  /\ At(j, "policy")
  /\ \/ /\ policyFile' = [policyFile EXCEPT ![j] = TRUE]
        /\ Goto(j, "config")
     \/ /\ "policyWrite" \in Faults
        /\ policyFile' = [policyFile EXCEPT ![j] = TRUE]
        /\ Raise(j)
     \/ /\ "mkstemp" \in Faults
        /\ Raise(j)
        /\ UNCHANGED policyFile
  /\ UNCHANGED <<slots, req, egressVars, dbVars, boxVars, crashes>>

AfterEgress(j) == IF NeedsDb(j) THEN "dbStart" ELSE "inject"
AfterConfig(j) == IF NeedsEgress(j) THEN "egressStart" ELSE AfterEgress(j)

ReadConfig(j) ==
  /\ At(j, "config")
  /\ \/ req[j] = "malformed" /\ Raise(j)
     \/ req[j] # "malformed" /\ Goto(j, AfterConfig(j))
  /\ UNCHANGED <<slots, req, resources, crashes>>

(* A failure between mkdtemp and the return of Popen leaves a directory    *)
(* that only a local variable of _start_per_job_egress_proxy names.        *)
StartEgress(j) ==
  /\ At(j, "egressStart")
  /\ \/ /\ egressDir' = [egressDir EXCEPT ![j] = TRUE]
        /\ egress' = [egress EXCEPT ![j] = "starting"]
        /\ Goto(j, "egressWait")
     \/ /\ "egressSpawn" \in Faults
        /\ egressDir' = [egressDir EXCEPT ![j] = TRUE]
        /\ Raise(j)
        /\ UNCHANGED egress
     \/ /\ "egressDir" \in Faults
        /\ Raise(j)
        /\ UNCHANGED <<egress, egressDir>>
  /\ UNCHANGED <<slots, req, policyFile, egressKnown, dbVars, boxVars, crashes>>

EgressReady(j) ==
  /\ At(j, "egressWait")
  /\ egress[j] = "up"
  /\ egressKnown' = [egressKnown EXCEPT ![j] = TRUE]
  /\ Goto(j, AfterEgress(j))
  /\ UNCHANGED <<slots, req, policyFile, egress, egressDir, dbVars, boxVars,
                 crashes>>

Signalled(proxy, signal) == IF proxy \in Alive THEN signal ELSE proxy

(* Mutant: the directory goes, the process that timed out stays.           *)
EgressNotReadyKeepsProxy(j) ==
  /\ At(j, "egressWait")
  /\ egressDir' = [egressDir EXCEPT ![j] = FALSE]
  /\ Raise(j)
  /\ UNCHANGED <<slots, req, policyFile, egress, egressKnown, dbVars, boxVars,
                 crashes>>

(* The proxy died, or the five seconds ran out: the poll and the socket    *)
(* test precede a sleep, so a proxy that is up by now is terminated too.   *)
EgressNotReady(j) ==
  /\ At(j, "egressWait")
  /\ egress' = [egress EXCEPT ![j] = Signalled(@, "term")]
  /\ egressDir' = [egressDir EXCEPT ![j] = FALSE]
  /\ Raise(j)
  /\ UNCHANGED <<slots, req, policyFile, egressKnown, dbVars, boxVars, crashes>>

StartDb(j) ==
  /\ At(j, "dbStart")
  /\ \/ /\ KnownDriver(j)
        /\ dbDir' = [dbDir EXCEPT ![j] = TRUE]
        /\ db' = [db EXCEPT ![j] = "starting"]
        /\ Goto(j, "dbWait")
     \/ /\ KnownDriver(j) /\ "dbSpawn" \in Faults
        /\ dbDir' = [dbDir EXCEPT ![j] = TRUE]
        /\ Raise(j)
        /\ UNCHANGED db
     \/ /\ KnownDriver(j) => "dbSetup" \in Faults
        /\ Raise(j)
        /\ UNCHANGED dbVars
  /\ UNCHANGED <<slots, req, policyFile, egressVars, boxVars, crashes>>

(* Mutant: the process is looked at, the socket is not.                    *)
DbReadyOnceStarted(j) ==
  /\ At(j, "dbWait")
  /\ db[j] \in Alive
  /\ Goto(j, "inject")
  /\ UNCHANGED <<slots, req, resources, crashes>>

(* Only the socket file is looked at, and it outlives the proxy.           *)
DbReady(j) ==
  /\ At(j, "dbWait")
  /\ db[j] \in {"up", "crashed"}
  /\ Goto(j, "inject")
  /\ UNCHANGED <<slots, req, resources, crashes>>

DbNotReady(j) ==
  /\ At(j, "dbWait")
  /\ Raise(j)
  /\ UNCHANGED <<slots, req, resources, crashes>>

(* The descriptors are created in the order code, req, seccomp, args. When *)
(* writing or rewinding the memfd of the arguments fails, a pipe takes its *)
(* variable, and the memfd is lost; when that fails too the job ends, with *)
(* whichever of memfd and pipe existed. Without SANDBOX_ARGFD_TRANSPORT,   *)
(* and with a plain argv, there are no args.                               *)
Inject(j) ==
  /\ At(j, "inject")
  /\ \/ /\ \E args \in {{}, {"args"}} : fds' = [fds EXCEPT ![j] = Fixed \cup args]
        /\ Goto(j, "launch")
     \/ /\ "args" \in Faults
        /\ fds' = [fds EXCEPT ![j] = FdNames]
        /\ Goto(j, "launch")
     \/ /\ "args" \in Faults
        /\ \E left \in SUBSET {"args", "lost"} :
              fds' = [fds EXCEPT ![j] = Fixed \cup left]
        /\ Raise(j)
     \/ /\ "inject" \in Faults
        /\ \E made \in {{}, {"code"}, {"code", "req"}, Fixed} :
              fds' = [fds EXCEPT ![j] = made]
        /\ Raise(j)
  /\ UNCHANGED <<slots, req, policyFile, egressVars, dbVars, box, cgroup,
                 crashes>>

Launch(j) ==
  /\ At(j, "launch")
  /\ \/ /\ box' = [box EXCEPT ![j] = "running"]
        /\ Goto(j, "cgroup")
     \/ /\ "launch" \in Faults
        /\ Raise(j)
        /\ UNCHANGED box
  /\ UNCHANGED <<slots, req, policyFile, egressVars, dbVars, fds, cgroup,
                 crashes>>

(* Every descriptor that still has a name is closed.                       *)
CloseFds(j) == fds' = [fds EXCEPT ![j] = @ \cap {"lost"}]

(* Cgroups may be unavailable; the job goes on without.                    *)
ApplyCgroup(j) ==
  /\ At(j, "cgroup")
  /\ \E made \in BOOLEAN : cgroup' = [cgroup EXCEPT ![j] = made]
  /\ CloseFds(j)
  /\ Goto(j, "read")
  /\ UNCHANGED <<slots, req, policyFile, egressVars, dbVars, box, crashes>>

(* _read_output returns only when bwrap has been waited for: it exited, or *)
(* the deadline (or five seconds after both pipes closed) had it killed.   *)
ReadOutput(j) ==
  /\ At(j, "read")
  /\ \/ /\ box[j] = "exited"
        /\ Answer(j, "result", "stopEgress")
        /\ UNCHANGED box
     \/ /\ box[j] = "running"
        /\ box' = [box EXCEPT ![j] = "killed"]
        /\ Answer(j, "result", "stopEgress")
     \/ /\ "read" \in Faults
        /\ Raise(j)
        /\ UNCHANGED box
  /\ UNCHANGED <<slots, req, policyFile, egressVars, dbVars, fds, cgroup,
                 crashes>>

-----------------------------------------------------------------------------
(* The finally block, in its order.                                        *)

(* Mutant: a proxy that ignores SIGTERM for two seconds is left alone.     *)
StoppedWithoutKill(proxy) ==
  IF proxy \in Alive THEN {"dead", proxy} ELSE {proxy}

(* terminate, wait two seconds, kill: what the proxy may be by then.       *)
Stopped(proxy) == IF proxy \in Alive THEN {"dead", "kill"} ELSE {proxy}

StopEgress(j) ==
  /\ At(j, "stopEgress")
  /\ IF egressKnown[j]
       THEN /\ \E p \in Stopped(egress[j]) : egress' = [egress EXCEPT ![j] = p]
            /\ egressDir' = [egressDir EXCEPT ![j] = FALSE]
       ELSE UNCHANGED <<egress, egressDir>>
  /\ Goto(j, "stopDb")
  /\ UNCHANGED <<slots, req, policyFile, egressKnown, dbVars, boxVars, crashes>>

StopDb(j) ==
  /\ At(j, "stopDb")
  /\ \E p \in Stopped(db[j]) : db' = [db EXCEPT ![j] = p]
  /\ dbDir' = [dbDir EXCEPT ![j] = FALSE]
  /\ Goto(j, "removePolicy")
  /\ UNCHANGED <<slots, req, policyFile, egressVars, boxVars, crashes>>

(* The one statement of the block that can raise: os.remove, after an      *)
(* os.path.exists that something else may have made stale.                 *)
RemovePolicy(j) ==
  /\ At(j, "removePolicy")
  /\ policyFile' = [policyFile EXCEPT ![j] = FALSE]
  /\ \/ Goto(j, "removeCgroup")
     \/ /\ policyFile[j] /\ "removePolicy" \in Faults
        /\ Answer(j, "raised", "raised")
  /\ UNCHANGED <<slots, req, egressVars, dbVars, boxVars, crashes>>

(* rmdir fails, silently, while a process is in the cgroup.                *)
RemoveCgroup(j) ==
  /\ At(j, "removeCgroup")
  /\ \/ box[j] # "running" /\ cgroup' = [cgroup EXCEPT ![j] = FALSE]
     \/ box[j] \in {"running", "killed"} /\ UNCHANGED cgroup
  /\ Goto(j, "killBox")
  /\ UNCHANGED <<slots, req, policyFile, egressVars, dbVars, fds, box, crashes>>

(* Mutant: the block ends without killing what is still running.           *)
KillBoxNever(j) ==
  /\ At(j, "killBox")
  /\ Goto(j, "release")
  /\ UNCHANGED <<slots, req, resources, crashes>>

KillBox(j) ==
  /\ At(j, "killBox")
  /\ box' = [box EXCEPT ![j] = IF @ = "running" THEN "killed" ELSE @]
  /\ Goto(j, "release")
  /\ UNCHANGED <<slots, req, policyFile, egressVars, dbVars, fds, cgroup,
                 crashes>>

Release(j) ==
  /\ At(j, "release")
  /\ CloseFds(j)
  /\ slots' = slots + 1
  /\ Goto(j, "done")
  /\ UNCHANGED <<req, policyFile, egressVars, dbVars, box, cgroup, crashes>>

-----------------------------------------------------------------------------
(* What the job's processes do by themselves.                              *)

MayBecome(proxy, next) ==
  \/ proxy = "starting" /\ next \in {"up", "failed"}
  \/ proxy = "up" /\ next = "crashed"
  \/ proxy \in {"term", "kill"} /\ next = "dead"

EgressMoves(j) ==
  /\ \E p \in ProxyState :
       MayBecome(egress[j], p) /\ egress' = [egress EXCEPT ![j] = p]
  /\ UNCHANGED <<slots, pc, req, outcome, policyFile, egressDir, egressKnown,
                 dbVars, boxVars, crashes>>

DbMoves(j) ==
  /\ \E p \in ProxyState :
       MayBecome(db[j], p) /\ db' = [db EXCEPT ![j] = p]
  /\ UNCHANGED <<slots, pc, req, outcome, policyFile, egressVars, dbDir,
                 boxVars, crashes>>

BoxExits(j) ==
  /\ box[j] = "running"
  /\ box' = [box EXCEPT ![j] = "exited"]
  /\ UNCHANGED <<slots, pc, req, outcome, policyFile, egressVars, dbVars, fds,
                 cgroup, crashes>>

BoxReaped(j) ==
  /\ box[j] = "killed"
  /\ box' = [box EXCEPT ![j] = "reaped"]
  /\ UNCHANGED <<slots, pc, req, outcome, policyFile, egressVars, dbVars, fds,
                 cgroup, crashes>>

(* The supervisor process dies and is started again. Its threads, its      *)
(* semaphore and its descriptors go; bwrap was started with                *)
(* --die-with-parent; the proxies, directories and files stay.             *)
InFlight == {j \in Jobs : pc[j] \notin {"idle", "done", "lost"}}

ThreadsDie ==
  /\ crashes < MaxCrashes
  /\ crashes' = crashes + 1
  /\ InFlight # {}
  /\ pc' = [j \in Jobs |-> IF j \in InFlight THEN "lost" ELSE pc[j]]
  /\ outcome' = [j \in Jobs |->
       IF j \in InFlight /\ pc[j] # "raised" THEN "lost" ELSE outcome[j]]
  /\ slots' = NSlots
  /\ fds' = [j \in Jobs |-> {}]

(* Mutant: bwrap without --die-with-parent.                                *)
CrashSparesSandboxes ==
  /\ ThreadsDie
  /\ UNCHANGED <<req, policyFile, egressVars, dbVars, box, cgroup>>

Crash ==
  /\ ThreadsDie
  /\ box' = [j \in Jobs |-> IF box[j] = "running" THEN "killed" ELSE box[j]]
  /\ UNCHANGED <<req, policyFile, egressVars, dbVars, cgroup>>

Step(j) ==
  \/ Acquire(j) \/ Overloaded(j) \/ ParsePolicy(j)
  \/ WritePolicy(j) \/ ReadConfig(j)
  \/ StartEgress(j) \/ EgressReady(j) \/ EgressNotReady(j)
  \/ StartDb(j) \/ DbReady(j) \/ DbNotReady(j)
  \/ Inject(j) \/ Launch(j) \/ ApplyCgroup(j) \/ ReadOutput(j)
  \/ StopEgress(j) \/ StopDb(j) \/ RemovePolicy(j) \/ RemoveCgroup(j)
  \/ KillBox(j) \/ Release(j)

Environment(j) == EgressMoves(j) \/ DbMoves(j) \/ BoxExits(j) \/ BoxReaped(j)

Next ==
  \/ \E j \in Jobs : Submit(j) \/ Step(j) \/ Environment(j)
  \/ Crash

(* Every wait in handle_request has a time limit, so its thread always     *)
(* moves on; the kernel delivers a pending fatal signal. Nothing obliges a *)
(* proxy to come up or a sandbox to exit.                                  *)
Dies(j, proxy) == proxy[j] \in {"term", "kill"}

Fairness ==
  \A j \in Jobs :
    /\ WF_vars(Step(j))
    /\ WF_vars(Dies(j, egress) /\ EgressMoves(j))
    /\ WF_vars(Dies(j, db) /\ DbMoves(j))
    /\ WF_vars(BoxReaped(j))

Spec == Init /\ [][Next]_vars /\ Fairness

-----------------------------------------------------------------------------
(* Correctness.                                                            *)

(* The semaphore counts: whatever mixture of early returns, exceptions,    *)
(* overload answers and crashes has happened, the free slots and the       *)
(* threads between their acquire and their release add up to N_SLOTS, so   *)
(* no path releases twice or returns without releasing. A thread whose     *)
(* finally block raised (os.remove) still counts: it holds its slot for as *)
(* long as the supervisor lives.                                           *)
SlotConservation == slots + Cardinality(Holders) = NSlots

(* At most N_SLOTS sandboxes run at any time, crashes of the supervisor    *)
(* included: a slot is given back only when the job's bwrap has exited or  *)
(* has been killed, and a restarted supervisor, with a full semaphore,     *)
(* finds none of the old ones running.                                     *)
Running == {j \in Jobs : box[j] = "running"}

RunningBounded == Cardinality(Running) <= NSlots

(* No sandbox runs unsupervised: its thread is between the launch and the  *)
(* kill in the finally block, or the finally block raised before the kill. *)
SandboxSupervised ==
  \A j \in Running :
    pc[j] \in {"cgroup", "read", "stopEgress", "stopDb", "removePolicy",
              "removeCgroup", "killBox", "raised"}

(* When handle_request has returned, whichever step failed, what is left   *)
(* of the job is what the block cannot name, or could not remove: the      *)
(* directory of an egress proxy that could not be started, a descriptor    *)
(* whose variable Inject overwrote, and the cgroup of a sandbox that was   *)
(* still running, or dying, when rmdir was tried.                          *)
AnsweredClean ==
  \A j \in Jobs : pc[j] = "done" =>
    /\ ~policyFile[j] /\ ~dbDir[j] /\ fds[j] \subseteq {"lost"}
    /\ box[j] # "running"
    /\ egress[j] \notin Alive /\ db[j] \notin Alive
    /\ egressDir[j] => egress[j] = "none"
    /\ cgroup[j] => box[j] \in {"killed", "reaped"} \/ outcome[j] = "error"

(* A sandbox is launched only when every proxy its policy asks for has     *)
(* opened its socket: a proxy that failed, or was too slow, never leaves a *)
(* sandbox running without it.                                             *)
ProxiesBeforeSandbox ==
  \A j \in Jobs : box[j] # "none" =>
    /\ NeedsEgress(j) => egress[j] \notin {"none", "starting", "failed"}
    /\ NeedsDb(j)     => db[j] \notin {"none", "starting", "failed"}

(* Once a request is answered its proxies and its sandbox do end, those    *)
(* included that were only sent a signal and never waited for.             *)
NothingLeftRunning ==
  \A j \in Jobs : pc[j] = "done" ~>
    egress[j] \in Ended /\ db[j] \in Ended /\ box[j] \notin {"running", "killed"}

(* With no request in flight every slot is free again ("Finally: kill      *)
(* proxies, SIGKILL bwrap, release semaphore").                            *)
AllSlotsBack ==
  (\A j \in Jobs : pc[j] \in {"idle", "done", "raised", "lost"})
    => slots = NSlots

-----------------------------------------------------------------------------
(* The supervisor implements SlotPool: a thread between acquire and        *)
(* release is an admitted request.                                         *)
StatusOf(j) ==
  IF pc[j] = "idle" THEN "new"
  ELSE IF pc[j] = "wait" THEN "waiting"
  ELSE IF pc[j] = "lost" THEN "lost"
  ELSE IF pc[j] # "done" THEN "admitted"
  ELSE IF outcome[j] = "overloaded" THEN "refused" ELSE "served"

Pool == INSTANCE SlotPool WITH status <- [j \in Jobs |-> StatusOf(j)]

(* Requests are admitted, refused only under full load, and answered, as   *)
(* SlotPool says.                                                          *)
ImplementsSlotPool == Pool!Spec
=============================================================================
