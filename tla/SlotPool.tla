------------------------------ MODULE SlotPool ------------------------------
(***************************************************************************)
(* What the supervisor promises its callers about admission, whatever it   *)
(* does to run a job: at most NSlots requests are admitted at a time, a    *)
(* request is turned away only while NSlots others are admitted, and every *)
(* request is answered unless the supervisor process dies under it.        *)
(* Supervisor.tla is shown to implement this specification.                *)
(***************************************************************************)
EXTENDS Naturals, FiniteSets

CONSTANTS Jobs,      \* requests, each submitted at most once
          NSlots     \* SANDBOX_MAX_SLOTS

VARIABLE status      \* Jobs -> Status

Status == {"new", "waiting", "admitted", "served", "refused", "lost"}

Admitted == {j \in Jobs : status[j] = "admitted"}

Init == status = [j \in Jobs |-> "new"]

Move(j, from, to) ==
  /\ status[j] = from
  /\ status' = [status EXCEPT ![j] = to]

Submit(j) == Move(j, "new", "waiting")

Admit(j) ==
  /\ Cardinality(Admitted) < NSlots
  /\ Move(j, "waiting", "admitted")

Refuse(j) ==
  /\ Cardinality(Admitted) = NSlots
  /\ Move(j, "waiting", "refused")

Serve(j) == Move(j, "admitted", "served")

(* The supervisor process dies: whatever was in flight gets no answer.     *)
Die == status' = [j \in Jobs |->
          IF status[j] \in {"waiting", "admitted"} THEN "lost" ELSE status[j]]

Next ==
  \/ \E j \in Jobs : Submit(j) \/ Admit(j) \/ Refuse(j) \/ Serve(j)
  \/ Die

Safe == Init /\ [][Next]_status

Spec ==
  /\ Safe
  /\ \A j \in Jobs : WF_status(Admit(j) \/ Refuse(j)) /\ WF_status(Serve(j))
=============================================================================
