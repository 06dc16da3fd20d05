-------------------------- MODULE SeccompTemplate --------------------------
(***************************************************************************)
(* How the jobs of supervisor.py share the compiled seccomp filter: one    *)
(* memfd holds it, every job duplicates the descriptor and rewinds it, and *)
(* every bwrap reads its duplicate to end of file. Duplicates of a         *)
(* descriptor share one file offset.                                       *)
(***************************************************************************)
EXTENDS Naturals

CONSTANT Jobs

VARIABLES offset,  \* of the memfd: "start" or "end"
          pc,      \* Jobs -> {"new", "dup", "rewound", "reading", "loaded"}
          copies   \* Jobs -> copies of the filter its bwrap has read

vars == <<offset, pc, copies>>

(* _compile_seccomp_bpf rewinds once at load time.                         *)
Init ==
  /\ offset = "start"
  /\ pc = [j \in Jobs |-> "new"]
  /\ copies = [j \in Jobs |-> 0]

Goto(j, from, to) == pc[j] = from /\ pc' = [pc EXCEPT ![j] = to]

Dup(j) == Goto(j, "new", "dup") /\ UNCHANGED <<offset, copies>>

Rewind(j) ==
  /\ Goto(j, "dup", "rewound")
  /\ offset' = "start"
  /\ UNCHANGED copies

Launch(j) == Goto(j, "rewound", "reading") /\ UNCHANGED <<offset, copies>>

(* bwrap reads until a read returns nothing. The filter fits in one read.  *)
BwrapReads(j) ==
  /\ pc[j] = "reading" /\ offset = "start"
  /\ offset' = "end"
  /\ copies' = [copies EXCEPT ![j] = @ + 1]
  /\ UNCHANGED pc

BwrapLoads(j) ==
  /\ offset = "end"
  /\ Goto(j, "reading", "loaded")
  /\ UNCHANGED <<offset, copies>>

Next ==
  \E j \in Jobs :
    Dup(j) \/ Rewind(j) \/ Launch(j) \/ BwrapReads(j) \/ BwrapLoads(j)

Spec == Init /\ [][Next]_vars

(* "Dup seccomp BPF FD for this job": no job's bwrap comes to the end of   *)
(* its descriptor without having read the filter. An empty filter makes it *)
(* fail before any code runs.                                              *)
EveryJobLoadsFilter == \A j \in Jobs : pc[j] = "loaded" => copies[j] >= 1
=============================================================================
