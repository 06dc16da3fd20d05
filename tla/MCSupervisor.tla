---------------------------- MODULE MCSupervisor ----------------------------
(* Bounded instances of Supervisor for TLC.                                *)
EXTENDS Supervisor, TLC

(* A request that is turned back before the try block, and one for each    *)
(* proxy: every path through admission, and both kinds of termination.     *)
OneOfEachProxy == {"badJson", "net", "db"}

(* The jobs differ in nothing but their names.                             *)
JobSymmetry == Permutations(Jobs)
=============================================================================
