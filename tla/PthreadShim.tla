----------------------------- MODULE PthreadShim -----------------------------
(***************************************************************************)
(* The thread functions of the libc shim together: pthread_once, mutexes   *)
(* and condition variables.  They share no state, so that a behaviour is   *)
(* one of a single part, chosen at the start.                              *)
(***************************************************************************)
EXTENDS PthreadOnce, PthreadMutex, PthreadCond

VARIABLE part

(* Of the parts that do not run, one initial state is enough. *)
ShimInit ==
    /\ part \in {"once", "mutex", "cond"}
    /\ OnceInit /\ MutexInit /\ CondInit
    /\ part # "mutex" => careful /\ kind = [m \in Mutexes |-> "normal"]
    /\ part # "cond" => skew = 1

OncePart == part = "once" /\ OnceNext /\ UNCHANGED <<part, mutexes, condition>>
MutexPart == part = "mutex" /\ MutexNext /\ UNCHANGED <<part, once, condition>>
CondPart == part = "cond" /\ CondNext /\ UNCHANGED <<part, once, mutexes>>

ShimNext == OncePart \/ MutexPart \/ CondPart

ShimSpec == ShimInit /\ [][ShimNext]_<<part, once, mutexes, condition>>

(* The fairness of each part (PthreadOnce, PthreadCond), while it runs. *)
FairShimSpec ==
    /\ ShimSpec
    /\ \A t \in Threads :
          WF_once(part = "once" /\ OnceStep(t)) /\ WF_condition(part = "cond" /\ timeout(t))
=============================================================================
