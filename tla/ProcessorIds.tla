----------------------------- MODULE ProcessorIds -----------------------------
(***************************************************************************)
(* What the processor id pool promises: an id belongs to at most one       *)
(* thread, a thread has at most one id, the lowest free id is the one      *)
(* given out, only its owner gives it back, and "ran out of ids" means     *)
(* that every id has an owner.                                             *)
(***************************************************************************)
EXTENDS Integers

CONSTANTS Threads, Ids, None

VARIABLES owner, exhausted

Free == {i \in Ids : owner[i] = None}

Init == owner = [i \in Ids |-> None] /\ exhausted = FALSE

Acquire(t) ==
  /\ ~exhausted
  /\ \A i \in Ids : owner[i] # t
  /\ \E i \in Free : /\ \A j \in Free : i <= j
                     /\ owner' = [owner EXCEPT ![i] = t]
  /\ UNCHANGED exhausted

Release(t) ==
  /\ ~exhausted
  /\ \E i \in Ids : owner[i] = t /\ owner' = [owner EXCEPT ![i] = None]
  /\ UNCHANGED exhausted

Exhaust == Free = {} /\ ~exhausted /\ exhausted' = TRUE /\ UNCHANGED owner

Next == (\E t \in Threads : Acquire(t) \/ Release(t)) \/ Exhaust

Spec == Init /\ [][Next]_<<owner, exhausted>>
==============================================================================
