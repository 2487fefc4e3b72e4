-------------------------- MODULE ExclusiveCounter --------------------------
(***************************************************************************)
(* Guest threads that add to one shared word the way compiled atomics do:  *)
(* load-exclusive, store-exclusive of the value plus one, again while the  *)
(* store reports failure.  Any of them may make a system call between the  *)
(* two, which costs it the reservation, but only Interruptions times.      *)
(***************************************************************************)
EXTENDS ExclusiveMonitor, FiniteSetsExt

CONSTANTS Word, Additions, Interruptions

ASSUME CounterAssumption ==
    /\ Word \in Addrs /\ Values \subseteq Nat /\ 0 \in Values
    /\ Additions \in Nat /\ Interruptions \in Nat

VARIABLES
    left,       \* additions the thread still has to make
    loaded,     \* the value its last load-exclusive returned, or None
    calls       \* system calls made so far

cvars == <<vars, left, loaded, calls>>

CounterInit ==
    /\ Init /\ mem = [a \in Addrs |-> 0]
    /\ left = [t \in Threads |-> Additions]
    /\ loaded = [t \in Threads |-> None]
    /\ calls = 0

start(t) == execution_context_init(t) /\ UNCHANGED <<left, loaded, calls>>

load(t) ==
    /\ left[t] > 0 /\ loaded[t] = None
    /\ ldxr_mark(t, Word)
    /\ UNCHANGED <<left, loaded, calls>>

loading(t) ==
    /\ ldxr_read(t)
    /\ loaded' = [loaded EXCEPT ![t] = mem[Word]]
    /\ UNCHANGED <<left, calls>>

loaded_value(t) == ldxr_save(t) /\ UNCHANGED <<left, loaded, calls>>

(* Failing without a swap, the loop starts over. *)
try_fails(t) ==
    /\ loaded[t] # None
    /\ stxr_fail(t, Word)
    /\ loaded' = [loaded EXCEPT ![t] = None]
    /\ UNCHANGED <<left, calls>>

try(t) ==
    /\ loaded[t] # None
    /\ loaded[t] + 1 \in Values
    /\ stxr_test(t, Word, loaded[t] + 1)
    /\ UNCHANGED <<left, loaded, calls>>

swap(t) ==
    /\ stxr_swap(t)
    /\ loaded' = [loaded EXCEPT ![t] = None]
    /\ left' = [left EXCEPT ![t] = IF status'[t] = 0 THEN @ - 1 ELSE @]
    /\ UNCHANGED calls

system_call(t) ==
    /\ calls < Interruptions
    /\ clear_exclusive(t)
    /\ calls' = calls + 1
    /\ UNCHANGED <<left, loaded>>

stop(t) ==
    /\ left[t] = 0
    /\ free_execution_context(t)
    /\ UNCHANGED <<left, loaded, calls>>

Loop(t) ==
    \/ load(t) \/ loading(t) \/ loaded_value(t)
    \/ try_fails(t) \/ try(t) \/ swap(t)

CounterNext ==
    \E t \in Threads : (left[t] > 0 /\ start(t)) \/ Loop(t) \/ system_call(t) \/ stop(t)

-----------------------------------------------------------------------------
Made == MapThenSumSet(LAMBDA t : Additions - left[t], Threads)

(* The word holds the additions made. *)
NothingLost == mem[Word] = Made

(* Every thread's loop ends: a store-exclusive fails only because another  *)
(* thread's succeeded, or after one of finitely many system calls.         *)
LoopsEnd == <>(\A t \in Threads : left[t] = 0)
=============================================================================
