----------------------------- MODULE PthreadOnce -----------------------------
(***************************************************************************)
(* pthread_once of the libc shim                                           *)
(* (src/src/vendor/libc-shim/src/pthreads.cpp).                            *)
(*                                                                         *)
(* One recursive mutex serves all controls.  A control is set before its   *)
(* routine runs, and the routine, guest code in a fiber of its own, runs   *)
(* with the mutex held: it may call pthread_once again, for other controls *)
(* or its own, and it may lock mutexes of the guest, as any of its threads *)
(* may.  A thread is a stack of unfinished calls.                          *)
(***************************************************************************)
EXTENDS Integers, Sequences, PthreadThreads

CONSTANTS
    Controls, Locks,
    MaxCalls,           \* bound on the calls of each thread
    HoldAcross          \* whether the guest calls pthread_once with a lock held

ASSUME OnceAssumption ==
    None \notin Threads /\ MaxCalls \in Nat /\ HoldAcross \in BOOLEAN

VARIABLES
    control,            \* the guest's pthread_once_t
    owner, count,       \* the recursive mutex
    stack,              \* each thread's unfinished calls, the innermost last
    lock, wants,        \* the guest's own mutexes: who has them, who waits
    calls,              \* calls made by each thread
    ran, done,          \* history: how often a routine was begun, and ended
    returned            \* history: controls for which a thread's call came back

mutex == <<owner, count>>
locks == <<lock, wants>>
history == <<ran, done, returned>>
once == <<control, mutex, stack, locks, calls, history>>

Innermost(t) == stack[t][Len(stack[t])]
At(t, place) == stack[t] # <<>> /\ Innermost(t).at = place
Goto(t, place) ==
    stack' = [stack EXCEPT ![t] = [@ EXCEPT ![Len(@)] = [c |-> Innermost(t).c, at |-> place]]]

(* The thread runs guest code: its own, or a routine's. *)
InGuest(t) == wants[t] = None /\ (stack[t] = <<>> \/ At(t, "routine"))

OnceInit ==
    /\ control = [c \in Controls |-> 0]
    /\ owner = None /\ count = 0
    /\ stack = [t \in Threads |-> <<>>]
    /\ lock = [m \in Locks |-> None]
    /\ wants = [t \in Threads |-> None]
    /\ calls = [t \in Threads |-> 0]
    /\ ran = [c \in Controls |-> 0]
    /\ done = [c \in Controls |-> FALSE]
    /\ returned = [t \in Threads |-> {}]

pthread_once(t, c) ==
    /\ InGuest(t) /\ calls[t] < MaxCalls
    /\ HoldAcross \/ \A m \in Locks : lock[m] # t
    /\ stack' = [stack EXCEPT ![t] = Append(@, [c |-> c, at |-> "lock"])]
    /\ calls' = [calls EXCEPT ![t] = @ + 1]
    /\ UNCHANGED <<control, mutex, locks, history>>

unique_lock(t) ==
    /\ At(t, "lock") /\ owner \in {None, t}
    /\ owner' = t /\ count' = count + 1
    /\ Goto(t, "test")
    /\ UNCHANGED <<control, locks, calls, history>>

(* Mutant: the control is set after the routine. *)
once_test_late(t) ==
    /\ At(t, "test")
    /\ LET c == Innermost(t).c IN
       IF control[c] = 0
       THEN /\ ran' = [ran EXCEPT ![c] = @ + 1]
            /\ Goto(t, "routine")
            /\ UNCHANGED control
       ELSE Goto(t, "unlock") /\ UNCHANGED <<control, ran>>
    /\ UNCHANGED <<mutex, locks, calls, done, returned>>

once_test(t) ==
    /\ At(t, "test")
    /\ LET c == Innermost(t).c IN
       IF control[c] = 0
       THEN /\ control' = [control EXCEPT ![c] = 1]
            /\ ran' = [ran EXCEPT ![c] = @ + 1]
            /\ Goto(t, "routine")
       ELSE Goto(t, "unlock") /\ UNCHANGED <<control, ran>>
    /\ UNCHANGED <<mutex, locks, calls, done, returned>>

(* The routine returns, with what it locked unlocked. *)
routine_returns(t) ==
    /\ At(t, "routine") /\ InGuest(t)
    /\ \A m \in Locks : lock[m] # t
    /\ done' = [done EXCEPT ![Innermost(t).c] = TRUE]
    /\ Goto(t, "unlock")
    /\ UNCHANGED <<control, mutex, locks, calls, ran, returned>>

(* A call that a control's own routine makes comes back before the routine *)
(* has ended; it does not count as returned.                               *)
Inside(t, c) == \E i \in 1 .. Len(stack[t]) - 1 : stack[t][i].c = c

Back(t) ==
    /\ stack' = [stack EXCEPT ![t] = SubSeq(@, 1, Len(@) - 1)]
    /\ returned' = IF Inside(t, Innermost(t).c) THEN returned
                   ELSE [returned EXCEPT ![t] = @ \cup {Innermost(t).c}]

(* Mutant: the lock is given up while the routine is inside. *)
once_unlock_all(t) ==
    /\ At(t, "unlock")
    /\ count' = 0 /\ owner' = None
    /\ Back(t)
    /\ UNCHANGED <<control, locks, calls, ran, done>>

(* Mutant: only the outermost return unlocks. *)
once_unlock_outer(t) ==
    /\ At(t, "unlock")
    /\ count' = IF Len(stack[t]) = 1 THEN count - 1 ELSE count
    /\ owner' = IF count' = 0 THEN None ELSE t
    /\ Back(t)
    /\ UNCHANGED <<control, locks, calls, ran, done>>

once_unlock(t) ==
    /\ At(t, "unlock")
    /\ count' = count - 1
    /\ owner' = IF count = 1 THEN None ELSE t
    /\ Back(t)
    /\ UNCHANGED <<control, locks, calls, ran, done>>

(* The guest's mutexes. *)
guest_wants(t, m) ==
    /\ InGuest(t) /\ lock[m] # t /\ calls[t] < MaxCalls
    /\ wants' = [wants EXCEPT ![t] = m]
    /\ calls' = [calls EXCEPT ![t] = @ + 1]
    /\ UNCHANGED <<control, mutex, stack, lock, history>>

guest_locks(t) ==
    /\ wants[t] # None /\ lock[wants[t]] = None
    /\ lock' = [lock EXCEPT ![wants[t]] = t]
    /\ wants' = [wants EXCEPT ![t] = None]
    /\ UNCHANGED <<control, mutex, stack, calls, history>>

guest_unlocks(t, m) ==
    /\ InGuest(t) /\ lock[m] = t
    /\ lock' = [lock EXCEPT ![m] = None]
    /\ UNCHANGED <<control, mutex, stack, wants, calls, history>>

OnceStep(t) ==
    \/ unique_lock(t) \/ once_test(t) \/ routine_returns(t) \/ once_unlock(t)
    \/ guest_locks(t) \/ \E m \in Locks : guest_unlocks(t, m)

OnceNext == \E t \in Threads :
    \/ OnceStep(t)
    \/ \E c \in Controls : pthread_once(t, c)
    \/ \E m \in Locks : guest_wants(t, m)

OnceSpec == OnceInit /\ [][OnceNext]_once

(* Threads are scheduled, and the guest's routines and critical sections   *)
(* come to an end.                                                         *)
FairOnceSpec == OnceSpec /\ \A t \in Threads : WF_once(OnceStep(t))

(***************************************************************************)
(* Properties.                                                             *)
(***************************************************************************)
(* Types. *)
OnceTypeOK ==
    /\ control \in [Controls -> 0 .. 1]
    /\ owner \in Threads \cup {None} /\ count \in Nat
    /\ stack \in [Threads -> Seq([c : Controls, at : {"lock", "test", "routine", "unlock"}])]
    /\ lock \in [Locks -> Threads \cup {None}] /\ wants \in [Threads -> Locks \cup {None}]
    /\ calls \in [Threads -> 0 .. MaxCalls]
    /\ ran \in [Controls -> Nat] /\ done \in [Controls -> BOOLEAN]
    /\ returned \in [Threads -> SUBSET Controls]

(* No routine is begun twice, although routines call pthread_once, on      *)
(* their own control too, with a mutex that lets them in again.            *)
RunsOnce == \A c \in Controls : ran[c] <= 1

(* When a call has come back to a thread, the routine has ended, whichever *)
(* thread ran it.                                                          *)
ReturnsComplete == \A t \in Threads : \A c \in returned[t] : done[c]

(* Every call comes back in the end, for guests that hold no lock when     *)
(* they call: all routines run under one mutex, but none waits for it      *)
(* while it has what another one needs.                                    *)
OnceReturns == \A t \in Threads : stack[t] # <<>> ~> stack[t] = <<>>
=============================================================================
