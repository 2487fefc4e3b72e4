----------------------------- MODULE PthreadCond -----------------------------
(***************************************************************************)
(* Condition variables of the libc shim and the clock their timeouts are   *)
(* measured on (src/src/vendor/libc-shim/src: pthreads.cpp, pthreads.h).   *)
(*                                                                         *)
(* The clock of a host condition variable is fixed when it is made: by     *)
(* pthread_cond_init from the guest's attribute, or by the first call on a *)
(* static one.  A deadline is a time on a clock the guest chose, and goes  *)
(* to the host as it is.  An attribute whose clock the guest has neither   *)
(* set nor asked for has, to the guest, bionic's default, REALTIME.  How   *)
(* two first calls race is in PthreadMutex; here a static variable is made *)
(* in one step.                                                            *)
(***************************************************************************)
EXTENDS Naturals, FiniteSets, PthreadThreads

CONSTANTS
    MaxTime,            \* no wait starts after this time
    MaxDelay,           \* longest timeout
    MaxSkew             \* realtime runs ahead of monotonic by 1 .. MaxSkew

Clocks == {"REALTIME", "MONOTONIC"}
AskedClocks == Clocks \cup {"BOOTTIME"}
GuestClocks == Clocks \cup {"default"}

ASSUME CondAssumption ==
    MaxTime \in Nat /\ MaxDelay \in Nat /\ MaxSkew \in Nat \ {0} /\ None \notin GuestClocks

VARIABLES
    attr,               \* clock of the guest's attribute, None before its init
    meant,              \* the clock the guest takes the attribute to have
    cond,               \* "static", "destroyed", or the clock of the host's one
    known,              \* the clock the guest takes the variable to have
    cond_owner,         \* who has the mutex
    wait,               \* each thread's wait
    mono, skew          \* the monotonic clock, and how far realtime is ahead

condition == <<attr, meant, cond, known, cond_owner, wait, mono, skew>>

NoWait == [at |-> "idle", clock |-> None, until |-> 0, ret |-> "none"]
Horizon == MaxTime + MaxDelay + MaxSkew
Now(clock) == IF clock = "MONOTONIC" THEN mono ELSE mono + skew

CondInit ==
    /\ attr = None /\ meant = None
    /\ cond = "static" /\ known = "REALTIME"
    /\ cond_owner = None
    /\ wait = [t \in Threads |-> NoWait]
    /\ mono = 0 /\ skew \in 1 .. MaxSkew

WaitAt(t, place) == wait[t].at = place
Usable == cond # "destroyed"
NobodyWaits == \A t \in Threads : wait[t] = NoWait

pthread_condattr_init ==
    /\ attr' = "MONOTONIC" /\ meant' = "default"
    /\ UNCHANGED <<cond, known, cond_owner, wait, mono, skew>>

pthread_condattr_setclock ==
    /\ attr # None
    /\ \E clock \in AskedClocks :
          IF clock \in Clocks THEN attr' = clock /\ meant' = clock
          ELSE UNCHANGED <<attr, meant>>                    \* EINVAL
    /\ UNCHANGED <<cond, known, cond_owner, wait, mono, skew>>

pthread_condattr_getclock ==
    /\ attr # None
    /\ meant' = attr
    /\ UNCHANGED <<attr, cond, known, cond_owner, wait, mono, skew>>

(* Mutant: the attribute is not read. *)
host_condattr_default(given) == "REALTIME"

(* The host's attribute: its default unless the guest gave one. *)
host_condattr(given) == IF given = None THEN "REALTIME" ELSE given

(* The guest initialises a variable that nobody uses and that is static or *)
(* destroyed, with its attribute or without.                               *)
pthread_cond_init ==
    /\ NobodyWaits /\ cond \notin Clocks
    /\ \E given \in {None, attr} :
          /\ cond' = host_condattr(given)
          /\ known' = IF given = None THEN "REALTIME" ELSE meant
    /\ UNCHANGED <<attr, meant, cond_owner, wait, mono, skew>>

pthread_cond_destroy ==
    /\ NobodyWaits /\ Usable
    /\ cond' = IF cond = "static" THEN cond ELSE "destroyed"
    /\ UNCHANGED <<attr, meant, known, cond_owner, wait, mono, skew>>

(* Mutant: a static variable is made as pthread_condattr_init would. *)
cond_to_host_monotonic(c) == IF c = "static" THEN "MONOTONIC" ELSE c

(* to_host makes a static variable, without an attribute. *)
cond_to_host(c) == IF c = "static" THEN host_condattr(None) ELSE c

mutex_taken(t) ==
    /\ WaitAt(t, "idle") /\ cond_owner = None
    /\ cond_owner' = t
    /\ UNCHANGED <<attr, meant, cond, known, wait, mono, skew>>

mutex_given_up(t) ==
    /\ WaitAt(t, "idle") /\ cond_owner = t
    /\ cond_owner' = None
    /\ UNCHANGED <<attr, meant, cond, known, wait, mono, skew>>

Block(t, clock, until) ==
    /\ WaitAt(t, "idle") /\ cond_owner = t /\ Usable /\ mono <= MaxTime
    /\ cond' = cond_to_host(cond)
    /\ cond_owner' = None
    /\ wait' = [wait EXCEPT ![t] = [at |-> "blocked", clock |-> clock, until |-> until, ret |-> "none"]]
    /\ UNCHANGED <<attr, meant, known, mono, skew>>

pthread_cond_wait(t) == Block(t, None, 0)

pthread_cond_timedwait(t) ==
    \E delay \in 0 .. MaxDelay : Block(t, known, Now(known) + delay)

(* The same function under another name: the deadline is monotonic, the    *)
(* clock is the variable's.                                                *)
pthread_cond_timedwait_monotonic_np(t) ==
    \E delay \in 0 .. MaxDelay : Block(t, "MONOTONIC", mono + delay)

(***************************************************************************)
(* The host's side: it wakes waiters, or lets a wait run out on the clock  *)
(* of the variable; a thread that leaves takes the mutex again.            *)
(***************************************************************************)
Blocked == {t \in Threads : WaitAt(t, "blocked")}

Woken(S, why) ==
    wait' = [t \in Threads |-> IF t \in S THEN [wait[t] EXCEPT !.at = "relock", !.ret = why] ELSE wait[t]]

pthread_cond_signal ==
    /\ Usable /\ cond' = cond_to_host(cond)
    /\ \/ Blocked = {} /\ UNCHANGED wait
       \/ \E t \in Blocked : Woken({t}, "0")
    /\ UNCHANGED <<attr, meant, known, cond_owner, mono, skew>>

pthread_cond_broadcast ==
    /\ Usable /\ cond' = cond_to_host(cond)
    /\ Woken(Blocked, "0")
    /\ UNCHANGED <<attr, meant, known, cond_owner, mono, skew>>

timeout(t) ==
    /\ WaitAt(t, "blocked") /\ wait[t].clock # None
    /\ Now(cond) >= wait[t].until
    /\ Woken({t}, "ETIMEDOUT")
    /\ UNCHANGED <<attr, meant, cond, known, cond_owner, mono, skew>>

relock(t) ==
    /\ WaitAt(t, "relock") /\ cond_owner = None
    /\ cond_owner' = t
    /\ wait' = [wait EXCEPT ![t] = NoWait]
    /\ UNCHANGED <<attr, meant, cond, known, mono, skew>>

(* Time passes, and the realtime clock is set. *)
tick ==
    /\ mono < Horizon
    /\ mono' = mono + 1
    /\ UNCHANGED <<attr, meant, cond, known, cond_owner, wait, skew>>

settime ==
    /\ \E s \in 1 .. MaxSkew : skew' = s
    /\ UNCHANGED <<attr, meant, cond, known, cond_owner, wait, mono>>

CondNext ==
    \/ pthread_condattr_init \/ pthread_condattr_setclock \/ pthread_condattr_getclock
    \/ pthread_cond_init \/ pthread_cond_destroy
    \/ pthread_cond_signal \/ pthread_cond_broadcast
    \/ tick \/ settime
    \/ \E t \in Threads :
          \/ mutex_taken(t) \/ mutex_given_up(t)
          \/ pthread_cond_wait(t) \/ pthread_cond_timedwait(t)
          \/ pthread_cond_timedwait_monotonic_np(t)
          \/ timeout(t) \/ relock(t)

CondSpec == CondInit /\ [][CondNext]_condition

(***************************************************************************)
(* Fairness: the host ends a wait that has run out.                        *)
(***************************************************************************)
CondFairSpec == CondSpec /\ \A t \in Threads : WF_condition(timeout(t))

-----------------------------------------------------------------------------
(* The attribute and the variable have clocks the host's condition         *)
(* variables can have (pthread_condattr_setclock); deadlines are in range. *)
CondTypeOK ==
    /\ attr \in Clocks \cup {None} /\ meant \in GuestClocks \cup {None}
    /\ attr = None <=> meant = None
    /\ cond \in Clocks \cup {"static", "destroyed"}
    /\ known \in GuestClocks
    /\ cond_owner \in Threads \cup {None}
    /\ wait \in [Threads -> [at : {"idle", "blocked", "relock"}, clock : GuestClocks \cup {None},
                             until : 0 .. Horizon, ret : {"none", "0", "ETIMEDOUT"}]]
    /\ mono \in 0 .. Horizon /\ skew \in 1 .. MaxSkew

(* The deadline is on the clock that the guest takes the variable to have; *)
(* of pthread_cond_timedwait it always is, of                              *)
(* pthread_cond_timedwait_monotonic_np only if that clock is MONOTONIC.    *)
Agreed(t) == WaitAt(t, "blocked") /\ wait[t].clock = known

(* Such a wait reports ETIMEDOUT only once the guest's clock has reached   *)
(* the deadline the guest took from it (pthread_cond_timedwait).           *)
NoEarlyTimeout ==
    [][\A t \in Threads : Agreed(t) /\ wait'[t].ret = "ETIMEDOUT"
          => Now(known) >= wait[t].until]_condition

Due(t) == Agreed(t) /\ Now(known) >= wait[t].until

(* On a variable whose clock the guest has chosen or asked for, or that    *)
(* has no attribute, such a wait, when its deadline has come on the        *)
(* guest's clock, ends, signalled or not, unless the clock is set back     *)
(* first: the host does not go on waiting on another clock.                *)
TimedWaitsEnd ==
    \A t \in Threads : known # "default" /\ Due(t) ~> ~(known # "default" /\ Due(t))

(* Also on a variable made with an attribute as pthread_condattr_init      *)
(* leaves it, whose clock bionic's test of that function says is REALTIME: *)
(* a wait whose deadline has come on the guest's clock can time out.       *)
DueCanTimeOut == \A t \in Threads : Due(t) => Now(cond) >= wait[t].until
=============================================================================
