---------------------------- MODULE PthreadMutex -----------------------------
(***************************************************************************)
(* Mutexes of the libc shim (src/src/vendor/libc-shim/src: pthreads.cpp,   *)
(* pthreads.h, meta.h).                                                    *)
(*                                                                         *)
(* A guest mutex holds a pointer to a host mutex, or null and the value of *)
(* its static initialiser.  The first call on a static mutex makes the     *)
(* host mutex: a test without a lock, one guard for all mutexes, the test  *)
(* again, then the pointer is stored and only then is the host mutex       *)
(* initialised.  Condition variables and rwlocks do the same.              *)
(***************************************************************************)
EXTENDS Naturals, PthreadThreads

CONSTANTS
    Mutexes,
    Hosts,              \* addresses of host mutexes
    MutexCalls          \* bound on the calls of all threads

Kinds == {"normal", "recursive", "errorcheck"}

ASSUME MutexAssumption == None \notin Threads \cup Hosts /\ MutexCalls \in Nat

VARIABLES
    wrapped,            \* the guest mutex: null, or its host mutex
    kind,               \* its kind: init_value, or what the attribute says
    state,              \* guest's view: "static", "made" or "destroyed"
    host,               \* memory of the host mutexes
    guard,              \* mutex_guard
    call,               \* what each thread is doing
    held,               \* history: locks a thread was told it has
    mutex_calls, fault,
    careful             \* the guest: it uses a static mutex once before it shares
                        \* it, and does not lock an error-checking one it has

mutexes == <<wrapped, kind, state, host, guard, call, held, mutex_calls, fault, careful>>

Idle == [at |-> "idle", op |-> None, m |-> None, h |-> None]
Free == [is |-> "free", kind |-> None, owner |-> None, count |-> 0]

MutexInit ==
    /\ wrapped = [m \in Mutexes |-> None]
    /\ kind \in [Mutexes -> Kinds]
    /\ state = [m \in Mutexes |-> "static"]
    /\ host = [h \in Hosts |-> Free]
    /\ guard = None
    /\ call = [t \in Threads |-> Idle]
    /\ held = [t \in Threads |-> [m \in Mutexes |-> 0]]
    /\ mutex_calls = 0 /\ fault = "none"
    /\ careful \in BOOLEAN

CallAt(t, place) == fault = "none" /\ call[t].at = place
CallGoto(t, place) == call' = [call EXCEPT ![t].at = place]
Users(m) == {t \in Threads : call[t].m = m}

is_mutex_initialized(m) == wrapped[m] # None

(***************************************************************************)
(* The guest keeps to POSIX: it uses mutexes that exist, unlocks what it   *)
(* has, and initialises and destroys a mutex while nobody uses it.         *)
(***************************************************************************)
Unused(m) == Users(m) = {} /\ \A t \in Threads : held[t][m] = 0

Past(m) == is_mutex_initialized(m) /\ \A t \in Users(m) : call[t].at \notin {"new", "construct"}

Polite(t, op, m) ==
    /\ state[m] # "destroyed"
    /\ op = "unlock" => held[t][m] > 0
    /\ op = "lock" /\ held[t][m] > 0 =>
          kind[m] = "recursive" \/ (~careful /\ kind[m] = "errorcheck")
    /\ careful => Users(m) = {} \/ Past(m)

enter(t, op, m) ==
    /\ CallAt(t, "idle") /\ mutex_calls < MutexCalls /\ Polite(t, op, m)
    /\ mutex_calls' = mutex_calls + 1
    /\ call' = [call EXCEPT ![t] = [at |-> "test", op |-> op, m |-> m, h |-> None]]
    /\ UNCHANGED <<wrapped, kind, state, host, guard, held, fault, careful>>

(* to_host: the test, without a lock. *)
mutex_to_host(t) ==
    /\ CallAt(t, "test")
    /\ CallGoto(t, IF is_mutex_initialized(call[t].m) THEN "read" ELSE "guard")
    /\ UNCHANGED <<wrapped, kind, state, host, guard, held, mutex_calls, fault, careful>>

(* Mutant: no second test under the guard. *)
mutex_static_initializer_once(t) ==
    /\ CallAt(t, "guard") /\ guard = None
    /\ guard' = t
    /\ CallGoto(t, "new")
    /\ UNCHANGED <<wrapped, kind, state, host, held, mutex_calls, fault, careful>>

mutex_static_initializer(t) ==
    /\ CallAt(t, "guard") /\ guard = None
    /\ IF is_mutex_initialized(call[t].m)
       THEN CallGoto(t, "read") /\ UNCHANGED guard
       ELSE CallGoto(t, "new") /\ guard' = t
    /\ UNCHANGED <<wrapped, kind, state, host, held, mutex_calls, fault, careful>>

(* make_c_wrapped stores the pointer first ... *)
make_c_wrapped(t) ==
    /\ CallAt(t, "new")
    /\ \E h \in Hosts :
          /\ host[h].is = "free"
          /\ host' = [host EXCEPT ![h].is = "raw"]
          /\ wrapped' = [wrapped EXCEPT ![call[t].m] = h]
    /\ CallGoto(t, "construct")
    /\ UNCHANGED <<kind, state, guard, held, mutex_calls, fault, careful>>

Made(k) == [is |-> "live", kind |-> k, owner |-> None, count |-> 0]

(* ... and then has the host initialise the mutex, with the kind the       *)
(* initialiser stands for; the guard is given up.                          *)
pthread_mutex_init_host(t) ==
    /\ CallAt(t, "construct")
    /\ LET h == wrapped[call[t].m] IN host' = [host EXCEPT ![h] = Made(kind[call[t].m])]
    /\ guard' = None
    /\ CallGoto(t, "read")
    /\ UNCHANGED <<wrapped, kind, state, held, mutex_calls, fault, careful>>

(* The pointer that to_host returns is read after all that. *)
return_wrapped(t) ==
    /\ CallAt(t, "read")
    /\ call' = [call EXCEPT ![t].at = call[t].op, ![t].h = wrapped[call[t].m]]
    /\ UNCHANGED <<wrapped, kind, state, host, guard, held, mutex_calls, fault, careful>>

(***************************************************************************)
(* The host's functions.  A mutex that is not initialised is undefined     *)
(* behaviour: the run ends.                                                *)
(***************************************************************************)
Undefined(t) ==
    /\ host[call[t].h].is # "live"
    /\ fault' = "uninitialised"
    /\ UNCHANGED <<host, call, held>>

Told(t, n) == held' = [held EXCEPT ![t][call[t].m] = n]
Return(t) == call' = [call EXCEPT ![t] = Idle]

(* Taking a free mutex, or a recursive one again. *)
Take(t) == LET h == call[t].h IN
    /\ host[h].is = "live"
    /\ host[h].owner = None \/ (host[h].owner = t /\ host[h].kind = "recursive")
    /\ host' = [host EXCEPT ![h].owner = t, ![h].count = @ + 1]
    /\ Told(t, held[t][call[t].m] + 1)
    /\ Return(t) /\ UNCHANGED fault

(* The result of the host's lock is dropped: an error-checking mutex that  *)
(* the thread has already is reported as locked.                           *)
pthread_mutex_lock(t) ==
    /\ CallAt(t, "lock")
    /\ \/ Undefined(t)
       \/ Take(t)
       \/ LET h == call[t].h IN
          /\ host[h].is = "live" /\ host[h].owner = t /\ host[h].kind = "errorcheck"
          /\ Told(t, held[t][call[t].m] + 1)
          /\ Return(t) /\ UNCHANGED <<host, fault>>
    /\ UNCHANGED <<wrapped, kind, state, guard, mutex_calls, careful>>

Busy(t) == LET h == call[t].h IN
    host[h].owner # None /\ ~(host[h].owner = t /\ host[h].kind = "recursive")

pthread_mutex_trylock(t) ==
    /\ CallAt(t, "trylock")
    /\ \/ Undefined(t)
       \/ Take(t)
       \/ /\ host[call[t].h].is = "live" /\ Busy(t)
          /\ Return(t) /\ UNCHANGED <<host, held, fault>>
    /\ UNCHANGED <<wrapped, kind, state, guard, mutex_calls, careful>>

(* Owners unlock; anybody else gets an error, which is passed on. *)
pthread_mutex_unlock(t) ==
    /\ CallAt(t, "unlock")
    /\ LET h == call[t].h IN
       IF host[h].owner = t
       THEN /\ host' = [host EXCEPT ![h].count = @ - 1, ![h].owner = IF host[h].count > 1 THEN @ ELSE None]
            /\ Told(t, held[t][call[t].m] - 1)
       ELSE UNCHANGED <<host, held>>
    /\ Return(t)
    /\ UNCHANGED <<wrapped, kind, state, guard, mutex_calls, fault, careful>>

(***************************************************************************)
(* pthread_mutex_init and _destroy, and memory that is used again for a    *)
(* static mutex; destroy leaves the pointer where it is.                   *)
(***************************************************************************)
pthread_mutex_init(t, m, k) ==
    /\ CallAt(t, "idle") /\ mutex_calls < MutexCalls /\ Unused(m)
    /\ state[m] = "destroyed" \/ ~is_mutex_initialized(m)
    /\ \E h \in Hosts :
          /\ host[h].is = "free"
          /\ host' = [host EXCEPT ![h] = Made(k)]
          /\ wrapped' = [wrapped EXCEPT ![m] = h]
    /\ kind' = [kind EXCEPT ![m] = k]
    /\ state' = [state EXCEPT ![m] = "made"]
    /\ mutex_calls' = mutex_calls + 1
    /\ UNCHANGED <<guard, call, held, fault, careful>>

pthread_mutex_destroy(t, m) ==
    /\ CallAt(t, "idle") /\ mutex_calls < MutexCalls /\ Unused(m) /\ state[m] # "destroyed"
    /\ host' = IF is_mutex_initialized(m) THEN [host EXCEPT ![wrapped[m]] = Free] ELSE host
    /\ state' = [state EXCEPT ![m] = "destroyed"]
    /\ mutex_calls' = mutex_calls + 1
    /\ UNCHANGED <<wrapped, kind, guard, call, held, fault, careful>>

static_again(t, m, k) ==
    /\ CallAt(t, "idle") /\ state[m] = "destroyed"
    /\ wrapped' = [wrapped EXCEPT ![m] = None]
    /\ kind' = [kind EXCEPT ![m] = k]
    /\ state' = [state EXCEPT ![m] = "static"]
    /\ UNCHANGED <<host, guard, call, held, mutex_calls, fault, careful>>

MutexNext == \E t \in Threads :
    \/ \E m \in Mutexes :
          \/ \E op \in {"lock", "trylock", "unlock"} : enter(t, op, m)
          \/ pthread_mutex_destroy(t, m)
          \/ \E k \in Kinds : pthread_mutex_init(t, m, k) \/ static_again(t, m, k)
    \/ mutex_to_host(t) \/ mutex_static_initializer(t) \/ make_c_wrapped(t)
    \/ pthread_mutex_init_host(t) \/ return_wrapped(t)
    \/ pthread_mutex_lock(t) \/ pthread_mutex_trylock(t) \/ pthread_mutex_unlock(t)

MutexSpec == MutexInit /\ [][MutexNext]_mutexes

(***************************************************************************)
(* Properties.                                                             *)
(***************************************************************************)
(* Types. *)
MutexTypeOK ==
    /\ wrapped \in [Mutexes -> Hosts \cup {None}] /\ kind \in [Mutexes -> Kinds]
    /\ state \in [Mutexes -> {"static", "made", "destroyed"}]
    /\ \A h \in Hosts : /\ host[h].is \in {"free", "raw", "live"} /\ host[h].count \in Nat
                        /\ host[h].kind \in Kinds \cup {None}
                        /\ host[h].owner \in Threads \cup {None}
    /\ guard \in Threads \cup {None} /\ held \in [Threads -> [Mutexes -> Nat]]
    /\ mutex_calls \in 0 .. MutexCalls /\ fault \in {"none", "uninitialised"}

(* However threads meet in the first call on a mutex, it gets one host     *)
(* mutex, of its own kind: none is lost, none is shared by two mutexes,    *)
(* and all threads inside the host are in that one.                        *)
OneHost ==
    /\ \A h \in Hosts : host[h].is # "free" =>
          \E m \in Mutexes : {n \in Mutexes : state[n] # "destroyed" /\ wrapped[n] = h} = {m}
    /\ \A m \in Mutexes :
          state[m] # "destroyed" /\ is_mutex_initialized(m) /\ host[wrapped[m]].is = "live"
             => host[wrapped[m]].kind = kind[m]
    /\ \A t \in Threads : call[t].h # None => call[t].h = wrapped[call[t].m]

(* What careful guests were told agrees with the host, call by call: a     *)
(* thread has a mutex as often as the host's owner does, so no two threads *)
(* have it at once.                                                        *)
HoldsExact == careful => \A t \in Threads, m \in Mutexes :
    held[t][m] = IF state[m] # "destroyed" /\ is_mutex_initialized(m) /\ host[wrapped[m]].owner = t
                 THEN host[wrapped[m]].count ELSE 0

(* For careful guests no host function is given a mutex that is not        *)
(* initialised, destroyed mutexes and memory that is used again included.  *)
Initialised == careful => fault = "none"

(* All of these: mutexes have one host mutex of their own kind, however    *)
(* first calls race (to_host, mutex_static_initializer), and careful       *)
(* guests hold what they were told and use none before it is ready.        *)
MutexesExact == OneHost /\ HoldsExact /\ Initialised
=============================================================================
