------------------------------ MODULE ExecContext ------------------------------
(***************************************************************************)
(* Guest threads, the execution context each of them owns, the pool of     *)
(* processor ids the contexts draw from, and the thread-specific data      *)
(* (pthread keys) whose destructors keep a context alive after the guest   *)
(* routine has returned.                                                   *)
(*                                                                         *)
(*   execution_context.cpp   allocate/release_processor_id,                *)
(*                           execution_context_init/free, add_ref/sub_ref, *)
(*                           the assertions of ScopedExecutionFiber        *)
(*   libs/pthread_impl.cpp   all of it                                     *)
(*                                                                         *)
(* A thread runs guest code in "running" and "destroying"; there it may    *)
(* call any pthread function of this file, in any order.                   *)
(***************************************************************************)
EXTENDS Integers, FiniteSets

CONSTANTS
  Threads,      \* host threads; a dead thread's name may be used again
  Main,         \* the thread that runs main()
  MaxCpus,      \* MAX_CPUS
  KeysMax,      \* number of host pthread keys
  Wrappers,     \* heap addresses a GuestRoutineWrapper may be given
  Values,       \* non-null guest values
  Dtors,        \* non-null guest key destructors
  Null,         \* nullptr
  Absent,       \* "the map has no entry"
  Iterations,   \* the host's PTHREAD_DESTRUCTOR_ITERATIONS
  RefMod,       \* ref_count is a usize: it counts modulo RefMod
  RefBound,     \* bound: no pthread_setspecific takes ref_count above it
  DequeBound    \* bound: occurrences of one address in one deque

ASSUME FiniteAssumption == IsFiniteSet(Threads) /\ IsFiniteSet(Wrappers) /\ Main \in Threads

ASSUME NullAssumption ==
  /\ Null \notin Threads \cup Wrappers \cup Values \cup Dtors \cup {Absent}
  /\ Absent \notin Dtors
  /\ Null \notin [routine : Dtors \cup {Null}, value : Values \cup {Null}]

ASSUME NumberAssumption ==
  /\ MaxCpus \in Nat \ {0} /\ KeysMax \in Nat /\ Iterations \in Nat \ {0}
  /\ RefMod \in Nat /\ RefBound \in Nat /\ DequeBound \in Nat
  /\ RefBound < RefMod /\ KeysMax + 2 < RefMod

Ids == 0 .. MaxCpus - 1
Keys == 1 .. KeysMax
NoSlots == [k \in Keys |-> Null]
NoCell == [routine |-> Null, value |-> Null]

VARIABLES
  pc,               \* what each thread is doing
  initialized, processor_id, ref_count,   \* thread_local execution_context
  used_processors,  \* the ids marked true in used_processors
  start,            \* the wrapper pthread_create_impl handed to the thread
  live, cell,       \* allocated wrappers, and what each address holds
  hostkeys,         \* keys the host has created
  slot,             \* the host's thread-specific data: thread -> key -> wrapper
  registered,       \* key_destructor_map[key].guest_destructor
  wrappers,         \* key_destructor_map[key].wrappers, as a bag of addresses
  dying,            \* the wrapper whose key destructor the thread is running
  round, cursor,    \* the host's destructor loop at thread exit
  fault             \* why the process died, or "none"

context == <<initialized, processor_id, ref_count>>
heap == <<live, cell>>
keys == <<hostkeys, registered>>
exit == <<dying, round, cursor>>
vars == <<pc, context, used_processors, start, heap, keys, slot, wrappers, exit, fault>>

PCs == {"absent", "created", "running", "freeing", "leaving", "exiting",
        "destroying", "dead"}
Faults == {"none", "out_of_ids", "assert", "heap", "null_routine", "race"}

Guest(t) == pc[t] \in {"running", "destroying"}

(* The thread owns its processor id from allocate_processor_id to          *)
(* release_processor_id, that is also while its context is torn down.      *)
Holding(t) == initialized[t] \/ pc[t] = "freeing"

Goto(t, l) == pc' = [pc EXCEPT ![t] = l]

(* std::terminate, a failed assertion or undefined behaviour.              *)
Crash(why) ==
  /\ fault' = why
  /\ UNCHANGED <<pc, context, used_processors, start, heap, keys, slot, wrappers, exit>>

Init ==
  /\ pc = [t \in Threads |-> IF t = Main THEN "created" ELSE "absent"]
  /\ initialized = [t \in Threads |-> FALSE]
  /\ processor_id = [t \in Threads |-> 0]
  /\ ref_count = [t \in Threads |-> 1]
  /\ used_processors = {}
  /\ start = [t \in Threads |-> Null]
  /\ live = {} /\ cell = [w \in Wrappers |-> NoCell]
  /\ hostkeys = {}
  /\ slot = [t \in Threads |-> NoSlots]
  /\ registered = [k \in Keys |-> Absent]
  /\ wrappers = [k \in Keys |-> [w \in Wrappers |-> 0]]
  /\ dying = [t \in Threads |-> Null]
  /\ round = [t \in Threads |-> 1] /\ cursor = [t \in Threads |-> 1]
  /\ fault = "none"

------------------------------------------------------------------------------
(* The execution context                                                   *)

add_ref(t) == (ref_count[t] + 1) % RefMod
sub_ref(t) == (ref_count[t] - 1) % RefMod

(* new GuestRoutineWrapper(d, v) at address w; delete of the set D.        *)
new(w, d, v) ==
  /\ w \notin live
  /\ live' = live \cup {w}
  /\ cell' = [cell EXCEPT ![w] = [routine |-> d, value |-> v]]

delete(D) ==
  /\ live' = live \ D
  /\ cell' = [w \in Wrappers |-> IF w \in D THEN NoCell ELSE cell[w]]

(* Mutants: the id is not marked; the scan does not stop at the first id.  *)
allocate_processor_id_unmarked(id) ==
  /\ id \in Ids \ used_processors
  /\ \A j \in Ids \ used_processors : id <= j
  /\ UNCHANGED used_processors
allocate_processor_id_last(id) ==
  /\ id \in Ids \ used_processors
  /\ \A j \in Ids \ used_processors : id >= j
  /\ used_processors' = used_processors \cup {id}

(* The lowest id that is not marked, under processor_mutex.                *)
allocate_processor_id(id) ==
  /\ id \in Ids \ used_processors
  /\ \A j \in Ids \ used_processors : id <= j
  /\ used_processors' = used_processors \cup {id}

(* The head of thread_routine, and of main: the context is set up, and the  *)
(* guest starts at the routine its wrapper names.                          *)
execution_context_init(t) ==
  /\ pc[t] = "created"
  /\ \/ /\ t = Main \/ start[t] \in live
        /\ \E id \in Ids : /\ allocate_processor_id(id)
                           /\ processor_id' = [processor_id EXCEPT ![t] = id]
        /\ initialized' = [initialized EXCEPT ![t] = TRUE]
        /\ Goto(t, "running")
        /\ UNCHANGED <<ref_count, start, heap, keys, slot, wrappers, exit, fault>>
     \/ /\ Ids \subseteq used_processors
        /\ Crash("out_of_ids")
     \/ /\ t # Main /\ start[t] \notin live /\ ~(Ids \subseteq used_processors)
        /\ Crash("heap")

(* Mutant: the context is freed whatever sub_ref returns. *)
drop_ref_always(t, otherwise) ==
  /\ ref_count' = [ref_count EXCEPT ![t] = sub_ref(t)]
  /\ initialized' = [initialized EXCEPT ![t] = FALSE]
  /\ Goto(t, "freeing")
  /\ UNCHANGED processor_id

(* _execution_context_sub_ref, and execution_context_free when it returns  *)
(* zero: the context is gone first, its id is given back in a later step.  *)
drop_ref(t, otherwise) ==
  /\ ref_count' = [ref_count EXCEPT ![t] = sub_ref(t)]
  /\ IF sub_ref(t) = 0
       THEN /\ initialized' = [initialized EXCEPT ![t] = FALSE]
            /\ Goto(t, "freeing")
       ELSE /\ Goto(t, otherwise)
            /\ UNCHANGED initialized
  /\ UNCHANGED processor_id

(* Mutant: the id stays marked. *)
release_processor_id_kept(t) ==
  /\ pc[t] = "freeing"
  /\ Goto(t, IF start[t] # Null THEN "leaving" ELSE "exiting")
  /\ UNCHANGED <<context, used_processors, start, heap, keys, slot, wrappers, exit, fault>>

(* The end of execution_context_free, called from thread_routine (which    *)
(* still has its wrapper to delete) or from a key destructor.              *)
release_processor_id(t) ==
  /\ pc[t] = "freeing"
  /\ used_processors' = used_processors \ {processor_id[t]}
  /\ Goto(t, IF start[t] # Null THEN "leaving" ELSE "exiting")
  /\ UNCHANGED <<context, start, heap, keys, slot, wrappers, exit, fault>>

------------------------------------------------------------------------------
(* Threads                                                                 *)

(* Thread p creates thread t. The wrapper is allocated before the host     *)
(* call and is not freed when that call fails.                             *)
pthread_create_impl(p, t) ==
  /\ Guest(p)
  /\ pc[t] \in {"absent", "dead"} /\ ~initialized[t]
  /\ \E w \in Wrappers :
       /\ new(w, Null, Null)
       /\ \/ /\ Goto(t, "created")
             /\ start' = [start EXCEPT ![t] = w]
             /\ processor_id' = [processor_id EXCEPT ![t] = 0]
             /\ ref_count' = [ref_count EXCEPT ![t] = 1]
             /\ slot' = [slot EXCEPT ![t] = NoSlots]
             /\ round' = [round EXCEPT ![t] = 1] /\ cursor' = [cursor EXCEPT ![t] = 1]
          \/ UNCHANGED <<pc, start, processor_id, ref_count, slot, round, cursor>>
  /\ UNCHANGED <<initialized, used_processors, keys, wrappers, dying, fault>>

(* thread_routine once the guest routine has returned. main never gets     *)
(* here: the process ends with it.                                         *)
thread_routine_return(t) ==
  /\ pc[t] = "running" /\ t # Main
  /\ drop_ref(t, "leaving")
  /\ UNCHANGED <<used_processors, start, heap, keys, slot, wrappers, exit, fault>>

(* delete wrapper, the last statement of thread_routine. A key deletion    *)
(* may have freed that address already.                                    *)
thread_routine_exit(t) ==
  /\ pc[t] = "leaving"
  /\ \/ /\ start[t] \in live
        /\ delete({start[t]})
        /\ start' = [start EXCEPT ![t] = Null]
        /\ Goto(t, "exiting")
        /\ UNCHANGED <<context, used_processors, keys, slot, wrappers, exit, fault>>
     \/ /\ start[t] \notin live
        /\ Crash("heap")

(* The host's loop over a thread's keys: in each round every key once, in  *)
(* order; another round while some key has a value again, up to a limit.   *)
next_key(t, k) ==
  /\ k \in cursor[t] .. KeysMax
  /\ slot[t][k] # Null
  /\ \A j \in cursor[t] .. k - 1 : slot[t][j] = Null

(* Mutant: no limit on the rounds. *)
deallocate_tsd_forever(t) ==
  /\ pc[t] = "exiting"
  /\ \A k \in cursor[t] .. KeysMax : slot[t][k] = Null
  /\ IF slot[t] # NoSlots
       THEN cursor' = [cursor EXCEPT ![t] = 1] /\ UNCHANGED pc
       ELSE Goto(t, "dead") /\ UNCHANGED cursor
  /\ UNCHANGED <<context, used_processors, start, heap, keys, slot, wrappers, dying, round, fault>>

deallocate_tsd(t) ==
  /\ pc[t] = "exiting"
  /\ \A k \in cursor[t] .. KeysMax : slot[t][k] = Null
  /\ IF slot[t] # NoSlots /\ round[t] < Iterations
       THEN /\ round' = [round EXCEPT ![t] = @ + 1]
            /\ cursor' = [cursor EXCEPT ![t] = 1]
            /\ UNCHANGED pc
       ELSE /\ Goto(t, "dead")
            /\ UNCHANGED <<round, cursor>>
  /\ UNCHANGED <<context, used_processors, start, heap, keys, slot, wrappers, dying, fault>>

(* The destructor pthread_key_create_impl gives to the host, up to the     *)
(* guest destructor's first instruction: the fiber asserts that there is a *)
(* context, then the wrapper is read.                                      *)
key_destructor_enter(t) ==
  /\ pc[t] = "exiting"
  /\ \E k \in Keys :
       /\ next_key(t, k)
       /\ LET w == slot[t][k] IN
          \/ /\ initialized[t] /\ w \in live /\ cell[w].routine # Null
             /\ slot' = [slot EXCEPT ![t][k] = Null]
             /\ cursor' = [cursor EXCEPT ![t] = k + 1]
             /\ dying' = [dying EXCEPT ![t] = w]
             /\ Goto(t, "destroying")
             /\ UNCHANGED <<context, used_processors, start, heap, keys, wrappers, round, fault>>
          \/ ~initialized[t] /\ Crash("assert")
          \/ initialized[t] /\ w \notin live /\ Crash("heap")
          \/ initialized[t] /\ w \in live /\ cell[w].routine = Null /\ Crash("null_routine")

(* Mutant: the destructor's reference is not dropped. *)
key_destructor_leave_kept(t) ==
  /\ pc[t] = "destroying" /\ dying[t] \in live
  /\ delete({dying[t]})
  /\ dying' = [dying EXCEPT ![t] = Null]
  /\ Goto(t, "exiting")
  /\ UNCHANGED <<context, used_processors, start, keys, slot, wrappers, round, cursor, fault>>

(* The same destructor once the guest destructor has returned. The wrapper *)
(* stays in the deque of its key.                                          *)
key_destructor_leave(t) ==
  /\ pc[t] = "destroying"
  /\ \/ /\ dying[t] \in live
        /\ delete({dying[t]})
        /\ dying' = [dying EXCEPT ![t] = Null]
        /\ drop_ref(t, "exiting")
        /\ UNCHANGED <<used_processors, start, keys, slot, wrappers, round, cursor, fault>>
     \/ /\ dying[t] \notin live
        /\ Crash("heap")

------------------------------------------------------------------------------
(* Keys                                                                    *)

(* emplace leaves the entry of an earlier key with the same number alone.  *)
pthread_key_create_impl(t, guest_destructor) ==
  /\ Guest(t)
  /\ \E k \in Keys \ hostkeys :
       /\ hostkeys' = hostkeys \cup {k}
       /\ registered' = [registered EXCEPT ![k] = IF @ = Absent THEN guest_destructor ELSE @]
  /\ UNCHANGED <<pc, context, used_processors, start, heap, slot, wrappers, exit, fault>>

(* Every wrapper in the deque is freed, and the CALLER's ref_count drops   *)
(* once for each, whichever thread had added it; the host then forgets     *)
(* every thread's value.                                                   *)
pthread_key_delete_impl(t) ==
  /\ Guest(t)
  /\ \E k \in hostkeys :
       LET D == {w \in Wrappers : wrappers[k][w] > 0} IN
       \/ /\ D \subseteq live /\ \A w \in D : wrappers[k][w] = 1
          /\ delete(D)
          /\ ref_count' = [ref_count EXCEPT ![t] = (@ - Cardinality(D)) % RefMod]
          /\ hostkeys' = hostkeys \ {k}
          /\ slot' = [u \in Threads |-> [slot[u] EXCEPT ![k] = Null]]
          /\ UNCHANGED <<pc, initialized, processor_id, used_processors, start,
                         registered, wrappers, exit, fault>>
       \/ /\ ~(D \subseteq live /\ \A w \in D : wrappers[k][w] = 1)
          /\ Crash("heap")

(* Two threads in key_destructor_map at once: it has no lock.              *)
Contended(t) == \E u \in Threads \ {t} : Guest(u)

(* Mutants: no sub_ref; the host's value is left behind. *)
setspecific_null_kept(t, k) ==
  LET w == slot[t][k] IN
  /\ w # Null /\ w \in live
  /\ wrappers' = [wrappers EXCEPT ![k][w] = 0]
  /\ delete({w})
  /\ slot' = [slot EXCEPT ![t][k] = Null]
  /\ UNCHANGED <<pc, context, used_processors, start, keys, exit, fault>>
setspecific_null_dangling(t, k) ==
  LET w == slot[t][k] IN
  /\ w # Null /\ w \in live
  /\ wrappers' = [wrappers EXCEPT ![k][w] = 0]
  /\ delete({w})
  /\ ref_count' = [ref_count EXCEPT ![t] = sub_ref(t)]
  /\ UNCHANGED <<pc, initialized, processor_id, used_processors, start, keys, slot, exit, fault>>

(* value == nullptr                                                        *)
setspecific_null(t, k) ==
  LET w == slot[t][k] IN
  /\ w # Null
  /\ \/ /\ w \in live
        /\ wrappers' = [wrappers EXCEPT ![k][w] = 0]
        /\ delete({w})
        /\ ref_count' = [ref_count EXCEPT ![t] = sub_ref(t)]
        /\ slot' = [slot EXCEPT ![t][k] = Null]
        /\ UNCHANGED <<pc, initialized, processor_id, used_processors, start, keys, exit, fault>>
     \/ w \notin live /\ Crash("heap")

(* Mutant: no add_ref. *)
setspecific_new_uncounted(t, k, v) ==
  /\ slot[t][k] = Null /\ registered[k] # Absent
  /\ \E w \in Wrappers :
       /\ wrappers[k][w] < DequeBound
       /\ new(w, registered[k], v)
       /\ slot' = [slot EXCEPT ![t][k] = w]
       /\ wrappers' = [wrappers EXCEPT ![k][w] = @ + 1]
  /\ UNCHANGED <<pc, context, used_processors, start, keys, exit, fault>>

(* A first value: a new wrapper. push_back on a deque another thread is    *)
(* changing may lose the entry.                                            *)
setspecific_new(t, k, v) ==
  /\ slot[t][k] = Null /\ registered[k] # Absent
  /\ ref_count[t] < RefBound
  /\ \E w \in Wrappers :
       /\ wrappers[k][w] < DequeBound
       /\ new(w, registered[k], v)
       /\ slot' = [slot EXCEPT ![t][k] = w]
       /\ \/ wrappers' = [wrappers EXCEPT ![k][w] = @ + 1]
          \/ Contended(t) /\ UNCHANGED wrappers
  /\ ref_count' = [ref_count EXCEPT ![t] = add_ref(t)]
  /\ UNCHANGED <<pc, initialized, processor_id, used_processors, start, keys, exit, fault>>

(* Mutant: the value goes into some wrapper of the key. *)
setspecific_update_any(t, k, v) ==
  /\ slot[t][k] # Null
  /\ \E w \in live : /\ wrappers[k][w] > 0
                     /\ cell' = [cell EXCEPT ![w].value = v]
  /\ UNCHANGED <<pc, context, used_processors, start, live, keys, slot, wrappers, exit, fault>>

(* A later value: the wrapper's value is overwritten. (A read of a freed   *)
(* wrapper in pthread_getspecific_impl ends in the same state.)            *)
setspecific_update(t, k, v) ==
  LET w == slot[t][k] IN
  /\ w # Null
  /\ \/ /\ w \in live
        /\ cell' = [cell EXCEPT ![w].value = v]
        /\ UNCHANGED <<pc, context, used_processors, start, live, keys, slot, wrappers, exit, fault>>
     \/ w \notin live /\ Crash("heap")

pthread_setspecific_impl(t) ==
  /\ Guest(t)
  /\ \E k \in hostkeys :
       \/ setspecific_null(t, k)
       \/ \E v \in Values : setspecific_new(t, k, v) \/ setspecific_update(t, k, v)

(* What the guest reads: pthread_getspecific_impl.                         *)
getspecific(t, k) == IF slot[t][k] # Null THEN cell[slot[t][k]].value ELSE Null

(* The data race on key_destructor_map: any outcome, here the worst one.   *)
map_race(t) == Guest(t) /\ Contended(t) /\ Crash("race")

------------------------------------------------------------------------------
(* Steps of thread t that no guest decides on.                             *)
HostStep(t) ==
  \/ execution_context_init(t) \/ release_processor_id(t)
  \/ thread_routine_exit(t) \/ deallocate_tsd(t)
  \/ key_destructor_enter(t) \/ key_destructor_leave(t)

(* A guest that never deletes a key and gives every key a destructor.      *)
DisciplinedNext ==
  /\ fault = "none"
  /\ \E t \in Threads :
       \/ HostStep(t)
       \/ thread_routine_return(t)
       \/ \E u \in Threads : pthread_create_impl(t, u)
       \/ \E d \in Dtors : pthread_key_create_impl(t, d)
       \/ pthread_setspecific_impl(t)
       \/ map_race(t)

(* Any guest: keys without destructors, and deleted keys, too.             *)
Next ==
  \/ DisciplinedNext
  \/ /\ fault = "none"
     /\ \E t \in Threads :
          \/ pthread_key_create_impl(t, Null)
          \/ pthread_key_delete_impl(t)

Spec == Init /\ [][Next]_vars
DisciplinedSpec == Init /\ [][DisciplinedNext]_vars

(* The host schedules every runnable thread, and guest destructors return. *)
FairSpec == DisciplinedSpec /\ \A t \in Threads : WF_vars(fault = "none" /\ HostStep(t))

------------------------------------------------------------------------------
(* Properties of every guest                                               *)

ContextType ==
  /\ pc \in [Threads -> PCs]
  /\ initialized \in [Threads -> BOOLEAN]
  /\ processor_id \in [Threads -> Ids]
  /\ ref_count \in [Threads -> 0 .. RefMod - 1]
  /\ used_processors \subseteq Ids

HeapType ==
  /\ start \in [Threads -> Wrappers \cup {Null}]
  /\ dying \in [Threads -> Wrappers \cup {Null}]
  /\ live \subseteq Wrappers
  /\ cell \in [Wrappers -> [routine : Dtors \cup {Null}, value : Values \cup {Null}]]

KeyType ==
  /\ hostkeys \subseteq Keys
  /\ slot \in [Threads -> [Keys -> Wrappers \cup {Null}]]
  /\ registered \in [Keys -> Dtors \cup {Null, Absent}]
  /\ wrappers \in [Keys -> [Wrappers -> Nat]]

ExitType ==
  /\ round \in [Threads -> 1 .. Iterations]
  /\ cursor \in [Threads -> 1 .. KeysMax + 1]
  /\ fault \in Faults

TypeOK == ContextType /\ HeapType /\ KeyType /\ ExitType

(* No two contexts, live or being torn down, share a processor id: the     *)
(* exclusive monitor and the JIT configuration index by it.                *)
IdsExclusive ==
  \A t, u \in Threads : Holding(t) /\ Holding(u) /\ t # u => processor_id[t] # processor_id[u]

(* An id is marked in used_processors exactly while a thread holds it: no  *)
(* id is handed out twice, none is lost by the pool.                       *)
PoolExact == used_processors = {processor_id[t] : t \in {u \in Threads : Holding(u)}}

(* A thread in guest code has a context, so the assertions in CallSVC,     *)
(* ExceptionRaised, execution_loop and ~ScopedExecutionFiber hold; one     *)
(* that starts has none, so the assertion in execution_context_init holds; *)
(* one whose id is about to be given back has none any more.               *)
GuestHasContext ==
  \A t \in Threads : /\ Guest(t) => initialized[t]
                     /\ pc[t] \in {"absent", "created", "freeing"} => ~initialized[t]

(* The contexts use the pool as ProcessorIds promises; an id whose context *)
(* is being torn down still has its owner.                                 *)
Owner(i) == IF \E t \in Threads : Holding(t) /\ processor_id[t] = i
            THEN CHOOSE t \in Threads : Holding(t) /\ processor_id[t] = i
            ELSE Null

Pool == INSTANCE ProcessorIds
          WITH None <- Null, owner <- [i \in Ids |-> Owner(i)], exhausted <- fault = "out_of_ids"
PoolSpec == Pool!Spec

(* The assertion at the head of ScopedExecutionFiber:                      *)
(* assert(execution_context.initialized).                                  *)
FiberHasContext == fault # "assert"

------------------------------------------------------------------------------
(* Properties of a disciplined guest                                       *)

Slots(t) == {k \in Keys : slot[t][k] # Null}

(* ref_count is one for thread_routine until it returns, one for each key  *)
(* with a value, one for the destructor that is running.                   *)
RefCountExact ==
  \A t \in Threads :
    initialized[t] => ref_count[t] = (IF pc[t] = "running" THEN 1 ELSE 0)
                                   + Cardinality(Slots(t))
                                   + (IF dying[t] # Null THEN 1 ELSE 0)

(* The wrappers thread t refers to: its start wrapper, the wrapper of each *)
(* key it has a value for, the one its running destructor was called with. *)
Ref(t, i) == IF i = 0 THEN start[t] ELSE IF i \in Keys THEN slot[t][i] ELSE dying[t]
Refs == 0 .. KeysMax + 1

(* A wrapper in use is allocated and has one owner, so no thread frees or  *)
(* overwrites what another one still needs.                                *)
WrappersOwnedOnce ==
  \A t, u \in Threads, i, j \in Refs :
    Ref(t, i) # Null => Ref(t, i) \in live /\ (Ref(u, j) = Ref(t, i) => t = u /\ i = j)

(* The only ways such a guest can lose the process are the ones it could   *)
(* be told about: no more ids, or a race on key_destructor_map.            *)
NoUndefinedBehaviour == fault \in {"none", "out_of_ids", "race"}

(* A thread that is gone has given its context and its id back, unless its *)
(* destructors kept setting values through every round.                    *)
DeadReleasesContext ==
  \A t \in Threads : pc[t] = "dead" => (initialized[t] <=> Slots(t) # {})

(* The context survives as long as a destructor may still need it: it is   *)
(* only torn down in a step that leaves the thread without values.         *)
FreedOnlyWhenDone ==
  [][\A t \in Threads : initialized[t] /\ ~initialized'[t] => Slots(t) = {} /\ dying'[t] = Null]_vars

(* The wrappers implement ThreadSpecificData: a guest reads what it last   *)
(* set, and each destructor call gets its own key's routine and value.     *)
Phase(t) == CASE pc[t] = "running" -> "guest"
              [] pc[t] \in {"absent", "created", "dead"} -> "idle"
              [] OTHER -> "ending"

CallOf(t) == IF dying[t] = Null THEN Null ELSE cell[dying[t]]

phases == [t \in Threads |-> Phase(t)]
vals == [t \in Threads |-> [k \in Keys |-> getspecific(t, k)]]
calls == [t \in Threads |-> CallOf(t)]

Tsd == INSTANCE ThreadSpecificData
         WITH phase <- phases, dtor <- registered, val <- vals, call <- calls
TsdSpec == Tsd!Spec

(* What the proof that the properties above are invariant needs besides    *)
(* them: which labels go with which wrapper, and what the wrappers hold.   *)
LabelsMatch ==
  \A t \in Threads :
    /\ pc[t] = "destroying" <=> dying[t] # Null
    /\ t = Main => pc[t] \in {"created", "running"}
    /\ start[t] # Null => t # Main /\ pc[t] \in {"created", "running", "freeing", "leaving"}
    /\ t # Main /\ pc[t] \in {"created", "running", "leaving"} => start[t] # Null
    /\ pc[t] = "created" => ref_count[t] = 1
    /\ initialized[t] => ref_count[t] # 0
    /\ ~initialized[t] => slot[t] = NoSlots

CellsMatch ==
  \A t \in Threads, k \in Keys :
    /\ registered[k] # Null
    /\ slot[t][k] # Null => /\ registered[k] # Absent
                            /\ cell[slot[t][k]].routine = registered[k]
                            /\ cell[slot[t][k]].value # Null

DisciplinedInv ==
  /\ TypeOK /\ GuestHasContext /\ LabelsMatch /\ CellsMatch
  /\ RefCountExact /\ WrappersOwnedOnce /\ NoUndefinedBehaviour

(* Every thread whose routine has returned is gone in the end.             *)
ThreadsEnd ==
  \A t \in Threads : pc[t] \in {"leaving", "freeing"} ~> (pc[t] = "dead" \/ fault # "none")
==============================================================================
