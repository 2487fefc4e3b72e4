-------------------------- MODULE ExecContextProofs --------------------------
(***************************************************************************)
(* Proofs about ExecContext, for every number of threads, ids, keys and    *)
(* heap addresses, and for every guest.                                    *)
(***************************************************************************)
EXTENDS ExecContext, TLAPS

(* The cases a proof about a step of Next has to cover.                    *)
Step(t) ==
  \/ execution_context_init(t) \/ release_processor_id(t)
  \/ thread_routine_exit(t) \/ deallocate_tsd(t)
  \/ key_destructor_enter(t) \/ key_destructor_leave(t)
  \/ thread_routine_return(t)
  \/ \E u \in Threads : pthread_create_impl(t, u)
  \/ \E d \in Dtors \cup {Null} : pthread_key_create_impl(t, d)
  \/ \E k \in hostkeys : Guest(t) /\ setspecific_null(t, k)
  \/ \E k \in hostkeys, v \in Values : Guest(t) /\ setspecific_new(t, k, v)
  \/ \E k \in hostkeys, v \in Values : Guest(t) /\ setspecific_update(t, k, v)
  \/ pthread_key_delete_impl(t)

Crashes == \E why \in Faults : Crash(why)

LEMMA NextCases ==
  ASSUME [Next]_vars
  PROVE  \/ UNCHANGED vars
         \/ Crashes
         \/ \E t \in Threads : Step(t) /\ ~Crashes
  BY Zenon DEF Next, DisciplinedNext, HostStep, Step, Crashes, map_race, pthread_setspecific_impl, Faults

(* A fault is terminal and changes nothing but fault.                      *)
LEMMA CrashUnchanged ==
  ASSUME UNCHANGED vars \/ Crashes
  PROVE  /\ UNCHANGED <<pc, initialized, processor_id, ref_count, used_processors, start, live,
                        cell, hostkeys, registered, slot, wrappers, dying, round, cursor>>
         /\ fault' \in Faults \cup {fault}
  BY Zenon DEF vars, Crashes, Crash, context, heap, keys, exit

------------------------------------------------------------------------------
(* A guest that keeps its keys: the cases of a step, and who has which     *)
(* wrapper.                                                                *)

DStep(t) ==
  \/ execution_context_init(t) \/ release_processor_id(t)
  \/ thread_routine_exit(t) \/ deallocate_tsd(t)
  \/ key_destructor_enter(t) \/ key_destructor_leave(t)
  \/ thread_routine_return(t)
  \/ \E u \in Threads : pthread_create_impl(t, u)
  \/ \E d \in Dtors : pthread_key_create_impl(t, d)
  \/ \E k \in hostkeys : Guest(t) /\ setspecific_null(t, k)
  \/ \E k \in hostkeys, v \in Values : Guest(t) /\ setspecific_new(t, k, v)
  \/ \E k \in hostkeys, v \in Values : Guest(t) /\ setspecific_update(t, k, v)

LEMMA DisciplinedCases ==
  ASSUME DisciplinedNext
  PROVE  \E t \in Threads : DStep(t) \/ map_race(t)
  BY Zenon DEF DisciplinedNext, HostStep, DStep, pthread_setspecific_impl

(* What Ref is, at each index, now and after a step.                       *)
LEMMA RefNow ==
  /\ 0 \in Refs /\ KeysMax + 1 \in Refs /\ 0 \notin Keys /\ KeysMax + 1 \notin Keys
  /\ KeysMax + 1 # 0 /\ Keys \subseteq Refs
  /\ \A j \in Refs : j = 0 \/ j \in Keys \/ j = KeysMax + 1
  BY NumberAssumption DEF Refs, Keys

LEMMA OwnedLive ==
  ASSUME WrappersOwnedOnce, NEW t \in Threads
  PROVE  /\ start[t] # Null => start[t] \in live
         /\ dying[t] # Null => dying[t] \in live
         /\ \A k \in Keys : slot[t][k] # Null => slot[t][k] \in live
<1>1. 0 \in Refs /\ KeysMax + 1 \in Refs /\ 0 \notin Keys /\ KeysMax + 1 \notin Keys
      /\ KeysMax + 1 # 0 /\ Keys \subseteq Refs
  BY NumberAssumption DEF Refs, Keys
<1>2. Ref(t, 0) = start[t] /\ Ref(t, KeysMax + 1) = dying[t] /\ \A k \in Keys : Ref(t, k) = slot[t][k]
  BY Zenon, <1>1 DEF Ref
<1> QED BY <1>1, <1>2 DEF WrappersOwnedOnce

(* A new thread starts without values, and had none before.                *)
LEMMA CreateKeepsSlots ==
  ASSUME KeyType, LabelsMatch, NEW t \in Threads, NEW c \in Threads, pthread_create_impl(t, c)
  PROVE  slot' = slot /\ dying' = dying /\ registered' = registered
<1>1. ~initialized[c] /\ dying' = dying /\ registered' = registered
  BY Zenon DEF pthread_create_impl, keys
<1>2. slot' = [slot EXCEPT ![c] = NoSlots] \/ slot' = slot
  BY Zenon DEF pthread_create_impl
<1>3. slot[c] = NoSlots  BY Zenon, <1>1 DEF LabelsMatch
<1>4. slot \in [Threads -> [Keys -> Wrappers \cup {Null}]]  BY Zenon DEF KeyType
<1>5. [slot EXCEPT ![c] = NoSlots] = slot  BY Zenon, <1>3, <1>4
<1> QED BY Zenon, <1>1, <1>2, <1>5

(* The wrapper of a value is allocated, and is no other reference's.       *)
LEMMA SlotApart ==
  ASSUME WrappersOwnedOnce, NEW u \in Threads, NEW k \in Keys, slot[u][k] # Null
  PROVE  /\ slot[u][k] \in live
         /\ \A t \in Threads : slot[u][k] # start[t] /\ slot[u][k] # dying[t]
         /\ \A t \in Threads, j \in Keys : slot[t][j] = slot[u][k] => t = u /\ j = k
<1>1. Ref(u, k) = slot[u][k] /\ k \in Refs
  BY Zenon, RefNow DEF Ref
<1>2. \A t \in Threads : Ref(t, 0) = start[t] /\ Ref(t, KeysMax + 1) = dying[t]
  BY Zenon, RefNow DEF Ref
<1>3. \A t \in Threads, j \in Keys : Ref(t, j) = slot[t][j]
  BY Zenon, RefNow DEF Ref
<1>4. Ref(u, k) \in live /\ \A t \in Threads, j \in Refs : Ref(t, j) = Ref(u, k) => t = u /\ j = k
  BY Zenon, <1>1 DEF WrappersOwnedOnce
<1>5. \A t \in Threads : slot[u][k] # start[t] /\ slot[u][k] # dying[t]
  <2>1. 0 \in Refs /\ KeysMax + 1 \in Refs /\ k # 0 /\ k # KeysMax + 1  BY Zenon, RefNow
  <2> QED BY Zenon, <1>1, <1>2, <1>4, <2>1
<1>6. \A t \in Threads, j \in Keys : slot[t][j] = slot[u][k] => t = u /\ j = k
  <2>1. Keys \subseteq Refs  BY Zenon, RefNow
  <2> QED BY <1>1, <1>3, <1>4, <2>1
<1> QED BY Zenon, <1>1, <1>4, <1>5, <1>6

------------------------------------------------------------------------------
(* The wrappers implement ThreadSpecificData: what its variables are, and  *)
(* when they change.                                                       *)

LEMMA CallApart ==
  ASSUME WrappersOwnedOnce, NEW u \in Threads, dying[u] # Null
  PROVE  /\ dying[u] \in live
         /\ \A t \in Threads : dying[u] # start[t] /\ (dying[t] = dying[u] => t = u)
         /\ \A t \in Threads, k \in Keys : slot[t][k] # dying[u]
<1>1. \A t \in Threads : /\ Ref(t, 0) = start[t] /\ Ref(t, KeysMax + 1) = dying[t]
                         /\ \A k \in Keys : Ref(t, k) = slot[t][k]
  BY Zenon, RefNow DEF Ref
<1>2. /\ Ref(u, KeysMax + 1) \in live
      /\ \A t \in Threads, j \in Refs : Ref(t, j) = Ref(u, KeysMax + 1) => t = u /\ j = KeysMax + 1
  BY <1>1, RefNow DEF WrappersOwnedOnce
<1>3. \A t \in Threads : dying[u] # start[t] /\ (dying[t] = dying[u] => t = u)
  BY <1>1, <1>2, RefNow
<1>4. \A t \in Threads, k \in Keys : slot[t][k] # dying[u]
  BY <1>1, <1>2, RefNow
<1> QED BY Zenon, <1>1, <1>2, <1>3, <1>4

LEMMA PhasesSame ==
  ASSUME \A u \in Threads : Phase(u)' = Phase(u)
  PROVE  phases' = phases
  BY Zenon DEF phases

LEMMA PhasesSet ==
  ASSUME NEW t \in Threads, NEW p, Phase(t)' = p, \A u \in Threads \ {t} : Phase(u)' = Phase(u)
  PROVE  phases' = [phases EXCEPT ![t] = p]
  BY Zenon DEF phases

LEMMA ValsSame ==
  ASSUME \A u \in Threads, k \in Keys : getspecific(u, k)' = getspecific(u, k)
  PROVE  vals' = vals
  BY Zenon DEF vals

LEMMA ValsSet ==
  ASSUME NEW t \in Threads, NEW k \in Keys, NEW v, getspecific(t, k)' = v,
         \A u \in Threads, j \in Keys : u # t \/ j # k => getspecific(u, j)' = getspecific(u, j)
  PROVE  vals' = [vals EXCEPT ![t][k] = v]
<1>1. \A u \in Threads \ {t} : vals'[u] = vals[u]
  BY Zenon DEF vals
<1>2. vals'[t] = [vals[t] EXCEPT ![k] = v]
  BY Zenon DEF vals
<1>3. DOMAIN vals = Threads /\ vals' = [u \in Threads |-> vals'[u]] /\ vals = [u \in Threads |-> vals[u]]
  BY Zenon DEF vals
<1> QED BY Zenon, <1>1, <1>2, <1>3

LEMMA CallsSame ==
  ASSUME \A u \in Threads : CallOf(u)' = CallOf(u)
  PROVE  calls' = calls
  BY Zenon DEF calls

LEMMA CallsSet ==
  ASSUME NEW t \in Threads, NEW c, CallOf(t)' = c, \A u \in Threads \ {t} : CallOf(u)' = CallOf(u)
  PROVE  calls' = [calls EXCEPT ![t] = c]
  BY Zenon DEF calls

(* A step that keeps the wrappers of values, and those of calls.           *)
LEMMA ValsKept ==
  ASSUME slot' = slot,
         \A u \in Threads, k \in Keys : slot[u][k] # Null => cell'[slot[u][k]] = cell[slot[u][k]]
  PROVE  vals' = vals
<1>1. \A u \in Threads, k \in Keys : getspecific(u, k)' = getspecific(u, k)
  BY Zenon DEF getspecific
<1> QED BY Zenon, <1>1, ValsSame

LEMMA CallsKept ==
  ASSUME dying' = dying,
         \A u \in Threads : dying[u] # Null => cell'[dying[u]] = cell[dying[u]]
  PROVE  calls' = calls
<1>1. \A u \in Threads : CallOf(u)' = CallOf(u)
  BY Zenon DEF CallOf
<1> QED BY Zenon, <1>1, CallsSame

(* A thread in guest code is one there, and the routine of a call is one.  *)
LEMMA TsdGuest ==
  ASSUME DisciplinedInv, NEW t \in Threads, Guest(t)
  PROVE  Tsd!InGuest(t)
<1>1. CASE pc[t] = "running"
  BY Zenon, <1>1 DEF Tsd!InGuest, phases, Phase
<1>2. CASE pc[t] = "destroying"
  <2>1. dying[t] # Null /\ dying[t] \in Wrappers
    BY Zenon, <1>2 DEF DisciplinedInv, LabelsMatch, TypeOK, HeapType
  <2>2. cell[dying[t]] # Null
    BY <2>1, NullAssumption DEF DisciplinedInv, TypeOK, HeapType
  <2> QED BY Zenon, <2>1, <2>2 DEF Tsd!InGuest, calls, CallOf
<1> QED BY Zenon, <1>1, <1>2 DEF Guest

(* Steps by which a thread begins, ends, or gets on with ending.           *)
LEMMA TsdThreads ==
  ASSUME DisciplinedInv, NEW t \in Threads, ~Crashes,
         \/ execution_context_init(t) \/ release_processor_id(t)
         \/ deallocate_tsd(t) \/ thread_routine_return(t)
  PROVE  [Tsd!Next]_(Tsd!tsd)
<1> USE DEF Crashes, Faults
<1>1. UNCHANGED <<registered, slot, cell, dying>>
  BY Zenon DEF execution_context_init, release_processor_id, deallocate_tsd, thread_routine_return,
     heap, keys, exit
<1>2. vals' = vals /\ calls' = calls
  BY Zenon, <1>1, ValsKept, CallsKept
<1>3. pc \in [Threads -> PCs] /\ phases[t] = Phase(t) /\ calls[t] = CallOf(t)
  BY Zenon DEF DisciplinedInv, TypeOK, ContextType, phases, calls
<1>4. pc[t] # "destroying" => calls[t] = Null
  BY Zenon, <1>3 DEF DisciplinedInv, LabelsMatch, CallOf
<1>5. CASE execution_context_init(t)
  <2>1. pc[t] = "created" /\ pc' = [pc EXCEPT ![t] = "running"]
    BY Zenon, <1>5 DEF execution_context_init, Goto
  <2>2. phases' = [phases EXCEPT ![t] = "guest"]
    BY Zenon, <1>3, <2>1, PhasesSet DEF Phase
  <2>3. slot[t] = NoSlots
    BY Zenon, <2>1 DEF DisciplinedInv, LabelsMatch, GuestHasContext
  <2>4. vals[t] = Tsd!NoValues
    BY Zenon, <2>3 DEF vals, getspecific, NoSlots, Tsd!NoValues
  <2>5. phases[t] = "idle"
    BY Zenon, <1>3, <2>1 DEF Phase
  <2>6. Tsd!Begin(t)
    BY Zenon, <1>1, <1>2, <2>2, <2>4, <2>5 DEF Tsd!Begin
  <2> QED BY Zenon, <2>6 DEF Tsd!Next
<1>6. CASE release_processor_id(t)
  <2>1. pc[t] = "freeing" /\ \E l \in {"leaving", "exiting"} : pc' = [pc EXCEPT ![t] = l]
    BY Zenon, <1>6 DEF release_processor_id, Goto
  <2>2. phases' = phases
    BY Zenon, <1>3, <2>1, PhasesSame DEF Phase
  <2> QED BY Zenon, <1>1, <1>2, <2>2 DEF Tsd!tsd
<1>7. CASE deallocate_tsd(t)
  <2>1. pc[t] = "exiting" /\ (pc' = [pc EXCEPT ![t] = "dead"] \/ pc' = pc)
    BY Zenon, <1>7 DEF deallocate_tsd, Goto
  <2>2. CASE pc' = pc
    <3>1. phases' = phases
      BY Zenon, <2>2, PhasesSame DEF Phase
    <3> QED BY Zenon, <1>1, <1>2, <3>1 DEF Tsd!tsd
  <2>3. CASE pc' = [pc EXCEPT ![t] = "dead"]
    <3>1. phases' = [phases EXCEPT ![t] = "idle"]
      BY Zenon, <1>3, <2>3, PhasesSet DEF Phase
    <3>2. phases[t] = "ending" /\ calls[t] = Null
      BY Zenon, <1>3, <1>4, <2>1 DEF Phase
    <3>3. Tsd!Gone(t)
      BY Zenon, <1>1, <1>2, <3>1, <3>2 DEF Tsd!Gone
    <3> QED BY Zenon, <3>3 DEF Tsd!Next
  <2> QED BY Zenon, <2>1, <2>2, <2>3
<1>8. CASE thread_routine_return(t)
  <2>1. pc[t] = "running" /\ \E l \in {"leaving", "freeing"} : pc' = [pc EXCEPT ![t] = l]
    BY Zenon, <1>8 DEF thread_routine_return, drop_ref, Goto
  <2>2. phases' = [phases EXCEPT ![t] = "ending"]
    BY Zenon, <1>3, <2>1, PhasesSet DEF Phase
  <2>3. phases[t] = "guest"
    BY Zenon, <1>3, <2>1 DEF Phase
  <2>4. Tsd!End(t)
    BY Zenon, <1>1, <1>2, <2>2, <2>3 DEF Tsd!End
  <2> QED BY Zenon, <2>4 DEF Tsd!Next
<1> QED BY Zenon, <1>5, <1>6, <1>7, <1>8

(* Steps that only allocate or free a start wrapper.                       *)
LEMMA TsdHeap ==
  ASSUME DisciplinedInv, NEW t \in Threads, ~Crashes,
         thread_routine_exit(t) \/ \E c \in Threads : pthread_create_impl(t, c)
  PROVE  UNCHANGED Tsd!tsd
<1> USE DEF Crashes, Faults
<1>0. /\ pc \in [Threads -> PCs] /\ HeapType /\ KeyType /\ LabelsMatch /\ WrappersOwnedOnce
  BY Zenon DEF DisciplinedInv, TypeOK, ContextType
<1>1. CASE thread_routine_exit(t)
  <2>1. /\ delete({start[t]}) /\ pc[t] = "leaving" /\ pc' = [pc EXCEPT ![t] = "exiting"]
        /\ UNCHANGED <<registered, slot, dying>>
    BY Zenon, <1>1 DEF thread_routine_exit, Goto, keys, exit
  <2>2. \A w \in live : w # start[t] => cell'[w] = cell[w]
    BY Zenon, <1>0, <2>1 DEF delete, HeapType
  <2>3. vals' = vals
    BY <1>0, <2>1, <2>2, SlotApart, ValsKept
  <2>4. calls' = calls
    BY Zenon, <1>0, <2>1, <2>2, CallApart, CallsKept
  <2>5. phases' = phases
    BY Zenon, <1>0, <2>1, PhasesSame DEF Phase
  <2> QED BY Zenon, <2>1, <2>3, <2>4, <2>5 DEF Tsd!tsd
<1>2. ASSUME NEW c \in Threads, pthread_create_impl(t, c)
      PROVE  UNCHANGED Tsd!tsd
  <2>1. slot' = slot /\ dying' = dying /\ registered' = registered
    BY Zenon, <1>0, <1>2, CreateKeepsSlots
  <2>2. PICK w \in Wrappers : w \notin live /\ cell' = [cell EXCEPT ![w] = NoCell]
    BY ZenonT(30), <1>2 DEF pthread_create_impl, new, NoCell
  <2>3. \A x \in live : cell'[x] = cell[x]
    BY Zenon, <1>0, <2>2 DEF HeapType
  <2>4. vals' = vals
    BY Zenon, <1>0, <2>1, <2>3, SlotApart, ValsKept
  <2>5. calls' = calls
    BY Zenon, <1>0, <2>1, <2>3, CallApart, CallsKept
  <2>6. pc[c] \in {"absent", "dead"} /\ (pc' = [pc EXCEPT ![c] = "created"] \/ pc' = pc)
    BY Zenon, <1>2 DEF pthread_create_impl, Goto
  <2>7. phases' = phases
    BY Zenon, <1>0, <2>6, PhasesSame DEF Phase
  <2> QED BY Zenon, <2>1, <2>4, <2>5, <2>7 DEF Tsd!tsd
<1> QED BY Zenon, <1>1, <1>2

(* A key destructor is called with its key's routine and value.            *)
LEMMA TsdCalls ==
  ASSUME DisciplinedInv, NEW t \in Threads, ~Crashes, key_destructor_enter(t)
  PROVE  Tsd!Next
<1> USE DEF Crashes, Faults
<1>0. /\ pc \in [Threads -> PCs] /\ HeapType /\ KeyType /\ LabelsMatch /\ CellsMatch
  BY Zenon DEF DisciplinedInv, TypeOK, ContextType
<1>1. PICK k \in Keys : /\ slot[t][k] # Null /\ slot' = [slot EXCEPT ![t][k] = Null]
                        /\ dying' = [dying EXCEPT ![t] = slot[t][k]]
                        /\ pc[t] = "exiting" /\ pc' = [pc EXCEPT ![t] = "destroying"]
                        /\ UNCHANGED <<registered, cell>>
  BY Zenon, <1>0 DEF key_destructor_enter, next_key, Goto, heap, keys
<1> DEFINE w == slot[t][k]
<1>2. w \in Wrappers /\ w # Null
  BY <1>0, <1>1 DEF KeyType
<1>3. cell[w] = [routine |-> registered[k], value |-> getspecific(t, k)] /\ getspecific(t, k) # Null
  BY Zenon, <1>0, <1>1, <1>2 DEF CellsMatch, HeapType, getspecific
<1>4. phases' = phases /\ phases[t] = "ending"
  <2>1. \A u \in Threads : Phase(u)' = Phase(u)
    BY Zenon, <1>0, <1>1 DEF Phase
  <2> QED BY Zenon, <1>1, <2>1, PhasesSame DEF phases, Phase
<1>5. calls[t] = Null
  BY Zenon, <1>0, <1>1 DEF LabelsMatch, calls, CallOf
<1>6. calls' = [calls EXCEPT ![t] = cell[w]]
  <2>1. CallOf(t)' = cell[w]
    BY Zenon, <1>0, <1>1, <1>2 DEF CallOf, HeapType
  <2>2. \A u \in Threads \ {t} : CallOf(u)' = CallOf(u)
    BY Zenon, <1>0, <1>1 DEF CallOf, HeapType
  <2> QED BY Zenon, <2>1, <2>2, CallsSet
<1>7. vals' = [vals EXCEPT ![t][k] = Null]
  <2>1. slot'[t][k] = Null /\ \A u \in Threads, j \in Keys : u # t \/ j # k => slot'[u][j] = slot[u][j]
    BY Zenon, <1>0, <1>1 DEF KeyType
  <2>2. getspecific(t, k)' = Null
    BY Zenon, <2>1 DEF getspecific
  <2>3. \A u \in Threads, j \in Keys : u # t \/ j # k => getspecific(u, j)' = getspecific(u, j)
    BY <1>1, <2>1 DEF getspecific
  <2> QED BY <2>2, <2>3, ValsSet
<1>8. vals[t][k] = getspecific(t, k)
  BY Zenon DEF vals
<1>9. Tsd!Call(t, k)
  BY Zenon, <1>1, <1>3, <1>4, <1>5, <1>6, <1>7, <1>8 DEF Tsd!Call
<1> QED BY Zenon, <1>9 DEF Tsd!Next

LEMMA TsdReturns ==
  ASSUME DisciplinedInv, NEW t \in Threads, ~Crashes, key_destructor_leave(t)
  PROVE  Tsd!Next
<1> USE DEF Crashes, Faults
<1>0. /\ pc \in [Threads -> PCs] /\ HeapType /\ KeyType /\ LabelsMatch /\ WrappersOwnedOnce
  BY Zenon DEF DisciplinedInv, TypeOK, ContextType
<1>1. /\ dying[t] # Null /\ dying' = [dying EXCEPT ![t] = Null] /\ delete({dying[t]})
      /\ UNCHANGED <<registered, slot>>
      /\ pc[t] = "destroying" /\ \E l \in {"exiting", "freeing"} : pc' = [pc EXCEPT ![t] = l]
  BY Zenon, <1>0 DEF key_destructor_leave, drop_ref, Goto, keys, LabelsMatch
<1>2. \A w \in live : w # dying[t] => cell'[w] = cell[w]
  BY Zenon, <1>0, <1>1 DEF delete, HeapType
<1>3. vals' = vals
  BY <1>0, <1>1, <1>2, SlotApart, ValsKept
<1>4. phases' = phases
  <2>1. \A u \in Threads : Phase(u)' = Phase(u)
    BY Zenon, <1>0, <1>1 DEF Phase
  <2> QED BY Zenon, <2>1, PhasesSame
<1>5. calls' = [calls EXCEPT ![t] = Null]
  <2>1. CallOf(t)' = Null
    BY Zenon, <1>0, <1>1 DEF CallOf, HeapType
  <2>2. \A u \in Threads \ {t} : CallOf(u)' = CallOf(u)
    <3> SUFFICES ASSUME NEW u \in Threads \ {t} PROVE CallOf(u)' = CallOf(u)
      OBVIOUS
    <3>1. dying'[u] = dying[u]
      BY Zenon, <1>0, <1>1 DEF HeapType
    <3>2. dying[u] # Null => dying[u] \in live /\ dying[u] # dying[t]
      BY Zenon, <1>0, CallApart
    <3> QED BY Zenon, <1>2, <3>1, <3>2 DEF CallOf
  <2> QED BY Zenon, <2>1, <2>2, CallsSet
<1>6. calls[t] # Null
  <2>1. dying[t] \in Wrappers
    BY Zenon, <1>0, <1>1 DEF HeapType
  <2>2. cell[dying[t]] # Null
    BY <1>0, <2>1, NullAssumption DEF HeapType
  <2> QED BY Zenon, <1>1, <2>2 DEF calls, CallOf
<1>7. Tsd!Return(t)
  BY Zenon, <1>1, <1>3, <1>4, <1>5, <1>6 DEF Tsd!Return
<1> QED BY Zenon, <1>7 DEF Tsd!Next

(* A key that is created has its destructor, or keeps the one it had.      *)
LEMMA TsdCreates ==
  ASSUME DisciplinedInv, NEW t \in Threads, NEW d \in Dtors, pthread_key_create_impl(t, d)
  PROVE  [Tsd!Next]_(Tsd!tsd)
<1>1. PICK k \in Keys :
        registered' = [registered EXCEPT ![k] = IF registered[k] = Absent THEN d ELSE registered[k]]
  BY ZenonT(30) DEF pthread_key_create_impl
<1>2. Guest(t) /\ UNCHANGED <<pc, slot, cell, dying>>
  BY Zenon DEF pthread_key_create_impl, heap, exit
<1>3. vals' = vals /\ calls' = calls /\ phases' = phases
  BY Zenon, <1>2, ValsKept, CallsKept, PhasesSame DEF Phase
<1>4. CASE registered[k] = Absent
  <2>1. Tsd!Create(t, k, d)
    BY Zenon, <1>1, <1>2, <1>3, <1>4, TsdGuest DEF Tsd!Create
  <2> QED BY Zenon, <2>1 DEF Tsd!Next
<1>5. CASE registered[k] # Absent
  <2>1. registered' = registered
    BY Zenon, <1>1, <1>5 DEF DisciplinedInv, TypeOK, KeyType
  <2> QED BY Zenon, <1>3, <2>1 DEF Tsd!tsd
<1> QED BY Zenon, <1>4, <1>5

(* A value that a thread sets is its own.                                  *)
LEMMA TsdSets ==
  ASSUME DisciplinedInv, NEW t \in Threads, Guest(t), NEW k \in Keys, NEW v \in Values \cup {Null},
         registered[k] # Absent, UNCHANGED <<pc, registered, dying>>,
         getspecific(t, k)' = v,
         \A u \in Threads, j \in Keys : u # t \/ j # k => getspecific(u, j)' = getspecific(u, j),
         \A u \in Threads : dying[u] # Null => cell'[dying[u]] = cell[dying[u]]
  PROVE  Tsd!Next
<1>1. vals' = [vals EXCEPT ![t][k] = v]
  BY ValsSet
<1>2. calls' = calls /\ phases' = phases
  BY Zenon, CallsKept, PhasesSame DEF Phase
<1>3. Tsd!Set(t, k, v)
  BY Zenon, <1>1, <1>2, TsdGuest DEF Tsd!Set
<1> QED BY Zenon, <1>3 DEF Tsd!Next

LEMMA TsdSetsNull ==
  ASSUME DisciplinedInv, NEW t \in Threads, ~Crashes, Guest(t), NEW k \in hostkeys, setspecific_null(t, k)
  PROVE  Tsd!Next
<1> USE DEF Crashes, Faults
<1>0. HeapType /\ KeyType /\ CellsMatch /\ WrappersOwnedOnce
  BY Zenon DEF DisciplinedInv, TypeOK
<1>1. /\ k \in Keys /\ slot[t][k] # Null /\ slot' = [slot EXCEPT ![t][k] = Null]
      /\ delete({slot[t][k]}) /\ UNCHANGED <<pc, registered, dying>>
  BY Zenon, <1>0 DEF setspecific_null, KeyType, keys, exit
<1>2. \A w \in live : w # slot[t][k] => cell'[w] = cell[w]
  BY Zenon, <1>0, <1>1 DEF delete, HeapType
<1>3. slot'[t][k] = Null /\ \A u \in Threads, j \in Keys : u # t \/ j # k => slot'[u][j] = slot[u][j]
  BY Zenon, <1>0, <1>1 DEF KeyType
<1>4. getspecific(t, k)' = Null
  BY Zenon, <1>3 DEF getspecific
<1>5. ASSUME NEW u \in Threads, NEW j \in Keys, u # t \/ j # k
      PROVE  getspecific(u, j)' = getspecific(u, j)
  <2>1. slot[u][j] # Null => slot[u][j] \in live /\ slot[u][j] # slot[t][k]
    BY Zenon, <1>0, <1>1, <1>5, SlotApart
  <2> QED BY Zenon, <1>2, <1>3, <1>5, <2>1 DEF getspecific
<1>6. \A u \in Threads : dying[u] # Null => cell'[dying[u]] = cell[dying[u]]
  BY Zenon, <1>0, <1>1, <1>2, CallApart
<1>7. registered[k] # Absent
  BY Zenon, <1>0, <1>1 DEF CellsMatch
<1> QED BY Zenon, <1>1, <1>4, <1>5, <1>6, <1>7, TsdSets

LEMMA TsdSetsNew ==
  ASSUME DisciplinedInv, NEW t \in Threads, Guest(t), NEW k \in hostkeys, NEW v \in Values,
         setspecific_new(t, k, v)
  PROVE  Tsd!Next
<1>0. HeapType /\ KeyType /\ WrappersOwnedOnce
  BY Zenon DEF DisciplinedInv, TypeOK
<1>1. PICK w \in Wrappers :
        /\ w \notin live /\ cell' = [cell EXCEPT ![w] = [routine |-> registered[k], value |-> v]]
        /\ slot' = [slot EXCEPT ![t][k] = w]
  BY ZenonT(30) DEF setspecific_new, new
<1>2. k \in Keys /\ registered[k] # Absent /\ UNCHANGED <<pc, registered, dying>>
  BY Zenon, <1>0 DEF setspecific_new, KeyType, keys, exit
<1>3. slot'[t][k] = w /\ \A u \in Threads, j \in Keys : u # t \/ j # k => slot'[u][j] = slot[u][j]
  BY Zenon, <1>0, <1>1, <1>2 DEF KeyType
<1>4. cell'[w].value = v /\ \A x \in live : cell'[x] = cell[x]
  BY Zenon, <1>0, <1>1 DEF HeapType
<1>5. getspecific(t, k)' = v
  BY Zenon, <1>3, <1>4, NullAssumption DEF getspecific
<1>6. ASSUME NEW u \in Threads, NEW j \in Keys, u # t \/ j # k
      PROVE  getspecific(u, j)' = getspecific(u, j)
  <2>1. slot[u][j] # Null => slot[u][j] \in live
    BY Zenon, <1>0, SlotApart
  <2> QED BY Zenon, <1>3, <1>4, <1>6, <2>1 DEF getspecific
<1>7. \A u \in Threads : dying[u] # Null => cell'[dying[u]] = cell[dying[u]]
  BY Zenon, <1>0, <1>4, CallApart
<1> QED BY Zenon, <1>2, <1>5, <1>6, <1>7, TsdSets

LEMMA TsdSetsAgain ==
  ASSUME DisciplinedInv, NEW t \in Threads, ~Crashes, Guest(t), NEW k \in hostkeys, NEW v \in Values,
         setspecific_update(t, k, v)
  PROVE  Tsd!Next
<1> USE DEF Crashes, Faults
<1>0. HeapType /\ KeyType /\ CellsMatch /\ WrappersOwnedOnce
  BY Zenon DEF DisciplinedInv, TypeOK
<1>1. /\ k \in Keys /\ slot[t][k] # Null /\ cell' = [cell EXCEPT ![slot[t][k]].value = v]
      /\ UNCHANGED <<pc, registered, dying, slot>>
  BY Zenon, <1>0 DEF setspecific_update, KeyType, keys, exit
<1>2. slot[t][k] \in Wrappers
  BY <1>0, <1>1 DEF KeyType
<1>3. cell'[slot[t][k]].value = v /\ \A x \in Wrappers : x # slot[t][k] => cell'[x] = cell[x]
  BY Zenon, <1>0, <1>1, <1>2 DEF HeapType
<1>4. getspecific(t, k)' = v
  BY Zenon, <1>1, <1>3 DEF getspecific
<1>5. ASSUME NEW u \in Threads, NEW j \in Keys, u # t \/ j # k
      PROVE  getspecific(u, j)' = getspecific(u, j)
  <2>1. slot[u][j] # Null => slot[u][j] # slot[t][k]
    BY Zenon, <1>0, <1>1, <1>5, SlotApart
  <2>2. slot[u][j] # Null => slot[u][j] \in Wrappers
    BY <1>0 DEF KeyType
  <2> QED BY <1>1, <1>3, <2>1, <2>2 DEF getspecific
<1>6. ASSUME NEW u \in Threads, dying[u] # Null PROVE cell'[dying[u]] = cell[dying[u]]
  <2>1. dying[u] \in Wrappers /\ dying[u] # slot[t][k]
    BY Zenon, <1>0, <1>1, <1>6, CallApart DEF HeapType
  <2> QED BY Zenon, <1>3, <2>1
<1>7. registered[k] # Absent
  BY Zenon, <1>0, <1>1 DEF CellsMatch
<1> QED BY Zenon, <1>1, <1>4, <1>5, <1>6, <1>7, TsdSets

(* Every step is one of ThreadSpecificData, or leaves its variables alone. *)
LEMMA TsdSimulates ==
  ASSUME DisciplinedInv, [DisciplinedNext]_vars
  PROVE  [Tsd!Next]_(Tsd!tsd)
<1>1. CASE UNCHANGED vars \/ Crashes
  <2>1. UNCHANGED <<pc, registered, slot, cell, dying>>
    BY Zenon, <1>1, CrashUnchanged
  <2>2. vals' = vals /\ calls' = calls /\ phases' = phases
    BY Zenon, <2>1, ValsKept, CallsKept, PhasesSame DEF Phase
  <2> QED BY Zenon, <2>1, <2>2 DEF Tsd!tsd
<1>2. ASSUME NEW t \in Threads, DStep(t), ~Crashes PROVE [Tsd!Next]_(Tsd!tsd)
  <2>1. CASE \/ execution_context_init(t) \/ release_processor_id(t)
             \/ deallocate_tsd(t) \/ thread_routine_return(t)
    BY Zenon, <1>2, <2>1, TsdThreads
  <2>2. CASE thread_routine_exit(t) \/ \E c \in Threads : pthread_create_impl(t, c)
    BY Zenon, <1>2, <2>2, TsdHeap
  <2>3. CASE key_destructor_enter(t) \/ key_destructor_leave(t)
    BY Zenon, <1>2, <2>3, TsdCalls, TsdReturns
  <2>4. CASE \E d \in Dtors : pthread_key_create_impl(t, d)
    BY Zenon, <2>4, TsdCreates
  <2>5. CASE \E k \in hostkeys : Guest(t) /\ setspecific_null(t, k)
    BY Zenon, <1>2, <2>5, TsdSetsNull
  <2>6. CASE \E k \in hostkeys, v \in Values : Guest(t) /\ setspecific_new(t, k, v)
    BY Zenon, <2>6, TsdSetsNew
  <2>7. CASE \E k \in hostkeys, v \in Values : Guest(t) /\ setspecific_update(t, k, v)
    BY Zenon, <1>2, <2>7, TsdSetsAgain
  <2> QED BY Zenon, <1>2, <2>1, <2>2, <2>3, <2>4, <2>5, <2>6, <2>7 DEF DStep
<1>3. ASSUME NEW t \in Threads, map_race(t) PROVE Crashes
  BY Zenon, <1>3 DEF map_race, Crashes, Faults
<1> QED BY Zenon, <1>1, <1>2, <1>3, DisciplinedCases

LEMMA TsdStart == Init => Tsd!Init
<1> SUFFICES ASSUME Init PROVE Tsd!Init
  OBVIOUS
<1>1. phases = [t \in Threads |-> "idle"]
  BY Zenon DEF Init, phases, Phase
<1>2. calls = [t \in Threads |-> Null]
  BY Zenon DEF Init, calls, CallOf
<1>3. vals = [t \in Threads |-> [k \in Keys |-> Null]]
  BY Zenon DEF Init, vals, getspecific, NoSlots
<1> QED BY Zenon, <1>1, <1>2, <1>3 DEF Init, Tsd!Init, Tsd!NoValues

------------------------------------------------------------------------------
(* The type invariant is inductive by itself.                              *)

(* What the proofs need of Cardinality on the sets ExecContext counts; it  *)
(* is lemma Counted of ExecContextRefProofs.                               *)
Counting ==
  /\ \A D \in SUBSET Wrappers : Cardinality(D) \in Nat
  /\ \A S \in SUBSET Keys :
       /\ Cardinality(S) \in Nat
       /\ Cardinality(S) = 0 <=> S = {}
       /\ \A k \in S : Cardinality(S \ {k}) = Cardinality(S) - 1
       /\ \A k \in Keys \ S : Cardinality(S \cup {k}) = Cardinality(S) + 1

LEMMA TypeInit == Init => TypeOK
  BY NumberAssumption
  DEF Init, TypeOK, ContextType, HeapType, KeyType, ExitType, Ids, Keys, NoSlots, NoCell, PCs, Faults

LEMMA RefType ==
  ASSUME TypeOK, NEW t \in Threads
  PROVE  add_ref(t) \in 0 .. RefMod - 1 /\ sub_ref(t) \in 0 .. RefMod - 1
  BY NumberAssumption DEF TypeOK, ContextType, add_ref, sub_ref

LEMMA ContextTypeStep ==
  ASSUME Counting, TypeOK, NEW t \in Threads, Step(t), ~Crashes
  PROVE  ContextType'
<1> USE DEF ContextType, Crashes, Faults
<1>0. ContextType BY Zenon DEF TypeOK
<1>a. add_ref(t) \in 0 .. RefMod - 1 /\ sub_ref(t) \in 0 .. RefMod - 1
  BY Zenon, RefType
<1>1. CASE execution_context_init(t)
  <2>1. PICK id \in Ids : /\ processor_id' = [processor_id EXCEPT ![t] = id]
                         /\ used_processors' = used_processors \cup {id}
    BY Zenon, <1>1 DEF execution_context_init, allocate_processor_id
  <2>2. pc' = [pc EXCEPT ![t] = "running"] /\ initialized' = [initialized EXCEPT ![t] = TRUE]
        /\ ref_count' = ref_count
    BY Zenon, <1>1 DEF execution_context_init, Goto
  <2> QED BY Zenon, <1>0, <2>1, <2>2 DEF PCs
<1>2. CASE release_processor_id(t)
  BY Zenon, <1>0, <1>2 DEF release_processor_id, Goto, PCs, context
<1>3. CASE thread_routine_exit(t)
  BY Zenon, <1>0, <1>3 DEF thread_routine_exit, Goto, PCs, context
<1>4. CASE deallocate_tsd(t)
  BY Zenon, <1>0, <1>4 DEF deallocate_tsd, Goto, PCs, context
<1>5. CASE key_destructor_enter(t)
  BY Zenon, <1>0, <1>5 DEF key_destructor_enter, Goto, PCs, context
<1>6. CASE key_destructor_leave(t)
  BY ZenonT(30), <1>0, <1>a, <1>6 DEF key_destructor_leave, drop_ref, Goto, PCs
<1>7. CASE thread_routine_return(t)
  BY Zenon, <1>0, <1>a, <1>7 DEF thread_routine_return, drop_ref, Goto, PCs
<1>8. CASE \E u \in Threads : pthread_create_impl(t, u)
  BY <1>0, <1>8, NumberAssumption DEF pthread_create_impl, Goto, PCs, Ids
<1>9. CASE \E d \in Dtors \cup {Null} : pthread_key_create_impl(t, d)
  BY Zenon, <1>0, <1>9 DEF pthread_key_create_impl, context
<1>10. CASE \E k \in hostkeys : setspecific_null(t, k)
  BY <1>0, <1>a, <1>10 DEF setspecific_null
<1>11. CASE \E k \in hostkeys, v \in Values : setspecific_new(t, k, v)
  BY <1>0, <1>a, <1>11 DEF setspecific_new
<1>12. CASE \E k \in hostkeys, v \in Values : setspecific_update(t, k, v)
  BY Zenon, <1>0, <1>12 DEF setspecific_update, context
<1>13. CASE pthread_key_delete_impl(t)
  <2> DEFINE D(k) == {w \in Wrappers : wrappers[k][w] > 0}
  <2>1. PICK k \in hostkeys :
          /\ ref_count' = [ref_count EXCEPT ![t] = (@ - Cardinality(D(k))) % RefMod]
          /\ UNCHANGED <<pc, initialized, processor_id, used_processors>>
    BY Zenon, <1>13 DEF pthread_key_delete_impl
  <2>2. Cardinality(D(k)) \in Nat
    BY Zenon DEF Counting
  <2> HIDE DEF D
  <2> QED BY <1>0, <2>1, <2>2, NumberAssumption
<1> QED
  BY Zenon, <1>1, <1>2, <1>3, <1>4, <1>5, <1>6, <1>7, <1>8, <1>9, <1>10, <1>11, <1>12, <1>13 DEF Step

LEMMA HeapTypeStep ==
  ASSUME TypeOK, NEW t \in Threads, Step(t), ~Crashes
  PROVE  HeapType'
<1> USE DEF HeapType, Crashes, Faults
<1>0. HeapType BY Zenon DEF TypeOK
<1>a. ASSUME NEW D, delete(D), UNCHANGED <<start, dying>>
      PROVE  HeapType'
  BY Zenon, <1>0, <1>a DEF delete, NoCell
<1>1. CASE execution_context_init(t)
  BY Zenon, <1>0, <1>1 DEF execution_context_init, heap, exit
<1>2. CASE release_processor_id(t)
  BY Zenon, <1>0, <1>2 DEF release_processor_id, heap, exit
<1>3. CASE thread_routine_exit(t)
  BY <1>0, <1>3 DEF thread_routine_exit, delete, NoCell, exit
<1>4. CASE deallocate_tsd(t)
  BY Zenon, <1>0, <1>4 DEF deallocate_tsd, heap
<1>5. CASE key_destructor_enter(t)
  BY Zenon, <1>0, <1>5 DEF key_destructor_enter, heap
<1>6. CASE key_destructor_leave(t)
  BY <1>0, <1>6 DEF key_destructor_leave, delete, NoCell
<1>7. CASE thread_routine_return(t)
  BY Zenon, <1>0, <1>7 DEF thread_routine_return, heap, exit
<1>8. CASE \E u \in Threads : pthread_create_impl(t, u)
  <2>1. PICK u \in Threads, w \in Wrappers :
          /\ dying' = dying /\ new(w, Null, Null)
          /\ start' = [start EXCEPT ![u] = w] \/ start' = start
    BY Zenon, <1>8 DEF pthread_create_impl
  <2> QED BY Zenon, <1>0, <2>1 DEF new
<1>9. CASE \E d \in Dtors \cup {Null} : pthread_key_create_impl(t, d)
  BY Zenon, <1>0, <1>9 DEF pthread_key_create_impl, heap, exit
<1>10. CASE \E k \in hostkeys : setspecific_null(t, k)
  BY Zenon, <1>a, <1>10 DEF setspecific_null, exit
<1>11. ASSUME NEW k \in hostkeys, NEW v \in Values, setspecific_new(t, k, v)
       PROVE  HeapType'
  <2>1. registered[k] \in Dtors \cup {Null}
    BY Zenon, <1>11 DEF setspecific_new, TypeOK, KeyType
  <2> QED BY <1>0, <1>11, <2>1 DEF setspecific_new, new, exit
<1>12. CASE \E k \in hostkeys, v \in Values : setspecific_update(t, k, v)
  BY <1>0, <1>12 DEF setspecific_update, exit
<1>13. CASE pthread_key_delete_impl(t)
  BY Zenon, <1>a, <1>13 DEF pthread_key_delete_impl, exit
<1> QED
  BY Zenon, <1>1, <1>2, <1>3, <1>4, <1>5, <1>6, <1>7, <1>8, <1>9, <1>10, <1>11, <1>12, <1>13 DEF Step

LEMMA KeyTypeStep ==
  ASSUME TypeOK, NEW t \in Threads, Step(t), ~Crashes
  PROVE  KeyType'
<1> USE DEF KeyType, Crashes, Faults
<1>0. KeyType BY Zenon DEF TypeOK
<1>1. CASE \/ execution_context_init(t) \/ release_processor_id(t) \/ thread_routine_exit(t)
           \/ deallocate_tsd(t) \/ key_destructor_leave(t) \/ thread_routine_return(t)
  BY Zenon, <1>0, <1>1 DEF execution_context_init, release_processor_id, thread_routine_exit,
     deallocate_tsd, key_destructor_leave, thread_routine_return, keys
<1>5. CASE key_destructor_enter(t)
  <2>1. PICK k \in Keys : slot' = [slot EXCEPT ![t][k] = Null]
    BY Zenon, <1>5 DEF key_destructor_enter
  <2>2. slot' \in [Threads -> [Keys -> Wrappers \cup {Null}]]
    BY Zenon, <1>0, <2>1
  <2> QED BY Zenon, <1>0, <1>5, <2>2 DEF key_destructor_enter, keys
<1>8. CASE \E u \in Threads : pthread_create_impl(t, u)
  <2>1. PICK u \in Threads : slot' = slot \/ slot' = [slot EXCEPT ![u] = NoSlots]
    BY Zenon, <1>8 DEF pthread_create_impl
  <2>2. slot' \in [Threads -> [Keys -> Wrappers \cup {Null}]]
    BY Zenon, <1>0, <2>1 DEF NoSlots
  <2>3. UNCHANGED <<keys, wrappers>>
    BY Zenon, <1>8 DEF pthread_create_impl
  <2> QED BY Zenon, <1>0, <2>2, <2>3 DEF keys
<1>9. CASE \E d \in Dtors \cup {Null} : pthread_key_create_impl(t, d)
  BY <1>0, <1>9 DEF pthread_key_create_impl
<1>10. ASSUME NEW k \in hostkeys, setspecific_null(t, k)
       PROVE  KeyType'
  <2>1. slot[t][k] \in Wrappers
    BY <1>0, <1>10 DEF setspecific_null
  <2>2. slot' = [slot EXCEPT ![t][k] = Null] /\ wrappers' = [wrappers EXCEPT ![k][slot[t][k]] = 0]
    BY Zenon, <1>10 DEF setspecific_null
  <2>3. wrappers' \in [Keys -> [Wrappers -> Nat]]
    BY Zenon, <1>0, <2>1, <2>2
  <2>4. slot' \in [Threads -> [Keys -> Wrappers \cup {Null}]]
    BY Zenon, <1>0, <2>2
  <2> QED BY Zenon, <1>0, <1>10, <2>3, <2>4 DEF setspecific_null, keys
<1>11. ASSUME NEW k \in hostkeys, NEW v \in Values, setspecific_new(t, k, v)
       PROVE  KeyType'
  <2>1. PICK w \in Wrappers : /\ slot' = [slot EXCEPT ![t][k] = w]
                              /\ \/ wrappers' = [wrappers EXCEPT ![k][w] = @ + 1]
                                 \/ UNCHANGED wrappers
    BY Zenon, <1>11 DEF setspecific_new
  <2>2. wrappers[k] \in [Wrappers -> Nat]
    BY Zenon, <1>0
  <2>3. wrappers[k][w] + 1 \in Nat
    BY <2>2
  <2> QED BY <1>0, <1>11, <2>1, <2>3 DEF setspecific_new, keys
<1>12. CASE \E k \in hostkeys, v \in Values : setspecific_update(t, k, v)
  BY Zenon, <1>0, <1>12 DEF setspecific_update, keys
<1>13. CASE pthread_key_delete_impl(t)
  <2>1. PICK k \in hostkeys :
          /\ hostkeys' = hostkeys \ {k} /\ registered' = registered /\ wrappers' = wrappers
          /\ slot' = [u \in Threads |-> [slot[u] EXCEPT ![k] = Null]]
    BY Zenon, <1>13 DEF pthread_key_delete_impl
  <2> QED BY Zenon, <1>0, <2>1
<1> QED
  BY Zenon, <1>1, <1>5, <1>8, <1>9, <1>10, <1>11, <1>12, <1>13 DEF Step

LEMMA ExitTypeStep ==
  ASSUME TypeOK, NEW t \in Threads, Step(t), ~Crashes
  PROVE  ExitType'
<1> USE DEF ExitType, Crashes, Faults
<1>0. ExitType BY Zenon DEF TypeOK
<1>1. CASE \/ execution_context_init(t) \/ release_processor_id(t) \/ thread_routine_exit(t)
           \/ key_destructor_leave(t) \/ thread_routine_return(t)
           \/ \E d \in Dtors \cup {Null} : pthread_key_create_impl(t, d)
           \/ \E k \in hostkeys : setspecific_null(t, k)
           \/ \E k \in hostkeys, v \in Values : setspecific_new(t, k, v)
           \/ \E k \in hostkeys, v \in Values : setspecific_update(t, k, v)
           \/ pthread_key_delete_impl(t)
  BY ZenonT(30), <1>0, <1>1 DEF execution_context_init, release_processor_id, thread_routine_exit,
     key_destructor_leave, thread_routine_return, pthread_key_create_impl,
     setspecific_null, setspecific_new, setspecific_update, pthread_key_delete_impl, exit
<1>2. CASE deallocate_tsd(t)
  <2>1. /\ UNCHANGED fault
        /\ \/ UNCHANGED <<round, cursor>>
           \/ /\ round[t] < Iterations /\ round' = [round EXCEPT ![t] = round[t] + 1]
              /\ cursor' = [cursor EXCEPT ![t] = 1]
    BY Zenon, <1>2 DEF deallocate_tsd
  <2>2. round[t] \in 1 .. Iterations /\ 1 \in 1 .. KeysMax + 1
    BY <1>0, NumberAssumption
  <2>3. round[t] < Iterations => round[t] + 1 \in 1 .. Iterations
    BY <2>2, NumberAssumption
  <2> QED BY Zenon, <1>0, <2>1, <2>2, <2>3
<1>3. CASE key_destructor_enter(t)
  BY <1>0, <1>3, NumberAssumption DEF key_destructor_enter, Keys
<1>4. CASE \E u \in Threads : pthread_create_impl(t, u)
  <2>1. PICK u \in Threads :
          /\ fault' = fault
          /\ \/ round' = [round EXCEPT ![u] = 1] /\ cursor' = [cursor EXCEPT ![u] = 1]
             \/ round' = round /\ cursor' = cursor
    BY Zenon, <1>4 DEF pthread_create_impl
  <2> QED BY <1>0, <2>1, NumberAssumption
<1> QED
  BY Zenon, <1>1, <1>2, <1>3, <1>4 DEF Step

LEMMA TypeStep == Counting /\ TypeOK /\ [Next]_vars => TypeOK'
<1> SUFFICES ASSUME Counting, TypeOK, [Next]_vars PROVE TypeOK'
  OBVIOUS
<1>1. CASE UNCHANGED vars \/ Crashes
  BY Zenon, <1>1, CrashUnchanged DEF TypeOK, ContextType, HeapType, KeyType, ExitType
<1>2. CASE \E t \in Threads : Step(t) /\ ~Crashes
  BY Zenon, <1>2, ContextTypeStep, HeapTypeStep, KeyTypeStep, ExitTypeStep DEF TypeOK
<1> QED BY Zenon, <1>1, <1>2, NextCases

------------------------------------------------------------------------------
(* The pool. Seen from used_processors a step either leaves the holders    *)
(* and their ids alone, or gives one thread the lowest free id, or takes   *)
(* one holder's id back. The invariant that shows it needs to know which   *)
(* labels imply a context, and nothing about keys or the heap.             *)

PoolInv == TypeOK /\ GuestHasContext /\ IdsExclusive /\ PoolExact

OthersKeep(t) ==
  \A u \in Threads \ {t} : (Holding(u)' <=> Holding(u)) /\ processor_id'[u] = processor_id[u]

Idle ==
  /\ \A u \in Threads : /\ Holding(u)' <=> Holding(u)
                        /\ Holding(u) => processor_id'[u] = processor_id[u]
  /\ UNCHANGED used_processors

Acquires(t) ==
  /\ ~Holding(t) /\ Holding(t)' /\ OthersKeep(t)
  /\ processor_id'[t] \in Ids \ used_processors
  /\ \A j \in Ids \ used_processors : processor_id'[t] <= j
  /\ used_processors' = used_processors \cup {processor_id'[t]}

Releases(t) ==
  /\ Holding(t) /\ ~Holding(t)' /\ OthersKeep(t)
  /\ used_processors' = used_processors \ {processor_id[t]}

LEMMA PoolCases ==
  ASSUME TypeOK, GuestHasContext, NEW t \in Threads, Step(t), ~Crashes
  PROVE  Idle \/ Acquires(t) \/ Releases(t)
<1> USE DEF Crashes, Faults
<1>0. ContextType BY Zenon DEF TypeOK
<1>1. CASE execution_context_init(t)
  <2>1. Acquires(t)
    BY Zenon, <1>0, <1>1 DEF execution_context_init, allocate_processor_id, Goto, ContextType,
       GuestHasContext, Acquires, OthersKeep, Holding
  <2> QED BY Zenon, <2>1
<1>2. CASE release_processor_id(t)
  <2>1. Releases(t)
    BY Zenon, <1>0, <1>2 DEF release_processor_id, Goto, context, ContextType, GuestHasContext,
       Releases, OthersKeep, Holding
  <2> QED BY Zenon, <2>1
<1>3. CASE thread_routine_exit(t)
  BY Zenon, <1>0, <1>3 DEF thread_routine_exit, Goto, context, ContextType, Idle, Holding
<1>4. CASE deallocate_tsd(t)
  BY Zenon, <1>0, <1>4 DEF deallocate_tsd, Goto, context, ContextType, Idle, Holding
<1>5. CASE key_destructor_enter(t)
  BY Zenon, <1>0, <1>5 DEF key_destructor_enter, Goto, context, ContextType, Idle, Holding
<1>6. CASE key_destructor_leave(t)
  BY <1>0, <1>6 DEF key_destructor_leave, drop_ref, Goto, ContextType, GuestHasContext, Guest,
     Idle, Holding
<1>7. CASE thread_routine_return(t)
  BY Zenon, <1>0, <1>7 DEF thread_routine_return, drop_ref, Goto, ContextType, GuestHasContext, Guest,
     Idle, Holding
<1>8. CASE \E u \in Threads : pthread_create_impl(t, u)
  BY Zenon, <1>0, <1>8 DEF pthread_create_impl, Goto, ContextType, Idle, Holding
<1>9. CASE \E d \in Dtors \cup {Null} : pthread_key_create_impl(t, d)
  BY Zenon, <1>9 DEF pthread_key_create_impl, context, Idle, Holding
<1>10. CASE \E k \in hostkeys : setspecific_null(t, k)
  BY Zenon, <1>10 DEF setspecific_null, Idle, Holding
<1>11. CASE \E k \in hostkeys, v \in Values : setspecific_new(t, k, v)
  BY Zenon, <1>11 DEF setspecific_new, Idle, Holding
<1>12. CASE \E k \in hostkeys, v \in Values : setspecific_update(t, k, v)
  BY Zenon, <1>12 DEF setspecific_update, context, Idle, Holding
<1>13. CASE pthread_key_delete_impl(t)
  BY Zenon, <1>13 DEF pthread_key_delete_impl, Idle, Holding
<1> QED
  BY Zenon, <1>1, <1>2, <1>3, <1>4, <1>5, <1>6, <1>7, <1>8, <1>9, <1>10, <1>11, <1>12, <1>13 DEF Step

(* A thread reaches a guest label only with its context, and loses the     *)
(* context only on its way to release_processor_id.                        *)
LEMMA GuestStep ==
  ASSUME TypeOK, GuestHasContext, NEW t \in Threads, Step(t), ~Crashes
  PROVE  GuestHasContext'
<1> USE DEF Crashes, Faults, GuestHasContext, Guest
<1>0. ContextType BY Zenon DEF TypeOK
<1>1. CASE execution_context_init(t)
  BY Zenon, <1>0, <1>1 DEF execution_context_init, Goto, ContextType
<1>2. CASE release_processor_id(t)
  BY Zenon, <1>0, <1>2 DEF release_processor_id, Goto, context, ContextType
<1>3. CASE thread_routine_exit(t)
  BY Zenon, <1>0, <1>3 DEF thread_routine_exit, Goto, context, ContextType
<1>4. CASE deallocate_tsd(t)
  BY Zenon, <1>0, <1>4 DEF deallocate_tsd, Goto, context, ContextType
<1>5. CASE key_destructor_enter(t)
  BY Zenon, <1>0, <1>5 DEF key_destructor_enter, Goto, context, ContextType
<1>6. CASE key_destructor_leave(t)
  BY Zenon, <1>0, <1>6 DEF key_destructor_leave, drop_ref, Goto, ContextType
<1>7. CASE thread_routine_return(t)
  BY Zenon, <1>0, <1>7 DEF thread_routine_return, drop_ref, Goto, ContextType
<1>8. CASE \E u \in Threads : pthread_create_impl(t, u)
  BY Zenon, <1>0, <1>8 DEF pthread_create_impl, Goto, ContextType
<1>9. CASE \/ \E d \in Dtors \cup {Null} : pthread_key_create_impl(t, d)
           \/ \E k \in hostkeys : setspecific_null(t, k)
           \/ \E k \in hostkeys, v \in Values : setspecific_new(t, k, v)
           \/ \E k \in hostkeys, v \in Values : setspecific_update(t, k, v)
           \/ pthread_key_delete_impl(t)
  <2>1. UNCHANGED <<pc, initialized>>
    BY Zenon, <1>9 DEF pthread_key_create_impl, setspecific_null, setspecific_new, setspecific_update,
       pthread_key_delete_impl, context
  <2> QED BY Zenon, <2>1
<1> QED
  BY Zenon, <1>1, <1>2, <1>3, <1>4, <1>5, <1>6, <1>7, <1>8, <1>9 DEF Step

LEMMA PoolInit == Init => PoolInv
<1> SUFFICES ASSUME Init PROVE PoolInv
  OBVIOUS
<1>1. TypeOK
  BY Zenon, TypeInit
<1>2. \A t \in Threads : ~Holding(t)
  BY Zenon DEF Init, Holding
<1>3. GuestHasContext
  BY Zenon DEF Init, GuestHasContext, Guest
<1> QED BY Zenon, <1>1, <1>2, <1>3 DEF PoolInv, IdsExclusive, PoolExact, Init

LEMMA PoolStep == Counting /\ PoolInv /\ [Next]_vars => PoolInv'
<1> SUFFICES ASSUME Counting, PoolInv, [Next]_vars PROVE PoolInv'
  OBVIOUS
<1>1. TypeOK'
  BY Zenon, TypeStep DEF PoolInv
<1>2. CASE UNCHANGED vars \/ Crashes
  BY Zenon, <1>1, <1>2, CrashUnchanged DEF PoolInv, GuestHasContext, Guest, IdsExclusive, PoolExact, Holding
<1>3. ASSUME NEW t \in Threads, Step(t), ~Crashes
      PROVE  PoolInv'
  <2>1. GuestHasContext'
    BY Zenon, <1>3, GuestStep DEF PoolInv
  <2>2. IdsExclusive /\ PoolExact
    BY Zenon DEF PoolInv
  <2>3. CASE Idle
    BY Zenon, <2>2, <2>3, <2>1, <1>1 DEF PoolInv, Idle, IdsExclusive, PoolExact
  <2>4. CASE Acquires(t)
    <3>1. \A u \in Threads : Holding(u) => processor_id[u] # processor_id'[t]
      BY Zenon, <2>2, <2>4 DEF Acquires, PoolExact
    <3>2. IdsExclusive'
      BY Zenon, <2>2, <2>4, <3>1 DEF Acquires, OthersKeep, IdsExclusive
    <3>3. PoolExact'
      BY Zenon, <2>2, <2>4 DEF Acquires, OthersKeep, PoolExact
    <3> QED BY Zenon, <1>1, <2>1, <3>2, <3>3 DEF PoolInv
  <2>5. CASE Releases(t)
    <3>1. IdsExclusive'
      BY Zenon, <2>2, <2>5 DEF Releases, OthersKeep, IdsExclusive
    <3>2. PoolExact'
      BY Zenon, <2>2, <2>5 DEF Releases, OthersKeep, IdsExclusive, PoolExact
    <3> QED BY Zenon, <1>1, <2>1, <3>1, <3>2 DEF PoolInv
  <2> QED BY Zenon, <1>3, <2>3, <2>4, <2>5, PoolCases DEF PoolInv
<1> QED BY Zenon, <1>2, <1>3, NextCases

------------------------------------------------------------------------------
(* The contexts implement ProcessorIds.                                    *)

(* The owner the refinement mapping chooses is the one holder of the id.   *)
LEMMA OwnerIs ==
  ASSUME IdsExclusive, NEW i
  PROVE  /\ \A t \in Threads : Holding(t) /\ processor_id[t] = i => Owner(i) = t
         /\ (\A t \in Threads : ~(Holding(t) /\ processor_id[t] = i)) => Owner(i) = Null
         /\ Owner(i) # Null => Owner(i) \in Threads /\ Holding(Owner(i)) /\ processor_id[Owner(i)] = i
  BY Zenon DEF Owner, IdsExclusive

LEMMA FreeIs ==
  ASSUME PoolInv
  PROVE  Pool!Free = Ids \ used_processors
<1>1. \A i \in Ids : Owner(i) = Null <=> i \notin used_processors
  <2> SUFFICES ASSUME NEW i \in Ids PROVE Owner(i) = Null <=> i \notin used_processors
    OBVIOUS
  <2>1. IdsExclusive /\ PoolExact
    BY Zenon DEF PoolInv
  <2>2. CASE \E t \in Threads : Holding(t) /\ processor_id[t] = i
    BY Zenon, <2>1, <2>2, OwnerIs, NullAssumption DEF PoolExact
  <2>3. CASE ~\E t \in Threads : Holding(t) /\ processor_id[t] = i
    BY Zenon, <2>1, <2>3, OwnerIs DEF PoolExact
  <2> QED BY Zenon, <2>2, <2>3
<1> QED BY Zenon, <1>1 DEF Pool!Free

LEMMA StepKeepsFault ==
  ASSUME NEW t \in Threads, Step(t), ~Crashes
  PROVE  UNCHANGED fault
  BY Zenon DEF Step, Crashes, Faults, execution_context_init, release_processor_id, thread_routine_exit,
     deallocate_tsd, key_destructor_enter, key_destructor_leave, thread_routine_return,
     pthread_create_impl, pthread_key_create_impl, setspecific_null, setspecific_new,
     setspecific_update, pthread_key_delete_impl

(* allocate_processor_id terminates the process only when it found no id.  *)
LEMMA OutOfIdsOnly ==
  ASSUME Next, fault' = "out_of_ids"
  PROVE  Ids \subseteq used_processors
<1>1. fault = "none"
  BY Zenon DEF Next, DisciplinedNext
<1>2. PICK t \in Threads : Step(t) \/ map_race(t)
  BY Zenon DEF Next, DisciplinedNext, HostStep, Step, pthread_setspecific_impl
<1>3. Crash("out_of_ids")
  <2>1. CASE Crashes
    BY Zenon, <2>1 DEF Crashes, Crash
  <2>2. CASE ~Crashes
    BY Zenon, <1>1, <1>2, <2>2, StepKeepsFault DEF map_race, Crashes, Faults
  <2> QED BY Zenon, <2>1, <2>2
<1>4. execution_context_init(t)
  BY Zenon, <1>1, <1>2, <1>3 DEF Step, map_race, Crash, release_processor_id, thread_routine_exit,
     deallocate_tsd, key_destructor_enter, key_destructor_leave, thread_routine_return,
     pthread_create_impl, pthread_key_create_impl, setspecific_null, setspecific_new,
     setspecific_update, pthread_key_delete_impl
<1> QED BY Zenon, <1>1, <1>3, <1>4 DEF execution_context_init, Crash

(* The mapping of a step: Idle is a stutter, Acquires and Releases are the *)
(* operations of ProcessorIds.                                             *)
LEMMA PoolSimulates ==
  ASSUME PoolInv, PoolInv', [Next]_vars
  PROVE  [Pool!Next]_<<[i \in Ids |-> Owner(i)], fault = "out_of_ids">>
<1> DEFINE own == [i \in Ids |-> Owner(i)]
<1>a. IdsExclusive /\ PoolExact /\ ContextType /\ ContextType'
  BY Zenon DEF PoolInv, TypeOK
<1>b. \A i \in Ids : /\ \A t \in Threads : Holding(t) /\ processor_id[t] = i => Owner(i) = t
                     /\ (\A t \in Threads : ~(Holding(t) /\ processor_id[t] = i)) => Owner(i) = Null
                     /\ Owner(i) # Null => Owner(i) \in Threads /\ Holding(Owner(i))
                                            /\ processor_id[Owner(i)] = i
  BY Zenon, <1>a, OwnerIs
<1>c. (\A i \in Ids : /\ \A t \in Threads : Holding(t) /\ processor_id[t] = i => Owner(i) = t
                      /\ (\A t \in Threads : ~(Holding(t) /\ processor_id[t] = i)) => Owner(i) = Null)'
  BY Zenon DEF PoolInv, IdsExclusive, Owner
<1>1. CASE UNCHANGED vars \/ Crashes
  <2>1. own' = own
    BY ZenonT(30), <1>1, CrashUnchanged DEF Owner, Holding
  <2>2. CASE (fault' = "out_of_ids") = (fault = "out_of_ids")
    BY Zenon, <2>1, <2>2
  <2>3. CASE fault' = "out_of_ids" /\ fault # "out_of_ids"
    <3>1. Pool!Free = {}
      BY Zenon, <2>3, FreeIs, OutOfIdsOnly DEF vars
    <3> QED BY Zenon, <2>1, <2>3, <3>1 DEF Pool!Next, Pool!Exhaust
  <2>4. CASE fault = "out_of_ids" /\ fault' # "out_of_ids"
    BY Zenon, <2>4 DEF Next, DisciplinedNext, vars
  <2> QED BY Zenon, <2>2, <2>3, <2>4
<1>2. ASSUME NEW t \in Threads, Step(t), ~Crashes, Next
      PROVE  [Pool!Next]_<<own, fault = "out_of_ids">>
  <2>0. fault = "none" /\ fault' = fault
    BY Zenon, <1>2, StepKeepsFault DEF Next, DisciplinedNext
  <2>1. CASE Idle
    <3>1. \A i \in Ids : Owner(i)' = Owner(i)
      BY Zenon, <1>b, <1>c, <2>1 DEF Idle
    <3> QED BY Zenon, <3>1, <2>0
  <2>2. CASE Acquires(t)
    <3>1. PICK n \in Ids : n = processor_id'[t]
      BY Zenon, <2>2 DEF Acquires
    <3>2. n \in Pool!Free /\ \A j \in Pool!Free : n <= j
      BY Zenon, <2>2, <3>1, FreeIs DEF Acquires
    <3>3. \A i \in Ids : own[i] # t
      BY <1>b, <2>2, NullAssumption DEF Acquires
    <3>4. own' = [own EXCEPT ![n] = t]
      <4>1. \A i \in Ids : Owner(i)' = IF i = n THEN t ELSE Owner(i)
        BY Zenon, <1>b, <1>c, <2>2, <3>1, <3>3, NullAssumption DEF Acquires, OthersKeep
      <4> QED BY Zenon, <4>1, <3>1
    <3>5. Pool!Acquire(t)
      BY Zenon, <2>0, <3>2, <3>3, <3>4 DEF Pool!Acquire
    <3> QED BY Zenon, <3>5 DEF Pool!Next
  <2>3. CASE Releases(t)
    <3>1. PICK n \in Ids : n = processor_id[t]
      BY Zenon, <1>a DEF ContextType
    <3>2. own[n] = t
      BY Zenon, <1>b, <2>3, <3>1 DEF Releases
    <3>3. own' = [own EXCEPT ![n] = Null]
      <4>1. \A u \in Threads : Holding(u)' => /\ u # t /\ Holding(u)
                                               /\ processor_id'[u] = processor_id[u]
        BY Zenon, <2>3 DEF Releases, OthersKeep
      <4>2. \A u \in Threads : Holding(u)' => processor_id'[u] # n
        BY Zenon, <1>a, <2>3, <3>1, <4>1 DEF Releases, IdsExclusive
      <4>3. Owner(n)' = Null
        BY Zenon, <1>c, <4>2
      <4>4. ASSUME NEW i \in Ids, i # n
            PROVE  Owner(i)' = Owner(i)
        <5>1. CASE Owner(i) = Null
          <6>1. \A u \in Threads : ~(Holding(u) /\ processor_id[u] = i)
            BY Zenon, <1>b, <5>1, NullAssumption
          <6> QED BY Zenon, <1>c, <4>1, <5>1, <6>1
        <5>2. CASE Owner(i) # Null
          <6>1. Owner(i) \in Threads /\ Holding(Owner(i)) /\ processor_id[Owner(i)] = i
            BY Zenon, <1>b, <5>2
          <6>2. PICK v \in Threads : v = Owner(i) /\ Holding(v) /\ processor_id[v] = i
            BY Zenon, <6>1
          <6>3. Holding(v)' /\ processor_id'[v] = i
            BY Zenon, <2>3, <3>1, <4>4, <6>2 DEF Releases, OthersKeep
          <6> QED BY Zenon, <1>c, <6>2, <6>3
        <5> QED BY Zenon, <5>1, <5>2
      <4> QED BY ZenonT(30), <3>1, <4>3, <4>4
    <3>4. Pool!Release(t)
      BY Zenon, <2>0, <3>1, <3>2, <3>3 DEF Pool!Release
    <3> QED BY Zenon, <3>4 DEF Pool!Next
  <2> QED BY Zenon, <1>2, <2>1, <2>2, <2>3, PoolCases DEF PoolInv
<1>3. CASE Next /\ \E t \in Threads : Step(t) /\ ~Crashes
  BY Zenon, <1>2, <1>3
<1> QED BY Zenon, <1>1, <1>3, NextCases

==============================================================================
