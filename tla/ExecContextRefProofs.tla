------------------------- MODULE ExecContextRefProofs -------------------------
(***************************************************************************)
(* Proofs about guests that keep their keys and give each a destructor:    *)
(* reference counts are exact, wrappers have one owner, no assertion fails *)
(* and no freed wrapper is used.                                           *)
(***************************************************************************)
EXTENDS ExecContextProofs

LEMMA DisciplinedIsNext == [DisciplinedNext]_vars => [Next]_vars
  BY Zenon DEF Next

LEMMA DStepIsStep == ASSUME NEW t \in Threads, DStep(t) PROVE Step(t)
  BY Zenon DEF DStep, Step

------------------------------------------------------------------------------
(* A disciplined guest meets none of the faults a wrapper can cause: each  *)
(* action that uses a wrapper finds it allocated, and finds a context.     *)

LEMMA NoFaultStep ==
  ASSUME DisciplinedInv, NEW t \in Threads, DStep(t)
  PROVE  NoUndefinedBehaviour'
<1> USE DEF NoUndefinedBehaviour
<1>0. /\ TypeOK /\ KeyType /\ LabelsMatch /\ CellsMatch /\ NoUndefinedBehaviour
      /\ GuestHasContext
  BY Zenon DEF DisciplinedInv, TypeOK
<1>a. /\ start[t] # Null => start[t] \in live
      /\ dying[t] # Null => dying[t] \in live
      /\ \A k \in Keys : slot[t][k] # Null => slot[t][k] \in live
  BY Zenon, OwnedLive DEF DisciplinedInv
<1>b. hostkeys \subseteq Keys
  BY Zenon, <1>0 DEF KeyType
<1>1. CASE execution_context_init(t)
  BY Zenon, <1>0, <1>1, <1>a DEF execution_context_init, Crash, LabelsMatch
<1>3. CASE thread_routine_exit(t)
  BY Zenon, <1>0, <1>3, <1>a DEF thread_routine_exit, LabelsMatch, Crash
<1>5. CASE key_destructor_enter(t)
  <2>1. PICK k \in Keys : /\ slot[t][k] # Null
                          /\ LET w == slot[t][k] IN
                             \/ UNCHANGED fault
                             \/ ~initialized[t] /\ Crash("assert")
                             \/ initialized[t] /\ w \notin live /\ Crash("heap")
                             \/ initialized[t] /\ w \in live /\ cell[w].routine = Null
                                /\ Crash("null_routine")
    BY Zenon, <1>5 DEF key_destructor_enter, next_key
  <2>2. initialized[t]
    BY Zenon, <1>0, <2>1 DEF LabelsMatch, NoSlots
  <2>3. slot[t][k] \in live /\ cell[slot[t][k]].routine # Null
    BY Zenon, <1>0, <1>a, <2>1 DEF CellsMatch
  <2> QED BY Zenon, <1>0, <2>1, <2>2, <2>3
<1>6. CASE key_destructor_leave(t)
  BY Zenon, <1>0, <1>6, <1>a DEF key_destructor_leave, LabelsMatch
<1>10. CASE \E k \in hostkeys : setspecific_null(t, k)
  BY Zenon, <1>0, <1>10, <1>a, <1>b DEF setspecific_null
<1>12. CASE \E k \in hostkeys, v \in Values : setspecific_update(t, k, v)
  BY Zenon, <1>0, <1>12, <1>a, <1>b DEF setspecific_update
<1>20. CASE \/ release_processor_id(t) \/ deallocate_tsd(t) \/ thread_routine_return(t)
            \/ \E u \in Threads : pthread_create_impl(t, u)
            \/ \E d \in Dtors : pthread_key_create_impl(t, d)
            \/ \E k \in hostkeys, v \in Values : setspecific_new(t, k, v)
  BY Zenon, <1>0, <1>20 DEF release_processor_id, deallocate_tsd, thread_routine_return,
     pthread_create_impl, pthread_key_create_impl, setspecific_new
<1> QED
  BY Zenon, <1>1, <1>3, <1>5, <1>6, <1>10, <1>12, <1>20 DEF DStep

------------------------------------------------------------------------------
(* Reference counts                                                        *)

LEMMA CountType ==
  ASSUME Counting, NEW t \in Threads
  PROVE  Slots(t) \in SUBSET Keys /\ Cardinality(Slots(t)) \in Nat
<1>1. Slots(t) \in SUBSET Keys
  BY Zenon DEF Slots
<1> QED BY Zenon, <1>1 DEF Counting

LEMMA CountNone ==
  ASSUME Counting, TypeOK, NEW t \in Threads
  PROVE  (slot[t] = NoSlots <=> Slots(t) = {}) /\ (Cardinality(Slots(t)) = 0 <=> Slots(t) = {})
<1>1. slot[t] = NoSlots <=> Slots(t) = {}
  BY Zenon DEF TypeOK, KeyType, Slots, NoSlots
<1>2. Cardinality(Slots(t)) = 0 <=> Slots(t) = {}
  BY Zenon, CountType DEF Counting
<1> QED BY Zenon, <1>1, <1>2

(* A value gone, and a value new, change the count by one.                 *)
LEMMA CountLess ==
  ASSUME Counting, TypeOK, NEW t \in Threads, NEW k \in Keys, slot[t][k] # Null,
         slot' = [slot EXCEPT ![t][k] = Null]
  PROVE  /\ Cardinality(Slots(t)') = Cardinality(Slots(t)) - 1
         /\ Slots(t)' = Slots(t) \ {k}
         /\ \A u \in Threads \ {t} : Slots(u)' = Slots(u)
<1>1. slot'[t] = [slot[t] EXCEPT ![k] = Null] /\ \A u \in Threads \ {t} : slot'[u] = slot[u]
  BY Zenon DEF TypeOK, KeyType
<1>2. Slots(t)' = Slots(t) \ {k} /\ k \in Slots(t)
  BY Zenon, <1>1 DEF Slots, TypeOK, KeyType
<1>3. Cardinality(Slots(t) \ {k}) = Cardinality(Slots(t)) - 1
  BY Zenon, <1>2, CountType DEF Counting
<1>4. \A u \in Threads \ {t} : Slots(u)' = Slots(u)
  BY Zenon, <1>1 DEF Slots
<1> QED BY Zenon, <1>2, <1>3, <1>4

LEMMA CountMore ==
  ASSUME Counting, TypeOK, NEW t \in Threads, NEW k \in Keys, slot[t][k] = Null,
         NEW w \in Wrappers, slot' = [slot EXCEPT ![t][k] = w]
  PROVE  /\ Cardinality(Slots(t)') = Cardinality(Slots(t)) + 1
         /\ \A u \in Threads \ {t} : Slots(u)' = Slots(u)
<1>1. slot'[t] = [slot[t] EXCEPT ![k] = w] /\ \A u \in Threads \ {t} : slot'[u] = slot[u]
  BY Zenon DEF TypeOK, KeyType
<1>2. Slots(t)' = Slots(t) \cup {k} /\ k \notin Slots(t)
  BY <1>1, NullAssumption DEF Slots, TypeOK, KeyType
<1>3. Cardinality(Slots(t) \cup {k}) = Cardinality(Slots(t)) + 1
  BY Zenon, <1>2, CountType DEF Counting
<1>4. \A u \in Threads \ {t} : Slots(u)' = Slots(u)
  BY Zenon, <1>1 DEF Slots
<1> QED BY Zenon, <1>2, <1>3, <1>4

LEMMA CountSame ==
  ASSUME slot' = slot
  PROVE  \A u \in Threads : Slots(u)' = Slots(u)
  BY Zenon DEF Slots

(* What RefCountExact says of one thread.                                  *)
Exact(t) ==
  initialized[t] => ref_count[t] = (IF pc[t] = "running" THEN 1 ELSE 0)
                                 + Cardinality(Slots(t))
                                 + (IF dying[t] # Null THEN 1 ELSE 0)

(* A thread keeps its count while another one moves.                       *)
LEMMA ExactOther ==
  ASSUME NEW u \in Threads, Exact(u), Slots(u)' = Slots(u),
         initialized'[u] = initialized[u], ref_count'[u] = ref_count[u], dying'[u] = dying[u],
         pc'[u] = "running" <=> pc[u] = "running"
  PROVE  Exact(u)'
  BY Zenon DEF Exact

LEMMA SubRef ==
  ASSUME TypeOK, NEW t \in Threads, ref_count[t] # 0
  PROVE  sub_ref(t) = ref_count[t] - 1
  BY NumberAssumption DEF TypeOK, ContextType, sub_ref

LEMMA AddRef ==
  ASSUME TypeOK, NEW t \in Threads, ref_count[t] < RefBound
  PROVE  add_ref(t) = ref_count[t] + 1
  BY NumberAssumption DEF TypeOK, ContextType, add_ref

LEMMA RefCountStep ==
  ASSUME Counting, DisciplinedInv, NEW t \in Threads, DStep(t), ~Crashes
  PROVE  RefCountExact'
<1> USE DEF Crashes, Faults
<1>0. /\ TypeOK /\ ContextType /\ HeapType /\ LabelsMatch /\ GuestHasContext
      /\ \A u \in Threads : Exact(u)
  BY Zenon DEF DisciplinedInv, TypeOK, RefCountExact, Exact
<1>a. SUFFICES \A u \in Threads : Exact(u)'
  BY Zenon DEF RefCountExact, Exact
<1>b. Cardinality(Slots(t)) \in Nat
  BY Zenon, CountType
<1>1. CASE execution_context_init(t)
  <2>1. \A u \in Threads : Slots(u)' = Slots(u)
    BY Zenon, <1>1, CountSame DEF execution_context_init
  <2>2. Cardinality(Slots(t)) = 0
    BY Zenon, <1>0, <1>1, CountNone DEF execution_context_init, GuestHasContext, LabelsMatch
  <2>3. Exact(t)'
    BY <1>0, <1>1, <2>1, <2>2 DEF execution_context_init, Goto, exit, LabelsMatch, ContextType, Exact
  <2>4. \A u \in Threads \ {t} : Exact(u)'
    BY Zenon, <1>0, <1>1, <2>1, ExactOther DEF execution_context_init, Goto, exit, ContextType
  <2> QED BY Zenon, <2>3, <2>4
<1>2. CASE release_processor_id(t)
  <2>1. \A u \in Threads : Slots(u)' = Slots(u)
    BY Zenon, <1>2, CountSame DEF release_processor_id
  <2>2. pc' = [pc EXCEPT ![t] = pc'[t]] /\ pc'[t] # "running" /\ pc[t] # "running"
    BY Zenon, <1>0, <1>2 DEF release_processor_id, Goto, ContextType
  <2> QED BY Zenon, <1>0, <1>2, <2>1, <2>2, ExactOther DEF release_processor_id, context, exit, ContextType
<1>3. CASE thread_routine_exit(t)
  <2>1. \A u \in Threads : Slots(u)' = Slots(u)
    BY Zenon, <1>3, CountSame DEF thread_routine_exit
  <2> QED BY Zenon, <1>0, <1>3, <2>1, ExactOther DEF thread_routine_exit, Goto, context, exit, ContextType
<1>4. CASE deallocate_tsd(t)
  <2>1. \A u \in Threads : Slots(u)' = Slots(u)
    BY Zenon, <1>4, CountSame DEF deallocate_tsd
  <2>2. \A u \in Threads : pc'[u] = "running" <=> pc[u] = "running"
    BY Zenon, <1>0, <1>4 DEF deallocate_tsd, Goto, ContextType
  <2> QED BY Zenon, <1>0, <1>4, <2>1, <2>2, ExactOther DEF deallocate_tsd, context
<1>5. CASE key_destructor_enter(t)
  <2>1. PICK k \in Keys : /\ slot[t][k] # Null /\ slot' = [slot EXCEPT ![t][k] = Null]
                          /\ dying' = [dying EXCEPT ![t] = slot[t][k]]
    BY Zenon, <1>5 DEF key_destructor_enter, next_key
  <2>2. /\ Cardinality(Slots(t)') = Cardinality(Slots(t)) - 1
        /\ \A u \in Threads \ {t} : Slots(u)' = Slots(u)
    BY ZenonT(30), <1>0, <2>1, CountLess
  <2>3. pc' = [pc EXCEPT ![t] = "destroying"] /\ pc[t] = "exiting" /\ UNCHANGED context
    BY Zenon, <1>5 DEF key_destructor_enter, Goto
  <2>4. Exact(t)'
    BY <1>0, <1>b, <2>1, <2>2, <2>3 DEF context, LabelsMatch, ContextType, HeapType, Exact
  <2>5. \A u \in Threads \ {t} : Exact(u)'
    BY Zenon, <1>0, <2>1, <2>2, <2>3, ExactOther DEF context, ContextType, HeapType
  <2> QED BY Zenon, <2>4, <2>5
<1>6. CASE key_destructor_leave(t)
  <2>1. \A u \in Threads : Slots(u)' = Slots(u)
    BY Zenon, <1>6, CountSame DEF key_destructor_leave
  <2>2. /\ dying' = [dying EXCEPT ![t] = Null] /\ drop_ref(t, "exiting") /\ dying[t] # Null
        /\ pc[t] = "destroying" /\ initialized[t]
    BY Zenon, <1>0, <1>6 DEF key_destructor_leave, LabelsMatch, GuestHasContext, Guest
  <2>3. sub_ref(t) = ref_count[t] - 1
    BY Zenon, <1>0, <2>2, SubRef DEF LabelsMatch
  <2>4. Exact(t)'
    BY <1>0, <1>b, <2>1, <2>2, <2>3 DEF drop_ref, Goto, ContextType, HeapType, Exact
  <2>5. \A u \in Threads \ {t} : Exact(u)'
    BY Zenon, <1>0, <2>1, <2>2, ExactOther DEF drop_ref, Goto, ContextType, HeapType
  <2> QED BY Zenon, <2>4, <2>5
<1>7. CASE thread_routine_return(t)
  <2>1. \A u \in Threads : Slots(u)' = Slots(u)
    BY Zenon, <1>7, CountSame DEF thread_routine_return
  <2>2. /\ drop_ref(t, "leaving") /\ pc[t] = "running" /\ initialized[t] /\ dying[t] = Null
        /\ dying' = dying
    BY Zenon, <1>0, <1>7 DEF thread_routine_return, LabelsMatch, GuestHasContext, Guest, exit
  <2>3. sub_ref(t) = ref_count[t] - 1
    BY Zenon, <1>0, <2>2, SubRef DEF LabelsMatch
  <2>4. Exact(t)'
    BY <1>0, <1>b, <2>1, <2>2, <2>3 DEF drop_ref, Goto, ContextType, HeapType, Exact
  <2>5. \A u \in Threads \ {t} : Exact(u)'
    BY Zenon, <1>0, <2>1, <2>2, ExactOther DEF drop_ref, Goto, ContextType, HeapType
  <2> QED BY Zenon, <2>4, <2>5
<1>8. ASSUME NEW c \in Threads, pthread_create_impl(t, c)
      PROVE  \A u \in Threads : Exact(u)'
  <2>1. ~initialized'[c]
    BY Zenon, <1>8 DEF pthread_create_impl
  <2>2. Exact(c)'
    BY Zenon, <2>1 DEF Exact
  <2>3. \A u \in Threads \ {c} : /\ slot'[u] = slot[u] /\ pc'[u] = pc[u]
                                 /\ ref_count'[u] = ref_count[u]
    BY Zenon, <1>0, <1>8 DEF pthread_create_impl, Goto, ContextType, TypeOK, KeyType
  <2>4. \A u \in Threads \ {c} : Exact(u)'
    BY <1>0, <1>8, <2>3 DEF pthread_create_impl, Exact, Slots
  <2> QED BY Zenon, <2>2, <2>4
<1>9. CASE \/ \E d \in Dtors : pthread_key_create_impl(t, d)
           \/ \E k \in hostkeys, v \in Values : setspecific_update(t, k, v)
  <2>1. UNCHANGED <<pc, initialized, ref_count, slot, dying>>
    BY Zenon, <1>9 DEF pthread_key_create_impl, setspecific_update, context, exit
  <2> QED BY Zenon, <1>0, <2>1, CountSame, ExactOther
<1>10. ASSUME NEW k \in hostkeys, setspecific_null(t, k), Guest(t)
       PROVE  \A u \in Threads : Exact(u)'
  <2>1. /\ k \in Keys /\ slot[t][k] # Null /\ slot' = [slot EXCEPT ![t][k] = Null]
        /\ ref_count' = [ref_count EXCEPT ![t] = sub_ref(t)]
        /\ UNCHANGED <<pc, initialized, dying>>
    BY Zenon, <1>0, <1>10 DEF setspecific_null, TypeOK, KeyType, exit
  <2>2. /\ Cardinality(Slots(t)') = Cardinality(Slots(t)) - 1
        /\ \A u \in Threads \ {t} : Slots(u)' = Slots(u)
    BY ZenonT(30), <1>0, <2>1, CountLess
  <2>3. initialized[t] /\ sub_ref(t) = ref_count[t] - 1
    BY Zenon, <1>0, <1>10, SubRef DEF LabelsMatch, GuestHasContext
  <2>4. Exact(t)'
    BY <1>0, <1>b, <2>1, <2>2, <2>3 DEF ContextType, Exact
  <2>5. \A u \in Threads \ {t} : Exact(u)'
    BY Zenon, <1>0, <2>1, <2>2, ExactOther DEF ContextType
  <2> QED BY Zenon, <2>4, <2>5
<1>11. ASSUME NEW k \in hostkeys, NEW v \in Values, setspecific_new(t, k, v), Guest(t)
       PROVE  \A u \in Threads : Exact(u)'
  <2>1. PICK w \in Wrappers : slot' = [slot EXCEPT ![t][k] = w]
    BY Zenon, <1>11 DEF setspecific_new
  <2>2. /\ k \in Keys /\ slot[t][k] = Null /\ ref_count[t] < RefBound
        /\ ref_count' = [ref_count EXCEPT ![t] = add_ref(t)]
        /\ UNCHANGED <<pc, initialized, dying>>
    BY Zenon, <1>0, <1>11 DEF setspecific_new, TypeOK, KeyType, exit
  <2>3. /\ Cardinality(Slots(t)') = Cardinality(Slots(t)) + 1
        /\ \A u \in Threads \ {t} : Slots(u)' = Slots(u)
    BY ZenonT(30), <1>0, <2>1, <2>2, CountMore
  <2>4. add_ref(t) = ref_count[t] + 1
    BY Zenon, <1>0, <2>2, AddRef
  <2>5. Exact(t)'
    <3>1. ref_count'[t] = ref_count[t] + 1  BY Zenon, <1>0, <2>2, <2>4 DEF ContextType
    <3>2. pc'[t] = pc[t] /\ initialized'[t] = initialized[t] /\ dying'[t] = dying[t]  BY Zenon, <2>2
    <3>3. Cardinality(Slots(t)) \in Nat /\ ref_count[t] \in Nat
      BY <1>0, CountType, NumberAssumption DEF ContextType
    <3>4. Exact(t)  BY Zenon, <1>0
    <3>5. Cardinality(Slots(t)') = Cardinality(Slots(t)) + 1  BY Zenon, <2>3
    <3> QED BY <3>1, <3>2, <3>3, <3>4, <3>5 DEF Exact
  <2>6. \A u \in Threads \ {t} : Exact(u)'
    BY Zenon, <1>0, <2>2, <2>3, ExactOther DEF ContextType
  <2> QED BY Zenon, <2>5, <2>6
<1> QED
  BY Zenon, <1>1, <1>2, <1>3, <1>4, <1>5, <1>6, <1>7, <1>8, <1>9, <1>10, <1>11 DEF DStep

------------------------------------------------------------------------------
(* Labels and contents                                                     *)

(* LabelsMatch, for one thread; and what leaves it alone for a thread.     *)
Labels(t) ==
  /\ pc[t] = "destroying" <=> dying[t] # Null
  /\ t = Main => pc[t] \in {"created", "running"}
  /\ start[t] # Null => t # Main /\ pc[t] \in {"created", "running", "freeing", "leaving"}
  /\ t # Main /\ pc[t] \in {"created", "running", "leaving"} => start[t] # Null
  /\ pc[t] = "created" => ref_count[t] = 1
  /\ initialized[t] => ref_count[t] # 0
  /\ ~initialized[t] => slot[t] = NoSlots

Same(u) ==
  /\ pc'[u] = pc[u] /\ initialized'[u] = initialized[u] /\ ref_count'[u] = ref_count[u]
  /\ start'[u] = start[u] /\ dying'[u] = dying[u] /\ slot'[u] = slot[u]

LEMMA LabelsOne ==
  ASSUME LabelsMatch, NEW t \in Threads, \A u \in Threads \ {t} : Same(u), Labels(t)'
  PROVE  LabelsMatch'
<1>1. \A u \in Threads : Labels(u)  BY Zenon DEF LabelsMatch, Labels
<1>2. \A u \in Threads \ {t} : Labels(u)'  BY <1>1 DEF Labels, Same
<1>3. \A u \in Threads : Labels(u)'  BY Zenon, <1>2
<1> QED BY Zenon, <1>3 DEF LabelsMatch, Labels

LEMMA LabelsStep ==
  ASSUME Counting, DisciplinedInv, NEW t \in Threads, DStep(t), ~Crashes
  PROVE  LabelsMatch'
<1> USE DEF Crashes, Faults
<1>0. /\ TypeOK /\ ContextType /\ HeapType /\ KeyType /\ LabelsMatch /\ GuestHasContext
      /\ Exact(t) /\ Cardinality(Slots(t)) \in Nat
  BY Zenon, CountType DEF DisciplinedInv, TypeOK, RefCountExact, Exact
<1>l. \A u \in Threads : Labels(u)
  BY Zenon, <1>0 DEF LabelsMatch, Labels
<1>1. CASE execution_context_init(t)
  <2>1. /\ pc[t] = "created" /\ pc' = [pc EXCEPT ![t] = "running"]
        /\ initialized' = [initialized EXCEPT ![t] = TRUE]
        /\ UNCHANGED <<ref_count, start, dying, slot>>
    BY Zenon, <1>1 DEF execution_context_init, Goto, exit
  <2>2. \A u \in Threads \ {t} : Same(u)  BY Zenon, <1>0, <2>1 DEF Same, ContextType
  <2>3. /\ pc'[t] = "running" /\ initialized'[t] /\ ref_count'[t] = 1 /\ start'[t] = start[t]
        /\ dying'[t] = dying[t] /\ slot'[t] = slot[t]
    BY Zenon, <1>0, <1>l, <2>1 DEF Labels, ContextType
  <2>4. Labels(t)'
    BY <1>l, <2>1, <2>3 DEF Labels
  <2> QED BY Zenon, <1>0, <2>2, <2>4, LabelsOne
<1>2. CASE release_processor_id(t)
  <2>1. /\ pc[t] = "freeing" /\ UNCHANGED <<initialized, ref_count, start, dying, slot>>
        /\ pc' = [pc EXCEPT ![t] = IF start[t] # Null THEN "leaving" ELSE "exiting"]
    BY Zenon, <1>2 DEF release_processor_id, Goto, context, exit
  <2>2. \A u \in Threads \ {t} : Same(u)  BY Zenon, <1>0, <2>1 DEF Same, ContextType
  <2>3. Labels(t)'  BY Zenon, <1>0, <1>l, <2>1 DEF Labels, ContextType
  <2> QED BY Zenon, <1>0, <2>2, <2>3, LabelsOne
<1>3. CASE thread_routine_exit(t)
  <2>1. /\ pc[t] = "leaving" /\ UNCHANGED <<initialized, ref_count, dying, slot>>
        /\ pc' = [pc EXCEPT ![t] = "exiting"] /\ start' = [start EXCEPT ![t] = Null]
    BY Zenon, <1>3 DEF thread_routine_exit, Goto, context, exit
  <2>2. \A u \in Threads \ {t} : Same(u)  BY Zenon, <1>0, <2>1 DEF Same, ContextType, HeapType
  <2>3. Labels(t)'  BY Zenon, <1>0, <1>l, <2>1 DEF Labels, ContextType, HeapType
  <2> QED BY Zenon, <1>0, <2>2, <2>3, LabelsOne
<1>4. CASE deallocate_tsd(t)
  <2>1. /\ pc[t] = "exiting" /\ UNCHANGED <<initialized, ref_count, start, dying, slot>>
        /\ pc' = pc \/ pc' = [pc EXCEPT ![t] = "dead"]
    BY Zenon, <1>4 DEF deallocate_tsd, Goto, context
  <2>2. \A u \in Threads \ {t} : Same(u)  BY Zenon, <1>0, <2>1 DEF Same, ContextType
  <2>3. Labels(t)'  BY Zenon, <1>0, <1>l, <2>1 DEF Labels, ContextType
  <2> QED BY Zenon, <1>0, <2>2, <2>3, LabelsOne
<1>5. CASE key_destructor_enter(t)
  <2>1. PICK k \in Keys : /\ slot[t][k] # Null /\ slot' = [slot EXCEPT ![t][k] = Null]
                          /\ dying' = [dying EXCEPT ![t] = slot[t][k]]
                          /\ initialized[t] /\ pc[t] = "exiting"
                          /\ pc' = [pc EXCEPT ![t] = "destroying"]
                          /\ UNCHANGED <<initialized, ref_count, start>>
    BY Zenon, <1>5 DEF key_destructor_enter, next_key, Goto, context
  <2>2. \A u \in Threads \ {t} : Same(u)
    BY Zenon, <1>0, <2>1 DEF Same, ContextType, HeapType, KeyType
  <2>3. pc'[t] = "destroying" /\ dying'[t] = slot[t][k]
    BY Zenon, <1>0, <2>1 DEF ContextType, HeapType
  <2>4. Labels(t)'  BY Zenon, <1>l, <2>1, <2>3 DEF Labels
  <2> QED BY Zenon, <1>0, <2>2, <2>4, LabelsOne
<1>6. CASE key_destructor_leave(t)
  <2>1. /\ pc[t] = "destroying" /\ initialized[t] /\ ref_count[t] # 0 /\ dying[t] # Null
        /\ t # Main /\ start[t] = Null
    BY Zenon, <1>0, <1>l, <1>6 DEF key_destructor_leave, GuestHasContext, Guest, Labels
  <2>2. sub_ref(t) = ref_count[t] - 1
    BY Zenon, <1>0, <2>1, SubRef
  <2>3. sub_ref(t) = 0 => slot[t] = NoSlots
    BY <1>0, <2>1, <2>2, CountNone DEF Exact, ContextType
  <2>4. /\ dying' = [dying EXCEPT ![t] = Null] /\ UNCHANGED <<start, slot>>
        /\ ref_count' = [ref_count EXCEPT ![t] = sub_ref(t)]
        /\ \/ /\ sub_ref(t) = 0 /\ pc' = [pc EXCEPT ![t] = "freeing"]
              /\ initialized' = [initialized EXCEPT ![t] = FALSE]
           \/ /\ sub_ref(t) # 0 /\ pc' = [pc EXCEPT ![t] = "exiting"] /\ UNCHANGED initialized
    BY Zenon, <1>6 DEF key_destructor_leave, drop_ref, Goto
  <2>5. \A u \in Threads \ {t} : Same(u)  BY Zenon, <1>0, <2>4 DEF Same, ContextType, HeapType
  <2>6. Labels(t)'  BY Zenon, <1>0, <2>1, <2>3, <2>4 DEF Labels, ContextType, HeapType
  <2> QED BY Zenon, <1>0, <2>5, <2>6, LabelsOne
<1>7. CASE thread_routine_return(t)
  <2>1. /\ pc[t] = "running" /\ initialized[t] /\ ref_count[t] # 0 /\ dying[t] = Null
        /\ t # Main /\ start[t] # Null
    BY Zenon, <1>0, <1>l, <1>7 DEF thread_routine_return, GuestHasContext, Guest, Labels
  <2>2. sub_ref(t) = ref_count[t] - 1
    BY Zenon, <1>0, <2>1, SubRef
  <2>3. sub_ref(t) = 0 => slot[t] = NoSlots
    BY <1>0, <2>1, <2>2, CountNone DEF Exact, ContextType
  <2>4. /\ UNCHANGED <<start, slot, dying>>
        /\ ref_count' = [ref_count EXCEPT ![t] = sub_ref(t)]
        /\ \/ /\ sub_ref(t) = 0 /\ pc' = [pc EXCEPT ![t] = "freeing"]
              /\ initialized' = [initialized EXCEPT ![t] = FALSE]
           \/ /\ sub_ref(t) # 0 /\ pc' = [pc EXCEPT ![t] = "leaving"] /\ UNCHANGED initialized
    BY Zenon, <1>7 DEF thread_routine_return, drop_ref, Goto, exit
  <2>5. \A u \in Threads \ {t} : Same(u)  BY Zenon, <1>0, <2>4 DEF Same, ContextType
  <2>6. Labels(t)'  BY Zenon, <1>0, <2>1, <2>3, <2>4 DEF Labels, ContextType
  <2> QED BY Zenon, <1>0, <2>5, <2>6, LabelsOne
<1>8. ASSUME NEW c \in Threads, pthread_create_impl(t, c)
      PROVE  LabelsMatch'
  <2>1. /\ pc[c] \in {"absent", "dead"} /\ ~initialized[c] /\ UNCHANGED initialized
        /\ \/ UNCHANGED <<pc, start, ref_count>>
           \/ \E w \in Wrappers : /\ pc' = [pc EXCEPT ![c] = "created"]
                                  /\ start' = [start EXCEPT ![c] = w]
                                  /\ ref_count' = [ref_count EXCEPT ![c] = 1]
    BY Zenon, <1>8 DEF pthread_create_impl, Goto
  <2>2. slot' = slot /\ dying' = dying
    BY Zenon, <1>0, <1>8, CreateKeepsSlots
  <2>3. \A u \in Threads \ {c} : Same(u)  BY Zenon, <1>0, <2>1, <2>2 DEF Same, ContextType, HeapType
  <2>4. Labels(c)'
    <3>1. CASE UNCHANGED <<pc, start, ref_count>>
      BY Zenon, <1>l, <2>1, <2>2, <3>1 DEF Labels
    <3>2. CASE pc'[c] = "created" /\ start'[c] \in Wrappers /\ ref_count'[c] = 1
      <4>1. dying[c] = Null /\ c # Main /\ slot[c] = NoSlots  BY Zenon, <1>l, <2>1 DEF Labels
      <4>2. initialized'[c] = FALSE  BY Zenon, <1>0, <2>1 DEF ContextType
      <4> QED BY Zenon, <2>2, <3>2, <4>1, <4>2, NullAssumption DEF Labels
    <3> QED BY Zenon, <1>0, <2>1, <3>1, <3>2 DEF ContextType, HeapType
  <2> QED BY Zenon, <1>0, <2>3, <2>4, LabelsOne
<1>9. CASE \/ \E d \in Dtors : pthread_key_create_impl(t, d)
           \/ \E k \in hostkeys, v \in Values : setspecific_update(t, k, v)
  <2>1. UNCHANGED <<pc, initialized, ref_count, slot, dying, start>>
    BY ZenonT(30), <1>9 DEF pthread_key_create_impl, setspecific_update, context, exit
  <2> QED BY Zenon, <1>0, <2>1 DEF LabelsMatch
<1>10. ASSUME NEW k \in hostkeys, setspecific_null(t, k), Guest(t)
       PROVE  LabelsMatch'
  <2>1. /\ k \in Keys /\ slot[t][k] # Null /\ slot' = [slot EXCEPT ![t][k] = Null]
        /\ ref_count' = [ref_count EXCEPT ![t] = sub_ref(t)]
        /\ UNCHANGED <<pc, initialized, dying, start>>
    BY Zenon, <1>0, <1>10 DEF setspecific_null, KeyType, exit
  <2>2. initialized[t] /\ pc[t] # "created" /\ sub_ref(t) = ref_count[t] - 1
    BY Zenon, <1>0, <1>l, <1>10, SubRef DEF GuestHasContext, Guest, Labels
  <2>3. ref_count[t] - 1 # 0
    <3>1. Cardinality(Slots(t)) # 0
      BY Zenon, <1>0, <2>1, CountNone DEF Slots
    <3>2. pc[t] = "running" \/ dying[t] # Null
      BY Zenon, <1>l, <1>10 DEF Guest, Labels
    <3>3. initialized[t] /\ Exact(t) /\ Cardinality(Slots(t)) \in Nat  BY Zenon, <1>0, <2>2
    <3> QED BY <3>1, <3>2, <3>3 DEF Exact
  <2>4. \A u \in Threads \ {t} : Same(u)  BY Zenon, <1>0, <2>1 DEF Same, ContextType, KeyType
  <2>5. Labels(t)'  BY Zenon, <1>0, <1>l, <2>1, <2>2, <2>3 DEF Labels, ContextType
  <2> QED BY Zenon, <1>0, <2>4, <2>5, LabelsOne
<1>11. ASSUME NEW k \in hostkeys, NEW v \in Values, setspecific_new(t, k, v), Guest(t)
       PROVE  LabelsMatch'
  <2>1. PICK w \in Wrappers : slot' = [slot EXCEPT ![t][k] = w]
    BY Zenon, <1>11 DEF setspecific_new
  <2>2. /\ ref_count[t] < RefBound /\ ref_count' = [ref_count EXCEPT ![t] = add_ref(t)]
        /\ UNCHANGED <<pc, initialized, dying, start>>
    BY Zenon, <1>11 DEF setspecific_new, exit
  <2>3. initialized[t] /\ pc[t] # "created" /\ add_ref(t) # 0
    <3>1. initialized[t] /\ pc[t] # "created"  BY Zenon, <1>0, <1>11 DEF GuestHasContext, Guest
    <3>2. ref_count[t] \in Nat  BY <1>0, NumberAssumption DEF ContextType
    <3>3. add_ref(t) = ref_count[t] + 1  BY Zenon, <1>0, <2>2, AddRef
    <3> QED BY <3>1, <3>2, <3>3
  <2>4. \A u \in Threads \ {t} : Same(u)  BY Zenon, <1>0, <2>1, <2>2 DEF Same, ContextType, KeyType
  <2>5. Labels(t)'  BY Zenon, <1>0, <1>l, <2>2, <2>3 DEF Labels, ContextType
  <2> QED BY Zenon, <1>0, <2>4, <2>5, LabelsOne
<1> QED
  BY Zenon, <1>1, <1>2, <1>3, <1>4, <1>5, <1>6, <1>7, <1>8, <1>9, <1>10, <1>11 DEF DStep

------------------------------------------------------------------------------
(* Ownership. Seen from the heap a step keeps all references, or gives one *)
(* reference a fresh address, or drops one reference together with its     *)
(* wrapper, or moves one (from a key's slot to the running destructor).    *)

Elsewhere(t, I) == \A u \in Threads, j \in Refs : u # t \/ j \notin I => Ref(u, j)' = Ref(u, j)

Keeps == (\A u \in Threads, j \in Refs : Ref(u, j)' = Ref(u, j)) /\ live \subseteq live'

Gains(t, i) ==
  /\ Ref(t, i)' \in live' \ live /\ live \subseteq live' /\ Elsewhere(t, {i})

Drops(t, i) ==
  /\ Ref(t, i) # Null /\ Ref(t, i)' = Null /\ live' = live \ {Ref(t, i)} /\ Elsewhere(t, {i})

Moves(t, i, j) ==
  /\ i # j /\ Ref(t, i) # Null /\ Ref(t, i)' = Null /\ Ref(t, j)' = Ref(t, i)
  /\ Elsewhere(t, {i, j}) /\ live' = live

LEMMA OwnedKeeps == ASSUME WrappersOwnedOnce, Keeps PROVE WrappersOwnedOnce'
  BY DEF WrappersOwnedOnce, Keeps, Refs

LEMMA OwnedGains ==
  ASSUME WrappersOwnedOnce, NEW t \in Threads, NEW i \in Refs, Gains(t, i)
  PROVE  WrappersOwnedOnce'
<1> SUFFICES ASSUME NEW u \in Threads, NEW v \in Threads, NEW j \in Refs, NEW k \in Refs,
                    Ref(u, j)' # Null
             PROVE  Ref(u, j)' \in live' /\ (Ref(v, k)' = Ref(u, j)' => u = v /\ j = k)
  BY Zenon DEF WrappersOwnedOnce, Refs
<1>1. CASE u = t /\ j = i
  BY <1>1 DEF Gains, Elsewhere, WrappersOwnedOnce
<1>2. CASE ~(u = t /\ j = i)
  BY <1>2 DEF Gains, Elsewhere, WrappersOwnedOnce
<1> QED BY Zenon, <1>1, <1>2

LEMMA OwnedDrops ==
  ASSUME WrappersOwnedOnce, NEW t \in Threads, NEW i \in Refs, Drops(t, i)
  PROVE  WrappersOwnedOnce'
<1> SUFFICES ASSUME NEW u \in Threads, NEW v \in Threads, NEW j \in Refs, NEW k \in Refs,
                    Ref(u, j)' # Null
             PROVE  Ref(u, j)' \in live' /\ (Ref(v, k)' = Ref(u, j)' => u = v /\ j = k)
  BY Zenon DEF WrappersOwnedOnce, Refs
<1>1. ~(u = t /\ j = i)
  BY Zenon DEF Drops
<1> QED BY <1>1 DEF Drops, Elsewhere, WrappersOwnedOnce

LEMMA OwnedMoves ==
  ASSUME WrappersOwnedOnce, NEW t \in Threads, NEW i \in Refs, NEW n \in Refs, Moves(t, i, n)
  PROVE  WrappersOwnedOnce'
<1> SUFFICES ASSUME NEW u \in Threads, NEW v \in Threads, NEW j \in Refs, NEW k \in Refs,
                    Ref(u, j)' # Null
             PROVE  Ref(u, j)' \in live' /\ (Ref(v, k)' = Ref(u, j)' => u = v /\ j = k)
  BY Zenon DEF WrappersOwnedOnce, Refs
<1> DEFINE from(x, y) == IF x = t /\ y = n THEN i ELSE y
<1>1. ~(u = t /\ j = i)
  BY Zenon DEF Moves
<1>2. Ref(u, j)' = Ref(u, from(u, j)) /\ from(u, j) \in Refs
  BY Zenon, <1>1 DEF Moves, Elsewhere
<1>3. CASE v = t /\ k = i
  <2>1. Ref(u, j)' \in live'
    BY <1>2 DEF Moves, WrappersOwnedOnce
  <2> QED BY Zenon, <1>3, <2>1 DEF Moves
<1>4. CASE ~(v = t /\ k = i)
  <2>1. Ref(v, k)' = Ref(v, from(v, k)) /\ from(v, k) \in Refs
    BY Zenon, <1>4 DEF Moves, Elsewhere
  <2>2. Ref(u, from(u, j)) \in live
        /\ (Ref(v, from(v, k)) = Ref(u, from(u, j)) => u = v /\ from(u, j) = from(v, k))
    BY <1>2, <2>1 DEF WrappersOwnedOnce
  <2> QED BY Zenon, <1>1, <1>2, <1>4, <2>1, <2>2 DEF Moves
<1> QED BY Zenon, <1>2, <1>3, <1>4 DEF Moves, WrappersOwnedOnce

LEMMA OwnedStep ==
  ASSUME DisciplinedInv, NEW t \in Threads, DStep(t), ~Crashes
  PROVE  WrappersOwnedOnce'
<1> USE DEF Crashes, Faults
<1>0. /\ TypeOK /\ HeapType /\ KeyType /\ LabelsMatch /\ WrappersOwnedOnce
  BY Zenon DEF DisciplinedInv, TypeOK
<1>a. ASSUME UNCHANGED <<start, slot, dying>>, live \subseteq live'
      PROVE  WrappersOwnedOnce'
  <2>1. Keeps
    BY Zenon, <1>a DEF Keeps, Ref
  <2> QED BY Zenon, <1>0, <2>1, OwnedKeeps
<1>1. CASE \/ execution_context_init(t) \/ release_processor_id(t) \/ deallocate_tsd(t)
           \/ thread_routine_return(t) \/ \E d \in Dtors : pthread_key_create_impl(t, d)
           \/ \E k \in hostkeys, v \in Values : setspecific_update(t, k, v)
  <2>1. UNCHANGED <<start, slot, dying, live>>
    BY ZenonT(30), <1>1 DEF execution_context_init, release_processor_id, deallocate_tsd,
       thread_routine_return, pthread_key_create_impl, setspecific_update, heap, exit
  <2> QED BY Zenon, <1>a, <2>1
<1>3. CASE thread_routine_exit(t)
  <2>1. /\ start' = [start EXCEPT ![t] = Null] /\ live' = live \ {start[t]}
        /\ start[t] # Null /\ UNCHANGED <<slot, dying>>
    BY Zenon, <1>0, <1>3 DEF thread_routine_exit, delete, exit, LabelsMatch
  <2>2. Drops(t, 0)
    BY Zenon, <1>0, <2>1, RefNow DEF Drops, Elsewhere, Ref, HeapType
  <2> QED BY Zenon, <1>0, <2>2, OwnedDrops, RefNow
<1>5. CASE key_destructor_enter(t)
  <2>1. PICK k \in Keys : /\ slot[t][k] # Null /\ slot' = [slot EXCEPT ![t][k] = Null]
                          /\ dying' = [dying EXCEPT ![t] = slot[t][k]]
                          /\ UNCHANGED <<start, live>>
    BY Zenon, <1>5 DEF key_destructor_enter, next_key, heap
  <2>2. /\ slot'[t] = [slot[t] EXCEPT ![k] = Null]
        /\ \A u \in Threads \ {t} : slot'[u] = slot[u] /\ dying'[u] = dying[u]
        /\ dying'[t] = slot[t][k] /\ slot'[t][k] = Null
        /\ \A j \in Keys \ {k} : slot'[t][j] = slot[t][j]
    BY Zenon, <1>0, <2>1 DEF KeyType, HeapType
  <2>3. Elsewhere(t, {k, KeysMax + 1})
    BY <2>1, <2>2, RefNow DEF Elsewhere, Ref
  <2>4. Moves(t, k, KeysMax + 1)
    BY Zenon, <2>1, <2>2, <2>3, RefNow DEF Moves, Ref
  <2> QED BY Zenon, <1>0, <2>4, OwnedMoves, RefNow
<1>6. CASE key_destructor_leave(t)
  <2>1. /\ dying' = [dying EXCEPT ![t] = Null] /\ live' = live \ {dying[t]}
        /\ dying[t] # Null /\ UNCHANGED <<slot, start>>
    BY Zenon, <1>0, <1>6 DEF key_destructor_leave, delete, LabelsMatch
  <2>2. Drops(t, KeysMax + 1)
    BY Zenon, <1>0, <2>1, RefNow DEF Drops, Elsewhere, Ref, HeapType
  <2> QED BY Zenon, <1>0, <2>2, OwnedDrops, RefNow
<1>8. ASSUME NEW c \in Threads, pthread_create_impl(t, c)
      PROVE  WrappersOwnedOnce'
  <2>1. PICK w \in Wrappers :
          /\ w \notin live /\ live' = live \cup {w}
          /\ \/ start' = [start EXCEPT ![c] = w] /\ slot' = [slot EXCEPT ![c] = NoSlots]
             \/ UNCHANGED <<start, slot>>
    BY Zenon, <1>8 DEF pthread_create_impl, new
  <2>2. slot' = slot /\ dying' = dying
    BY Zenon, <1>0, <1>8, CreateKeepsSlots
  <2>3. CASE UNCHANGED start
    BY Zenon, <1>a, <2>1, <2>2, <2>3
  <2>4. CASE start' = [start EXCEPT ![c] = w]
    <3>1. Gains(c, 0)
      BY Zenon, <1>0, <2>1, <2>2, <2>4, RefNow DEF Gains, Elsewhere, Ref, HeapType
    <3> QED BY Zenon, <1>0, <3>1, OwnedGains, RefNow
  <2> QED BY Zenon, <2>1, <2>3, <2>4
<1>10. ASSUME NEW k \in hostkeys, setspecific_null(t, k)
       PROVE  WrappersOwnedOnce'
  <2>1. /\ k \in Keys /\ slot[t][k] # Null /\ slot' = [slot EXCEPT ![t][k] = Null]
        /\ live' = live \ {slot[t][k]} /\ UNCHANGED <<dying, start>>
    BY Zenon, <1>0, <1>10 DEF setspecific_null, delete, KeyType, exit
  <2>2. /\ \A u \in Threads \ {t} : slot'[u] = slot[u]
        /\ slot'[t][k] = Null /\ \A j \in Keys \ {k} : slot'[t][j] = slot[t][j]
    BY Zenon, <1>0, <2>1 DEF KeyType
  <2>3. Drops(t, k)
    BY <2>1, <2>2, RefNow DEF Drops, Elsewhere, Ref
  <2> QED BY Zenon, <1>0, <2>1, <2>3, OwnedDrops, RefNow
<1>11. ASSUME NEW k \in hostkeys, NEW v \in Values, setspecific_new(t, k, v)
       PROVE  WrappersOwnedOnce'
  <2>1. PICK w \in Wrappers : /\ w \notin live /\ live' = live \cup {w}
                              /\ slot' = [slot EXCEPT ![t][k] = w]
    BY ZenonT(30), <1>11 DEF setspecific_new, new
  <2>2. k \in Keys /\ UNCHANGED <<dying, start>>
    BY Zenon, <1>0, <1>11 DEF setspecific_new, KeyType, exit
  <2>3. /\ \A u \in Threads \ {t} : slot'[u] = slot[u]
        /\ slot'[t][k] = w /\ \A j \in Keys \ {k} : slot'[t][j] = slot[t][j]
    BY Zenon, <1>0, <2>1, <2>2 DEF KeyType
  <2>4. Gains(t, k)
    BY <2>1, <2>2, <2>3, RefNow DEF Gains, Elsewhere, Ref
  <2> QED BY Zenon, <1>0, <2>2, <2>4, OwnedGains, RefNow
<1> QED
  BY Zenon, <1>1, <1>3, <1>5, <1>6, <1>8, <1>10, <1>11 DEF DStep

(* A wrapper keeps its routine, and its value or gets another.             *)
Filled(w) == /\ cell'[w].routine = cell[w].routine
             /\ cell'[w].value = cell[w].value \/ cell'[w].value \in Values

LEMMA CellsStep ==
  ASSUME DisciplinedInv, NEW t \in Threads, DStep(t), ~Crashes
  PROVE  CellsMatch'
<1> USE DEF Crashes, Faults
<1>0. /\ HeapType /\ KeyType /\ LabelsMatch /\ WrappersOwnedOnce /\ CellsMatch
  BY Zenon DEF DisciplinedInv, TypeOK
<1>a. /\ \A k \in Keys : registered[k] # Null
      /\ \A u \in Threads, k \in Keys :
           slot[u][k] # Null => /\ registered[k] # Absent /\ cell[slot[u][k]].routine = registered[k]
                                /\ cell[slot[u][k]].value # Null
  BY Zenon, <1>0 DEF CellsMatch
<1>b. ASSUME UNCHANGED registered,
             \A u \in Threads, k \in Keys :
               slot'[u][k] # Null => slot'[u][k] = slot[u][k] /\ Filled(slot[u][k])
      PROVE  CellsMatch'
  <2>1. \A u \in Threads, k \in Keys :
          slot'[u][k] # Null => /\ registered'[k] # Absent
                                /\ cell'[slot'[u][k]].routine = registered'[k]
                                /\ cell'[slot'[u][k]].value # Null
    <3> TAKE u \in Threads, k \in Keys
    <3> HAVE slot'[u][k] # Null
    <3>1. slot'[u][k] = slot[u][k] /\ Filled(slot[u][k])
      BY Zenon, <1>b
    <3>2. /\ registered[k] # Absent /\ cell[slot[u][k]].routine = registered[k]
          /\ cell[slot[u][k]].value # Null
      BY Zenon, <1>a, <3>1
    <3>3. cell'[slot[u][k]].routine = registered[k] /\ cell'[slot[u][k]].value # Null
      BY Zenon, <3>1, <3>2, NullAssumption DEF Filled
    <3> QED BY Zenon, <1>b, <3>1, <3>2, <3>3
  <2> QED BY Zenon, <1>a, <1>b, <2>1 DEF CellsMatch
<1>c. \A u \in Threads, k \in Keys : slot[u][k] # Null => slot[u][k] \in live
  BY Zenon, <1>0, SlotApart
<1>1. CASE \/ execution_context_init(t) \/ release_processor_id(t) \/ deallocate_tsd(t)
           \/ thread_routine_return(t)
  <2>1. UNCHANGED <<registered, slot, cell>>
    BY Zenon, <1>1 DEF execution_context_init, release_processor_id, deallocate_tsd,
       thread_routine_return, heap, keys
  <2> QED BY Zenon, <1>b, <2>1 DEF Filled
<1>3. CASE thread_routine_exit(t)
  <2>1. delete({start[t]}) /\ UNCHANGED <<registered, slot>>
    BY Zenon, <1>3 DEF thread_routine_exit, keys
  <2>2. \A u \in Threads, k \in Keys : slot[u][k] # Null => slot[u][k] # start[t]
    BY Zenon, <1>0, SlotApart
  <2> QED BY Zenon, <1>0, <1>b, <1>c, <2>1, <2>2 DEF delete, HeapType, Filled
<1>5. CASE key_destructor_enter(t)
  <2>1. PICK k \in Keys : slot' = [slot EXCEPT ![t][k] = Null]
    BY Zenon, <1>5 DEF key_destructor_enter
  <2>2. UNCHANGED <<registered, cell>>
    BY Zenon, <1>5 DEF key_destructor_enter, heap, keys
  <2>3. \A u \in Threads, j \in Keys : slot'[u][j] # Null => slot'[u][j] = slot[u][j]
    BY Zenon, <1>0, <2>1 DEF KeyType
  <2> QED BY Zenon, <1>b, <2>2, <2>3 DEF Filled
<1>6. CASE key_destructor_leave(t)
  <2>1. delete({dying[t]}) /\ UNCHANGED <<registered, slot>>
    BY Zenon, <1>6 DEF key_destructor_leave, keys
  <2>2. \A u \in Threads, k \in Keys : slot[u][k] # Null => slot[u][k] # dying[t]
    BY Zenon, <1>0, SlotApart
  <2> QED BY Zenon, <1>0, <1>b, <1>c, <2>1, <2>2 DEF delete, HeapType, Filled
<1>8. ASSUME NEW c \in Threads, pthread_create_impl(t, c)
      PROVE  CellsMatch'
  <2>1. PICK w \in Wrappers : w \notin live /\ cell' = [cell EXCEPT ![w] = NoCell]
    BY ZenonT(30), <1>8 DEF pthread_create_impl, new, NoCell
  <2>2. slot' = slot /\ UNCHANGED registered
    BY Zenon, <1>0, <1>8, CreateKeepsSlots
  <2> QED BY <1>0, <1>b, <1>c, <2>1, <2>2 DEF HeapType, Filled
<1>9. CASE \E d \in Dtors : pthread_key_create_impl(t, d)
  <2>1. UNCHANGED <<slot, cell>>
    BY Zenon, <1>9 DEF pthread_key_create_impl, heap
  <2>2. \A k \in Keys : /\ registered'[k] # Null
                        /\ registered[k] # Absent => registered'[k] = registered[k]
    <3>1. PICK d \in Dtors, j \in Keys :
            registered' = [registered EXCEPT ![j] = IF registered[j] = Absent THEN d ELSE registered[j]]
      BY ZenonT(30), <1>9 DEF pthread_key_create_impl
    <3>2. d # Null  BY Zenon, NullAssumption
    <3>3. \A k \in Keys : registered'[k] = registered[k]
                           \/ (k = j /\ registered[j] = Absent /\ registered'[k] = d)
      BY Zenon, <1>0, <3>1 DEF KeyType
    <3> QED BY Zenon, <1>a, <3>2, <3>3
  <2> QED BY Zenon, <1>a, <2>1, <2>2 DEF CellsMatch
<1>10. ASSUME NEW k \in hostkeys, setspecific_null(t, k)
       PROVE  CellsMatch'
  <2>1. /\ k \in Keys /\ slot[t][k] # Null /\ slot' = [slot EXCEPT ![t][k] = Null]
        /\ delete({slot[t][k]}) /\ UNCHANGED registered
    BY Zenon, <1>0, <1>10 DEF setspecific_null, KeyType, keys
  <2>2. \A u \in Threads, j \in Keys :
          slot'[u][j] # Null => slot'[u][j] = slot[u][j] /\ slot[u][j] # slot[t][k]
    <3>1. \A u \in Threads, j \in Keys : slot'[u][j] = IF u = t /\ j = k THEN Null ELSE slot[u][j]
      BY Zenon, <1>0, <2>1 DEF KeyType
    <3>2. \A u \in Threads, j \in Keys :
            slot[u][j] # Null /\ slot[u][j] = slot[t][k] => u = t /\ j = k
      BY Zenon, <1>0, <2>1, SlotApart
    <3> QED BY Zenon, <3>1, <3>2
  <2> QED BY <1>0, <1>b, <1>c, <2>1, <2>2 DEF delete, HeapType, Filled
<1>11. ASSUME NEW k \in hostkeys, NEW v \in Values, setspecific_new(t, k, v)
       PROVE  CellsMatch'
  <2>1. PICK w \in Wrappers :
          /\ w \notin live /\ cell' = [cell EXCEPT ![w] = [routine |-> registered[k], value |-> v]]
          /\ slot' = [slot EXCEPT ![t][k] = w]
    BY ZenonT(30), <1>11 DEF setspecific_new, new
  <2>2. k \in Keys /\ registered[k] # Absent /\ UNCHANGED registered
    BY Zenon, <1>0, <1>11 DEF setspecific_new, KeyType, keys
  <2>3. \A u \in Threads, j \in Keys : slot'[u][j] = IF u = t /\ j = k THEN w ELSE slot[u][j]
    BY Zenon, <1>0, <2>1, <2>2 DEF KeyType
  <2>4. cell'[w].routine = registered[k] /\ cell'[w].value = v /\ \A x \in live : cell'[x] = cell[x]
    BY Zenon, <1>0, <2>1 DEF HeapType
  <2>5. \A u \in Threads, j \in Keys :
          slot'[u][j] # Null => /\ registered'[j] # Absent
                                /\ cell'[slot'[u][j]].routine = registered'[j]
                                /\ cell'[slot'[u][j]].value # Null
    <3> SUFFICES ASSUME NEW u \in Threads, NEW j \in Keys, slot'[u][j] # Null
                 PROVE  /\ registered'[j] # Absent /\ cell'[slot'[u][j]].routine = registered'[j]
                        /\ cell'[slot'[u][j]].value # Null
      OBVIOUS
    <3>1. CASE u = t /\ j = k  BY Zenon, <2>2, <2>3, <2>4, <3>1, NullAssumption
    <3>2. CASE ~(u = t /\ j = k)
      <4>1. slot'[u][j] = slot[u][j] /\ slot[u][j] \in live  BY Zenon, <1>c, <2>3, <3>2
      <4>2. cell'[slot[u][j]] = cell[slot[u][j]]  BY Zenon, <2>4, <4>1
      <4>3. /\ registered[j] # Absent /\ cell[slot[u][j]].routine = registered[j]
            /\ cell[slot[u][j]].value # Null
        BY Zenon, <1>a, <4>1
      <4> QED BY Zenon, <2>2, <4>1, <4>2, <4>3
    <3> QED BY Zenon, <3>1, <3>2
  <2> QED BY Zenon, <1>a, <2>2, <2>5 DEF CellsMatch
<1>12. ASSUME NEW k \in hostkeys, NEW v \in Values, setspecific_update(t, k, v)
       PROVE  CellsMatch'
  <2>1. UNCHANGED <<registered, slot>> /\ cell' = [cell EXCEPT ![slot[t][k]].value = v]
    BY Zenon, <1>12 DEF setspecific_update, keys
  <2>2. \A x \in Wrappers : Filled(x)
    BY Zenon, <1>0, <2>1 DEF HeapType, Filled
  <2> QED BY Zenon, <1>0, <1>b, <1>c, <2>1, <2>2 DEF HeapType
<1> QED
  BY Zenon, <1>1, <1>3, <1>5, <1>6, <1>8, <1>9, <1>10, <1>11, <1>12 DEF DStep

------------------------------------------------------------------------------
(* The inductive invariant, and what follows from it.                      *)

LEMMA DisciplinedInit == Init => DisciplinedInv
<1> SUFFICES ASSUME Init PROVE DisciplinedInv
  OBVIOUS
<1>1. TypeOK /\ GuestHasContext
  BY Zenon, TypeInit, PoolInit DEF PoolInv
<1>2. LabelsMatch /\ CellsMatch /\ RefCountExact /\ NoUndefinedBehaviour
  BY Zenon, NullAssumption DEF Init, LabelsMatch, CellsMatch, RefCountExact, NoUndefinedBehaviour, NoSlots
<1>3. \A t \in Threads, i \in Refs : Ref(t, i) = Null
  BY Zenon, RefNow DEF Init, Ref, NoSlots
<1> QED BY Zenon, <1>1, <1>2, <1>3 DEF DisciplinedInv, WrappersOwnedOnce

LEMMA DisciplinedStep ==
  Counting /\ DisciplinedInv /\ [DisciplinedNext]_vars => DisciplinedInv'
<1> SUFFICES ASSUME Counting, DisciplinedInv, [DisciplinedNext]_vars PROVE DisciplinedInv'
  OBVIOUS
<1>0. [Next]_vars
  BY Zenon, DisciplinedIsNext
<1>1. TypeOK'
  BY Zenon, <1>0, TypeStep DEF DisciplinedInv
<1>2. NoUndefinedBehaviour'
  <2>1. CASE UNCHANGED vars
    BY Zenon, <2>1 DEF vars, DisciplinedInv, NoUndefinedBehaviour
  <2>2. ASSUME NEW t \in Threads, map_race(t) PROVE NoUndefinedBehaviour'
    BY Zenon, <2>2 DEF map_race, Crash, NoUndefinedBehaviour
  <2>3. ASSUME NEW t \in Threads, DStep(t) PROVE NoUndefinedBehaviour'
    BY Zenon, <2>3, NoFaultStep
  <2> QED BY Zenon, <2>1, <2>2, <2>3, DisciplinedCases
<1>3. CASE UNCHANGED vars \/ Crashes
  <2>1. UNCHANGED <<pc, initialized, processor_id, ref_count, start, live, cell, registered,
                    slot, dying>>
    BY Zenon, <1>3, CrashUnchanged
  <2>2. GuestHasContext' /\ LabelsMatch' /\ CellsMatch'
    BY Zenon, <2>1 DEF DisciplinedInv, GuestHasContext, Guest, LabelsMatch, CellsMatch
  <2>3. RefCountExact'
    BY Zenon, <2>1, CountSame DEF DisciplinedInv, RefCountExact
  <2>4. Keeps
    BY Zenon, <2>1 DEF Keeps, Ref
  <2>5. WrappersOwnedOnce'
    BY Zenon, <2>4, OwnedKeeps DEF DisciplinedInv
  <2> QED BY Zenon, <1>1, <1>2, <2>2, <2>3, <2>5 DEF DisciplinedInv
<1>4. ASSUME NEW t \in Threads, DStep(t), ~Crashes PROVE DisciplinedInv'
  <2>1. GuestHasContext'
    BY Zenon, <1>4, DStepIsStep, GuestStep DEF DisciplinedInv
  <2> QED
    BY Zenon, <1>1, <1>2, <1>4, <2>1, RefCountStep, LabelsStep, OwnedStep, CellsStep DEF DisciplinedInv
<1>5. ASSUME NEW t \in Threads, map_race(t) PROVE Crashes
  BY Zenon, <1>5 DEF map_race, Crashes, Faults
<1> QED BY Zenon, <1>3, <1>4, <1>5, DisciplinedCases

------------------------------------------------------------------------------
INSTANCE FiniteSetTheorems

LEMMA Counted == Counting
<1>1. ASSUME NEW D \in SUBSET Wrappers PROVE Cardinality(D) \in Nat
  BY Zenon, FiniteAssumption, FS_Subset, FS_CardinalityType
<1>2. IsFiniteSet(Keys)
  BY NumberAssumption, FS_Interval DEF Keys
<1>3. ASSUME NEW S \in SUBSET Keys
      PROVE  /\ Cardinality(S) \in Nat
             /\ Cardinality(S) = 0 <=> S = {}
             /\ \A k \in S : Cardinality(S \ {k}) = Cardinality(S) - 1
             /\ \A k \in Keys \ S : Cardinality(S \cup {k}) = Cardinality(S) + 1
  <2>1. IsFiniteSet(S)
    BY Zenon, <1>2, FS_Subset
  <2>2. Cardinality(S) \in Nat
    BY Zenon, <2>1, FS_CardinalityType
  <2>3. Cardinality(S) = 0 <=> S = {}
    BY Zenon, <2>1, FS_EmptySet
  <2>4. \A k \in S : Cardinality(S \ {k}) = Cardinality(S) - 1
    BY Zenon, <2>1, FS_RemoveElement
  <2>5. \A k \in Keys \ S : Cardinality(S \cup {k}) = Cardinality(S) + 1
    BY Zenon, <2>1, FS_AddElement
  <2> QED BY Zenon, <2>2, <2>3, <2>4, <2>5
<1> QED BY Zenon, <1>1, <1>3 DEF Counting

LEMMA TypeKept == TypeOK /\ [Next]_vars => TypeOK'
BY Zenon, Counted, TypeStep

LEMMA PoolKept == PoolInv /\ [Next]_vars => PoolInv'
BY Zenon, Counted, PoolStep

LEMMA DisciplinedKept == DisciplinedInv /\ [DisciplinedNext]_vars => DisciplinedInv'
BY Zenon, Counted, DisciplinedStep

------------------------------------------------------------------------------
(* What holds for every guest.                                             *)

(* Every variable keeps its type, whatever the guest does.                 *)
THEOREM TypeCorrect == Spec => []TypeOK
  BY TypeInit, TypeKept, PTL DEF Spec

(* Two contexts never share a processor id, not even while one of them is  *)
(* being torn down, and the pool marks exactly the ids that are held: for  *)
(* every guest, however it uses its keys.                                  *)
THEOREM PoolSafe == Spec => [](IdsExclusive /\ PoolExact /\ GuestHasContext)
<1>1. PoolInv => IdsExclusive /\ PoolExact /\ GuestHasContext
  BY Zenon DEF PoolInv
<1> QED BY <1>1, PoolInit, PoolKept, PTL DEF Spec

(* An id is marked as used exactly while a context has it, or its release  *)
(* is under way: none leaks, none is given out twice.                      *)
THEOREM PoolAccurate == Spec => []PoolExact
BY PoolSafe, PTL

(* A thread in guest code has an initialised context, whatever guests do.  *)
THEOREM GuestsHaveContexts == Spec => []GuestHasContext
BY PoolSafe, PTL

(* Whatever the guest does, the contexts use the pool as ProcessorIds      *)
(* promises: lowest free id, one owner, given back by the owner only, and  *)
(* no termination for want of an id while one is free.                     *)
THEOREM PoolImplemented == Spec => PoolSpec
<1>1. Init => Pool!Init
  BY Zenon, NullAssumption DEF Init, Pool!Init, Owner, Holding
<1> QED BY <1>1, PoolInit, PoolKept, PoolSimulates, PTL DEF Spec, PoolSpec, Pool!Spec

------------------------------------------------------------------------------
(* What holds for a guest that keeps its keys.                             *)

(* ref_count never drifts: it is what the thread still needs its context   *)
(* for, so execution_context_free comes exactly at the last use.           *)
THEOREM RefCountsExact == DisciplinedSpec => []RefCountExact
<1>1. DisciplinedInv => RefCountExact
  BY Zenon DEF DisciplinedInv
<1> QED BY <1>1, DisciplinedInit, DisciplinedKept, PTL DEF DisciplinedSpec

(* Every wrapper in use is allocated and has one owner; no assertion of a  *)
(* fiber fails, no freed wrapper is used, no null routine is run.          *)
THEOREM WrappersSafe == DisciplinedSpec => [](WrappersOwnedOnce /\ NoUndefinedBehaviour)
<1>1. DisciplinedInv => WrappersOwnedOnce /\ NoUndefinedBehaviour
  BY Zenon DEF DisciplinedInv
<1> QED BY <1>1, DisciplinedInit, DisciplinedKept, PTL DEF DisciplinedSpec

(* No step of such a guest is undefined but the race on the map, which has *)
(* no lock.                                                                *)
THEOREM NothingUndefined == DisciplinedSpec => []NoUndefinedBehaviour
BY WrappersSafe, PTL

(* A dead thread keeps a context exactly when destructors left it values.  *)
THEOREM ContextsReturned == DisciplinedSpec => []DeadReleasesContext
<1>1. DisciplinedInv => DeadReleasesContext
  <2> SUFFICES ASSUME DisciplinedInv, NEW t \in Threads, pc[t] = "dead"
               PROVE  initialized[t] <=> Slots(t) # {}
    BY Zenon DEF DeadReleasesContext
  <2>1. slot[t] = NoSlots <=> Slots(t) = {}
    BY Zenon, Counted, CountNone DEF DisciplinedInv
  <2>2. ~initialized[t] => Slots(t) = {}
    BY Zenon, <2>1 DEF DisciplinedInv, LabelsMatch
  <2>3. dying[t] = Null
    BY Zenon DEF DisciplinedInv, LabelsMatch
  <2>4. initialized[t] => Cardinality(Slots(t)) # 0
    <3>1. initialized[t] => ref_count[t] # 0  BY Zenon DEF DisciplinedInv, LabelsMatch
    <3>2. initialized[t] => ref_count[t] = 0 + Cardinality(Slots(t)) + 0
      BY Zenon, <2>3 DEF DisciplinedInv, RefCountExact
    <3>3. Cardinality(Slots(t)) \in Nat  BY Zenon, Counted, CountType
    <3> QED BY <3>1, <3>2, <3>3
  <2>5. Cardinality(Slots(t)) = 0 <=> Slots(t) = {}
    BY Zenon, Counted, CountNone DEF DisciplinedInv
  <2> QED BY Zenon, <2>2, <2>4, <2>5
<1> QED BY <1>1, DisciplinedInit, DisciplinedKept, PTL DEF DisciplinedSpec

(* execution_context_free never takes the context from a thread that has a *)
(* value, or a destructor, left to run.                                    *)
THEOREM FreedWhenDone == DisciplinedSpec => FreedOnlyWhenDone
<1> DEFINE Done == \A t \in Threads : initialized[t] /\ ~initialized'[t]
                                     => Slots(t) = {} /\ dying'[t] = Null
<1>1. DisciplinedInv /\ DisciplinedInv' /\ [DisciplinedNext]_vars => [Done]_vars
  <2> SUFFICES ASSUME DisciplinedInv, DisciplinedInv', DisciplinedNext,
                      NEW t \in Threads, initialized[t], ~initialized'[t]
               PROVE  Slots(t) = {} /\ dying'[t] = Null
    BY Zenon DEF vars
  <2>1. TypeOK /\ TypeOK' /\ LabelsMatch'
    BY Zenon DEF DisciplinedInv
  <2>2. slot'[t] = NoSlots /\ pc'[t] # "destroying"
    BY Zenon, <2>1 DEF LabelsMatch, DisciplinedInv, GuestHasContext, Guest
  <2>3. dying'[t] = Null
    BY Zenon, <2>1, <2>2 DEF LabelsMatch
  <2>4. PICK u \in Threads : key_destructor_leave(u) \/ thread_routine_return(u)
    <3>1. PICK u \in Threads : DStep(u) \/ map_race(u)
      BY Zenon, DisciplinedCases
    <3>2. initialized' # initialized
      OBVIOUS
    <3>3. ~execution_context_init(u)
      BY Zenon, <2>1 DEF execution_context_init, Crash, context, TypeOK, ContextType
    <3> QED
      BY ZenonT(30), <3>1, <3>2, <3>3 DEF DStep, map_race, Crash, release_processor_id, thread_routine_exit,
         deallocate_tsd, key_destructor_enter, pthread_create_impl, pthread_key_create_impl,
         setspecific_null, setspecific_new, setspecific_update, context
  <2>5. slot' = slot
    BY Zenon, <2>4 DEF key_destructor_leave, thread_routine_return, Crash
  <2> QED BY Zenon, <2>1, <2>2, <2>3, <2>5, Counted, CountNone
<1> QED
  BY <1>1, DisciplinedInit, DisciplinedKept, PTL DEF DisciplinedSpec, FreedOnlyWhenDone

(* The wrappers implement ThreadSpecificData: a guest reads what it last   *)
(* set, and each destructor call gets its own key's routine and value, for *)
(* any threads, keys and values (pthread_setspecific_impl,                 *)
(* pthread_getspecific_impl, pthread_key_create_impl).                     *)
THEOREM TsdImplemented == DisciplinedSpec => TsdSpec
<1>1. DisciplinedInv /\ [DisciplinedNext]_vars => [Tsd!Next]_(Tsd!tsd)
  BY Zenon, TsdSimulates
<1> QED BY <1>1, TsdStart, DisciplinedInit, DisciplinedKept, PTL DEF DisciplinedSpec, TsdSpec, Tsd!Spec
==============================================================================
