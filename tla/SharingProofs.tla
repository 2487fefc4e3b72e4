------------------------------ MODULE SharingProofs ------------------------------
(***************************************************************************)
(* Data that two sides work on, for any threads, addresses, values, blocks *)
(* and sizes: guest memory under exclusive accesses, the buffer between    *)
(* the mixer and the audio callback, and the list of arguments that the    *)
(* guest fills and a native function reads.  Each is a specification of    *)
(* its own.                                                                *)
(***************************************************************************)
EXTENDS ExclusiveMonitor, AudioDevice, VaList, TLAPS

(***************************************************************************)
(* Exclusive accesses.                                                     *)
(***************************************************************************)
(* The operands an access has at each of its steps, and the slot it marked. *)
Operands(t) ==
    /\ pc[t] # "guest" => id[t] # None /\ op[t].addr \in Addrs
    /\ pc[t] = "save" => op[t].val \in Values
    /\ pc[t] = "swap" => op[t].val \in Values /\ op[t].new \in Values /\ exclusive_state[t] = 0
    /\ pc[t] \in {"read", "save"} =>
          exclusive_state[t] = 1 /\ exclusive_addresses[id[t]] = op[t].addr

Exact(t) ==
    id[t] # None =>
        /\ pc[t] = "guest" /\ exclusive_state[t] = 1 /\ exclusive_addresses[id[t]] # None =>
              link[t] = [addr |-> exclusive_addresses[id[t]], val |-> exclusive_values[id[t]]]
        /\ pc[t] \in {"save", "swap"} => link[t] = [addr |-> op[t].addr, val |-> op[t].val]

Distinct(t, u) == id[t] # None => id[t] # id[u]

Alone(t) ==
    Locking =>
        /\ lock = t <=> pc[t] # "guest"
        /\ pc[t] = "swap" => \A i \in Ids \ {id[t]} : exclusive_addresses[i] # op[t].addr

MonitorInv ==
    /\ TypeOK
    /\ \A t \in Threads : Operands(t) /\ Exact(t) /\ Alone(t)
    /\ \A t, u \in Threads : t # u => Distinct(t, u)

OpType == [addr : Addrs \cup {None}, val : Values \cup {None}, new : Values \cup {None}]

LEMMA Nulls ==
  /\ None \notin Threads /\ None \notin Ids /\ None \notin Addrs /\ None \notin Values
  /\ None \notin Links /\ NoOp \in OpType
<1>1. None \notin Threads /\ None \notin Ids /\ None \notin Addrs /\ None \notin Values
  BY Zenon, MonitorAssumption
<1>2. None \notin Links  BY Zenon, MonitorAssumption DEF Links
<1> QED BY Zenon, <1>1, <1>2 DEF NoOp, OpType

LEMMA MonitorInit == Init => MonitorInv
<1> SUFFICES ASSUME Init PROVE MonitorInv  OBVIOUS
<1>1. TypeOK  BY Zenon, Nulls DEF Init, TypeOK, OpType
<1>2. ASSUME NEW t \in Threads PROVE Operands(t) /\ Exact(t) /\ Alone(t)
  BY Zenon, Nulls DEF Init, Operands, Exact, Alone
<1>3. ASSUME NEW t \in Threads, NEW u \in Threads PROVE Distinct(t, u)
  BY Zenon DEF Init, Distinct
<1> QED BY Zenon, <1>1, <1>2, <1>3 DEF MonitorInv

LEMMA InitContext ==
  ASSUME MonitorInv, NEW t \in Threads, execution_context_init(t) PROVE MonitorInv'
<1> USE DEF execution_context_init, monitor
<1>1. PICK i \in Ids \ {id[u] : u \in Threads} : id' = [id EXCEPT ![t] = i]
  BY Zenon
<1>2. /\ id \in [Threads -> Ids \cup {None}] /\ exclusive_state \in [Threads -> {0, 1}]
      /\ pc[t] = "guest" /\ id[t] = None
  BY Zenon DEF MonitorInv, TypeOK, Operands
<1>3. TypeOK'  BY Zenon, <1>1, <1>2 DEF MonitorInv, TypeOK
<1>4. ASSUME NEW u \in Threads PROVE Operands(u)' /\ Exact(u)' /\ Alone(u)'
  <2>1. Operands(u) /\ Exact(u) /\ Alone(u)  BY Zenon DEF MonitorInv
  <2>2. /\ pc'[u] = pc[u] /\ op'[u] = op[u] /\ lock' = lock /\ link'[u] = link[u]
        /\ exclusive_addresses' = exclusive_addresses /\ exclusive_values' = exclusive_values
        /\ u # t => id'[u] = id[u] /\ exclusive_state'[u] = exclusive_state[u]
        /\ u = t => exclusive_state'[u] = 0 /\ pc[u] = "guest"
    BY Zenon, <1>1, <1>2
  <2>3. CASE u = t  BY <2>1, <2>2, <2>3 DEF Operands, Exact, Alone
  <2>4. CASE u # t  BY Zenon, <2>1, <2>2, <2>4 DEF Operands, Exact, Alone
  <2> QED BY Zenon, <2>3, <2>4
<1>5. ASSUME NEW u \in Threads, NEW w \in Threads, u # w PROVE Distinct(u, w)'
  <2>1. i # None /\ i # id[u] /\ i # id[w]  BY Zenon, <1>1, Nulls
  <2>2. Distinct(u, w)  BY Zenon, <1>5 DEF MonitorInv
  <2> QED BY Zenon, <1>1, <1>2, <1>5, <2>1, <2>2 DEF Distinct
<1> QED BY Zenon, <1>3, <1>4, <1>5 DEF MonitorInv

LEMMA FreeContext ==
  ASSUME MonitorInv, NEW t \in Threads, free_execution_context(t) PROVE MonitorInv'
<1> USE DEF free_execution_context, monitor, InGuest
<1>1. /\ id \in [Threads -> Ids \cup {None}] /\ link \in [Threads -> Links \cup {None}]
      /\ pc[t] = "guest"
  BY Zenon DEF MonitorInv, TypeOK
<1>2. TypeOK'  BY Zenon, <1>1 DEF MonitorInv, TypeOK
<1>3. ASSUME NEW u \in Threads PROVE Operands(u)' /\ Exact(u)' /\ Alone(u)'
  BY Zenon, <1>1 DEF MonitorInv, Operands, Exact, Alone
<1>4. ASSUME NEW u \in Threads, NEW w \in Threads, u # w PROVE Distinct(u, w)'
  BY Zenon, <1>1, <1>4 DEF MonitorInv, Distinct
<1> QED BY Zenon, <1>2, <1>3, <1>4 DEF MonitorInv

LEMMA ClearExclusive ==
  ASSUME MonitorInv, NEW t \in Threads, clear_exclusive(t) PROVE MonitorInv'
<1> USE DEF clear_exclusive, monitor, InGuest
<1>1. /\ exclusive_state \in [Threads -> {0, 1}] /\ link \in [Threads -> Links \cup {None}]
      /\ pc[t] = "guest"
  BY Zenon DEF MonitorInv, TypeOK
<1>2. TypeOK'  BY Zenon, <1>1 DEF MonitorInv, TypeOK
<1>3. ASSUME NEW u \in Threads PROVE Operands(u)' /\ Exact(u)' /\ Alone(u)'
  BY <1>1 DEF MonitorInv, Operands, Exact, Alone
<1>4. ASSUME NEW u \in Threads, NEW w \in Threads, u # w PROVE Distinct(u, w)'
  BY Zenon, <1>4 DEF MonitorInv, Distinct
<1> QED BY Zenon, <1>2, <1>3, <1>4 DEF MonitorInv

LEMMA PlainStore ==
  ASSUME MonitorInv, NEW t \in Threads, NEW a \in Addrs, NEW v \in Values, store(t, a, v)
  PROVE  MonitorInv'
<1> USE DEF store, monitor
<1>1. TypeOK'  BY Zenon DEF MonitorInv, TypeOK
<1>2. ASSUME NEW u \in Threads PROVE Operands(u)' /\ Exact(u)' /\ Alone(u)'
  BY Zenon DEF MonitorInv, Operands, Exact, Alone
<1>3. ASSUME NEW u \in Threads, NEW w \in Threads, u # w PROVE Distinct(u, w)'
  BY Zenon, <1>3 DEF MonitorInv, Distinct
<1> QED BY Zenon, <1>1, <1>2, <1>3 DEF MonitorInv

LEMMA LoadMarks ==
  ASSUME MonitorInv, NEW t \in Threads, NEW a \in Addrs, ldxr_mark(t, a) PROVE MonitorInv'
<1> USE DEF ldxr_mark, InGuest
<1>1. /\ id \in [Threads -> Ids \cup {None}] /\ exclusive_state \in [Threads -> {0, 1}]
      /\ pc \in [Threads -> {"guest", "read", "save", "swap"}] /\ op \in [Threads -> OpType]
      /\ exclusive_addresses \in [Ids -> Addrs \cup {None}] /\ id[t] \in Ids
  BY Zenon DEF MonitorInv, TypeOK, OpType
<1>2. lock' \in Threads \cup {None} /\ (Locking => lock = None /\ lock' = t)
  BY Zenon DEF EmitExclusiveLock, MonitorInv, TypeOK
<1>3. [NoOp EXCEPT !.addr = a] \in OpType /\ [NoOp EXCEPT !.addr = a].addr = a
  BY Zenon DEF NoOp, OpType
<1>4. op' \in [Threads -> OpType] /\ op'[t].addr = a /\ \A u \in Threads \ {t} : op'[u] = op[u]
  BY Zenon, <1>1, <1>3
<1>5. TypeOK'  BY Zenon, <1>1, <1>2, <1>4 DEF MonitorInv, TypeOK, OpType
<1>6. Operands(t)' /\ Exact(t)' /\ Alone(t)'
  BY Zenon, <1>1, <1>2, <1>4 DEF Operands, Exact, Alone
<1>7. ASSUME NEW u \in Threads \ {t} PROVE Operands(u)' /\ Exact(u)' /\ Alone(u)'
  <2>1. Operands(u) /\ Exact(u) /\ Alone(u) /\ Distinct(t, u)  BY Zenon DEF MonitorInv
  <2>2. /\ id'[u] = id[u] /\ pc'[u] = pc[u] /\ exclusive_state'[u] = exclusive_state[u]
        /\ id[u] # None => exclusive_addresses'[id'[u]] = exclusive_addresses[id[u]]
    BY Zenon, <1>1, <2>1 DEF Distinct
  <2>3. Operands(u)' /\ Exact(u)'  BY Zenon, <1>4, <2>1, <2>2 DEF Operands, Exact
  <2>4. Alone(u)'  BY <1>1, <1>2, <2>1, <2>2, Nulls DEF Alone
  <2> QED BY Zenon, <2>3, <2>4
<1>8. ASSUME NEW u \in Threads, NEW w \in Threads, u # w PROVE Distinct(u, w)'
  BY Zenon, <1>8 DEF MonitorInv, Distinct
<1> QED BY Zenon, <1>5, <1>6, <1>7, <1>8 DEF MonitorInv

LEMMA LoadReads ==
  ASSUME MonitorInv, NEW t \in Threads, ldxr_read(t) PROVE MonitorInv'
<1> USE DEF ldxr_read, monitor
<1>1. /\ pc \in [Threads -> {"guest", "read", "save", "swap"}] /\ op \in [Threads -> OpType]
      /\ link \in [Threads -> Links \cup {None}] /\ mem \in [Addrs -> Values]
      /\ Operands(t) /\ Alone(t)
  BY Zenon DEF MonitorInv, TypeOK, OpType
<1> DEFINE a == op[t].addr
<1>2. a \in Addrs /\ mem[a] \in Values  BY Zenon, <1>1 DEF Operands
<1>3. op'[t] = [addr |-> a, val |-> mem[a], new |-> op[t].new]  BY Zenon, <1>1 DEF OpType
<1>4. op' \in [Threads -> OpType] /\ \A u \in Threads \ {t} : op'[u] = op[u]
  <2>1. [op[t] EXCEPT !.val = mem[a]] \in OpType  BY Zenon, <1>1, <1>2 DEF OpType
  <2> QED BY Zenon, <1>1, <2>1
<1>5. [addr |-> a, val |-> mem[a]] \in Links  BY Zenon, <1>2 DEF Links
<1>6. TypeOK'  BY Zenon, <1>1, <1>4, <1>5 DEF MonitorInv, TypeOK, OpType
<1>7. Operands(t)' /\ Exact(t)' /\ Alone(t)'
  BY Zenon, <1>1, <1>2, <1>3 DEF Operands, Exact, Alone
<1>8. ASSUME NEW u \in Threads \ {t} PROVE Operands(u)' /\ Exact(u)' /\ Alone(u)'
  <2>1. Operands(u) /\ Exact(u) /\ Alone(u)  BY Zenon DEF MonitorInv
  <2>2. pc'[u] = pc[u] /\ op'[u] = op[u] /\ link'[u] = link[u]  BY Zenon, <1>1, <1>4
  <2> QED BY Zenon, <2>1, <2>2 DEF Operands, Exact, Alone
<1>9. ASSUME NEW u \in Threads, NEW w \in Threads, u # w PROVE Distinct(u, w)'
  BY Zenon, <1>9 DEF MonitorInv, Distinct
<1> QED BY Zenon, <1>6, <1>7, <1>8, <1>9 DEF MonitorInv

(* What the end of an access does to the lock and to the operands. *)
LEMMA AccessEnds ==
  ASSUME MonitorInv, NEW t \in Threads, pc[t] # "guest", EmitExclusiveUnlock,
         op' = [op EXCEPT ![t] = NoOp], pc' = [pc EXCEPT ![t] = "guest"]
  PROVE  /\ op' \in [Threads -> OpType] /\ lock' \in Threads \cup {None}
         /\ pc' \in [Threads -> {"guest", "read", "save", "swap"}] /\ pc'[t] = "guest"
         /\ \A u \in Threads \ {t} :
               /\ op'[u] = op[u] /\ pc'[u] = pc[u]
               /\ Locking => pc[u] = "guest"
         /\ Locking => lock' = None
<1>1. /\ pc \in [Threads -> {"guest", "read", "save", "swap"}] /\ op \in [Threads -> OpType]
      /\ lock \in Threads \cup {None}
  BY Zenon DEF MonitorInv, TypeOK, OpType
<1>2. ASSUME NEW u \in Threads \ {t}, Locking PROVE pc[u] = "guest"
  BY Zenon, <1>2 DEF MonitorInv, Alone
<1>3. lock' \in Threads \cup {None} /\ (Locking => lock' = None)
  BY Zenon, <1>1 DEF EmitExclusiveUnlock
<1> QED BY Zenon, <1>1, <1>2, <1>3, Nulls

LEMMA LoadSaves ==
  ASSUME MonitorInv, NEW t \in Threads, ldxr_save(t) PROVE MonitorInv'
<1> USE DEF ldxr_save
<1>1. /\ id \in [Threads -> Ids \cup {None}] /\ exclusive_values \in [Ids -> Values]
      /\ Operands(t) /\ Exact(t) /\ exclusive_addresses \in [Ids -> Addrs \cup {None}]
  BY Zenon DEF MonitorInv, TypeOK
<1>2. id[t] \in Ids /\ op[t].val \in Values  BY Zenon, <1>1 DEF Operands
<1>3. /\ op' \in [Threads -> OpType] /\ lock' \in Threads \cup {None}
      /\ pc' \in [Threads -> {"guest", "read", "save", "swap"}] /\ pc'[t] = "guest"
      /\ \A u \in Threads \ {t} : op'[u] = op[u] /\ pc'[u] = pc[u] /\ (Locking => pc[u] = "guest")
      /\ Locking => lock' = None
  BY Zenon, AccessEnds
<1>4. TypeOK'  BY Zenon, <1>1, <1>2, <1>3 DEF MonitorInv, TypeOK, OpType
<1>5. Operands(t)' /\ Exact(t)' /\ Alone(t)'
  BY <1>1, <1>2, <1>3, Nulls DEF Operands, Exact, Alone
<1>6. ASSUME NEW u \in Threads \ {t} PROVE Operands(u)' /\ Exact(u)' /\ Alone(u)'
  <2>1. Operands(u) /\ Exact(u) /\ Alone(u) /\ Distinct(t, u)  BY Zenon DEF MonitorInv
  <2>2. id[u] # None => exclusive_values'[id[u]] = exclusive_values[id[u]]
    BY Zenon, <1>1, <1>2, <2>1 DEF Distinct
  <2>3. Operands(u)' /\ Exact(u)'  BY <1>3, <2>1, <2>2 DEF Operands, Exact
  <2>4. Alone(u)'  BY <1>3, <2>1, Nulls DEF Alone
  <2> QED BY Zenon, <2>3, <2>4
<1>7. ASSUME NEW u \in Threads, NEW w \in Threads, u # w PROVE Distinct(u, w)'
  BY Zenon, <1>7 DEF MonitorInv, Distinct
<1> QED BY Zenon, <1>4, <1>5, <1>6, <1>7 DEF MonitorInv

LEMMA StoreFails ==
  ASSUME MonitorInv, NEW t \in Threads, NEW a \in Addrs, stxr_fail(t, a) PROVE MonitorInv'
<1> USE DEF stxr_fail, monitor, InGuest
<1>1. /\ exclusive_state \in [Threads -> {0, 1}] /\ status \in [Threads -> {0, 1}]
  BY Zenon DEF MonitorInv, TypeOK
<1>2. exclusive_state'[t] \in {exclusive_state[t], 0}
  BY Zenon, <1>1
<1>3. TypeOK'  BY Zenon, <1>1 DEF MonitorInv, TypeOK
<1>4. Operands(t)' /\ Exact(t)' /\ Alone(t)'
  BY <1>2 DEF MonitorInv, Operands, Exact, Alone
<1>5. ASSUME NEW u \in Threads \ {t} PROVE Operands(u)' /\ Exact(u)' /\ Alone(u)'
  BY Zenon, <1>1 DEF MonitorInv, Operands, Exact, Alone
<1>6. ASSUME NEW u \in Threads, NEW w \in Threads, u # w PROVE Distinct(u, w)'
  BY Zenon, <1>6 DEF MonitorInv, Distinct
<1> QED BY Zenon, <1>3, <1>4, <1>5, <1>6 DEF MonitorInv

LEMMA StoreTests ==
  ASSUME MonitorInv, NEW t \in Threads, NEW a \in Addrs, NEW v \in Values, stxr_test(t, a, v)
  PROVE  MonitorInv'
<1> USE DEF stxr_test, InGuest
<1>1. /\ id \in [Threads -> Ids \cup {None}] /\ exclusive_state \in [Threads -> {0, 1}]
      /\ pc \in [Threads -> {"guest", "read", "save", "swap"}] /\ op \in [Threads -> OpType]
      /\ exclusive_addresses \in [Ids -> Addrs \cup {None}] /\ exclusive_values \in [Ids -> Values]
      /\ id[t] \in Ids /\ Exact(t)
  BY Zenon DEF MonitorInv, TypeOK, OpType
<1>2. lock' \in Threads \cup {None} /\ (Locking => lock = None /\ lock' = t)
  BY Zenon DEF EmitExclusiveLock, MonitorInv, TypeOK
<1>3. op'[t] = [addr |-> a, val |-> exclusive_values[id[t]], new |-> v]
  BY Zenon, <1>1
<1>4. op' \in [Threads -> OpType] /\ \A u \in Threads \ {t} : op'[u] = op[u]
  BY Zenon, <1>1 DEF OpType
<1>5. link[t] = [addr |-> a, val |-> exclusive_values[id[t]]]
  BY Zenon, <1>1, Nulls DEF Reserved, Exact
<1>6. \A i \in Ids : /\ exclusive_addresses'[i] \in {exclusive_addresses[i], None}
                     /\ Locking /\ i # id[t] => exclusive_addresses'[i] # a
                     /\ ~Locking => exclusive_addresses'[i] = exclusive_addresses[i]
  BY Zenon, Nulls DEF Dropped
<1>7. TypeOK'  BY Zenon, <1>1, <1>2, <1>4 DEF MonitorInv, TypeOK, OpType
<1>8. Operands(t)' /\ Exact(t)' /\ Alone(t)'
  <2>1. /\ pc'[t] = "swap" /\ exclusive_state'[t] = 0 /\ id'[t] = id[t] /\ id[t] # None
        /\ link'[t] = link[t] /\ exclusive_values[id[t]] \in Values
    BY Zenon, <1>1, Nulls
  <2>2. Operands(t)'  BY <1>3, <2>1 DEF Operands
  <2>3. Exact(t)'  BY <1>3, <1>5, <2>1 DEF Exact
  <2>4. Alone(t)'
    BY <1>2, <1>3, <1>6, <2>1 DEF Alone
  <2> QED BY Zenon, <2>2, <2>3, <2>4
<1>9. ASSUME NEW u \in Threads \ {t} PROVE Operands(u)' /\ Exact(u)' /\ Alone(u)'
  <2>1. Operands(u) /\ Exact(u) /\ Alone(u)  BY Zenon DEF MonitorInv
  <2>2. /\ pc'[u] = pc[u] /\ op'[u] = op[u] /\ id'[u] = id[u]
        /\ exclusive_state'[u] = exclusive_state[u] /\ link'[u] = link[u]
        /\ Locking => pc[u] = "guest" /\ lock' # u
    BY <1>1, <1>2, <1>4, <2>1, Nulls DEF Alone
  <2>3. id[u] # None => id[u] \in Ids  BY Zenon, <1>1
  <2>4. id[u] # None => /\ exclusive_addresses'[id[u]] \in {exclusive_addresses[id[u]], None}
                        /\ ~Locking => exclusive_addresses'[id[u]] = exclusive_addresses[id[u]]
    BY Zenon, <1>6, <2>3
  <2>5. Operands(u)'  BY Zenon, <2>1, <2>2, <2>4 DEF Operands
  <2>6. Exact(u)'  BY Zenon, <2>1, <2>2, <2>4 DEF Exact
  <2>7. Alone(u)'
    <3>1. CASE Locking  BY Zenon, <2>2, <3>1 DEF Alone
    <3>2. CASE ~Locking  BY Zenon, <3>2 DEF Alone
    <3> QED BY Zenon, <3>1, <3>2
  <2> QED BY Zenon, <2>5, <2>6, <2>7
<1>10. ASSUME NEW u \in Threads, NEW w \in Threads, u # w PROVE Distinct(u, w)'
  BY Zenon, <1>10 DEF MonitorInv, Distinct
<1> QED BY Zenon, <1>7, <1>8, <1>9, <1>10 DEF MonitorInv

LEMMA StoreSwaps ==
  ASSUME MonitorInv, NEW t \in Threads, stxr_swap(t) PROVE MonitorInv'
<1> USE DEF stxr_swap, monitor
<1>1. /\ id \in [Threads -> Ids \cup {None}] /\ link \in [Threads -> Links \cup {None}]
      /\ mem \in [Addrs -> Values] /\ status \in [Threads -> {0, 1}]
      /\ Operands(t) /\ Exact(t) /\ Alone(t)
  BY Zenon DEF MonitorInv, TypeOK
<1>2. id[t] \in Ids /\ op[t].addr \in Addrs /\ op[t].new \in Values  BY Zenon, <1>1 DEF Operands
<1>3. /\ op' \in [Threads -> OpType] /\ lock' \in Threads \cup {None}
      /\ pc' \in [Threads -> {"guest", "read", "save", "swap"}] /\ pc'[t] = "guest"
      /\ \A u \in Threads \ {t} : op'[u] = op[u] /\ pc'[u] = pc[u] /\ (Locking => pc[u] = "guest")
      /\ Locking => lock' = None
  BY Zenon, AccessEnds
<1>4. mem' \in [Addrs -> Values] /\ status' \in [Threads -> {0, 1}]
  BY Zenon, <1>1, <1>2
<1>5. link' \in [Threads -> Links \cup {None}]
  BY Zenon, <1>1
<1>6. TypeOK'  BY Zenon, <1>3, <1>4, <1>5 DEF MonitorInv, TypeOK, OpType
<1>7. Operands(t)' /\ Exact(t)' /\ Alone(t)'
  <2>1. exclusive_state'[t] = 0  BY Zenon, <1>1 DEF Operands
  <2> QED BY <1>3, <2>1, Nulls DEF Operands, Exact, Alone
<1>8. ASSUME NEW u \in Threads \ {t} PROVE Operands(u)' /\ Exact(u)' /\ Alone(u)'
  <2>1. Operands(u) /\ Exact(u) /\ Alone(u) /\ Distinct(t, u)  BY Zenon DEF MonitorInv
  <2>2. Operands(u)'  BY Zenon, <1>3, <2>1 DEF Operands
  <2>3. Alone(u)'  BY <1>3, <2>1, Nulls DEF Alone
  <2>4. CASE link'[u] = link[u]  BY Zenon, <1>3, <2>1, <2>2, <2>3, <2>4 DEF Exact
  <2>5. CASE link'[u] # link[u]
    <3>1. Locking /\ link[u] # None /\ link[u].addr = op[t].addr
      BY Zenon, <2>5 DEF Ended
    <3>2. id[u] # None => exclusive_addresses[id[u]] # op[t].addr
      BY Zenon, <1>1, <2>1, <3>1 DEF Alone, Distinct
    <3>3. pc'[u] = "guest" /\ pc[u] = "guest"  BY Zenon, <1>3, <3>1
    <3>4. ~(id[u] # None /\ exclusive_state[u] = 1 /\ exclusive_addresses[id[u]] # None)
      BY <2>1, <3>1, <3>2, <3>3 DEF Exact
    <3> QED BY Zenon, <2>2, <2>3, <3>3, <3>4 DEF Exact
  <2> QED BY Zenon, <2>2, <2>3, <2>4, <2>5
<1>9. ASSUME NEW u \in Threads, NEW w \in Threads, u # w PROVE Distinct(u, w)'
  BY Zenon, <1>9 DEF MonitorInv, Distinct
<1> QED BY Zenon, <1>6, <1>7, <1>8, <1>9 DEF MonitorInv

LEMMA MonitorStep == MonitorInv /\ [Next]_vars => MonitorInv'
<1> SUFFICES ASSUME MonitorInv, [Next]_vars PROVE MonitorInv'  OBVIOUS
<1>1. CASE Next
  BY Zenon, <1>1, InitContext, FreeContext, ClearExclusive, PlainStore, LoadMarks, LoadReads, LoadSaves,
     StoreFails, StoreTests, StoreSwaps DEF Next, Access
<1>2. CASE UNCHANGED vars
  <2> USE <1>2 DEF vars
  <2>1. TypeOK'  BY Zenon DEF MonitorInv, TypeOK
  <2>2. ASSUME NEW u \in Threads PROVE Operands(u)' /\ Exact(u)' /\ Alone(u)'
    BY Zenon DEF MonitorInv, Operands, Exact, Alone
  <2>3. ASSUME NEW u \in Threads, NEW w \in Threads, u # w PROVE Distinct(u, w)'
    BY Zenon, <2>3 DEF MonitorInv, Distinct
  <2> QED BY Zenon, <2>1, <2>2, <2>3 DEF MonitorInv
<1> QED BY Zenon, <1>1, <1>2

(* The slots are exact and the lock excludes, in every state: what a       *)
(* store-exclusive compares with is what its own load-exclusive returned,  *)
(* and nobody else has a reservation of the address while it swaps.        *)
THEOREM ReservationsExact == Spec => [](TypeOK /\ ReservationExact /\ MonitorHeld)
<1>1. MonitorInv => TypeOK /\ ReservationExact /\ MonitorHeld
  BY Zenon DEF MonitorInv, ReservationExact, MonitorHeld, Exact, Alone
<1> QED BY <1>1, MonitorInit, MonitorStep, PTL DEF Spec

(* The monitor's lock is held by the one thread that is inside an access.  *)
THEOREM LockExcludes == Spec => []MonitorHeld
BY ReservationsExact, PTL

(* The emitted accesses implement the memory the guest is promised: every  *)
(* step is a step of AtomicMemory or leaves its variables alone.           *)
THEOREM AccessesAtomic == Spec => AtomicAccesses
<1>1. Init => Promised!Init
  BY Zenon DEF Init, Promised!Init
<1>2. ASSUME MonitorInv, [Next]_vars PROVE [Promised!Next]_(Promised!vars)
  <2> SUFFICES ASSUME Next, UNCHANGED <<mem, link>> => FALSE PROVE Promised!Next
    BY Zenon, <1>2 DEF vars, Promised!vars
  <2>1. PICK t \in Threads :
          \/ execution_context_init(t) \/ free_execution_context(t) \/ clear_exclusive(t)
          \/ Access(t)
          \/ \E a \in Addrs : ldxr_mark(t, a) \/ stxr_fail(t, a)
          \/ \E a \in Addrs, v \in Values : stxr_test(t, a, v) \/ store(t, a, v)
    BY Zenon DEF Next
  <2>2. \/ free_execution_context(t) \/ clear_exclusive(t) \/ ldxr_read(t) \/ stxr_swap(t)
        \/ \E a \in Addrs, v \in Values : store(t, a, v)
    BY Zenon, <2>1 DEF execution_context_init, Access, ldxr_mark, stxr_fail, stxr_test, ldxr_save
  <2>3. Operands(t) /\ Exact(t)  BY Zenon, <1>2 DEF MonitorInv
  <2>4. CASE free_execution_context(t) \/ clear_exclusive(t)
    BY Zenon, <2>4 DEF free_execution_context, clear_exclusive, Promised!Next, Promised!Break
  <2>5. CASE ldxr_read(t)
    BY Zenon, <2>3, <2>5 DEF ldxr_read, Operands, Promised!Next, Promised!LoadExclusive
  <2>6. CASE stxr_swap(t)
    <3>1. /\ mem[op[t].addr] = op[t].val
          /\ mem' = [mem EXCEPT ![op[t].addr] = op[t].new]
          /\ link' = [u \in Threads |-> IF u \in Ended(t, op[t].addr) THEN None ELSE link[u]]
      BY Zenon, <2>6 DEF stxr_swap
    <3>2. /\ op[t].addr \in Addrs /\ op[t].new \in Values
          /\ link[t] = [addr |-> op[t].addr, val |-> op[t].val] /\ link[t] # None
      <4>1. id[t] # None /\ pc[t] = "swap"  BY Zenon, <2>3, <2>6 DEF stxr_swap, Operands
      <4>2. op[t].addr \in Addrs /\ op[t].new \in Values /\ op[t].val \in Values
        BY Zenon, <2>3, <4>1 DEF Operands
      <4>3. link[t] = [addr |-> op[t].addr, val |-> op[t].val]  BY Zenon, <2>3, <4>1 DEF Exact
      <4> QED BY <4>2, <4>3, Nulls DEF Links
    <3>3. ASSUME NEW u \in Threads
          PROVE  u \in Ended(t, op[t].addr) <=>
                   u = t \/ (Locking /\ Promised!Linked(u, op[t].addr))
      BY Zenon DEF Ended, Promised!Linked
    <3>4. Promised!StoreExclusive(t, op[t].addr, op[t].new)
      BY <3>1, <3>2, <3>3 DEF Promised!StoreExclusive, Promised!Linked
    <3> QED BY Zenon, <3>2, <3>4 DEF Promised!Next
  <2>7. CASE \E a \in Addrs, v \in Values : store(t, a, v)
    BY Zenon, <2>7 DEF store, Promised!Next, Promised!Store
  <2> QED BY Zenon, <2>2, <2>4, <2>5, <2>6, <2>7
<1> QED BY <1>1, <1>2, MonitorInit, MonitorStep, PTL DEF Spec, AtomicAccesses, Promised!Spec

(***************************************************************************)
(* The audio device.  The mutex is with the thread that is inside, and     *)
(* each half of a buffer has the block that its place says.                *)
(***************************************************************************)
Pairs == [1 .. 2 -> 0 .. MaxBlocks]

Typed ==
    /\ audio_device \in {"closed", "paused", "playing", "gone"}
    /\ audio_mutex \in {"free", "callback", "writer"}
    /\ audio_buffer \in Pairs /\ stream \in Pairs /\ played \in Pairs /\ before \in Pairs
    /\ callback \in {"out", "first", "second", "notify"}
    /\ writer \in {"out", "first", "second", "waiting", "wait", "woken"}
    /\ block \in 0 .. MaxBlocks /\ spurious \in BOOLEAN

(* The mutex is with the thread that is inside. *)
Locked ==
    /\ audio_mutex = "writer" <=> writer \in {"first", "second", "waiting"}
    /\ audio_mutex = "callback" <=> callback \in {"first", "second"}

(* Which block is in which half. *)
Halves ==
    /\ writer \notin {"first", "second"} => audio_buffer[1] = block /\ audio_buffer[2] = block
    /\ writer = "first" => audio_buffer[1] = block - 1 /\ audio_buffer[2] = block - 1
    /\ writer = "second" => audio_buffer[1] = block /\ audio_buffer[2] = block - 1
    /\ callback = "second" => stream[1] = audio_buffer[1]
    /\ callback = "notify" => stream[1] = stream[2]
    /\ BlocksWhole

AudioInv == Typed /\ Locked /\ Halves

LEMMA AudioStart == AudioInit => AudioInv
<1> SUFFICES ASSUME AudioInit PROVE AudioInv
    OBVIOUS
<1>1. spurious \in BOOLEAN
    BY Zenon DEF AudioInit
<1>2. Typed
    BY <1>1, AudioAssumption DEF AudioInit, Typed, Pairs
<1>3. Locked /\ Halves
    BY Zenon, AudioAssumption DEF AudioInit, Locked, Halves, BlocksWhole
<1> QED
    BY Zenon, <1>2, <1>3 DEF AudioInv

LEMMA AudioSteps == AudioInv /\ [AudioNext]_audio => AudioInv'
<1> SUFFICES ASSUME AudioInv, [AudioNext]_audio PROVE AudioInv'
    OBVIOUS
<1> USE AudioAssumption DEF AudioInv, Typed, Locked, Halves, BlocksWhole, Pairs, writing, playing
<1>1. CASE audio_interface_init \/ SDL_PauseAudioDevice \/ audio_interface_close
    BY Zenon, <1>1 DEF audio_interface_init, SDL_PauseAudioDevice, audio_interface_close
<1>2. CASE callback_lock
    BY Zenon, <1>2 DEF callback_lock
<1>3. CASE callback_copy
    BY <1>3 DEF callback_copy
<1>4. CASE callback_notify
    BY Zenon, <1>4 DEF callback_notify
<1>5. CASE write_lock
    BY <1>5 DEF write_lock
<1>6. CASE write_copy
    BY <1>6 DEF write_copy
<1>7. CASE write_wait
    BY Zenon, <1>7 DEF write_wait
<1>8. CASE write_return \/ spurious_wakeup
    BY Zenon, <1>8 DEF write_return, spurious_wakeup
<1>9. CASE UNCHANGED audio
    BY Zenon, <1>9 DEF audio
<1> QED
    BY Zenon, <1>1, <1>2, <1>3, <1>4, <1>5, <1>6, <1>7, <1>8, <1>9 DEF AudioNext, Callback, Write

(* How far the mixer can be ahead of the block that was copied last: one   *)
(* block while the notification is on its way, two after it, and then it   *)
(* waits.                                                                  *)
Filling == {"first", "second", "waiting", "wait"}
Ahead == ~spurious =>
    /\ callback = "notify" =>
          /\ block = stream[1] \/ (block = stream[1] + 1 /\ writer \in Filling)
          /\ stream[1] \in played[1] .. played[1] + 2
    /\ callback # "notify" =>
          block \in played[1] .. played[1] + 1 \/ (block = played[1] + 2 /\ writer \in Filling)
    /\ AtMostOneLost

LEMMA AheadSteps ==
    ASSUME AudioInv, Ahead, [AudioNext]_audio
    PROVE  Ahead'
<1> USE AudioAssumption DEF AudioInv, Typed, Locked, Halves, BlocksWhole, Pairs, Ahead, Filling,
                            AtMostOneLost, writing, playing
<1>1. CASE audio_interface_init \/ SDL_PauseAudioDevice \/ audio_interface_close
    BY Zenon, <1>1 DEF audio_interface_init, SDL_PauseAudioDevice, audio_interface_close
<1>2. CASE callback_lock
    BY Zenon, <1>2 DEF callback_lock
<1>3. CASE callback_copy
    BY <1>3 DEF callback_copy
<1>4. CASE callback_notify
    BY <1>4 DEF callback_notify
<1>5. CASE write_lock
    BY <1>5 DEF write_lock
<1>6. CASE write_copy
    BY Zenon, <1>6 DEF write_copy
<1>7. CASE write_wait
    BY Zenon, <1>7 DEF write_wait
<1>8. CASE write_return \/ spurious_wakeup
    BY Zenon, <1>8 DEF write_return, spurious_wakeup
<1>9. CASE UNCHANGED audio
    BY Zenon, <1>9 DEF audio
<1> QED
    BY Zenon, <1>1, <1>2, <1>3, <1>4, <1>5, <1>6, <1>7, <1>8, <1>9 DEF AudioNext, Callback, Write

(* The audio state has its types. *)
THEOREM AudioTyped == AudioSpec => []AudioTypeOK
<1>1. AudioInv => AudioTypeOK
    BY Zenon DEF AudioInv, Typed, Pairs, AudioTypeOK
<1> QED
    BY AudioStart, AudioSteps, <1>1, PTL DEF AudioSpec

(* Every stream that the callback hands to SDL is one block, for any       *)
(* number of blocks and with spurious wakeups.                             *)
THEOREM StreamsWhole == AudioSpec => []BlocksWhole
<1>1. AudioInv => BlocksWhole
    BY Zenon DEF AudioInv, Halves
<1> QED
    BY AudioStart, AudioSteps, <1>1, PTL DEF AudioSpec

(* Blocks are played in order, and at most one is overwritten between two  *)
(* callbacks, as long as waits end only when they are notified.            *)
THEOREM LossBounded == AudioSpec => []AtMostOneLost
<1>1. AudioInit => Ahead
    BY AudioAssumption DEF AudioInit, Ahead, AtMostOneLost
<1>2. AudioInv /\ Ahead /\ [AudioNext]_audio => Ahead'
    BY Zenon, AheadSteps
<1>3. Ahead => AtMostOneLost
    BY Zenon DEF Ahead, AtMostOneLost
<1> QED
    BY AudioStart, AudioSteps, <1>1, <1>2, <1>3, PTL DEF AudioSpec

(***************************************************************************)
(* Lists of arguments: ListInv is inductive.                               *)
(***************************************************************************)
(* The numbers: registers are 8 and 16 bytes.                              *)
LEMMA ListNumbers ==
    ASSUME va \in Lists
    PROVE  /\ va.gr_offs \in Int /\ va.vr_offs \in Int /\ va.stack \in BOOLEAN
           /\ \E n \in Int : va.gr_offs = -(8 * n)
           /\ \E n \in Int : n >= 0 /\ n <= SaveV /\ va.vr_offs = -(16 * n)
           /\ SaveV \in Nat /\ BufferSlots \in Nat
  BY SizesAssumption DEF Lists, WordSize, VecSize

LEMMA ListStart == VaInit => ListInv
<1> SUFFICES ASSUME NEW v \in Lists, VaStart(v) PROVE ListInv
    BY Zenon DEF VaInit
<1>1. /\ va = v /\ va_pc = "marshal" /\ ints = 0 /\ fps = 0 /\ got = want
      /\ gp_arg_buffer = [n \in 0 .. BufferSlots - 1 |-> Garbage]
      /\ native = [gp_offset |-> 0, fp_offset |-> 0, overflow |-> Garbage, reg_save_area |-> Garbage]
      /\ ref = [gr_offs |-> v.gr_offs, vr_offs |-> v.vr_offs, stack |-> 0]
    BY Zenon DEF VaStart
<1>2. gp_arg_buffer \in Buffer /\ native.gp_offset = 0
    BY <1>1 DEF Buffer, Garbage
<1>3. FpEnd \in Nat /\ 0 \in 0 .. GpEnd /\ 0 \in 0 .. FpEnd
    BY SizesAssumption DEF FpEnd, GpEnd, VecSize
<1>4. native \in [gp_offset : 0 .. GpEnd, fp_offset : 0 .. FpEnd,
                  overflow : Areas \X Int, reg_save_area : Areas \X Int]
    BY <1>1, <1>3 DEF Garbage, Areas
<1>5. VaTyped
    BY Zenon, <1>1, <1>2, <1>4, ListNumbers DEF VaTyped
<1> QED
    BY Zenon, <1>1, <1>2, <1>5 DEF ListInv, ReadsExact

(* The conversion.                                                         *)
LEMMA ListConverts ==
    ASSUME ListInv, variadic_list
    PROVE  ListInv'
<1>1. PICK v \in Lists : VaStart(v)
    BY Zenon DEF ListInv, variadic_list
<1>2. /\ va = v /\ va' = va /\ va_pc' = "reading" /\ ints' = 0 /\ fps' = 0 /\ got' = want'
      /\ gp_arg_buffer = [n \in 0 .. BufferSlots - 1 |-> Garbage]
      /\ ref' = [gr_offs |-> va.gr_offs, vr_offs |-> va.vr_offs, stack |-> 0]
    BY Zenon, <1>1 DEF VaStart, variadic_list
<1>3. PICK g \in Int, r \in Int : /\ va.gr_offs = -(8 * g) /\ va.vr_offs = -(16 * r)
                                 /\ r >= 0 /\ r <= SaveV
    BY Zenon, <1>1, <1>2, ListNumbers
<1>4. native' = [gp_offset |-> 48, fp_offset |-> 48 + 16 * SaveV + va.vr_offs,
                 overflow |-> <<IF va.gr_offs >= 0 THEN "stack" ELSE "buffer", 0>>,
                 reg_save_area |-> <<"vr", -(48 + 16 * SaveV)>>]
    BY Zenon DEF variadic_list, GpEnd, FpEnd, VecSize, reg_save_area
<1>5. gp_arg_buffer' \in Buffer
  <2>1. \A n \in 0 .. BufferSlots - 1 : CopiedWord(n) \in {"gr", "stack", "garbage"} \X Int
      BY <1>2, <1>3 DEF CopiedWord, gr_size, WordSize, Garbage
  <2> QED
      BY <1>2, <2>1 DEF variadic_list, Buffer, Garbage
<1>6. Copied'
  <2> SUFFICES ASSUME va.gr_offs < 0, NEW n \in 0 .. BufferSlots - 1
               PROVE  /\ WordSize * n < gr_size => gp_arg_buffer'[n] = <<"gr", WordSize * n - gr_size>>
                      /\ WordSize * n >= gr_size /\ va.stack => gp_arg_buffer'[n] = <<"stack", WordSize * n - gr_size>>
      BY Zenon, <1>2 DEF Copied, gr_size
  <2>1. gp_arg_buffer'[n] = CopiedWord(n)
      BY <1>2, <1>3 DEF variadic_list
  <2>2. n * WordSize = WordSize * n /\ gr_size = 8 * g /\ WordSize = 8
      BY <1>3 DEF gr_size, WordSize
  <2> QED
      BY <1>3, <2>1, <2>2 DEF CopiedWord
<1>7. VectorsLevel'
  <2>1. ref'.vr_offs = -(16 * r) /\ (-(16 * r)) % 16 = 0 /\ va'.vr_offs = -(16 * r)
      BY <1>2, <1>3
  <2>2. native'.fp_offset = 48 + 16 * SaveV + ref'.vr_offs
      BY Zenon, <1>2, <1>4
  <2> QED
      BY <1>2, <1>3, <2>1, <2>2, SizesAssumption DEF VectorsLevel, FpEnd, VecSize
<1>8. OnStack' /\ InBuffer'
  <2>1. ref'.gr_offs = va.gr_offs /\ ref'.stack = 0 /\ va.gr_offs \in Int
      BY <1>2, <1>3
  <2>2. native'.overflow = <<IF va.gr_offs >= 0 THEN "stack" ELSE "buffer", 0>>
      BY Zenon, <1>4
  <2>3. OnStack'
      BY Zenon, <1>2, <2>1, <2>2 DEF OnStack
  <2> QED
      BY <1>2, <2>1, <2>2, <2>3 DEF InBuffer, gr_size, WordSize
<1>9. VaTyped'
  <2>1. native' \in [gp_offset : 0 .. GpEnd, fp_offset : 0 .. FpEnd,
                     overflow : Areas \X Int, reg_save_area : Areas \X Int]
    <3>1. va.vr_offs \in Int /\ va.vr_offs <= 0 /\ va.vr_offs >= -(16 * SaveV) /\ SaveV \in Nat
        BY <1>3, SizesAssumption
    <3>2. 48 + 16 * SaveV + va.vr_offs \in 0 .. FpEnd /\ 48 \in 0 .. GpEnd /\ -(48 + 16 * SaveV) \in Int
        BY <3>1 DEF FpEnd, GpEnd, VecSize
    <3> QED
        BY <1>4, <3>2 DEF Areas
  <2>2. ref' \in [gr_offs : Int, vr_offs : Int, stack : Nat]
      BY <1>2, <1>3
  <2>3. native'.reg_save_area[2] = -(48 + 16 * SaveV) /\ native'.fp_offset = 48 + 16 * SaveV + va.vr_offs
      BY Zenon, <1>4
  <2>4. native'.reg_save_area[2] + native'.fp_offset \in -(VecSize * SaveV) .. 0
      BY <1>3, <2>3, SizesAssumption DEF VecSize
  <2> QED
      BY Zenon, <1>1, <1>2, <1>5, <2>1, <2>2, <2>4 DEF VaTyped
<1>10. native'.gp_offset = GpEnd /\ native'.reg_save_area = reg_save_area'
    BY Zenon, <1>4 DEF GpEnd, reg_save_area, FpEnd, VecSize
<1> QED
    BY Zenon, <1>2, <1>6, <1>7, <1>8, <1>9, <1>10 DEF ListInv, ReadsExact

(* The facts of a va_list that is being read.                              *)
LEMMA ListReading ==
    ASSUME ListInv, va_pc = "reading"
    PROVE  /\ VaTyped /\ VectorsLevel /\ OnStack /\ InBuffer /\ Copied
           /\ native.gp_offset = 48 /\ native.reg_save_area = <<"vr", -(48 + 16 * SaveV)>>
           /\ \E n \in Int : va.gr_offs = -(8 * n)
           /\ va.gr_offs \in Int /\ va.vr_offs \in Int /\ ints \in Nat /\ fps \in Nat
           /\ ref.gr_offs \in Int /\ ref.vr_offs \in Int /\ ref.stack \in Nat
           /\ native.fp_offset = 48 + 16 * SaveV + ref.vr_offs
           /\ SaveV \in Nat /\ BufferSlots \in Nat
<1>1. VaTyped /\ VectorsLevel /\ OnStack /\ InBuffer /\ Copied
    BY Zenon DEF ListInv
<1>2. native.gp_offset = 48 /\ native.reg_save_area = <<"vr", -(48 + 16 * SaveV)>>
    BY Zenon DEF ListInv, GpEnd, FpEnd, reg_save_area, VecSize
<1>3. va \in Lists /\ ints \in Nat /\ fps \in Nat
      /\ ref.gr_offs \in Int /\ ref.vr_offs \in Int /\ ref.stack \in Nat
    BY Zenon, <1>1 DEF VaTyped
<1>4. native.fp_offset = 48 + 16 * SaveV + ref.vr_offs
    BY Zenon, <1>1 DEF VectorsLevel, FpEnd, VecSize
<1> QED
    BY Zenon, <1>1, <1>2, <1>3, <1>4, ListNumbers

(* What the guest does when it reads from its own va_list.                 *)
LEMMA GuestReads ==
    ASSUME VaTyped, NEW area, NEW size \in Nat,
           NEW offs \in {"gr_offs", "vr_offs"}, guest_va_arg(area, offs, size)
    PROVE  \/ /\ ref[offs] < 0 /\ want' = <<area, ref[offs]>>
              /\ ref' = [ref EXCEPT ![offs] = ref[offs] + size]
           \/ /\ ref[offs] >= 0 /\ va.stack /\ want' = <<"stack", ref.stack>>
              /\ ref' = [ref EXCEPT !.stack = ref.stack + 8]
  BY DEF guest_va_arg, WordSize, VaTyped

LEMMA IntReads ==
    ASSUME ListInv, read_int
    PROVE  ListInv'
<1>0. va_pc = "reading"
    BY Zenon DEF read_int
<1>1. /\ VaTyped /\ VectorsLevel /\ OnStack /\ InBuffer /\ Copied
      /\ native.gp_offset = 48 /\ native.reg_save_area = <<"vr", -(48 + 16 * SaveV)>>
      /\ va.gr_offs \in Int /\ va.vr_offs \in Int /\ ints \in Nat /\ fps \in Nat
      /\ ref.gr_offs \in Int /\ ref.vr_offs \in Int /\ ref.stack \in Nat
      /\ SaveV \in Nat /\ BufferSlots \in Nat
    BY Zenon, <1>0, ListReading
<1>2. PICK g \in Int : va.gr_offs = -(8 * g)
    BY Zenon, <1>0, ListReading
<1>3. /\ va_pc' = "reading" /\ va' = va /\ gp_arg_buffer' = gp_arg_buffer /\ fps' = fps
      /\ ints' = ints + 1
    BY Zenon, <1>0 DEF read_int
<1>4. got' = Load(native.overflow) /\ native' = Overflow(native)
    BY <1>1 DEF read_int, va_arg_int, GpEnd
<1>5. PICK a \in Areas, o \in Int : native.overflow = <<a, o>>
    BY <1>1 DEF VaTyped
<1>6. /\ native' = [native EXCEPT !.overflow = <<a, o + 8>>]
      /\ native'.overflow = <<a, o + 8>> /\ native'.fp_offset = native.fp_offset
      /\ native'.gp_offset = native.gp_offset /\ native'.reg_save_area = native.reg_save_area
    BY <1>1, <1>4, <1>5 DEF Overflow, WordSize, VaTyped
<1>7. \/ /\ ref.gr_offs < 0 /\ want' = <<"gr", ref.gr_offs>>
         /\ ref' = [ref EXCEPT !.gr_offs = ref.gr_offs + 8]
      \/ /\ ref.gr_offs >= 0 /\ va.stack /\ want' = <<"stack", ref.stack>>
         /\ ref' = [ref EXCEPT !.stack = ref.stack + 8]
    BY Zenon, <1>1, GuestReads DEF read_int, WordSize
<1>8. /\ ref'.vr_offs = ref.vr_offs
      /\ \/ /\ ref.gr_offs < 0 /\ want' = <<"gr", ref.gr_offs>>
            /\ ref'.gr_offs = ref.gr_offs + 8 /\ ref'.stack = ref.stack
         \/ /\ ref.gr_offs >= 0 /\ va.stack /\ want' = <<"stack", ref.stack>>
            /\ ref'.gr_offs = ref.gr_offs /\ ref'.stack = ref.stack + 8
      /\ ref' \in [gr_offs : Int, vr_offs : Int, stack : Nat]
    BY <1>1, <1>7 DEF VaTyped
<1>9. VaTyped'
  <2>1. native' \in [gp_offset : 0 .. GpEnd, fp_offset : 0 .. FpEnd,
                     overflow : Areas \X Int, reg_save_area : Areas \X Int]
      BY <1>1, <1>6 DEF VaTyped
  <2>2. va' \in Lists /\ ints' \in Nat /\ fps' \in Nat /\ gp_arg_buffer' \in Buffer
      BY <1>1, <1>3 DEF VaTyped
  <2>3. native'.reg_save_area[2] + native'.fp_offset \in -(VecSize * SaveV) .. 0
      BY Zenon, <1>0, <1>1, <1>6 DEF VaTyped
  <2> QED
      BY Zenon, <1>3, <1>8, <2>1, <2>2, <2>3 DEF VaTyped
<1>10. VectorsLevel' /\ Copied' /\ (NoFpSpilt' <=> NoFpSpilt)
    BY Zenon, <1>1, <1>3, <1>6, <1>8 DEF VectorsLevel, Copied, NoFpSpilt, gr_size
<1>11. CASE va.gr_offs >= 0
  <2>1. ref.gr_offs = va.gr_offs /\ a = "stack" /\ o = ref.stack
      BY <1>1, <1>5, <1>11 DEF OnStack
  <2>2. got' = <<"stack", ref.stack>> /\ want' = <<"stack", ref.stack>>
    <3>1. want' = <<"stack", ref.stack>>
        BY <1>1, <1>8, <1>11, <2>1
    <3> QED
        BY <1>4, <1>5, <2>1, <3>1 DEF Load
  <2>3. OnStack' /\ InBuffer'
      BY <1>1, <1>3, <1>6, <1>8, <1>11, <2>1 DEF OnStack, InBuffer
  <2> QED
      BY Zenon, <1>1, <1>3, <1>6, <1>9, <1>10, <2>2, <2>3 DEF ListInv, ReadsExact, GpEnd, reg_save_area, FpEnd, VecSize
<1>12. CASE va.gr_offs < 0 /\ ~NoFpSpilt
    BY <1>1, <1>3, <1>6, <1>9, <1>10, <1>12
       DEF ListInv, ReadsExact, OnStack, InBuffer, GpEnd, reg_save_area, FpEnd, VecSize
<1>13. CASE va.gr_offs < 0 /\ NoFpSpilt
  <2>1. /\ a = "buffer" /\ o = 8 * ints
        /\ IF 8 * ints < 8 * g THEN ref.gr_offs = 8 * ints - 8 * g /\ ref.stack = 0
                               ELSE ref.gr_offs = 0 /\ ref.stack = 8 * ints - 8 * g
      BY <1>1, <1>2, <1>5, <1>13 DEF InBuffer, gr_size, WordSize
  <2>2. InBuffer' /\ OnStack'
      BY <1>1, <1>2, <1>3, <1>6, <1>8, <1>13, <2>1 DEF InBuffer, OnStack, gr_size, WordSize
  <2>3. ASSUME ints < BufferSlots PROVE got' = want'
    <3>1. ints \in 0 .. BufferSlots - 1 /\ (8 * ints) \div 8 = ints
        BY <1>1, <2>3
    <3>2. DOMAIN gp_arg_buffer = 0 .. BufferSlots - 1
        BY Zenon, <1>1 DEF VaTyped, Buffer
    <3>3. got' = gp_arg_buffer[ints]
        BY <1>4, <1>5, <2>1, <3>1, <3>2 DEF Load, WordSize
    <3>4. /\ 8 * ints < 8 * g => gp_arg_buffer[ints] = <<"gr", 8 * ints - 8 * g>>
          /\ 8 * ints >= 8 * g /\ va.stack => gp_arg_buffer[ints] = <<"stack", 8 * ints - 8 * g>>
        BY <1>1, <1>2, <1>13, <3>1 DEF Copied, gr_size, WordSize
    <3> QED
        BY <1>1, <1>2, <1>8, <2>1, <3>3, <3>4
  <2>4. ReadsExact'
      BY <1>1, <1>3, <1>10, <1>13, <2>3 DEF ReadsExact
  <2> QED
      BY Zenon, <1>1, <1>3, <1>6, <1>9, <1>10, <2>2, <2>4 DEF ListInv, GpEnd, reg_save_area, FpEnd, VecSize
<1> QED
    BY <1>1, <1>11, <1>12, <1>13

LEMMA FpReads ==
    ASSUME ListInv, read_fp
    PROVE  ListInv'
<1>0. va_pc = "reading"
    BY Zenon DEF read_fp
<1>1. /\ VaTyped /\ VectorsLevel /\ OnStack /\ InBuffer /\ Copied
      /\ native.gp_offset = 48 /\ native.reg_save_area = <<"vr", -(48 + 16 * SaveV)>>
      /\ va.gr_offs \in Int /\ va.vr_offs \in Int /\ ints \in Nat /\ fps \in Nat
      /\ ref.gr_offs \in Int /\ ref.vr_offs \in Int /\ ref.stack \in Nat
      /\ native.fp_offset = 48 + 16 * SaveV + ref.vr_offs
      /\ SaveV \in Nat /\ BufferSlots \in Nat
    BY Zenon, <1>0, ListReading
<1>2. /\ va_pc' = "reading" /\ va' = va /\ gp_arg_buffer' = gp_arg_buffer /\ fps' = fps + 1
      /\ ints' = ints
    BY Zenon, <1>0 DEF read_fp
<1>3. Copied' /\ (NoFpSpilt' => NoFpSpilt)
  <2>1. Copied'
      BY Zenon, <1>1, <1>2 DEF Copied, gr_size
  <2> QED
      BY <1>1, <1>2, <2>1 DEF NoFpSpilt, VecSize
<1>4. va' \in Lists /\ ints' \in Nat /\ fps' \in Nat /\ gp_arg_buffer' \in Buffer
    BY <1>1, <1>2 DEF VaTyped
<1>5. CASE ref.vr_offs < 0
  <2>1. /\ want' = <<"vr", ref.vr_offs>> /\ ref' = [ref EXCEPT !.vr_offs = ref.vr_offs + 16]
      BY <1>1, <1>5, GuestReads DEF read_fp, VecSize
  <2>2. /\ ref'.vr_offs = ref.vr_offs + 16 /\ ref'.gr_offs = ref.gr_offs /\ ref'.stack = ref.stack
        /\ ref' \in [gr_offs : Int, vr_offs : Int, stack : Nat]
      BY <1>1, <2>1 DEF VaTyped
  <2>3. /\ got' = <<native.reg_save_area[1], native.reg_save_area[2] + native.fp_offset>>
        /\ native' = [native EXCEPT !.fp_offset = native.fp_offset + 16]
      BY <1>1, <1>5 DEF read_fp, va_arg_fp, FpEnd, VecSize
  <2>4. got' = <<"vr", ref.vr_offs>>
      BY <1>1, <2>3
  <2>5. /\ native'.fp_offset = native.fp_offset + 16 /\ native'.overflow = native.overflow
        /\ native'.gp_offset = native.gp_offset /\ native'.reg_save_area = native.reg_save_area
      BY Zenon, <1>1, <2>3 DEF VaTyped
  <2>6. ref.vr_offs <= -16 /\ (ref.vr_offs + 16) % 16 = 0
      BY <1>1, <1>5 DEF VectorsLevel, VecSize
  <2>7. VectorsLevel'
    <3>1. NoFpSpilt' => ref.vr_offs = va.vr_offs + 16 * fps
        BY Zenon, <1>1, <1>3 DEF VectorsLevel, VecSize
    <3>2. NoFpSpilt' => ref'.vr_offs = va'.vr_offs + 16 * fps'
        BY <1>1, <1>2, <2>2, <3>1
    <3>3. native'.fp_offset = 48 + 16 * SaveV + ref'.vr_offs
        BY <1>1, <2>2, <2>5
    <3> QED
        BY <1>1, <2>2, <2>6, <3>2, <3>3 DEF VectorsLevel, FpEnd, VecSize
  <2>8. OnStack' /\ InBuffer'
      BY Zenon, <1>1, <1>2, <1>3, <2>2, <2>5 DEF OnStack, InBuffer, gr_size
  <2>9. VaTyped'
    <3>1. native.fp_offset + 16 \in 0 .. FpEnd
        BY <1>1, <2>6 DEF VaTyped, FpEnd, VecSize
    <3>2. native' \in [gp_offset : 0 .. GpEnd, fp_offset : 0 .. FpEnd,
                       overflow : Areas \X Int, reg_save_area : Areas \X Int]
        BY Zenon, <1>1, <2>3, <3>1 DEF VaTyped
    <3>3. native.reg_save_area[2] + native.fp_offset \in -(VecSize * SaveV) .. 0
        BY Zenon, <1>0, <1>1 DEF VaTyped
    <3>4. native'.reg_save_area[2] + native'.fp_offset \in -(VecSize * SaveV) .. 0
        BY <1>1, <2>5, <2>6, <3>3 DEF VecSize
    <3> QED
        BY Zenon, <1>2, <1>4, <2>2, <3>2, <3>4 DEF VaTyped
  <2> QED
      BY Zenon, <1>1, <1>2, <1>3, <2>1, <2>4, <2>5, <2>7, <2>8, <2>9
         DEF ListInv, ReadsExact, GpEnd, reg_save_area, FpEnd, VecSize
<1>6. CASE ref.vr_offs >= 0
  <2>1. /\ va.stack /\ want' = <<"stack", ref.stack>> /\ ref' = [ref EXCEPT !.stack = ref.stack + 8]
      BY <1>1, <1>6, GuestReads DEF read_fp, VecSize
  <2>2. /\ ref'.vr_offs = ref.vr_offs /\ ref'.gr_offs = ref.gr_offs /\ ref'.stack = ref.stack + 8
        /\ ref' \in [gr_offs : Int, vr_offs : Int, stack : Nat]
      BY <1>1, <2>1 DEF VaTyped
  <2>3. ~NoFpSpilt'
      BY <1>1, <1>2, <1>3, <1>6 DEF VectorsLevel, NoFpSpilt, VecSize
  <2>4. got' = Load(native.overflow) /\ native' = Overflow(native)
      BY <1>1, <1>6 DEF read_fp, va_arg_fp, FpEnd, VecSize
  <2>5. PICK a \in Areas, o \in Int : native.overflow = <<a, o>>
      BY <1>1 DEF VaTyped
  <2>6. /\ native' = [native EXCEPT !.overflow = <<a, o + 8>>]
        /\ native'.overflow = <<a, o + 8>> /\ native'.fp_offset = native.fp_offset
        /\ native'.gp_offset = native.gp_offset /\ native'.reg_save_area = native.reg_save_area
      BY <1>1, <2>4, <2>5 DEF Overflow, WordSize, VaTyped
  <2>7. VectorsLevel' /\ InBuffer'
      BY Zenon, <1>1, <2>2, <2>3, <2>6 DEF VectorsLevel, InBuffer
  <2>8. va.gr_offs >= 0 => a = "stack" /\ o = ref.stack /\ ref.gr_offs = va.gr_offs
      BY <1>1, <2>5 DEF OnStack
  <2>9. OnStack' /\ ReadsExact'
    <3>1. va.gr_offs >= 0 => got' = <<"stack", ref.stack>>
        BY <2>4, <2>5, <2>8 DEF Load
    <3> QED
        BY Zenon, <1>2, <2>1, <2>2, <2>3, <2>6, <2>8, <3>1 DEF OnStack, ReadsExact
  <2>10. VaTyped'
    <3>1. native' \in [gp_offset : 0 .. GpEnd, fp_offset : 0 .. FpEnd,
                       overflow : Areas \X Int, reg_save_area : Areas \X Int]
        BY <1>1, <2>6 DEF VaTyped
    <3>2. native'.reg_save_area[2] + native'.fp_offset \in -(VecSize * SaveV) .. 0
        BY Zenon, <1>0, <1>1, <2>6 DEF VaTyped
    <3> QED
        BY Zenon, <1>2, <1>4, <2>2, <3>1, <3>2 DEF VaTyped
  <2> QED
      BY Zenon, <1>1, <1>2, <1>3, <2>6, <2>7, <2>9, <2>10 DEF ListInv, GpEnd, reg_save_area, FpEnd, VecSize
<1> QED
    BY <1>1, <1>5, <1>6

LEMMA ListStep == ListInv /\ [VaNext]_list => ListInv'
<1> SUFFICES ASSUME ListInv, [VaNext]_list PROVE ListInv'
    OBVIOUS
<1>1. CASE UNCHANGED list
    BY Zenon, <1>1 DEF list, ListInv, VaTyped, ReadsExact, VectorsLevel, OnStack, InBuffer, Copied, NoFpSpilt,
       gr_size, VaStart
<1> QED
    BY Zenon, <1>1, ListConverts, IntReads, FpReads DEF VaNext

(* A native function that is given a va_list reads the arguments the guest *)
(* passed, in any order of integers and doubles, for any sizes of register *)
(* areas and buffer (handle_call_svc, variadic_list).                      *)
THEOREM ArgumentListsRead == VaSpec => []ReadsExact
<1>1. ListInv => ReadsExact
    BY Zenon DEF ListInv
<1> QED
    BY <1>1, ListStart, ListStep, PTL DEF VaSpec
=============================================================================
