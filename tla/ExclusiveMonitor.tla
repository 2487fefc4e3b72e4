-------------------------- MODULE ExclusiveMonitor --------------------------
(***************************************************************************)
(* The guest's exclusive accesses, as dynarmic runs them for Sober.        *)
(*                                                                         *)
(*   src/subprojects/dynarmic/src/dynarmic/                                *)
(*     backend/x64/emit_x64_memory.cpp.inc   the code of LDXR and STXR     *)
(*     backend/x64/emit_x64_memory.h         lock, unlock, clear others    *)
(*     interface/exclusive_monitor.h         the monitor called when not   *)
(*     backend/x64/exclusive_monitor.cpp     inlined                       *)
(*   src/src/execution_context.cpp           the configuration; the ids    *)
(*                                                                         *)
(* All contexts share one monitor, a lock and one slot per processor id:   *)
(* the address that the last LDXR of that processor marked and the value   *)
(* it read.  exclusive_state is a field of each context's own jit state.   *)
(*                                                                         *)
(* FastmemExclusive: the accesses are inlined (conf.fastmem_exclusive_     *)
(* access, which Sober sets) rather than made through the callbacks.       *)
(* IgnoreGlobalMonitor: dynarmic's unsafe optimisation of that name, which *)
(* Sober sets too.  Inlined code then neither locks nor clears the slots   *)
(* of the other processors.                                                *)
(*                                                                         *)
(* Guest memory accesses of up to 64 bits are single steps; the slots are  *)
(* only shared under the lock, so the steps between taking it and touching *)
(* memory are one step with the taking.  link is a history variable: the   *)
(* load-exclusive the guest believes it holds (AtomicMemory).              *)
(***************************************************************************)
EXTENDS Integers

CONSTANTS Threads, Ids, Addrs, Values, None,
          FastmemExclusive, IgnoreGlobalMonitor

ASSUME MonitorAssumption ==
    /\ FastmemExclusive \in BOOLEAN
    /\ IgnoreGlobalMonitor \in BOOLEAN
    /\ None \notin Threads \cup Ids \cup Addrs \cup Values \cup [addr : Addrs, val : Values]

VARIABLES
    mem,                    \* guest memory
    lock,                   \* the monitor's spin lock: its holder or None
    exclusive_addresses,    \* per processor id; None is INVALID_EXCLUSIVE_ADDRESS
    exclusive_values,       \* per processor id
    id,                     \* the processor id of the thread's context or None
    exclusive_state,        \* per thread, of its context's jit state
    pc,                     \* "guest", or the step of the access under way
    op,                     \* the address and the operands of that access
    status,                 \* the result register of the last STXR
    link                    \* history: what the guest's last LDXR returned

vars == <<mem, lock, exclusive_addresses, exclusive_values, id,
          exclusive_state, pc, op, status, link>>

monitor == <<exclusive_addresses, exclusive_values>>

Links == [addr : Addrs, val : Values]

(* Whether an access takes the lock: the callbacks always do, inlined code *)
(* unless it was emitted to ignore the global monitor.                     *)
Locking == ~FastmemExclusive \/ ~IgnoreGlobalMonitor

NoOp == [addr |-> None, val |-> None, new |-> None]

TypeOK ==
    /\ mem \in [Addrs -> Values]
    /\ lock \in Threads \cup {None}
    /\ exclusive_addresses \in [Ids -> Addrs \cup {None}]
    /\ exclusive_values \in [Ids -> Values]
    /\ id \in [Threads -> Ids \cup {None}]
    /\ exclusive_state \in [Threads -> {0, 1}]
    /\ pc \in [Threads -> {"guest", "read", "save", "swap"}]
    /\ op \in [Threads -> [addr : Addrs \cup {None}, val : Values \cup {None},
                           new : Values \cup {None}]]
    /\ status \in [Threads -> {0, 1}]
    /\ link \in [Threads -> Links \cup {None}]

Init ==
    /\ mem \in [Addrs -> Values]
    /\ lock = None
    /\ exclusive_addresses = [i \in Ids |-> None]
    /\ exclusive_values \in [Ids -> Values]
    /\ id = [t \in Threads |-> None]
    /\ exclusive_state = [t \in Threads |-> 0]
    /\ pc = [t \in Threads |-> "guest"]
    /\ op = [t \in Threads |-> NoOp]
    /\ status = [t \in Threads |-> 1]
    /\ link = [t \in Threads |-> None]

InGuest(t) == id[t] # None /\ pc[t] = "guest"

(***************************************************************************)
(* Contexts.  A context gets a processor id no other context has           *)
(* (ExecContext proves it) and a jit of its own, whose exclusive_state is  *)
(* 0; the slot of the id still holds what its last user left there.        *)
(***************************************************************************)
execution_context_init(t) ==
    /\ id[t] = None
    /\ \E i \in Ids \ {id[u] : u \in Threads} : id' = [id EXCEPT ![t] = i]
    /\ exclusive_state' = [exclusive_state EXCEPT ![t] = 0]
    /\ UNCHANGED <<mem, lock, monitor, pc, op, status, link>>

free_execution_context(t) ==
    /\ InGuest(t)
    /\ id' = [id EXCEPT ![t] = None]
    /\ link' = [link EXCEPT ![t] = None]
    /\ UNCHANGED <<mem, lock, monitor, exclusive_state, pc, op, status>>

(***************************************************************************)
(* LDXR: set the state, mark the slot, read memory, save the value.        *)
(***************************************************************************)
EmitExclusiveLock(t) == IF Locking THEN lock = None /\ lock' = t ELSE UNCHANGED lock

EmitExclusiveUnlock == IF Locking THEN lock' = None ELSE UNCHANGED lock

(* Mutant: the state is not set. *)
ldxr_mark_unset(t, a) ==
    /\ InGuest(t)
    /\ EmitExclusiveLock(t)
    /\ exclusive_addresses' = [exclusive_addresses EXCEPT ![id[t]] = a]
    /\ op' = [op EXCEPT ![t] = [NoOp EXCEPT !.addr = a]]
    /\ pc' = [pc EXCEPT ![t] = "read"]
    /\ UNCHANGED <<mem, exclusive_values, id, exclusive_state, status, link>>

ldxr_mark(t, a) ==
    /\ InGuest(t)
    /\ EmitExclusiveLock(t)
    /\ exclusive_state' = [exclusive_state EXCEPT ![t] = 1]
    /\ exclusive_addresses' = [exclusive_addresses EXCEPT ![id[t]] = a]
    /\ op' = [op EXCEPT ![t] = [NoOp EXCEPT !.addr = a]]
    /\ pc' = [pc EXCEPT ![t] = "read"]
    /\ UNCHANGED <<mem, exclusive_values, id, status, link>>

ldxr_read(t) ==
    /\ pc[t] = "read"
    /\ op' = [op EXCEPT ![t].val = mem[op[t].addr]]
    /\ link' = [link EXCEPT ![t] = [addr |-> op[t].addr, val |-> mem[op[t].addr]]]
    /\ pc' = [pc EXCEPT ![t] = "save"]
    /\ UNCHANGED <<mem, lock, monitor, id, exclusive_state, status>>

(* Mutant: the slot keeps the value of an earlier load. *)
ldxr_save_lost(t) ==
    /\ pc[t] = "save"
    /\ op' = [op EXCEPT ![t] = NoOp]
    /\ pc' = [pc EXCEPT ![t] = "guest"]
    /\ EmitExclusiveUnlock
    /\ UNCHANGED <<mem, monitor, id, exclusive_state, status, link>>

ldxr_save(t) ==
    /\ pc[t] = "save"
    /\ exclusive_values' = [exclusive_values EXCEPT ![id[t]] = op[t].val]
    /\ op' = [op EXCEPT ![t] = NoOp]
    /\ pc' = [pc EXCEPT ![t] = "guest"]
    /\ EmitExclusiveUnlock
    /\ UNCHANGED <<mem, exclusive_addresses, id, exclusive_state, status, link>>

(***************************************************************************)
(* STXR.  It fails at once when the state is clear or the slot holds       *)
(* another address; inlined code then leaves the state as it was, the      *)
(* callback path has cleared it before asking the monitor.  Otherwise the  *)
(* reservations of the address are dropped, the state is cleared, and a    *)
(* compare-and-swap with the saved value decides.                          *)
(***************************************************************************)
Reserved(t, a) == exclusive_state[t] = 1 /\ exclusive_addresses[id[t]] = a

(* Inlined code keeps the processor's own slot (EmitExclusiveTestAndClear); *)
(* CheckAndClear drops every slot with the address.                         *)
Dropped(t, a) ==
    {i \in Ids : /\ Locking
                 /\ exclusive_addresses[i] = a
                 /\ FastmemExclusive => i # id[t]}

stxr_fail(t, a) ==
    /\ InGuest(t)
    /\ Locking => lock = None
    /\ ~Reserved(t, a)
    /\ exclusive_state' = [exclusive_state EXCEPT
                              ![t] = IF FastmemExclusive THEN @ ELSE 0]
    /\ status' = [status EXCEPT ![t] = 1]
    /\ UNCHANGED <<mem, lock, monitor, id, pc, op, link>>

stxr_test(t, a, v) ==
    /\ InGuest(t)
    /\ EmitExclusiveLock(t)
    /\ Reserved(t, a)
    /\ exclusive_addresses' = [i \in Ids |-> IF i \in Dropped(t, a) THEN None
                                             ELSE exclusive_addresses[i]]
    /\ exclusive_state' = [exclusive_state EXCEPT ![t] = 0]
    /\ op' = [op EXCEPT ![t] = [addr |-> a, val |-> exclusive_values[id[t]], new |-> v]]
    /\ pc' = [pc EXCEPT ![t] = "swap"]
    /\ UNCHANGED <<mem, exclusive_values, id, status, link>>

(* The links that a successful STXR of t to a ends, as the guest sees it. *)
Ended(t, a) ==
    {u \in Threads : u = t \/ (Locking /\ link[u] # None /\ link[u].addr = a)}

(* Mutant: the store does not compare. *)
stxr_swap_blind(t) ==
    /\ pc[t] = "swap"
    /\ mem' = [mem EXCEPT ![op[t].addr] = op[t].new]
    /\ status' = [status EXCEPT ![t] = 0]
    /\ link' = [u \in Threads |-> IF u \in Ended(t, op[t].addr) THEN None ELSE link[u]]
    /\ op' = [op EXCEPT ![t] = NoOp]
    /\ pc' = [pc EXCEPT ![t] = "guest"]
    /\ EmitExclusiveUnlock
    /\ UNCHANGED <<monitor, id, exclusive_state>>

stxr_swap(t) ==
    /\ pc[t] = "swap"
    /\ \/ /\ mem[op[t].addr] = op[t].val
          /\ mem' = [mem EXCEPT ![op[t].addr] = op[t].new]
          /\ status' = [status EXCEPT ![t] = 0]
          /\ link' = [u \in Threads |-> IF u \in Ended(t, op[t].addr) THEN None ELSE link[u]]
       \/ /\ mem[op[t].addr] # op[t].val
          /\ status' = [status EXCEPT ![t] = 1]
          /\ UNCHANGED <<mem, link>>
    /\ op' = [op EXCEPT ![t] = NoOp]
    /\ pc' = [pc EXCEPT ![t] = "guest"]
    /\ EmitExclusiveUnlock
    /\ UNCHANGED <<monitor, id, exclusive_state>>

(***************************************************************************)
(* The rest of the guest: plain stores, CLREX, and the system calls, after *)
(* which both the compiled SVC and Jit::Run leave the state clear.         *)
(***************************************************************************)
store(t, a, v) ==
    /\ InGuest(t)
    /\ mem' = [mem EXCEPT ![a] = v]
    /\ UNCHANGED <<lock, monitor, id, exclusive_state, pc, op, status, link>>

clear_exclusive(t) ==
    /\ InGuest(t)
    /\ exclusive_state' = [exclusive_state EXCEPT ![t] = 0]
    /\ link' = [link EXCEPT ![t] = None]
    /\ UNCHANGED <<mem, lock, monitor, id, pc, op, status>>

Access(t) ==
    \/ ldxr_read(t)
    \/ ldxr_save(t)
    \/ stxr_swap(t)

Next ==
    \E t \in Threads :
        \/ execution_context_init(t)
        \/ free_execution_context(t)
        \/ clear_exclusive(t)
        \/ Access(t)
        \/ \E a \in Addrs : ldxr_mark(t, a) \/ stxr_fail(t, a)
        \/ \E a \in Addrs, v \in Values : stxr_test(t, a, v) \/ store(t, a, v)

Spec == Init /\ [][Next]_vars

-----------------------------------------------------------------------------
(* A processor's slot is what its own thread's last LDXR put there: while  *)
(* the thread holds a reservation that nobody dropped, the slot has the    *)
(* address and the value which that LDXR gave the guest, and the guest's   *)
(* link is whole; and a STXR about to swap compares with that value.       *)
ReservationExact ==
    \A t \in Threads : id[t] # None =>
        /\ pc[t] = "guest" /\ exclusive_state[t] = 1 /\ exclusive_addresses[id[t]] # None =>
              link[t] = [addr |-> exclusive_addresses[id[t]], val |-> exclusive_values[id[t]]]
        /\ pc[t] \in {"save", "swap"} => link[t] = [addr |-> op[t].addr, val |-> op[t].val]

(* The lock is held exactly by the thread inside an access, and while it   *)
(* swaps no other processor has a reservation of the address: the promise *)
(* of the global monitor ("clears the exclusive state for processors if    *)
(* their exclusive region(s) contain", exclusive_monitor.h).               *)
MonitorHeld ==
    Locking =>
        \A t \in Threads :
            /\ lock = t <=> pc[t] # "guest"
            /\ pc[t] = "swap" =>
                  \A i \in Ids \ {id[t]} : exclusive_addresses[i] # op[t].addr

(* Every behaviour of the emitted code is one of the memory the guest is   *)
(* promised: a STXR that reports success stored over the very value that   *)
(* the LDXR it answers returned, with nothing of another access in between *)
(* on the same processor, after a recycled id or across a system call; and *)
(* where the code takes the monitor's lock, no other thread's STXR to the  *)
(* address succeeded since that LDXR.  With Sober's IgnoreGlobalMonitor    *)
(* only the first half is promised: a value changed and changed back goes  *)
(* unnoticed (execution_context.cpp:455, "breaks atomic operations?").     *)
Promised == INSTANCE AtomicMemory WITH NoLink <- None, Exclusive <- Locking

AtomicAccesses == Promised!Spec
=============================================================================
