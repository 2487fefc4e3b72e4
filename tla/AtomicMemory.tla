---------------------------- MODULE AtomicMemory ----------------------------
(***************************************************************************)
(* What the guest is promised of its load-exclusive and store-exclusive    *)
(* instructions.  link[t] is the load-exclusive that a later               *)
(* store-exclusive of thread t may still answer: the address it read and   *)
(* the value it returned, or NoLink.                                       *)
(*                                                                         *)
(* Exclusive chooses between the two promises the emulator can make.  When *)
(* it holds, a store-exclusive ends every other thread's link to the same  *)
(* address (ARM's global monitor).  When it does not, a store-exclusive is *)
(* only a compare-and-swap with the value that the link holds.             *)
(***************************************************************************)
CONSTANTS Threads, Addrs, Values, NoLink, Exclusive

VARIABLES mem, link

vars == <<mem, link>>

Links == [addr : Addrs, val : Values]

Linked(u, a) == link[u] # NoLink /\ link[u].addr = a

Init ==
    /\ mem \in [Addrs -> Values]
    /\ link = [t \in Threads |-> NoLink]

LoadExclusive(t, a) ==
    /\ link' = [link EXCEPT ![t] = [addr |-> a, val |-> mem[a]]]
    /\ UNCHANGED mem

StoreExclusive(t, a, v) ==
    /\ Linked(t, a)
    /\ mem[a] = link[t].val
    /\ mem' = [mem EXCEPT ![a] = v]
    /\ link' = [u \in Threads |->
                   IF u = t \/ (Exclusive /\ Linked(u, a)) THEN NoLink ELSE link[u]]

Store(a, v) ==
    /\ mem' = [mem EXCEPT ![a] = v]
    /\ UNCHANGED link

(* A system call, CLREX or the end of the thread gives the link up. *)
Break(t) ==
    /\ link' = [link EXCEPT ![t] = NoLink]
    /\ UNCHANGED mem

Next ==
    \/ \E t \in Threads, a \in Addrs : LoadExclusive(t, a)
    \/ \E t \in Threads, a \in Addrs, v \in Values : StoreExclusive(t, a, v)
    \/ \E a \in Addrs, v \in Values : Store(a, v)
    \/ \E t \in Threads : Break(t)

Spec == Init /\ [][Next]_vars
=============================================================================
