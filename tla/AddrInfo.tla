------------------------------ MODULE AddrInfo -------------------------------
(***************************************************************************)
(* Address lists of the libc shim (src/src/vendor/libc-shim/src:           *)
(* network.cpp, network.h).                                                *)
(*                                                                         *)
(* getaddrinfo translates the guest's hints to a host list, has the host   *)
(* look the name up, frees the hints, translates the answer and frees the  *)
(* host's list.  A field with no counterpart throws: in the answer the     *)
(* entry is left out, in the hints nobody catches it and the process ends. *)
(* Blocks of memory are counted by what they hold.                         *)
(***************************************************************************)
EXTENDS Integers, Sequences, SequencesExt, FiniteSetsExt

CONSTANTS
    Callers,            \* guest threads that look names up
    HostAnswers,        \* entries the host's answers are made of
    GuestHints,         \* hints the guest gives
    MaxAnswer           \* longest answer

(***************************************************************************)
(* Entries: family, socktype, protocol, the family of the address ("none"  *)
(* for a null address), and whether there is a canonical name.             *)
(***************************************************************************)
Families == {"UNSPEC", "INET", "INET6", "NETLINK"}
SockTypes == {"STREAM", "DGRAM", "RAW"}
Protocols == {"IP", "TCP", "UDP", "IPV6"}

Blocks == {"host_node", "host_addr", "host_list", "node", "addr", "name"}
NoBlocks == [b \in Blocks |-> 0]
Plus(h, k) == [b \in Blocks |-> h[b] + k[b]]
Minus(h, k) == [b \in Blocks |-> h[b] - k[b]]
One(b) == [NoBlocks EXCEPT ![b] = 1]
OneIf(b, p) == IF p THEN One(b) ELSE NoBlocks

VARIABLES
    pc,                 \* each caller: "idle", "lookup", "convert" or "got"
    hints,              \* the hints of its call, <<>> for a null pointer
    answer,             \* the host's list
    todo,               \* what from_host_alloc has yet to visit
    res,                \* the list it has made
    heap,               \* blocks allocated and not freed
    alive               \* no exception has escaped

vars == <<pc, hints, answer, todo, res, heap, alive>>

Init ==
    /\ pc = [c \in Callers |-> "idle"]
    /\ hints = [c \in Callers |-> <<>>]
    /\ answer = [c \in Callers |-> <<>>]
    /\ todo = [c \in Callers |-> <<>>]
    /\ res = [c \in Callers |-> <<>>]
    /\ heap = NoBlocks
    /\ alive = TRUE

At(c, place) == alive /\ pc[c] = place
Goto(c, place) == pc' = [pc EXCEPT ![c] = place]

from_host_af_family(f) == IF f \in Families THEN f ELSE "UNSPEC"
to_host_af_family(f) == IF f \in Families THEN f ELSE "UNSPEC"
HasLen(addr) == addr \in {"none", "INET", "INET6"}

(* A hint may leave the type open; an unknown protocol throws. *)
to_host_throws(h) ==
    h.socktype \notin SockTypes \cup {"any"} \/ h.proto \notin Protocols \/ ~HasLen(h.addr)

HintBlocks(h) == Plus(One("host_node"), OneIf("host_addr", h.addr # "none"))

(* to_host_alloc, of no hints or one. *)
to_host_alloc(c) ==
    /\ At(c, "idle")
    /\ \/ /\ hints' = [hints EXCEPT ![c] = <<>>]
          /\ Goto(c, "lookup")
          /\ UNCHANGED <<heap, alive>>
       \/ \E h \in GuestHints :
             IF to_host_throws(h)
             THEN /\ alive' = FALSE
                  /\ heap' = Plus(heap, One("host_node"))
                  /\ UNCHANGED <<pc, hints>>
             ELSE /\ hints' = [hints EXCEPT ![c] = <<[h EXCEPT !.family = to_host_af_family(h.family)]>>]
                  /\ heap' = Plus(heap, HintBlocks(h))
                  /\ Goto(c, "lookup")
                  /\ UNCHANGED alive
    /\ UNCHANGED <<answer, todo, res>>

free_host_list(list) == IF list = <<>> THEN NoBlocks ELSE HintBlocks(list[1])

(* What the host answers fits the hints' family. *)
Fits(e, list) == list = <<>> \/ list[1].family \in {"UNSPEC", e.family}

(* The host's lookup: an error, which is returned, or a list. *)
getaddrinfo(c) ==
    /\ At(c, "lookup")
    /\ \/ /\ heap' = Minus(heap, free_host_list(hints[c]))
          /\ Goto(c, "idle") /\ UNCHANGED <<answer, todo, res>>
       \/ /\ heap' = Plus(Minus(heap, free_host_list(hints[c])), One("host_list"))
          /\ \E n \in 1 .. MaxAnswer :
                \E list \in [1 .. n -> {e \in HostAnswers : Fits(e, hints[c])}] :
                   /\ answer' = [answer EXCEPT ![c] = list]
                   /\ todo' = [todo EXCEPT ![c] = list]
          /\ res' = [res EXCEPT ![c] = <<>>]
          /\ Goto(c, "convert")
    /\ hints' = [hints EXCEPT ![c] = <<>>]
    /\ UNCHANGED alive

from_host_throws(e) == e.socktype \notin SockTypes \/ e.proto \notin Protocols \/ ~HasLen(e.addr)

EntryBlocks(e) ==
    Plus(One("node"), Plus(OneIf("addr", e.addr # "none"), OneIf("name", e.canon)))

(* Mutant: the node of an entry that throws is not deleted. *)
from_host_alloc_keep(c) ==
    /\ At(c, "convert") /\ todo[c] # <<>>
    /\ LET e == Head(todo[c]) IN
       IF from_host_throws(e)
       THEN heap' = Plus(heap, One("node")) /\ UNCHANGED res
       ELSE /\ res' = [res EXCEPT ![c] = Append(@, [e EXCEPT !.family = from_host_af_family(e.family)])]
            /\ heap' = Plus(heap, EntryBlocks(e))
    /\ todo' = [todo EXCEPT ![c] = Tail(@)]
    /\ UNCHANGED <<pc, hints, answer, alive>>

(* One level of the recursion of from_host_alloc.  Every field that can    *)
(* throw is read before the address and the name are allocated, so the     *)
(* handler has the node alone to delete.                                   *)
from_host_alloc(c) ==
    /\ At(c, "convert") /\ todo[c] # <<>>
    /\ LET e == Head(todo[c]) IN
       IF from_host_throws(e)
       THEN UNCHANGED <<res, heap>>
       ELSE /\ res' = [res EXCEPT ![c] = Append(@, [e EXCEPT !.family = from_host_af_family(e.family)])]
            /\ heap' = Plus(heap, EntryBlocks(e))
    /\ todo' = [todo EXCEPT ![c] = Tail(@)]
    /\ UNCHANGED <<pc, hints, answer, alive>>

(* The host's list is freed, and the call returns 0, with a null list if   *)
(* no entry was kept.                                                      *)
getaddrinfo_return(c) ==
    /\ At(c, "convert") /\ todo[c] = <<>>
    /\ heap' = Minus(heap, One("host_list"))
    /\ Goto(c, "got")
    /\ UNCHANGED <<hints, answer, todo, res, alive>>

(* free_bionic_list frees the head of the list, until there is none. *)
free_bionic_list(c) ==
    /\ At(c, "got") /\ res[c] # <<>>
    /\ heap' = Minus(heap, EntryBlocks(Head(res[c])))
    /\ res' = [res EXCEPT ![c] = Tail(@)]
    /\ answer' = [answer EXCEPT ![c] = <<>>]
    /\ UNCHANGED <<pc, hints, todo, alive>>

freeaddrinfo(c) ==
    /\ At(c, "got") /\ res[c] = <<>>
    /\ Goto(c, "idle")
    /\ answer' = [answer EXCEPT ![c] = <<>>]
    /\ UNCHANGED <<hints, todo, res, heap, alive>>

Next == \E c \in Callers :
    \/ to_host_alloc(c) \/ getaddrinfo(c) \/ from_host_alloc(c)
    \/ getaddrinfo_return(c) \/ free_bionic_list(c) \/ freeaddrinfo(c)

Spec == Init /\ [][Next]_vars

-----------------------------------------------------------------------------
(* Blocks are freed once, a caller has hints only during its lookup, and   *)
(* what is left to visit is the end of the host's list.                    *)
TypeOK ==
    /\ pc \in [Callers -> {"idle", "lookup", "convert", "got"}]
    /\ heap \in [Blocks -> Nat]
    /\ alive \in BOOLEAN
    /\ \A c \in Callers :
          /\ hints[c] # <<>> => pc[c] = "lookup"
          /\ IsSuffix(todo[c], answer[c])

(* An entry the guest has names for. *)
Nameable(e) == e.socktype \in SockTypes /\ e.proto \in Protocols /\ e.addr \in {"INET", "INET6"}

(* getaddrinfo gives the guest exactly the entries of the host's answer    *)
(* that it has names for, in the host's order: one that cannot be          *)
(* translated takes no other with it, wherever it stands.                  *)
AnswerConverted == \A c \in Callers :
    pc[c] = "got" /\ answer[c] # <<>> => res[c] = SelectSeq(answer[c], Nameable)

Held(c) ==
    Plus(OneIf("host_list", pc[c] = "convert"),
         Plus(IF hints[c] = <<>> THEN NoBlocks ELSE HintBlocks(hints[c][1]),
              FoldSeq(LAMBDA e, h : Plus(EntryBlocks(e), h), NoBlocks, res[c])))

(* As long as the process lives, the blocks allocated are those of the     *)
(* lists that lookups and callers have, the host's answer among them:      *)
(* nothing leaks on the path of an entry that throws or of a failed        *)
(* lookup, nothing is freed twice.                                         *)
HeapExact == alive => heap = FoldSet(LAMBDA c, h : Plus(Held(c), h), NoBlocks, Callers)
=============================================================================
