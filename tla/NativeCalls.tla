----------------------------- MODULE NativeCalls -----------------------------
(***************************************************************************)
(* What the guest's calls of native functions go through, together: the    *)
(* trampolines, arguments, lists of arguments, zlib's allocators and the   *)
(* resolver's answers.  They share no state, so that a behaviour is one of *)
(* a single part, chosen at the start.                                     *)
(***************************************************************************)
EXTENDS Trampolines, VaList, ZStream

CONSTANTS
    NumX, HostInt, NumV, MaxArgs,
    Callers, HostAnswers, GuestHints, MaxAnswer

VARIABLES
    part,
    \* arguments
    trampoline, rest, args_pc, i, x_reg, v_reg, stack_cursor, pushed, host, result,
    \* answers of the resolver
    caller, hints, answer, todo, res, heap, alive

arguments == <<trampoline, rest, args_pc, i, x_reg, v_reg, stack_cursor, pushed, host, result>>
answers == <<caller, hints, answer, todo, res, heap, alive>>

Args == INSTANCE Marshal WITH pc <- args_pc
Resolver == INSTANCE AddrInfo WITH pc <- caller

ASSUME PartsAssumption == Args!RegistersAssumption

(* Of the parts that do not run, one initial state is enough. *)
CallsInit ==
    /\ part \in {"table", "args", "list", "zlib", "names"}
    /\ Init /\ ZlibInit /\ Resolver!Init
    /\ IF part = "args" THEN Args!Init
                        ELSE Args!Start(Args!Prototype(<<>>, "none", FALSE, FALSE), <<>>)
    /\ IF part = "list" THEN VaInit ELSE VaStart([gr_offs |-> 0, vr_offs |-> 0, stack |-> FALSE])

TablePart == part = "table" /\ Next /\ UNCHANGED <<part, arguments, list, streams, answers>>
ArgsPart == part = "args" /\ Args!Next /\ UNCHANGED <<part, vars, list, streams, answers>>
ListPart == part = "list" /\ VaNext /\ UNCHANGED <<part, vars, arguments, streams, answers>>
ZlibPart == part = "zlib" /\ ZlibNext /\ UNCHANGED <<part, vars, arguments, list, answers>>
NamesPart == part = "names" /\ Resolver!Next /\ UNCHANGED <<part, vars, arguments, list, streams>>

CallsNext == TablePart \/ ArgsPart \/ ListPart \/ ZlibPart \/ NamesPart

CallsSpec == CallsInit /\ [][CallsNext]_<<part, vars, arguments, list, streams, answers>>

(***************************************************************************)
(* Properties of the parts.                                                *)
(***************************************************************************)
(* A call arrives as it was made (Marshal): parameters where the function  *)
(* looks for them, arguments in place of "..." while registers last, and   *)
(* the result in the guest's register.                                     *)
ArgumentsExact == Args!ParametersArrive /\ Args!RestArrives /\ Args!ResultReturned

(* The guest gets the entries it has names for, and nothing of an answer   *)
(* leaks or is freed twice (AddrInfo).                                     *)
AnswersExact == Resolver!AnswerConverted /\ Resolver!HeapExact
=============================================================================
