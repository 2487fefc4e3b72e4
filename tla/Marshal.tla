------------------------------- MODULE Marshal -------------------------------
(***************************************************************************)
(* How the arguments of a guest call reach a native function.              *)
(*                                                                         *)
(*   src/src/execution_context.cpp   GetSupervisorFastCall,                *)
(*                                   handle_call_svc                       *)
(*   subprojects/dynarmic            EmitA64CallSupervisor, CallFunction   *)
(*                                                                         *)
(* The guest has placed its arguments by the AArch64 rules.  When the call *)
(* is compiled GetSupervisorFastCall decides, from the types of the        *)
(* prototype, whether generated code copies registers and calls the        *)
(* function (fast path), or handle_call_svc hands the arguments one by one *)
(* to dyncall (slow path).  The function finds its arguments by the x86-64 *)
(* rules, those it was given beyond its prototype (rest) included.         *)
(*                                                                         *)
(* A value is the guest register or stack slot it comes from, such as      *)
(* <<"int", 0>> for x0, <<"fp", 1>> for d1, <<"stack", 0>> for the slot at *)
(* SP.                                                                     *)
(***************************************************************************)
EXTENDS Integers, Sequences, FiniteSets, SequencesExt

CONSTANTS
    NumX,       \* general registers with arguments on AArch64 (8)
    HostInt,    \* general registers with arguments on x86-64 (6)
    NumV,       \* vector registers with arguments, on both (8)
    MaxArgs     \* bound of the model: arguments of a call

RegistersAssumption ==
    /\ NumX \in Nat /\ HostInt \in Nat /\ NumV \in Nat /\ MaxArgs \in Nat
    /\ HostInt <= NumX

-----------------------------------------------------------------------------
(* The two calling conventions.  Both give out the registers of a class in *)
(* order, and stack slots in order to what finds none.                     *)

\* The class of a value: a va_list is passed as a pointer.
Class(type) == IF type = "va" THEN "int" ELSE type

GuestRegs == [int |-> NumX, fp |-> NumV]
HostRegs == [int |-> HostInt, fp |-> NumV]

Rank(ts, k) == Cardinality({j \in 1 .. k - 1 : Class(ts[j]) = Class(ts[k])})

Spills(ts, k, regs) == Rank(ts, k) >= regs[Class(ts[k])]

Place(ts, k, regs) ==
    IF Spills(ts, k, regs)
    THEN <<"stack", Cardinality({j \in 1 .. k - 1 : Spills(ts, j, regs)})>>
    ELSE <<Class(ts[k]), Rank(ts, k)>>

Count(ts, class) == Cardinality({k \in DOMAIN ts : Class(ts[k]) = class})

-----------------------------------------------------------------------------
VARIABLES
    trampoline,     \* types, return type, is_ellipsis_function, has_execution_side_effects
    rest,           \* types of the arguments passed in place of "..."
    pc,
    i,              \* arguments handled by handle_call_svc
    x_reg, v_reg, stack_cursor,
    pushed,         \* what dyncall was given: type and value
    host,           \* the machine state the function starts from
    result          \* what x0 and d0 hold

vars == <<trampoline, rest, pc, i, x_reg, v_reg, stack_cursor, pushed, host, result>>

\* No location holds an argument, and %al does not announce vector registers.
NoHost == [at |-> {}, al |-> FALSE]

\* A call of a function with the prototype p, with more arguments of types r.
Start(p, r) ==
    /\ trampoline = p /\ rest = r
    /\ pc = "compile"
    /\ i = 0 /\ x_reg = 0 /\ v_reg = 0 /\ stack_cursor = 0
    /\ pushed = <<>>
    /\ host = NoHost
    /\ result = [int |-> "old", fp |-> "old"]

Prototype(ts, ret, ellipsis, side) ==
    [types |-> ts, ret |-> ret,
     is_ellipsis_function |-> ellipsis, has_execution_side_effects |-> side]

\* Every call the guest can make with up to MaxArgs arguments.  A type the
\* program has no case for (a large struct) ends the prototype in the model.
Init ==
    \E ts \in SeqOf({"int", "fp", "va"}, MaxArgs), odd \in BOOLEAN,
       ellipsis \in BOOLEAN, side \in BOOLEAN,
       ret \in {"int", "fp", "none", "unsupported"} :
        /\ ellipsis => ts # <<>>
        /\ \E r \in SeqOf({"int", "fp"}, IF ellipsis /\ ~odd THEN MaxArgs - Len(ts) ELSE 0) :
              Start(Prototype(ts \o (IF odd THEN <<"unsupported">> ELSE <<>>), ret, ellipsis, side), r)

types == trampoline.types

\* The function's value goes to the register of its class.
Returned_int == [class \in {"int", "fp"} |->
                    IF class = "int" THEN "returned" ELSE result[class]]

Returned == [class \in {"int", "fp"} |->
                IF class = trampoline.ret THEN "returned" ELSE result[class]]

-----------------------------------------------------------------------------
(* The fast path.                                                          *)

int_args == Count(types, "int")
float_args == Count(types, "fp")

HasFastCall_wide ==
    /\ ~trampoline.has_execution_side_effects
    /\ \A k \in DOMAIN types : types[k] \in {"int", "fp"}
    /\ ~(int_args > NumX \/ float_args > NumV)
    /\ trampoline.ret # "unsupported"

HasFastCall ==
    /\ ~trampoline.has_execution_side_effects
    /\ \A k \in DOMAIN types : types[k] \in {"int", "fp"}
    /\ ~(int_args > HostInt \/ float_args > NumV)
    /\ trampoline.ret # "unsupported"

\* The parameters the generated code passes.
FastParams ==
    IF trampoline.is_ellipsis_function
    THEN [int |-> HostInt, fp |-> NumV]
    ELSE [int |-> int_args, fp |-> float_args]

GetSupervisorFastCall ==
    /\ pc = "compile"
    /\ pc' = IF HasFastCall THEN "fast" ELSE "slow"
    /\ UNCHANGED <<trampoline, rest, i, x_reg, v_reg, stack_cursor, pushed, host, result>>

\* CallFunction loads the function's address into rax when it is far away, and
\* leaves rax alone when it is near: nothing makes %al say that vector
\* registers are used.
EmitA64CallSupervisor ==
    /\ pc = "fast"
    /\ \E al \in BOOLEAN :
        host' = [at |-> {<<l, l>> : l \in {"int"} \X (0 .. FastParams.int - 1)
                                          \cup {"fp"} \X (0 .. FastParams.fp - 1)},
                 al |-> al]
    /\ result' = Returned
    /\ pc' = "called"
    /\ UNCHANGED <<trampoline, rest, i, x_reg, v_reg, stack_cursor, pushed>>

-----------------------------------------------------------------------------
(* The slow path: one iteration of the loop per argument.                  *)

\* Each class has its registers, and the two share the stack.
handle_argument_unchecked ==
    /\ pc = "slow" /\ i < Len(types) /\ types[i + 1] # "unsupported"
    /\ i' = i + 1
    /\ LET class == Class(types[i + 1])
       IN  /\ pushed' = Append(pushed, [class |-> class, value |-> <<class, IF class = "int" THEN x_reg ELSE v_reg>>])
           /\ x_reg' = IF class = "int" THEN x_reg + 1 ELSE x_reg
           /\ v_reg' = IF class = "fp" THEN v_reg + 1 ELSE v_reg
    /\ UNCHANGED <<trampoline, rest, pc, stack_cursor, host, result>>

handle_argument ==
    /\ pc = "slow" /\ i < Len(types) /\ types[i + 1] # "unsupported"
    /\ i' = i + 1
    /\ LET class == Class(types[i + 1])
           reg == IF class = "int" THEN x_reg ELSE v_reg
           spilt == reg > GuestRegs[class] - 1
           value == IF spilt THEN <<"stack", stack_cursor>> ELSE <<class, reg>>
       IN  /\ pushed' = Append(pushed, [class |-> class, value |-> value])
           /\ x_reg' = IF class = "int" /\ ~spilt THEN x_reg + 1 ELSE x_reg
           /\ v_reg' = IF class = "fp" /\ ~spilt THEN v_reg + 1 ELSE v_reg
           /\ stack_cursor' = IF spilt THEN stack_cursor + 1 ELSE stack_cursor
    /\ UNCHANGED <<trampoline, rest, pc, host, result>>

\* An unsupported type is reported, and the guest goes on without the call.
unsupported_type ==
    /\ pc = "slow"
    /\ IF i < Len(types) THEN types[i + 1] = "unsupported"
                         ELSE trampoline.ret = "unsupported"
    /\ pc' = "skipped"
    /\ UNCHANGED <<trampoline, rest, i, x_reg, v_reg, stack_cursor, pushed, host, result>>

\* The argument registers no parameter used are passed to an ellipsis function.
Unused_all(class, reg) == [n \in 1 .. GuestRegs[class] |-> [class |-> class, value |-> <<class, n - 1>>]]

Unused(class, reg) == [n \in 1 .. GuestRegs[class] - reg |-> [class |-> class, value |-> <<class, reg + n - 1>>]]

ellipsis_arguments ==
    IF trampoline.is_ellipsis_function THEN Unused("int", x_reg) \o Unused("fp", v_reg) ELSE <<>>

\* dyncall places what it was given by the x86-64 rules, and sets %al.
dcCall(args) ==
    LET classes == [k \in DOMAIN args |-> args[k].class]
    IN  [at |-> {<<Place(classes, k, HostRegs), args[k].value>> : k \in DOMAIN args}, al |-> TRUE]

call_function ==
    /\ pc = "slow" /\ i = Len(types) /\ trampoline.ret # "unsupported"
    /\ pushed' = pushed \o ellipsis_arguments
    /\ host' = dcCall(pushed')
    /\ result' = Returned
    /\ pc' = "called"
    /\ UNCHANGED <<trampoline, rest, i, x_reg, v_reg, stack_cursor>>

Next ==
    \/ GetSupervisorFastCall
    \/ EmitA64CallSupervisor
    \/ handle_argument
    \/ unsupported_type
    \/ call_function

Spec == Init /\ [][Next]_vars

-----------------------------------------------------------------------------
(* What the function finds.                                                *)

Passed == types \o rest

Finds(k) ==
    LET loc == Place(Passed, k, HostRegs)
        saved == k <= Len(types) \/ loc[1] # "fp" \/ host.al
        values == {e[2] : e \in {f \in host.at : f[1] = loc}}
    IN  IF saved THEN values ELSE {}

\* The k-th argument is the one the guest placed.
Arrives(k) == Finds(k) = {Place(Passed, k, GuestRegs)}

Called == pc = "called"

\* The path the call took.
Fast == HasFastCall

-----------------------------------------------------------------------------
(* Properties.                                                             *)

Locations == {"int", "fp", "stack"} \X (0 .. NumX + NumV + MaxArgs)

\* Registers are never counted past the last, and what is handed over comes
\* from an argument location.
TypeOK ==
    /\ pc \in {"compile", "fast", "slow", "called", "skipped"}
    /\ i \in 0 .. Len(types)
    /\ x_reg \in 0 .. NumX /\ v_reg \in 0 .. NumV
    /\ stack_cursor \in 0 .. MaxArgs
    /\ \A k \in DOMAIN pushed : pushed[k].value \in Locations
    /\ host.at \subseteq Locations \X Locations
    /\ result \in [{"int", "fp"} -> {"old", "returned"}]

\* Whatever path is taken, the function finds each parameter of its prototype
\* where the guest's compiler put it: registers that x86-64 has not got, and
\* slots that one convention spills and the other does not, included.
ParametersArrive ==
    Called => \A k \in DOMAIN types : Arrives(k)

\* Arguments in place of "..." arrive as long as all arguments of the call fit
\* in the registers of the path: eight general ones with dyncall, six in
\* generated code, and eight vector registers, if %al happens to announce them.
RestArrives ==
    (Called /\ Count(Passed, "int") <= (IF Fast THEN HostInt ELSE NumX)
            /\ Count(Passed, "fp") <= NumV
            /\ (host.al \/ Count(rest, "fp") = 0))
        => \A k \in DOMAIN Passed : Arrives(k)

\* The function's value reaches the guest in the register it is read from, and
\* nowhere else; a call that was not made changes no register.
ResultReturned ==
    pc \in {"called", "skipped"} =>
        \A class \in {"int", "fp"} :
            result[class] = "returned" <=> (Called /\ trampoline.ret = class)

=============================================================================
