-------------------------------- MODULE Fibers --------------------------------
(***************************************************************************)
(* One thread: guest code that calls native functions, and native          *)
(* functions that run guest code again (comparators, constructors, key     *)
(* destructors, JNI callbacks) in a fiber nested in the call.              *)
(*                                                                         *)
(*   execution_context.cpp   GetSupervisorFastCall, CallSVC,               *)
(*                           ExceptionRaised, handle_call_svc (the control *)
(*                           of it), the saved registers, execution_loop,  *)
(*                           ScopedExecutionFiber                          *)
(*   libs/libc_impl.cpp      the functions that run guest code             *)
(*   bionic libdl, libc-shim the tags in their symbol tables               *)
(*                                                                         *)
(* SavedRegisters (x19-x30, sp, pc, d8-d15) is a pair: the nesting level   *)
(* of the guest activation the registers belong to, and a position in it.  *)
(***************************************************************************)
EXTENDS Integers, Sequences, FiniteSets

CONSTANTS
  MaxDepth,     \* bound: nested fibers
  Positions,    \* positions of a guest activation
  Comparators,  \* guest comparator functions
  Null          \* no function, no buffer, nullptr

ASSUME FibersAssumption ==
  MaxDepth \in Nat /\ Positions # {} /\ Null \notin Comparators

------------------------------------------------------------------------------
(* Native functions, by what the symbol tables and their signatures say:   *)
(* tagged HasExecutionSideEffects; takes a va_list; number of integer      *)
(* arguments; and by what their code does: whether it runs a fiber.        *)
Symbol(tag, va, ints, fiber) == [tagged |-> tag, va_list |-> va, int_args |-> ints, runs |-> fiber]

symbols ==
  [ strlen             |-> Symbol(FALSE, FALSE, 1, FALSE),
    vkCmdPipelineBarrier |-> Symbol(FALSE, FALSE, 10, FALSE),
    CallVoidMethodV    |-> Symbol(FALSE, TRUE, 3, TRUE),
    qsort              |-> Symbol(TRUE, FALSE, 4, TRUE),
    bsearch            |-> Symbol(TRUE, FALSE, 5, TRUE),
    dlopen             |-> Symbol(TRUE, FALSE, 2, TRUE),
    setjmp             |-> Symbol(TRUE, FALSE, 1, FALSE),
    longjmp            |-> Symbol(TRUE, FALSE, 2, FALSE),
    dlclose            |-> Symbol(FALSE, FALSE, 1, TRUE),
    android_dlopen_ext |-> Symbol(FALSE, FALSE, 3, TRUE),
    cxa_finalize       |-> Symbol(FALSE, FALSE, 1, TRUE) ]

Functions == DOMAIN symbols
Sorts == {"qsort", "bsearch"}

(* Mutant: the tag is not looked at. *)
GetSupervisorFastCall_untagged(f) == ~symbols[f].va_list /\ symbols[f].int_args <= 6

(* A function the JIT calls directly, without halting: GetSupervisorFastCall. *)
GetSupervisorFastCall(f) ==
  /\ ~symbols[f].tagged
  /\ ~symbols[f].va_list
  /\ symbols[f].int_args <= 6

(* Functions that run guest code and say so, or run none.                  *)
WellTagged == {f \in Functions : symbols[f].runs => symbols[f].tagged \/ symbols[f].va_list}

------------------------------------------------------------------------------
VARIABLES
  depth,        \* fibers in existence
  fiber,        \* 1 .. depth: the fibers, and the native call each is in
  ctl,          \* "guest": in jit->Run; "svc": Run has returned; "host": native code
  regs,         \* the JIT's registers, as far as SavedRegisters goes
  executing,    \* jit->IsExecuting()
  svc_number,
  jmp_buf,      \* the guest's jmp_buf, Null before setjmp
  current_qsort_compar, current_bsearch_compar,
  fault

fibers == <<depth, fiber, ctl, regs, executing, svc_number, jmp_buf,
          current_qsort_compar, current_bsearch_compar, fault>>
compars == <<current_qsort_compar, current_bsearch_compar>>

Levels == 1 .. MaxDepth
Registers == [level : 0 .. MaxDepth, pos : Positions]
Fresh == CHOOSE p \in Positions : TRUE
IdleRegisters == [level |-> 0, pos |-> Fresh]

(* saved: ScopedExecutionFiber::saved_registers; routine: what it runs;    *)
(* fn: the native call its guest is in; at: the registers at that call;    *)
(* compar: the comparator that call was given. History, for the            *)
(* properties: strayed, a longjmp in this fiber has left its activation;   *)
(* nested, a sort of the same kind has begun within this call.             *)
NewFiber(saved, routine) ==
  [saved |-> saved, routine |-> routine, fn |-> Null, at |-> IdleRegisters, compar |-> Null,
   strayed |-> FALSE, nested |-> FALSE]
NoFiber == NewFiber(IdleRegisters, Null)

(* The innermost fiber, and the same fiber in a native call.               *)
Top == fiber[depth]
InNative(f, x, c) ==
  [saved |-> Top.saved, routine |-> Top.routine, fn |-> f, at |-> x, compar |-> c,
   strayed |-> Top.strayed, nested |-> FALSE]
InGuest(jumps) ==
  [saved |-> Top.saved, routine |-> Top.routine, fn |-> Null, at |-> IdleRegisters,
   compar |-> Null, strayed |-> Top.strayed \/ jumps, nested |-> FALSE]

FibersInit ==
  /\ depth = 0 /\ fiber = [d \in Levels |-> NoFiber]
  /\ ctl = "host" /\ regs = IdleRegisters /\ executing = FALSE
  /\ svc_number = Null /\ jmp_buf = Null
  /\ current_qsort_compar = Null /\ current_bsearch_compar = Null
  /\ fault = "none"

(* The guest computes: it moves on in its own activation.                  *)
guest_moves ==
  /\ ctl = "guest"
  /\ \E p \in Positions : regs' = [regs EXCEPT !.pos = p]
  /\ UNCHANGED <<depth, fiber, ctl, executing, svc_number, jmp_buf, compars, fault>>

(* The native function begins: in the JIT's own frame on the fast path, in *)
(* handle_call_svc otherwise. qsort and bsearch put their comparator where *)
(* the callback finds it.                                                  *)
enter(f) ==
  \E c \in Comparators :
    /\ ctl' = "host"
    /\ fiber' = [d \in Levels |->
          IF d = depth THEN InNative(f, regs, IF f \in Sorts THEN c ELSE Null)
          ELSE [fiber[d] EXCEPT !.nested = @ \/ (f \in Sorts /\ fiber[d].fn = f)]]
    /\ current_qsort_compar' = IF f = "qsort" THEN c ELSE current_qsort_compar
    /\ current_bsearch_compar' = IF f = "bsearch" THEN c ELSE current_bsearch_compar
    /\ UNCHANGED <<depth, regs, jmp_buf, fault>>

(* The guest reaches the svc of a trampoline.                              *)
guest_calls(f) ==
  /\ ctl = "guest"
  /\ \/ /\ GetSupervisorFastCall(f)
        /\ enter(f)
        /\ UNCHANGED <<executing, svc_number>>
     \/ /\ ~GetSupervisorFastCall(f)            \* CallSVC
        /\ svc_number' = f
        /\ executing' = FALSE
        /\ ctl' = "svc"
        /\ UNCHANGED <<depth, fiber, regs, jmp_buf, compars, fault>>

(* execution_loop, case SupervisorCall.                                    *)
handle_call_svc ==
  /\ ctl = "svc"
  /\ enter(svc_number)
  /\ UNCHANGED <<executing, svc_number>>

(* Back to the guest: from the fast path, or by the next jit->Run of       *)
(* execution_loop. setjmp_impl copies the registers of its fiber,          *)
(* longjmp_impl lets its fiber restore others.                             *)
native_returns ==
  /\ ctl = "host" /\ depth > 0
  /\ jmp_buf' = IF Top.fn = "setjmp" THEN regs ELSE jmp_buf
  /\ regs' = IF Top.fn = "longjmp" THEN jmp_buf ELSE regs
  /\ fiber' = [fiber EXCEPT ![depth] = InGuest(Top.fn = "longjmp" /\ jmp_buf.level # regs.level)]
  /\ ctl' = "guest" /\ executing' = TRUE
  /\ UNCHANGED <<depth, svc_number, compars, fault>>

(* Mutant: both callbacks look in the same place. *)
callee_shared == IF depth = 0 \/ Top.fn \notin Sorts THEN Null ELSE current_qsort_compar

(* The guest function a native function runs.                              *)
callee == IF depth = 0 THEN Null
          ELSE IF Top.fn = "qsort" THEN current_qsort_compar
          ELSE IF Top.fn = "bsearch" THEN current_bsearch_compar ELSE Null

(* Mutant: the registers are saved after the entry point has been set. *)
fiber_runs_late ==
  /\ ctl = "host" /\ depth < MaxDepth /\ ~executing
  /\ depth > 0 => symbols[Top.fn].runs
  /\ depth' = depth + 1
  /\ regs' = [level |-> depth + 1, pos |-> Fresh]
  /\ fiber' = [fiber EXCEPT ![depth + 1] = NewFiber(regs', callee)]
  /\ executing' = TRUE /\ ctl' = "guest"
  /\ UNCHANGED <<svc_number, jmp_buf, compars, fault>>

(* ScopedExecutionFiber(Callee) and run, from main or thread_routine (no   *)
(* fiber yet) or from a native function.                                   *)
fiber_runs ==
  /\ ctl = "host" /\ depth < MaxDepth
  /\ depth > 0 => symbols[Top.fn].runs
  /\ \/ /\ ~executing
        /\ depth' = depth + 1
        /\ fiber' = [fiber EXCEPT ![depth + 1] = NewFiber(regs, callee)]
        /\ regs' = [level |-> depth + 1, pos |-> Fresh]
        /\ executing' = TRUE /\ ctl' = "guest"
        /\ UNCHANGED <<svc_number, jmp_buf, compars, fault>>
     \/ /\ executing                            \* assert(jit && !jit->IsExecuting())
        /\ fault' = "executing"
        /\ UNCHANGED <<depth, fiber, ctl, regs, executing, svc_number, jmp_buf, compars>>

(* Mutant: nothing is restored. *)
fiber_ends_unrestored ==
  /\ ctl = "guest"
  /\ executing' = FALSE /\ ctl' = "host"
  /\ depth' = depth - 1
  /\ fiber' = [fiber EXCEPT ![depth] = NoFiber]
  /\ jmp_buf' = IF jmp_buf # Null /\ jmp_buf.level = regs.level THEN Null ELSE jmp_buf
  /\ UNCHANGED <<regs, svc_number, compars, fault>>

(* The guest returns to guest_exit, whichever activation it is: the yield  *)
(* there halts the innermost loop, and the fiber restores the registers. A *)
(* jmp_buf of that activation is not used again.                           *)
fiber_ends ==
  /\ ctl = "guest"
  /\ executing' = FALSE /\ ctl' = "host"
  /\ regs' = Top.saved
  /\ depth' = depth - 1
  /\ fiber' = [fiber EXCEPT ![depth] = NoFiber]
  /\ jmp_buf' = IF jmp_buf # Null /\ jmp_buf.level = regs.level THEN Null ELSE jmp_buf
  /\ UNCHANGED <<svc_number, compars, fault>>

------------------------------------------------------------------------------
(* Any guest; only a longjmp without a setjmp is out of the question.      *)
FibersNext ==
  /\ fault = "none"
  /\ \/ guest_moves \/ handle_call_svc \/ native_returns \/ fiber_runs \/ fiber_ends
     \/ \E f \in Functions : (f = "longjmp" => jmp_buf # Null) /\ guest_calls(f)

FibersSpec == FibersInit /\ [][FibersNext]_fibers

------------------------------------------------------------------------------
Frame == [saved : Registers, routine : Comparators \cup {Null}, fn : Functions \cup {Null},
          at : Registers, compar : Comparators \cup {Null}, strayed : BOOLEAN, nested : BOOLEAN]

FibersTypeOK ==
  /\ depth \in 0 .. MaxDepth /\ fiber \in [Levels -> Frame]
  /\ ctl \in {"guest", "svc", "host"} /\ regs \in Registers /\ executing \in BOOLEAN
  /\ svc_number \in Functions \cup {Null} /\ jmp_buf \in Registers \cup {Null}
  /\ current_qsort_compar \in Comparators \cup {Null}
  /\ current_bsearch_compar \in Comparators \cup {Null}
  /\ fault \in {"none", "executing"}

(* "This function manipulates the execution context (such as by creating a *)
(* new execution fiber) as such, we don't support making a fast path for   *)
(* it": no fiber runs while the JIT is executing.                          *)
NoFiberInFastPath == fault # "executing"

(* The assertion of ScopedExecutionFiber::run fails for no function but    *)
(* those that run guest code and do not say so: behind a tag or a va_list  *)
(* fibers nest however the guest calls.                                    *)
OnlyUntaggedFail == fault = "executing" => Top.fn \notin WellTagged

(* The JIT counts as executing exactly in guest code and on the fast path. *)
ExecutingExact ==
  executing <=> \/ ctl = "guest"
                \/ ctl = "host" /\ depth > 0 /\ GetSupervisorFastCall(Top.fn)

(* When a native function returns, the guest finds the registers it called *)
(* with, however many fibers ran in between; when the outermost fiber has  *)
(* ended the JIT is as it was before.                                      *)
RegistersRestored ==
  ctl = "host" => IF depth = 0 THEN regs = IdleRegisters ELSE regs = Top.at

(* Guest code runs in the fiber that was created for it, so that the loop  *)
(* that ends when it returns is its own: always, but for a fiber in which  *)
(* a longjmp has left the activation, and there until the fiber ends.      *)
GuestAtOwnLevel == ctl = "guest" /\ ~Top.strayed => regs.level = depth

(* A comparator call runs the comparator given to the very sort it serves, *)
(* as long as no sort of the same kind has begun within that sort: the     *)
(* comparator is in one thread-local place for each kind.                  *)
ComparatorOwn ==
  \A d \in 2 .. depth :
    fiber[d - 1].fn \in Sorts /\ ~fiber[d - 1].nested =>
      fiber[d].routine = fiber[d - 1].compar

(* What the proof needs besides the properties above.                      *)

(* Every fiber but the innermost is in a native call off the fast path,    *)
(* made with registers of its own level unless it has strayed; the next    *)
(* fiber in has saved exactly those. The comparator of a sort is where its *)
(* callback looks for it until another sort of its kind begins within.     *)
InCall(d) == d < depth \/ (d = depth /\ ctl = "host")

CallOK(d) ==
  /\ fiber[d].fn \in Functions
  /\ ~fiber[d].strayed => fiber[d].at.level = d
  /\ fiber[d].fn = "qsort" /\ ~fiber[d].nested => fiber[d].compar = current_qsort_compar
  /\ fiber[d].fn = "bsearch" /\ ~fiber[d].nested => fiber[d].compar = current_bsearch_compar
  /\ d < depth => symbols[fiber[d].fn].runs /\ ~GetSupervisorFastCall(fiber[d].fn)

StackOK ==
  \A d \in 1 .. depth :
    /\ fiber[d].saved = IF d = 1 THEN IdleRegisters ELSE fiber[d - 1].at
    /\ InCall(d) => CallOK(d)
    /\ ~InCall(d) => fiber[d].fn = Null

(* Between the guest's call and the native function nothing changes.       *)
SvcOK ==
  /\ ctl # "host" => depth > 0
  /\ ctl = "svc" => /\ svc_number \in Functions /\ ~GetSupervisorFastCall(svc_number)
                    /\ ~Top.strayed => regs.level = depth
  /\ (ctl = "svc" /\ svc_number = "longjmp") \/ (ctl = "host" /\ depth > 0 /\ Top.fn = "longjmp")
       => jmp_buf # Null

FibersInv ==
  /\ FibersTypeOK /\ OnlyUntaggedFail /\ RegistersRestored /\ GuestAtOwnLevel /\ ComparatorOwn
  /\ ExecutingExact /\ StackOK /\ SvcOK
==============================================================================
