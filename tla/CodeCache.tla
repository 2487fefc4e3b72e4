------------------------------ MODULE CodeCache ------------------------------
(***************************************************************************)
(* One context's JIT: its cache of compiled blocks, and how control gets   *)
(* from block to block.                                                    *)
(*                                                                         *)
(*   src/subprojects/dynarmic/src/dynarmic/backend/x64/                    *)
(*     a64_interface.cpp    Run, GetBlock, invalidation and its requests   *)
(*     emit_x64.cpp         links between blocks and their patching        *)
(*     a64_emit_x64.cpp     terminals, return stack buffer, dispatch table *)
(*     block_of_code.cpp    the dispatcher loop, the code buffer           *)
(*   src/.../backend/block_range_information.cpp                           *)
(*                                                                         *)
(* A block of guest code is its location, the addresses it covers, and how *)
(* it ends (Terms): "link" jumps to one of its targets, "dispatch" and     *)
(* "ret" go to the address in a register (with the dispatch table or the   *)
(* return stack buffer as a hint), "svc" calls the supervisor and          *)
(* continues after it, "stop" is a callback that returns to the            *)
(* dispatcher; push is the return address that the block pushes, or None.  *)
(* The buffer has room for Slots blocks; ptr 0 is the dispatcher's own     *)
(* code.  Emptying the cache only resets space: what lies in the buffer    *)
(* stays until it is overwritten, so a pointer that was not forgotten      *)
(* leads into other code.                                                  *)
(*                                                                         *)
(* The context's thread runs the blocks; any thread may request            *)
(* invalidation or a halt.  goal, doomed and stale are history variables:  *)
(* where the guest program is, which blocks in the buffer a request has    *)
(* been made for, and for which of them before the current Run.            *)
(***************************************************************************)
EXTENDS Integers, FiniteSets

CONSTANTS Locs, Terms, Extents, Entries, RSBSize, Slots, None

ASSUME CacheAssumption ==
    /\ RSBSize \in Nat \ {0} /\ Slots \in Nat \ {0}
    /\ None \notin Locs /\ None \notin [loc : Locs, covers : SUBSET Locs, term : Terms,
                                        link : [Locs -> 0 .. Slots], push : 0 .. Slots]
    /\ Terms \subseteq [kind : {"link", "dispatch", "ret", "svc", "stop"},
                        targets : SUBSET Locs, push : Locs \cup {None}]
    /\ \A m \in Terms : m.kind = "svc" => m.push # None
    /\ Extents \subseteq SUBSET Locs

Ptrs == 0 .. Slots
Blocks == 1 .. Slots
Dispatcher == 0
Ring == 0 .. RSBSize - 1
Reasons == {"CacheInvalidation", "UserDefined"}

(* The dispatch table's index; any function of the location will do. *)
CONSTANT Hash(_)
ASSUME HashAssumption == \A l \in Locs : Hash(l) \in Entries

VARIABLES
    block_descriptors,          \* location -> entry point, Dispatcher if none
    code,                       \* the buffer's contents
    space,                      \* the next free place in it
    patch_information,          \* where code that refers to a location lies
    block_ranges,               \* pairs: guest address, location of a block
    fast_dispatch_table,
    rsb, rsb_ptr,               \* return stack buffer
    halt_reason,
    invalidate_entire_cache, invalid_cache_ranges,
    ctl,                        \* what the context's thread is doing
    cur,                        \* code it executes or is about to enter
    via,                        \* who asked for the block being looked up
    hr,                         \* halt reasons held by Run
    pc,                         \* jit_state.pc
    goal, doomed, stale         \* history

cache == <<block_descriptors, code, space, patch_information, block_ranges>>
predictions == <<fast_dispatch_table, rsb, rsb_ptr>>
requests == <<halt_reason, invalidate_entire_cache, invalid_cache_ranges, doomed>>
vars == <<cache, predictions, requests, ctl, cur, via, hr, pc, goal, stale>>

Hint == [loc : Locs \cup {None}, ptr : Ptrs]
NoHint == [loc |-> None, ptr |-> Dispatcher]
Code == [loc : Locs, covers : SUBSET Locs, term : Terms,
         link : [Locs -> Ptrs], push : Ptrs]
Patches == [target : Locs, at : Blocks, kind : {"jz", "mov_rcx"}]

TypeOK ==
    /\ block_descriptors \in [Locs -> Ptrs]
    /\ code \in [Blocks -> Code \cup {None}]
    /\ space \in 1 .. Slots + 1
    /\ patch_information \subseteq Patches
    /\ block_ranges \subseteq Locs \X Locs
    /\ fast_dispatch_table \in [Entries -> Hint]
    /\ rsb \in [Ring -> Hint] /\ rsb_ptr \in Ring
    /\ halt_reason \subseteq Reasons /\ hr \subseteq Reasons
    /\ invalidate_entire_cache \in BOOLEAN /\ invalid_cache_ranges \subseteq Locs
    /\ ctl \in {"out", "starting", "choose", "lookup", "enter", "block", "called",
                "dispatch", "exiting", "exited"}
    /\ cur \in Ptrs
    /\ via \in {"run", "dispatcher", "table"}
    /\ pc \in Locs /\ goal \in Locs
    /\ doomed \subseteq Blocks /\ stale \subseteq Blocks

Init ==
    /\ block_descriptors = [l \in Locs |-> Dispatcher]
    /\ code = [p \in Blocks |-> None]
    /\ space = 1 /\ patch_information = {} /\ block_ranges = {}
    /\ fast_dispatch_table = [e \in Entries |-> NoHint]
    /\ rsb = [i \in Ring |-> NoHint] /\ rsb_ptr = 0
    /\ halt_reason = {} /\ hr = {}
    /\ invalidate_entire_cache = FALSE /\ invalid_cache_ranges = {}
    /\ ctl = "out" /\ cur = Dispatcher /\ via = "run"
    /\ pc \in Locs /\ goal = pc
    /\ doomed = {} /\ stale = {}

(***************************************************************************)
(* Forgetting code.                                                        *)
(***************************************************************************)
(* Mutant: the predictions survive. *)
ResetRSB_kept == UNCHANGED <<rsb, rsb_ptr>>

ResetRSB == rsb' = [i \in Ring |-> NoHint] /\ UNCHANGED rsb_ptr

(* Patch, for all of a set of targets: every place that refers to one is   *)
(* rewritten to go to ptr.                                                 *)
Refers(patches, target, p, kind) == [target |-> target, at |-> p, kind |-> kind] \in patches

Patch(c, patches, targets, ptr) ==
    [p \in Blocks |->
        IF c[p] = None THEN None ELSE
        [c[p] EXCEPT
            !.link = [l \in Locs |-> IF l \in targets /\ Refers(patches, l, p, "jz")
                                    THEN ptr ELSE @[l]],
            !.push = IF \E l \in targets : Refers(patches, l, p, "mov_rcx") THEN ptr ELSE @]]

(* EmitX64, A64EmitX64 and BlockOfCode ::ClearCache. *)
ClearCaches ==
    /\ block_descriptors' = [l \in Locs |-> Dispatcher]
    /\ space' = 1
    /\ patch_information' = {}
    /\ block_ranges' = {}
    /\ fast_dispatch_table' = [e \in Entries |-> NoHint]
    /\ UNCHANGED code

(* Mutant: only the blocks that begin there. *)
Erased_begin == {l \in invalid_cache_ranges : block_descriptors[l] # Dispatcher}

(* InvalidateRanges and InvalidateBasicBlocks: the blocks that cover one   *)
(* of the addresses are unpatched and forgotten.                           *)
Erased == {l \in Locs : /\ \E a \in invalid_cache_ranges : <<a, l>> \in block_ranges
                       /\ block_descriptors[l] # Dispatcher}

InvalidateCacheRanges ==
    /\ block_descriptors' = [l \in Locs |-> IF l \in Erased THEN Dispatcher
                                            ELSE block_descriptors[l]]
    /\ code' = Patch(code, patch_information, Erased, Dispatcher)
    /\ fast_dispatch_table' = [e \in Entries |-> IF \E l \in Erased : Hash(l) = e THEN NoHint
                                                 ELSE fast_dispatch_table[e]]
    /\ UNCHANGED <<space, patch_information, block_ranges>>

PerformRequestedCacheInvalidation(reasons, entire) ==
    IF "CacheInvalidation" \notin reasons
    THEN UNCHANGED <<cache, predictions, halt_reason, invalidate_entire_cache, invalid_cache_ranges>>
    ELSE /\ halt_reason' = halt_reason \ {"CacheInvalidation"}
         /\ invalidate_entire_cache' = FALSE /\ invalid_cache_ranges' = {}
         /\ \/ entire /\ ResetRSB /\ ClearCaches
            \/ ~entire /\ invalid_cache_ranges # {} /\ ResetRSB /\ InvalidateCacheRanges
            \/ ~entire /\ invalid_cache_ranges = {} /\ UNCHANGED <<cache, predictions>>

(***************************************************************************)
(* Entering: Run, and the prologue that run_code generates.                *)
(***************************************************************************)
(* Between runs the context's owner may set the program counter. *)
SetPC(l) ==
    /\ ctl = "out"
    /\ pc' = l /\ goal' = l
    /\ UNCHANGED <<cache, predictions, requests, ctl, cur, via, hr, stale>>

Run ==
    /\ ctl = "out"
    /\ hr' = halt_reason
    /\ ctl' = "starting"
    /\ stale' = doomed
    /\ UNCHANGED <<cache, predictions, requests, cur, via, pc, goal>>

run_invalidates ==
    /\ ctl = "starting"
    /\ PerformRequestedCacheInvalidation(hr, invalidate_entire_cache)
    /\ ctl' = "choose" /\ hr' = {}
    /\ UNCHANGED <<cur, via, pc, goal, doomed, stale>>

Below(i) == (i - 1) % RSBSize
Above(i) == (i + 1) % RSBSize

run_chooses ==
    /\ ctl = "choose"
    /\ \/ /\ rsb[Below(rsb_ptr)].loc = pc
          /\ rsb_ptr' = Below(rsb_ptr)
          /\ cur' = rsb[Below(rsb_ptr)].ptr
          /\ ctl' = "enter"
          /\ UNCHANGED via
       \/ /\ rsb[Below(rsb_ptr)].loc # pc
          /\ ctl' = "lookup" /\ via' = "run"
          /\ UNCHANGED <<rsb_ptr, cur>>
    /\ UNCHANGED <<cache, fast_dispatch_table, rsb, requests, hr, pc, goal, stale>>

Jump(p) ==
    /\ cur' = p
    /\ ctl' = IF p = Dispatcher THEN "dispatch" ELSE "block"

run_code ==
    /\ ctl = "enter"
    /\ IF halt_reason # {} THEN ctl' = "exiting" /\ UNCHANGED cur ELSE Jump(cur)
    /\ UNCHANGED <<cache, predictions, requests, via, hr, pc, goal, stale>>

(***************************************************************************)
(* The dispatcher, and GetBlock with its evacuation of a full buffer.      *)
(***************************************************************************)
dispatcher ==
    /\ ctl = "dispatch"
    /\ \/ halt_reason # {} /\ ctl' = "exiting" /\ UNCHANGED via
       \/ halt_reason = {} /\ ctl' = "lookup" /\ via' = "dispatcher"
    /\ cur' = Dispatcher
    /\ UNCHANGED <<cache, predictions, requests, hr, pc, goal, stale>>

(* What LookupBlock's caller does with the entry point. *)
Found(p) ==
    /\ \/ via = "run" /\ cur' = p /\ ctl' = "enter" /\ UNCHANGED fast_dispatch_table
       \/ via = "dispatcher" /\ Jump(p) /\ UNCHANGED fast_dispatch_table
       \/ via = "table" /\ Jump(p) /\ fast_dispatch_table' = [fast_dispatch_table EXCEPT ![Hash(pc)].ptr = p]
    /\ via' = "run"
    /\ UNCHANGED <<rsb, rsb_ptr, halt_reason, invalidate_entire_cache, invalid_cache_ranges,
                   hr, pc, goal>>

GetBlock_hit ==
    /\ ctl = "lookup" /\ block_descriptors[pc] # Dispatcher
    /\ Found(block_descriptors[pc])
    /\ UNCHANGED <<cache, doomed, stale>>

GetBlock_evacuates ==
    /\ ctl = "lookup" /\ block_descriptors[pc] = Dispatcher
    /\ space > Slots
    /\ PerformRequestedCacheInvalidation({"CacheInvalidation"}, TRUE)
    /\ UNCHANGED <<ctl, cur, via, hr, pc, goal, doomed, stale>>

(* Emit and RegisterBlock.  Links to known blocks are direct; all are      *)
(* recorded, then those to the new block are patched, its own included.    *)
NewPatches(term) ==
    {[target |-> l, at |-> space, kind |-> "jz"] : l \in term.targets}
       \cup {[target |-> l, at |-> space, kind |-> "mov_rcx"] : l \in {term.push} \ {None}}

NewCode(term, covers) ==
    [loc |-> pc, covers |-> covers, term |-> term,
     link |-> [l \in Locs |-> IF l \in term.targets THEN block_descriptors[l] ELSE Dispatcher],
     push |-> IF term.push = None THEN Dispatcher ELSE block_descriptors[term.push]]

GetBlock_emits(term, covers) ==
    /\ ctl = "lookup" /\ block_descriptors[pc] = Dispatcher
    /\ space <= Slots
    /\ pc \in covers
    /\ patch_information' = patch_information \cup NewPatches(term)
    /\ code' = Patch([code EXCEPT ![space] = NewCode(term, covers)], patch_information', {pc}, space)
    /\ block_descriptors' = [block_descriptors EXCEPT ![pc] = space]
    /\ block_ranges' = block_ranges \cup (covers \X {pc})
    /\ space' = space + 1
    /\ doomed' = doomed \ {space} /\ stale' = stale \ {space}
    /\ Found(space)

(***************************************************************************)
(* The ends of blocks.                                                     *)
(***************************************************************************)
PushRSB ==
    IF code[cur].term.push = None THEN UNCHANGED <<rsb, rsb_ptr>>
    ELSE /\ rsb' = [rsb EXCEPT ![rsb_ptr] = [loc |-> code[cur].term.push, ptr |-> code[cur].push]]
         /\ rsb_ptr' = Above(rsb_ptr)

(* Mutant: on a halt the program counter is not stored. *)
EmitTerminal_LinkBlock_lazy(l) ==
    /\ ctl = "block" /\ code[cur].term.kind = "link" /\ l \in code[cur].term.targets
    /\ PushRSB
    /\ goal' = l
    /\ \/ /\ halt_reason = {} /\ code[cur].link[l] # Dispatcher
          /\ Jump(code[cur].link[l]) /\ UNCHANGED pc
       \/ /\ halt_reason = {} /\ code[cur].link[l] = Dispatcher
          /\ pc' = l /\ ctl' = "dispatch" /\ UNCHANGED cur
       \/ /\ halt_reason # {}
          /\ ctl' = "exiting" /\ UNCHANGED <<pc, cur>>
    /\ UNCHANGED <<cache, fast_dispatch_table, requests, via, hr, stale>>

(* LinkBlock: straight on unless a halt was requested. *)
EmitTerminal_LinkBlock(l) ==
    /\ ctl = "block" /\ code[cur].term.kind = "link" /\ l \in code[cur].term.targets
    /\ PushRSB
    /\ goal' = l
    /\ \/ /\ halt_reason = {} /\ code[cur].link[l] # Dispatcher
          /\ Jump(code[cur].link[l]) /\ UNCHANGED pc
       \/ /\ halt_reason = {} /\ code[cur].link[l] = Dispatcher
          /\ pc' = l /\ ctl' = "dispatch" /\ UNCHANGED cur
       \/ /\ halt_reason # {}
          /\ pc' = l /\ ctl' = "exiting" /\ UNCHANGED cur
    /\ UNCHANGED <<cache, fast_dispatch_table, requests, via, hr, stale>>

(* terminal_handler_fast_dispatch_hint, with pc already at l. *)
FastDispatch(l) ==
    LET e == Hash(l) IN
    \/ /\ fast_dispatch_table[e].loc = l
       /\ Jump(fast_dispatch_table[e].ptr)
       /\ UNCHANGED <<fast_dispatch_table, via>>
    \/ /\ fast_dispatch_table[e].loc # l
       /\ fast_dispatch_table' = [fast_dispatch_table EXCEPT ![e].loc = l]
       /\ ctl' = "lookup" /\ via' = "table" /\ cur' = Dispatcher

EmitTerminal_FastDispatchHint(l) ==
    /\ ctl = "block" /\ code[cur].term.kind = "dispatch"
    /\ PushRSB
    /\ pc' = l /\ goal' = l
    /\ FastDispatch(l)
    /\ UNCHANGED <<cache, requests, hr, stale>>

(* terminal_handler_pop_rsb_hint: the pointer moves, hit or miss. *)
PopRSB(l) ==
    /\ rsb_ptr' = Below(rsb_ptr)
    /\ \/ /\ rsb[Below(rsb_ptr)].loc = l
          /\ Jump(rsb[Below(rsb_ptr)].ptr)
          /\ UNCHANGED <<fast_dispatch_table, via>>
       \/ /\ rsb[Below(rsb_ptr)].loc # l
          /\ FastDispatch(l)

EmitTerminal_PopRSBHint(l) ==
    /\ ctl = "block" /\ code[cur].term.kind = "ret"
    /\ pc' = l /\ goal' = l
    /\ PopRSB(l)
    /\ UNCHANGED <<cache, rsb, requests, hr, stale>>

(* SVC: the supervisor call may halt; then CheckHalt{PopRSBHint}. *)
EmitA64CallSupervisor(reasons) ==
    /\ ctl = "block" /\ code[cur].term.kind = "svc"
    /\ PushRSB
    /\ pc' = code[cur].term.push /\ goal' = code[cur].term.push
    /\ halt_reason' = halt_reason \cup reasons
    /\ ctl' = "called"
    /\ UNCHANGED <<cache, fast_dispatch_table, invalidate_entire_cache, invalid_cache_ranges, doomed,
                   cur, via, hr, stale>>

EmitTerminal_CheckHalt ==
    /\ ctl = "called"
    /\ \/ /\ halt_reason # {}
          /\ ctl' = "exiting"
          /\ UNCHANGED <<fast_dispatch_table, rsb_ptr, cur, via>>
       \/ halt_reason = {} /\ PopRSB(pc)
    /\ UNCHANGED <<cache, rsb, requests, hr, pc, goal, stale>>

(* An exception or an interpreted instruction: the callback may halt and   *)
(* may set the program counter; then back to the dispatcher.               *)
EmitTerminal_ReturnToDispatch(l, reasons) ==
    /\ ctl = "block" /\ code[cur].term.kind = "stop"
    /\ pc' = l /\ goal' = l
    /\ halt_reason' = halt_reason \cup reasons
    /\ ctl' = "dispatch"
    /\ UNCHANGED <<cache, predictions, invalidate_entire_cache, invalid_cache_ranges, doomed,
                   cur, via, hr, stale>>

(***************************************************************************)
(* Leaving: the epilogue takes all reasons at once, then Run acts on them. *)
(***************************************************************************)
(* Mutant: only the owner's reasons are handed to Run. *)
return_to_caller_user ==
    /\ ctl = "exiting"
    /\ hr' = halt_reason \ {"CacheInvalidation"} /\ halt_reason' = {}
    /\ ctl' = "exited" /\ cur' = Dispatcher /\ via' = "run"
    /\ UNCHANGED <<cache, predictions, invalidate_entire_cache, invalid_cache_ranges, doomed,
                   pc, goal, stale>>

return_to_caller ==
    /\ ctl = "exiting"
    /\ hr' = halt_reason /\ halt_reason' = {}
    /\ ctl' = "exited" /\ cur' = Dispatcher /\ via' = "run"
    /\ UNCHANGED <<cache, predictions, invalidate_entire_cache, invalid_cache_ranges, doomed,
                   pc, goal, stale>>

run_returns ==
    /\ ctl = "exited"
    /\ PerformRequestedCacheInvalidation(hr, invalidate_entire_cache)
    /\ ctl' = "out" /\ hr' = {} /\ stale' = {}
    /\ UNCHANGED <<cur, via, pc, goal, doomed>>

(***************************************************************************)
(* Requests of other threads and of callbacks.                             *)
(***************************************************************************)
ClearCache ==
    /\ invalidate_entire_cache' = TRUE
    /\ halt_reason' = halt_reason \cup {"CacheInvalidation"}
    /\ doomed' = {p \in Blocks : code[p] # None}
    /\ UNCHANGED <<cache, predictions, invalid_cache_ranges, ctl, cur, via, hr, pc, goal, stale>>

InvalidateCacheRange(a) ==
    /\ invalid_cache_ranges' = invalid_cache_ranges \cup {a}
    /\ halt_reason' = halt_reason \cup {"CacheInvalidation"}
    /\ doomed' = doomed \cup {p \in Blocks : code[p] # None /\ a \in code[p].covers}
    /\ UNCHANGED <<cache, predictions, invalidate_entire_cache, ctl, cur, via, hr, pc, goal, stale>>

HaltExecution(reason) ==
    /\ halt_reason' = halt_reason \cup {reason}
    /\ UNCHANGED <<cache, predictions, invalidate_entire_cache, invalid_cache_ranges, doomed,
                   ctl, cur, via, hr, pc, goal, stale>>

-----------------------------------------------------------------------------
Step ==
    \/ Run \/ run_invalidates \/ run_chooses \/ run_code
    \/ dispatcher \/ GetBlock_hit \/ GetBlock_evacuates
    \/ \E term \in Terms, covers \in Extents : GetBlock_emits(term, covers)
    \/ \E l \in Locs : \/ EmitTerminal_LinkBlock(l)
                       \/ EmitTerminal_FastDispatchHint(l)
                       \/ EmitTerminal_PopRSBHint(l)
    \/ \E reasons \in {{}, {"UserDefined"}} :
          \/ EmitA64CallSupervisor(reasons)
          \/ \E l \in Locs : EmitTerminal_ReturnToDispatch(l, reasons)
    \/ EmitTerminal_CheckHalt
    \/ return_to_caller \/ run_returns

Request ==
    \/ ClearCache
    \/ \E a \in Locs : InvalidateCacheRange(a)
    \/ \E reason \in Reasons : HaltExecution(reason)

Next == Step \/ Request \/ \E l \in Locs : SetPC(l)

Spec == Init /\ [][Next]_vars

-----------------------------------------------------------------------------
(* The code that runs is the block of the place where the guest program    *)
(* is: no link, return prediction or table entry survives the block it     *)
(* leads to, however evacuation (GetBlock), invalidation and compilation   *)
(* alternate.                                                              *)
RunsLiveCode ==
    ctl = "block" => /\ block_descriptors[goal] = cur
                     /\ code[cur] # None /\ code[cur].loc = goal

(* Linked blocks do not store the program counter; wherever it is read, by *)
(* the dispatcher, the hints or Run's caller, it is right all the same.    *)
PCExact == ctl # "block" => pc = goal

(* A requested invalidation is not forgotten: while one is recorded, its   *)
(* reason is still in halt_reason or in the copy that Run is about to act  *)
(* on, although the epilogue and PerformRequestedCacheInvalidation both    *)
(* clear reasons that other threads may just be setting.                   *)
RequestsKept ==
    invalidate_entire_cache \/ invalid_cache_ranges # {} =>
        \/ "CacheInvalidation" \in halt_reason
        \/ ctl = "exited" /\ "CacheInvalidation" \in hr

(* Code whose invalidation was requested before Run was called is not      *)
(* executed by it.                                                         *)
NoStaleCode == ctl = "block" => cur \notin stale
=============================================================================
