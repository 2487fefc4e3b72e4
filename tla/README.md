# A TLA+ model of Sober's runtime

Sober runs an Android arm64 library on Linux. The guest's code runs in the
dynarmic JIT; its calls to libc, libdl, JNI and so on reach native code through
*trampolines* (an `svc` followed by a `ret`), and native code runs guest code
again in *fibers*. What is hard to test here is where these two worlds meet
with threads and callbacks: who owns a JIT and for how long, what a nested run
does to the registers of the run around it, and which thread may free what.

## 1. The system's parts

| part | source | module | state |
|---|---|---|---|
| execution contexts, processor ids | `execution_context.cpp` | `ExecContext`, abstract: `ProcessorIds` | modelled, proved |
| guest threads, thread-specific data | `libs/pthread_impl.cpp` | `ExecContext`, abstract: `ThreadSpecificData` | modelled, proved |
| supervisor calls and fibers | `execution_context.cpp`, `libs/libc_impl.cpp` | `Fibers` | control modelled, proved |
| tags in symbol tables | bionic `libdl.cpp`, libc-shim `common.cpp` | `Fibers` (`symbols`) | the functions that run guest code |
| argument marshalling | `execution_context.cpp`, dynarmic's `EmitA64CallSupervisor` | `Marshal`, `VaList` | modelled, `VaList` proved |
| trampolines, late binding of GL and Vulkan | `trampoline.cpp`, `libs/syms.cpp`, `libs/egl_syms.cpp`, `libs/vulkan_syms.cpp`, `jni.cpp` | `Trampolines` | modelled, proved |
| exclusive accesses | dynarmic's `emit_x64_memory`, `exclusive_monitor`, `execution_context.cpp` | `ExclusiveMonitor`, abstract: `AtomicMemory`, composed: `ExclusiveCounter` | modelled, proved |
| code cache and dispatcher | dynarmic's `a64_interface.cpp`, `emit_x64.cpp`, `a64_emit_x64.cpp`, `block_of_code.cpp` | `CodeCache` | modelled, proved |
| pthread shim | libc-shim `pthreads.cpp`, `meta.h` | `PthreadOnce`, `PthreadMutex`, `PthreadCond` | modelled in part, proved |
| address lists | libc-shim `network.cpp` | `AddrInfo` | modelled |
| zlib's allocators | `libs/zlib_syms.cpp` | `ZStream` | modelled, proved |
| audio device | `class/audio_interface.cpp` | `AudioDevice` | modelled, proved |
| event loop, start-game parameters | `main.cpp`, `class/start_game_params.cpp`, `class/native_gl_interface.cpp` | `MainLoop` | modelled, proved |
| cookies | `main.cpp` | `Cookies` | modelled |
| JNI, constant Java classes, keyboard and symbol tables, linker, translations | see section 14 | none | not modelled |

`PROJECT.json` has the same list with the reasons, the map from definitions to
source lines, and the list of hazards that the properties are aimed at.

How the parts meet: `main` and `thread_routine` create a context
(`ExecContext`), then run guest code in a fiber of that context (`Fibers`). In
`ExecContext` a thread in guest code is simply "running" or "destroying"; what
happens inside is `Fibers`, one thread at a time, because a context is
`thread_local` and no thread touches another's JIT. The two share one
assumption, that a fiber has a context, which `ExecContext` shows
(`GuestHasContext`, `NoUndefinedBehaviour`). Inside the JIT, `CodeCache` is how
control gets from block to block and `ExclusiveMonitor` what the contexts share.
A guest call goes to a trampoline (`Trampolines`: which function is reached), by
the fast or the slow path (`Fibers`: what may happen meanwhile), with its
arguments (`Marshal`, `VaList`). The other modules are components behind the
trampolines or around the guest.

Parts that share no state are put together for model checking without multiplying
their states: `NativeCalls` (trampolines, arguments, lists of arguments, zlib,
the resolver), `PthreadShim` (once, mutexes, condition variables; their threads are
declared in `PthreadThreads`) and `Program` (audio, event loop, cookies) have a
variable `part`, chosen in the initial state, and a behaviour is one of that part
with the others at rest. Within a part every interleaving is explored; there are none
between parts, since no part reads or writes what another has. The proofs are about
the parts' own specifications (`OnceSpec`, `MutexSpec`, `CondSpec`, `AudioSpec`,
`LoopSpec`, `VaSpec`, `ZlibSpec`, `Spec` of `Trampolines`).

## 2. ExecContext

State: per thread its label `pc`, the three fields of `ExecutionContext` that
matter (`initialized`, `processor_id`, `ref_count`), its start wrapper, its
host slots (`slot`), the wrapper whose destructor runs (`dying`), and where the
host's destructor loop is (`round`, `cursor`). Shared: `used_processors`, the
heap of `GuestRoutineWrapper`s (`live`, `cell`), the host's keys, and
`key_destructor_map` (`registered`, and `wrappers` as a bag of addresses,
because a freed address may be in a deque while it is in use again).

A thread goes absent → created → running → (freeing →) leaving → exiting ⇄
destroying (→ freeing → exiting) → dead. Each action is one function of the
code, or the part of it between two points where other threads matter: a guest
routine or destructor runs in between, or the context is gone and its id not
yet returned. Functions on one thread's own data and on `key_destructor_map`
are atomic; that the map has no lock is modelled by `map_race` (two threads in
guest code: any outcome, here the end) and by a `push_back` that may get lost.
`ref_count` is unsigned and wraps (`RefMod`). Undefined behaviour, a failed
assertion (they are enabled in this build) and `std::terminate` end the
behaviour, with the reason in `fault`.

Two specifications: `Spec` lets the guest call every pthread function with
everything; `DisciplinedSpec` has no key deletion and no key without a
destructor. The code is correct for the second and not for the first, and says
so itself (`pthread_key_delete called (its a bit broken)`).

External: `deallocate_tsd` and `next_key` are glibc's loop over a thread's
keys; `delete` is the allocator. Not modelled: the JIT's configuration, a
failed `mmap` of the stack (only logged), a failing host `pthread_setspecific`
(which leaves everything as it was), wrappers' memory beyond the two fields.

Abstract specifications: `ProcessorIds` (an id has at most one owner, the
lowest free one is given out, "ran out of ids" means that all have owners) and
`ThreadSpecificData` (a thread's values are its own, a destructor call gets its
key's routine and the value last set). `PoolSpec` and `TsdSpec` are the
refinements.

## 3. Fibers

One thread's stack of fibers. `fiber[d]` has the registers the fiber saved, the
routine it runs, and the native call its guest is in; `ctl` says whether the
thread is in the JIT, between `Run` and `handle_call_svc`, or in native code.
`regs` abstracts `SavedRegisters` to the level of the guest activation it
belongs to and a position in it: the properties tell activations apart, not
values. `executing` is `jit->IsExecuting()`. The table `symbols` has one function
of each kind: plain, too many arguments for the fast path, `va_list`, the sorts,
`setjmp`/`longjmp`, tagged `dlopen`, and the ones that run guest code without
the tag.

`GetSupervisorFastCall` decides between `enter` inside `Run` and the halt of
`CallSVC`. A fiber that runs while the JIT is executing fails the assertion in
`ScopedExecutionFiber::run`. Not modelled here: argument values and return values
(`Marshal`), register x0 (so not the 0 that `longjmp(env, 0)` yields).

`FibersSpec` is any guest, but for a `longjmp` without a `setjmp`. What does not work
is in the properties, each exactly as far as it goes: the assertion fails only for
functions that run guest code without the tag (`OnlyUntaggedFail`); guest code runs at
another level than its own only in a fiber that a `longjmp` has left, until that fiber
ends (history field `strayed`); a comparator that is not the sort's own runs only when a
sort of the same kind has begun within the sort (`nested`), since each kind has one
thread-local place for it. Registers are restored for all.

## 4. Inside the JIT: ExclusiveMonitor and CodeCache

`ExclusiveMonitor` is the emitted code of LDXR and STXR and the class it calls
when it is not inlined. The contexts share one monitor: a lock, and per
processor id an address and a value. `FastmemExclusive` and
`IgnoreGlobalMonitor` are the two settings; Sober has both on, where the inlined
code neither locks nor clears other slots, and a store-exclusive is a
compare-and-swap with the value the load returned. `AtomicMemory` is what the
guest is promised with either setting; `AtomicAccesses` is the refinement, with
the history variable `link` for the load that a store may still answer.
`ExclusiveCounter` composes it with guest threads that add to one word in the
loops compilers emit. The run has Sober's settings; the proofs have all. 128-bit
accesses through callbacks are left out: fastmem never reaches them.

`CodeCache` is one context's JIT: blocks and their registration, links between
blocks and their patching, the return stack buffer, the dispatch table,
evacuation of a full buffer, halt reasons, and invalidation requests of any
thread. The buffer keeps what lies in it until it is overwritten, so a pointer
that was not forgotten leads into other code; `RunsLiveCode` says that this
never happens. `goal`, `doomed` and `stale` are history variables. A guest
program is a set of block endings (`Terms`). Single stepping and cycle counting
are left out: Sober uses neither.

## 5. Calls: Trampolines, Marshal, VaList

`Trampolines` has the vector of entries, the guest code that leads to them, and
the functions bound late by `eglGetProcAddress`, `vkGetInstanceProcAddr` and
`vkGetDeviceProcAddr`. A JIT that compiles a trampoline keeps the function of
that moment (`block`); the slow path reads the table, and holds a reference into
the vector (`held`) that dies when the vector grows.

The guest is any: its constructors may start threads (`LoadThreads`), it may have
several devices, and may ask at a level that has no function of that name. Every
`eglGetProcAddress` loads glad and binds all GL entries to glad's pointers, of which
those without a function in the context of that time are null (`glad`), and the table
has functions of another name for some (`GLFunction`; `glMapBuffer` is
`glMapBufferRange`). A Vulkan entry is overwritten by each answer, null included, so
there is one function for all devices; `answered` is the history of these answers, and
`CallsReach` says that a call runs one of them. `vkCreateInstance` takes whatever is in
the guest's variable after the driver's call for the instance.

`Marshal` follows the arguments of one call from where AArch64 puts them to where
x86-64 looks for them, on both paths. A value is the place it comes from, so the
properties say exactly which arguments arrive. The register files are constants:
small ones make every class overflow in a short call. What %al holds on the fast
path is nondeterministic. `VaList` is the conversion of a `va_list`, with the
code's own sizes: the areas' offsets decide what the native function reads.

## 6. The pthread shim: PthreadOnce, PthreadMutex, PthreadCond

`PthreadOnce`: threads are stacks of unfinished calls, since a routine may call
`pthread_once` again; one recursive mutex serves all controls, and the guest has
locks of its own. `HoldAcross` lets it call with one held, where the global mutex
can deadlock.

`PthreadMutex`: the first call on a static mutex, step by step, with the pointer
stored before the host mutex is initialised; kinds; init, destroy, and memory
that is used again. The guest is chosen at the start: a `careful` one uses a static
mutex once before it shares it and does not lock an error-checking mutex it has. For
others another thread can lock an uninitialised host mutex (fault `uninitialised`),
and the shim reports the second lock as locked.

`PthreadCond`: the clock of a host condition variable, fixed when it is made, and the
clock of the guest's deadlines; realtime runs ahead of monotonic (`skew`, at least 1: a
machine's realtime is the time since 1970) and may be set at any time. The guest knows
the clock of an attribute if it has set it or has asked for it (`meant`); otherwise it
takes it to be bionic's default, REALTIME, while the shim's is MONOTONIC. `known` is
what it therefore takes the variable's clock to be. How first calls race is the same
code as for mutexes, and left to that module.

## 7. AddrInfo and ZStream

`AddrInfo`: hints go to the host and are freed, the answer is translated one entry at a
time, an entry that throws is left out, and the host's list is freed at the end.
Allocated blocks are counted by what they hold. Hints with an unknown type or protocol
throw with nobody to catch it: the process ends (`alive`).

`ZStream`: the guest's allocators are wrapped before zlib sees a stream, and
never unwrapped. The model keeps apart the guest's functions, the two callers and
zlib's own, and which wrapper a stream's opaque pointer names. The guest may initialise
a stream again without setting its fields (`reused`): the patch then takes the caller,
or zlib's own function, for the guest's.

## 8. AudioDevice

Mixer and callback share one buffer, a mutex and a condition variable without a
predicate. A copy is two halves, so that torn blocks would show; blocks are
numbered, so that loss and reordering would.

## 9. MainLoop and Cookies

`MainLoop`: a frame polls events into flags, then does what the flags ask for.
Requests to join a game go through six globals, written one by one by the callback of
the message bus and read one by one by the guest in the loop's thread. Nothing keeps
two callbacks apart, so there is a set of them (`callbacks`), each with the fields it
has written; `overlapped` is the history of two at once. A `spaced` guest, chosen at
the start, waits for one start before it asks for the next.

`Cookies`: the file is written as `k=v; k=v` and split at `;` alone, so keys come
back with a space in front; a key is its name and the number of spaces. One call of
`onSetCookie` takes an array, and writes the file once. At a start the file's text goes
to the guest as it is, while the map is what later calls change: `LatestFirst` speaks of
both. A crash leaves a prefix of the file, the last entry perhaps cut.

## 10. Runs

| run | instance | what it shows |
|---|---|---|
| disciplined | `FairSpec` of disciplined guests, 3 threads, 2 ids, 1 key, 3 wrappers | reference counts exact, wrappers owned once, nothing undefined, contexts returned and freed only when done; threads that return are gone in the end |
| any_guest | `Spec`, 3 threads, 2 ids, 1 key, 2 wrappers | ids exclusive, pool exact, refinement of `ProcessorIds` |
| tsd | `DisciplinedSpec`, 2 threads, 2 keys, 2 values, 2 destructors, 3 wrappers | refinement of `ThreadSpecificData` |
| key_delete | `Spec`, 2 threads, 2 keys | **violated**: the fiber's assertion fails after another thread's key was deleted |
| fibers | `FibersSpec`, 3 fibers deep, 2 positions, 2 comparators | the assertion fails only for untagged functions, registers restored; own level but after a longjmp out of the fiber, own comparator but after a sort within the sort |
| fibers_tags | `FibersSpec`, 2 fibers deep | **violated**: untagged functions run fibers in the fast path |
| exclusive | 2 threads, 2 ids, 2 addresses, 3 values; Sober's settings; any guest, or one that counts | slots exact, refinement of `AtomicMemory`; no addition lost and all loops end |
| code_cache | 2 locations, room for 2 blocks, 1 table entry, return stack buffer of 2; a guest of calls or one of jumps | only live code of the guest's place runs, requests are kept, invalidated code rests |
| calls | trampolines for 2 threads, one of them a constructor's, and 2 devices; 3 and 1 general, 1 vector register, 6 arguments; lists of the code's sizes, 20 reads; 2 streams, 2 allocators, 3 initialisations; 2 callers, answers of 2 entries of 5 kinds | code leads to its entry, calls reach a function looked up for them, references die only in threads of constructors; arguments and results arrive; reads give the guest's arguments; blocks freed by their own allocator; answers translated, heap exact |
| shim | 2 threads; 2 controls, 1 lock, 4 calls; 2 mutexes, 2 host mutexes, 4 calls; 2 clocks | routines run once and have ended when a call returns, calls return; one host mutex each, what the guest is told is true; no early timeout, due waits end |
| cond_default | `CondSpec`, 1 thread | **violated**: a wait on a variable with a default attribute does not time out when it should |
| program | 10 blocks; 2 requests, 2 window events, 2 fields; 2 names, 2 values, 2 calls of up to 2 cookies, 3 starts | blocks whole, at most one lost per callback, writes return; motion conserved, parameters of one request, requests and resizes served; the entry with the fewest spaces was set last |

### Bounds

*ExecContext.* Three threads and two ids make the pool run out and be used again; a
dead thread's name is used again, with a fresh `thread_local`. Two
`Iterations` are enough for a destructor to set its value again, be called
again, and be cut off. `Wrappers` bounds the heap, so that addresses are
reused. `RefBound` and `DequeBound` only keep the counters finite: one thread
has at most `KeysMax + 2` references when nothing goes wrong, and `RefMod` is
chosen above that, as `NumberAssumption` demands. *Fibers.* Depth three is the
smallest that has a fiber with a fiber below and a fiber above it.

*ExclusiveMonitor.* Two addresses let a reservation be for another one, three values let
memory go back to what it was and hold the sum of the counting guest; ids go from
context to context as threads stop and start. One interruption is enough for a
store-exclusive to fail for no other thread's doing. *CodeCache.* Two locations in a
buffer of two blocks, with one table entry for both: the buffer fills, is evacuated and
reused, entries collide, the return stack buffer wraps. *Trampolines.* The buffer fits
the entries of all tables; two devices overwrite each other's functions. A guest of the
run draws with GL or with Vulkan (`MCOneApi`), whose entries do not meet. *Marshal.* Six
arguments overflow each register file on both machines, singly and together. *VaList*
needs no scaling: 20 reads pass the end of registers and buffer.

*PthreadOnce.* Four calls of each thread, of `pthread_once` or of its own lock, are a
call, one inside its routine, a lock taken there, and a call after. *PthreadMutex.*
Four calls in all cover two threads in one first call, and a destruction with reuse of
the host's mutex. *PthreadCond.* Skew and delay
are such that a deadline can be past on one clock and ahead on the other. *AddrInfo.*
Two entries put one that throws before and after one that does not. *ZStream.* Three
initialisations of two streams have one stream used again while the other lives.
*AudioDevice.* Ten blocks are several rounds of loss; the theorem has no bound.
*MainLoop.* Two requests can be folded into one start, or meet while it is under way or
while they are written; two window events are two motions in a frame, two resizes, or one
of each. *Cookies.* Three starts add three spaces; two names are enough for one to be
first, and an array of two sets both, or one twice.

Symmetry is over sets whose members are only compared for equality; runs that check
liveness use none. Deadlock is not checked where the system may stop: after a fault,
at the end of the process, or when the bounds are used up.

### Fairness

* `ExecContext!FairSpec`: weakly fair to the host's part of every thread. The kernel
  schedules runnable threads, and none of these steps waits for a lock held elsewhere
  (`processor_mutex` is held for a loop over an array). It includes the return of a
  guest destructor, but not of a guest routine: a thread may run for ever.
* `MCExclusive`: weakly fair to each thread's loop. A store fails only when
  another one succeeded or the thread was interrupted, which is bounded.
* `PthreadOnce` (in `FairShimSpec`): threads are scheduled, routines and critical
  sections of the guest end.
* `AudioDevice` (in `FairProgramSpec`): strongly fair to callback and mixer: SDL asks
  again and again, and a mutex that is held for a copy of 2048 bytes is got by a thread
  that keeps trying.
* `MainLoop` (in `FairProgramSpec`): loop and callbacks run, guest calls of the loop return,
  SDL shows the window.
* `PthreadCond` (in `FairShimSpec`): the host ends a wait that has run out on the
  variable's clock; that time passes is not assumed.

### What the violations say

*key_delete.* `pthread_key_delete_impl` drops the caller's count once for every
thread's wrapper. The caller's context is then freed when its routine returns
although it still has a value for another key, whose destructor fails
`assert(execution_context.initialized)`.

*fibers_tags.* `dlclose`, `android_dlopen_ext`, their `__loader_` forms, and
`__cxa_finalize` run guest code but are not tagged
`HasExecutionSideEffects`, so `GetSupervisorFastCall` gives them the fast path
and the fiber they run fails `assert(jit && !jit->IsExecuting())`.

*cond_default.* `pthread_condattr_init` makes an attribute whose clock is MONOTONIC,
where bionic's own test of that function expects REALTIME. A guest that leaves it so
computes its deadline on the realtime clock, and the host waits for it on the monotonic
one, which is behind by decades.

### Other observations

The models also show, outside what the runs check:

* A block that ends in a computed jump goes through the fast dispatch table, which
  does not compare the halt reason (`FastDispatch`): a guest that loops through such
  jumps is not stopped by `HaltExecution`.
* `PushRSBHelper` does not look whether a prediction is already in the return stack
  buffer (`PushRSB`); one may be there twice, which is harmless (`RsbOK`).
* The test for exhaustion of the trampoline buffer takes the contents of a word for an
  index (`exhaustion_test`).
* The fast path loads vector registers for an ellipsis function but does not set %al,
  by which the callee decides whether to save them; `ArgumentsExact` therefore speaks
  of the doubles of such a call only where %al is not 0.
* The entry for `pthread_cond_timedwait_monotonic_np` is plain
  `pthread_cond_timedwait`, as its TODO says; `NoEarlyTimeout` speaks of waits on the
  clock that the guest takes the variable to have.
* `eglGetProcAddress` returns an address for a GL name whether or not its function was
  found, and `handle_call_svc` calls without a test for null.
* A name looked up for two devices has one trampoline: calls for either run the
  function the table had when the caller's JIT compiled it. And `vkGetDeviceProcAddr`,
  looked up through itself, is bound to the driver's, which answers with addresses of
  the host.
* A z_stream that is initialised again with the fields of its last use wraps the host's
  functions, which a fiber then runs as guest code (`GuestCallsGuest` excepts it).
* Two requests of the message bus at once may mix their parameters, and one of them may
  be all that is served (`overlapped`).

## 11. Proofs

For every value of the constants, under the assumptions named in the modules (null
is none of the values, at least one id, a counter that can hold a thread's
references, a buffer within the immediates of SVC, and so on):

* `ExecContextProofs` has the lemmas about contexts, slots and wrappers, and that
  `PoolInv` is inductive; `ExecContextRefProofs` has the theorems. For *any* guest:
  `TypeCorrect`; `PoolSafe` (with `PoolAccurate`, `GuestsHaveContexts`), that ids are
  exclusive, the pool is exact and guest code has a context; and `PoolImplemented`,
  that the contexts implement `ProcessorIds`. `PoolInv` adds to the three properties
  only the types: they are inductive together. Every action is one of three kinds for
  the pool (leaves it alone, acquires, releases), and each kind is one step or a
  stutter of the abstract pool.
* For a disciplined guest: `RefCountsExact`, `WrappersSafe`, `NothingUndefined`,
  `ContextsReturned`, `FreedWhenDone`, and `TsdImplemented`, the refinement of
  `ThreadSpecificData`. None is inductive alone: that a count is exact needs that a
  wrapper has one owner (or a thread could lose a value by another's doing), which
  needs that the thread's label says which wrappers it has (`LabelsMatch`), and that no
  destructor is null needs what wrappers hold (`CellsMatch`). `DisciplinedInv` is their
  conjunction. The refinement needs it too: setting a value writes one heap cell, and
  only because no other slot has that wrapper does one thread's value change and no
  other's; a destructor call gets its key's routine because the cell still has it.
* `GuestProofs`, fibers: `FibersSafe`, `CallsPreserveRegisters`, `GuestsAtOwnLevel`,
  `ExecutingKnown`, `FibersTyped`, `ComparatorsOwn` for any guest and any depth.
  `FibersInv` says of every fiber on the stack that it saved exactly the registers of
  the call around it, that this call was off the fast path and, unless the fiber has
  been left by a longjmp, made at its own level, and that a sort on the stack finds its
  comparator where it put it until another of its kind begins within.
* `GuestProofs`, condition variables: `WaitsNotCutShort` and `ConditionTyped`.
  `CondInv` says that a variable's clock, once it has one, is the one the guest takes
  it to have, or is behind it where the guest goes by bionic's default, and that nobody
  waits on one without.
* `GuestProofs`, zlib: `AllocatorsSafe`. `ZlibInv` says that a wrapper has both
  functions of one pair, that a stream zlib has seen names a wrapper or has zlib's own
  functions, that the wrapper of one that was not reused has the guest's, and that all
  its blocks are of that allocator: a refused initialisation or another stream's must
  not change what an opaque pointer means.
* `SharingProofs`, exclusive accesses: `ReservationsExact`, `LockExcludes`, and
  `AccessesAtomic`, the refinement of `AtomicMemory`, for all settings (the run has
  only Sober's). `MonitorInv` says that contexts have distinct ids, that a slot holds
  what its own thread's load returned while that thread has a reservation, and that
  between test and swap no other slot has the address when the lock is in use.
* `SharingProofs`, audio: `AudioTyped`; `StreamsWhole` from who holds the mutex in
  which half of a copy (`AudioInv`); `LossBounded`, without spurious wakeups, from how
  far the block in the buffer can be ahead of the one played at each point of the two
  threads (`Ahead`).
* `SharingProofs`, lists of arguments: `ArgumentListsRead`, for any sizes of the areas
  and any number of reads. `ListInv` relates the guest's list to the converted one
  after every read: as many bytes of vector registers are left on both sides, and the
  next word of the buffer was copied from the register or stack place that the guest
  would read next.
* `CodeCacheProofs`: `CodeLive` and its parts `PlacesExact`, `NoRequestLost`,
  `InvalidatedCodeRests`. `CacheInv` says of every pointer into the buffer (links,
  predictions, table entries, the patch records) that it leads to the dispatcher or
  to the block registered for its place, with one exception, the table entry that is
  being filled; and of every block a request was made for that the request is still
  recorded.
* `TrampolinesProofs`: `TrampolinesRoute`, from `TableOK` (entry i has its code at
  2i - 1 with the immediate of i); `CallsReachTheirFunctions` and `EntriesLive`, which
  also need that compiled code has a function the table has or had for that name, that
  a name the guest has of Vulkan has been answered, and that after the constructors
  nothing is created but by `java_vm_new`, before main runs guest code again. All for
  any guest.
* `OnceProofs`, `pthread_once`: `RoutinesRunOnce`, `CallsReturnComplete`, `OncesTyped`.
  `OnceInv` is about stacks: the mutex's depth is the number of calls that hold it, and
  a control that is set has ended or its routine is on the owner's stack.
* `OnceProofs`, event loop: `InputsWhole`. `LoopInv` says that the motion passed,
  summed and queued is the motion there was, and that for a spaced guest a start that
  is due, be it queued, flagged or under way, is the only one, with all fields of one
  request written, that no two callbacks overlap (`OneCall`), and none writes while the
  loop reads. Events in the queue are counted
  as finite sets of positions (`Counting`).
* `PthreadMutexProofs`: `MutexesSafe`, `MutexesTyped`. `MutexInv` says who holds the
  guard at which step of a first call, that a mutex has one host mutex, which is ready
  or about to be made by the holder of the guard, and for a careful guest that it is
  alone with a mutex that is not made yet and that the host's owner and count are what
  it was told.

Invariants that a run could check were first checked with TLC. In the proofs a leaf
names Zenon where first-order reasoning suffices, and leaves arithmetic and sequences
to the SMT solver.

Only model-checked:

* liveness (`ThreadsEnd`, `AllAdded`, `OnceReturns`, `TimedWaitsEnd`, `WriteReturns`,
  `LoopServes`), which is out of the prover's reach;
* `ArgumentsExact`, `AnswersExact` and `LatestFirst`: what a fold over a call's
  arguments, an answer or a file computes for every input needs induction over data,
  which is out of reach as well.

## 12. Guests

Several properties hold for guests within limits that the code relies on and does not
enforce: `DisciplinedSpec`, `careful`, `spaced`, `HoldAcross = FALSE`. Each is a
constant, a choice at the start or a specification of its own, and the hazards in
`PROJECT.json` say what happens outside. Where the repository promises something for all
guests, the violated runs check that.

## 13. Reading the models

Definitions have the names of the functions they model; an action with another name
is a part of one, or something external (the host's libc, SDL, the allocator).
Operators with a comment `Mutant` are wrong on purpose: each shows that one property
can fail. `fault` ends a behaviour at undefined behaviour or a failed assertion.

## 14. Not modelled

* The compiler part of dynarmic: decoding, its intermediate representation,
  optimisations, register allocation, emission. This is most of the implementation's
  lines; its correctness is about the semantics of single instructions, which has no
  interleavings and no protocol for a model checker to explore.
* bionic's linker, vendored. Its loader functions take its own lock; what the runtime
  sees of it is that guest code runs in the middle of `dlopen`.
* JNI: tables of classes and methods, objects that are never freed, calls that
  forward. The map of classes is read without a lock while the event loop inserts
  (`main.cpp` 446): undefined, with nothing in the repository that bounds it. Array
  regions are a loop over an index.
* Constant Java classes, keyboard tables, tables of symbols, app methods: nothing
  changes state.
* libc-shim's translations of flags, errno values, structures and paths: functions of
  one value. Of the pthread shim: thread attributes, semaphores, rwlocks (made as
  mutexes are, then forwarded), and cleanup handlers.
* Concurrent calls of `onSetCookie`, and a call with an empty array.
