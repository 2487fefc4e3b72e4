------------------------------- MODULE ZStream -------------------------------
(***************************************************************************)
(* The guest's allocators in the host's zlib.                              *)
(*                                                                         *)
(*   src/src/libs/zlib_syms.cpp   patch_z_stream, zalloc_caller,           *)
(*                                zfree_caller, cleanup_z_stream and the   *)
(*                                functions that use them                  *)
(*                                                                         *)
(* A z_stream belongs to the guest, and may name allocators of the guest,  *)
(* which the host cannot call.  Before zlib sees the stream its functions  *)
(* are replaced by zalloc_caller and zfree_caller, and its opaque by a     *)
(* wrapper with the originals, which the callers run in a fiber.  The      *)
(* replacement is never undone: the stream keeps the host's functions when *)
(* it is ended, and the wrapper leaks.  So it is when the guest named no   *)
(* allocator and zlib put in its own.  The guest sets the three fields,    *)
(* both functions or neither, before it initialises a stream, or leaves    *)
(* them as the last use has: then the patch takes the host's functions for *)
(* the guest's.                                                            *)
(***************************************************************************)
EXTENDS Integers, Sequences, FiniteSets

CONSTANTS
    Streams,
    Pairs,          \* allocators of the guest: the name of a zalloc and its zfree
    Opaques,        \* what the guest passes for opaque
    Z_NULL,
    MaxBlocks,      \* blocks zlib allocates for a stream
    MaxInits        \* bound of the model: initialisations

\* Functions of the host that a stream may point to.
HostFunctions == {"caller", "zlib"}

ASSUME AllocatorsAssumption ==
    Z_NULL \notin HostFunctions /\ Pairs \cap HostFunctions = {}

VARIABLES
    stream,     \* the fields zalloc, zfree and opaque
    wrappers,   \* the ZlibGuestWrappers made
    blocks,     \* what zlib holds for a stream: who allocated it, with which opaque
    stream_pc,         \* "unset", "set", "init", "live" or "ending"
    inits,
    reused,     \* history: initialised with the fields of its last use
    freed       \* the last block freed, and what was called to free it

streams == <<stream, wrappers, blocks, stream_pc, inits, reused, freed>>

Unset == [zalloc |-> Z_NULL, zfree |-> Z_NULL, opaque |-> Z_NULL]
Nothing == [alloc |-> <<Z_NULL, Z_NULL>>, free |-> <<Z_NULL, Z_NULL>>]

ZlibInit ==
    /\ stream = [s \in Streams |-> Unset]
    /\ wrappers = <<>>
    /\ blocks = [s \in Streams |-> <<>>]
    /\ stream_pc = [s \in Streams |-> "unset"]
    /\ inits = 0 /\ reused = [s \in Streams |-> FALSE]
    /\ freed = Nothing

-----------------------------------------------------------------------------
(* The guest.                                                              *)

set_fields(s) ==
    /\ stream_pc[s] = "unset"
    /\ \E f \in Pairs \cup {Z_NULL}, o \in Opaques \cup {Z_NULL} :
        stream' = [stream EXCEPT ![s] = [zalloc |-> f, zfree |-> f, opaque |-> o]]
    /\ stream_pc' = [stream_pc EXCEPT ![s] = "set"]
    /\ UNCHANGED <<wrappers, blocks, inits, reused, freed>>

-----------------------------------------------------------------------------
(* Initialisation.  What a field that points to a wrapper holds is the     *)
(* wrapper's index.                                                        *)

patch_z_stream_shared(s) ==
    IF stream[s].zalloc = Z_NULL \/ stream[s].zfree = Z_NULL
    THEN UNCHANGED <<stream, wrappers>>
    ELSE /\ wrappers' = <<[guest_zalloc |-> stream[s].zalloc,
                           guest_zfree |-> stream[s].zfree,
                           guest_opaque |-> stream[s].opaque]>>
         /\ stream' = [stream EXCEPT ![s] = [zalloc |-> "caller", zfree |-> "caller", opaque |-> 1]]

patch_z_stream(s) ==
    IF stream[s].zalloc = Z_NULL \/ stream[s].zfree = Z_NULL
    THEN UNCHANGED <<stream, wrappers>>
    ELSE /\ wrappers' = Append(wrappers, [guest_zalloc |-> stream[s].zalloc,
                                          guest_zfree |-> stream[s].zfree,
                                          guest_opaque |-> stream[s].opaque])
         /\ stream' = [stream EXCEPT ![s] = [zalloc |-> "caller", zfree |-> "caller",
                                             opaque |-> Len(wrappers) + 1]]

\* deflateInit_ and its kin, up to the call of zlib.
init_stream(s) ==
    /\ stream_pc[s] \in {"unset", "set"} /\ inits < MaxInits
    /\ patch_z_stream(s)
    /\ inits' = inits + 1
    /\ reused' = [reused EXCEPT ![s] = stream_pc[s] = "unset"]
    /\ stream_pc' = [stream_pc EXCEPT ![s] = "init"]
    /\ UNCHANGED <<blocks, freed>>

\* zlib refuses the parameters; where it first runs out of memory it releases
\* what it has, as at the end.  The guest's fields stay patched either way.
init_refused(s) ==
    /\ stream_pc[s] = "init"
    /\ stream_pc' = [stream_pc EXCEPT ![s] = "unset"]
    /\ UNCHANGED <<stream, wrappers, blocks, inits, reused, freed>>

\* zlib puts its own allocator where there is none, and forgets opaque then.
zlib_defaults(s) ==
    /\ stream_pc[s] = "init"
    /\ stream' = IF stream[s].zalloc = Z_NULL
                 THEN [stream EXCEPT ![s] = [zalloc |-> "zlib", zfree |-> "zlib", opaque |-> Z_NULL]]
                 ELSE stream
    /\ stream_pc' = [stream_pc EXCEPT ![s] = "live"]
    /\ UNCHANGED <<wrappers, blocks, inits, reused, freed>>

-----------------------------------------------------------------------------
(* Allocation, during initialisation or later, and release.                *)

\* The function that runs in the end, and the opaque it is given.
zalloc_caller(opaque) == <<wrappers[opaque].guest_zalloc, wrappers[opaque].guest_opaque>>

zfree_caller(opaque) == <<wrappers[opaque].guest_zfree, wrappers[opaque].guest_opaque>>

allocate(s) ==
    /\ stream_pc[s] = "live" /\ Len(blocks[s]) < MaxBlocks
    /\ blocks' = [blocks EXCEPT ![s] = Append(@,
            IF stream[s].zalloc = "caller" THEN zalloc_caller(stream[s].opaque)
                                           ELSE <<stream[s].zalloc, stream[s].opaque>>)]
    /\ UNCHANGED <<stream, wrappers, stream_pc, inits, reused, freed>>

\* deflateEnd and inflateEnd.  cleanup_z_stream does nothing.
end_stream(s) ==
    /\ stream_pc[s] = "live"
    /\ stream_pc' = [stream_pc EXCEPT ![s] = "ending"]
    /\ UNCHANGED <<stream, wrappers, blocks, inits, reused, freed>>

free_block(s) ==
    /\ stream_pc[s] = "ending" /\ blocks[s] # <<>>
    /\ freed' = [alloc |-> Head(blocks[s]),
                 free |-> IF stream[s].zfree = "caller" THEN zfree_caller(stream[s].opaque)
                                                        ELSE <<stream[s].zfree, stream[s].opaque>>]
    /\ blocks' = [blocks EXCEPT ![s] = Tail(@)]
    /\ UNCHANGED <<stream, wrappers, stream_pc, inits, reused>>

ended(s) ==
    /\ stream_pc[s] = "ending" /\ blocks[s] = <<>>
    /\ stream_pc' = [stream_pc EXCEPT ![s] = "unset"]
    /\ UNCHANGED <<stream, wrappers, blocks, inits, reused, freed>>

ZlibNext ==
    \E s \in Streams :
        \/ set_fields(s)
        \/ init_stream(s)
        \/ init_refused(s)
        \/ zlib_defaults(s)
        \/ allocate(s)
        \/ end_stream(s)
        \/ free_block(s)
        \/ ended(s)

ZlibSpec == ZlibInit /\ [][ZlibNext]_streams

-----------------------------------------------------------------------------
(* Properties.                                                             *)

\* A wrapper and a stream's fields hold what the guest, the patch or zlib put
\* there.
StreamFunctions == Pairs \cup HostFunctions \cup {Z_NULL}
StreamOpaques == Opaques \cup {Z_NULL} \cup Nat

ZlibTyped ==
    /\ wrappers \in Seq([guest_zalloc : StreamFunctions, guest_zfree : StreamFunctions,
                         guest_opaque : StreamOpaques])
    /\ stream \in [Streams -> [zalloc : StreamFunctions, zfree : StreamFunctions,
                               opaque : StreamOpaques]]
    /\ stream_pc \in [Streams -> {"unset", "set", "init", "live", "ending"}]
    /\ blocks \in [Streams -> Seq(StreamFunctions \X StreamOpaques)]
    /\ reused \in [Streams -> BOOLEAN]

\* A live stream never calls a function of the guest as if it were the host's.
HostCallsHost ==
    \A s \in Streams : stream_pc[s] \in {"live", "ending"} => {stream[s].zalloc, stream[s].zfree} \subseteq HostFunctions

\* What an allocator allocated is released by its own zfree, with the opaque the
\* guest gave it, whatever streams were initialised, refused or ended meanwhile.
FreedByItsOwn == freed.alloc = freed.free

\* What a fiber runs as an allocator of the guest is one, for a stream whose
\* fields the guest has set since its last use.
GuestCallsGuest ==
    \A s \in Streams :
        stream_pc[s] \in {"live", "ending"} /\ ~reused[s] /\ stream[s].zalloc = "caller" =>
            wrappers[stream[s].opaque].guest_zalloc \in Pairs

\* The three: the host's zlib and the guest's allocators never meet without a
\* caller between them, the callers run the guest's, and blocks go back where
\* they came from.
AllocatorsExact == HostCallsHost /\ GuestCallsGuest /\ FreedByItsOwn

-----------------------------------------------------------------------------
(* What the proof needs: a wrapper has a pair of functions, a stream that  *)
(* the patch has changed has a wrapper for as long as the guest leaves it  *)
(* so, and the blocks of a stream are of its allocator.                    *)

Allocator(s) ==
    IF stream[s].zalloc = "caller" THEN zalloc_caller(stream[s].opaque)
                                   ELSE <<stream[s].zalloc, stream[s].opaque>>

FieldsOK(s) ==
    /\ stream[s].zalloc = stream[s].zfree
    /\ stream[s].zalloc = "caller" => stream[s].opaque \in DOMAIN wrappers
    /\ stream_pc[s] = "set" => stream[s].zalloc \in Pairs \cup {Z_NULL}
    /\ stream_pc[s] = "init" => stream[s].zalloc \in {"caller", Z_NULL}
    /\ stream_pc[s] \in {"live", "ending"} => stream[s].zalloc \in HostFunctions
    /\ stream_pc[s] \in {"init", "live", "ending"} /\ ~reused[s] /\ stream[s].zalloc = "caller" =>
            wrappers[stream[s].opaque].guest_zalloc \in Pairs

BlocksOK(s) ==
    /\ stream_pc[s] \in {"unset", "set", "init"} => blocks[s] = <<>>
    /\ \A n \in DOMAIN blocks[s] : blocks[s][n] = Allocator(s)

StreamOK(s) == FieldsOK(s) /\ BlocksOK(s)

ZlibInv ==
    /\ ZlibTyped /\ FreedByItsOwn
    /\ \A w \in DOMAIN wrappers : wrappers[w].guest_zalloc = wrappers[w].guest_zfree
    /\ \A s \in Streams : StreamOK(s)

=============================================================================
