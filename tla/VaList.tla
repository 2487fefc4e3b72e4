-------------------------------- MODULE VaList --------------------------------
(***************************************************************************)
(* How a native function reads a va_list of the guest.                     *)
(*                                                                         *)
(*   src/src/execution_context.cpp   handle_call_svc, variadic_list        *)
(*                                                                         *)
(* vsnprintf and its kin take a va_list, whose layout differs between the  *)
(* machines.  handle_call_svc builds an x86-64 one on its stack: its       *)
(* general registers are declared used up, and what the guest still has in *)
(* general registers and on its stack is copied, as far as it fits, into   *)
(* gp_arg_buffer, the overflow area.  Vector registers are read in place.  *)
(* Where no general register is left the overflow area is the guest's      *)
(* stack itself.                                                           *)
(*                                                                         *)
(* A pointer is a base and an offset in bytes: "gr" and "vr" are the tops  *)
(* of the areas where the guest's va_start saved its registers, "stack"    *)
(* its first argument on the stack.  A value is the guest address it was   *)
(* read from.                                                              *)
(***************************************************************************)
EXTENDS Integers

CONSTANTS
    SaveX, SaveV,   \* registers that va_start saves (8 and 8)
    BufferSlots,    \* words in gp_arg_buffer (16)
    MaxReads        \* bound of the model: arguments read

ASSUME SizesAssumption ==
    /\ SaveX \in Nat /\ SaveV \in Nat /\ BufferSlots \in Nat /\ MaxReads \in Nat
    /\ SaveX <= BufferSlots

WordSize == 8
VecSize == 16

\* Offsets at which x86-64 has no general, and no vector register left.
GpEnd == 48
FpEnd == 48 + VecSize * SaveV

Garbage == <<"garbage", 0>>

VARIABLES
    va,         \* the guest's Aarch64VaArgsData: gr_offs, vr_offs, stack # nullptr
    gp_arg_buffer,
    native,     \* x86_64VaArgsData: gp_offset, fp_offset, overflow_arg_area, reg_save_area
    va_pc,
    ref,        \* the guest's va_list, had the guest read the same arguments
    ints, fps,  \* arguments read
    got, want   \* the value read last, and the guest's

list == <<va, gp_arg_buffer, native, va_pc, ref, ints, fps, got, want>>

Areas == {"gr", "vr", "stack", "buffer", "garbage"}

Buffer == [0 .. BufferSlots - 1 -> {"gr", "stack", "garbage"} \X Int]

\* A va_list that the guest hands over.
VaStart(v) ==
    /\ va = v
    /\ gp_arg_buffer = [n \in 0 .. BufferSlots - 1 |-> Garbage]
    /\ native = [gp_offset |-> 0, fp_offset |-> 0, overflow |-> Garbage, reg_save_area |-> Garbage]
    /\ va_pc = "marshal"
    /\ ref = [gr_offs |-> v.gr_offs, vr_offs |-> v.vr_offs, stack |-> 0]
    /\ ints = 0 /\ fps = 0
    /\ got = Garbage /\ want = Garbage

\* Any state a guest leaves its va_list in: some registers read, and past the
\* last general one when a pair of registers was due and one was left.
Lists == [gr_offs : {-(WordSize * n) : n \in -1 .. SaveX},
          vr_offs : {-(VecSize * n) : n \in 0 .. SaveV},
          stack : BOOLEAN]

VaInit == \E v \in Lists : VaStart(v)

-----------------------------------------------------------------------------
(* The conversion.                                                         *)

gr_size == -va.gr_offs

\* The words still in general registers, and the guest's stack after them.
CopiedWord_unshifted(n) ==
    IF n * WordSize < gr_size THEN <<"gr", n * WordSize - gr_size>>
    ELSE IF va.stack THEN <<"stack", n * WordSize>>
    ELSE gp_arg_buffer[n]

CopiedWord(n) ==
    IF n * WordSize < gr_size THEN <<"gr", n * WordSize - gr_size>>
    ELSE IF va.stack THEN <<"stack", n * WordSize - gr_size>>
    ELSE gp_arg_buffer[n]

\* So placed that fp_offset, counted from its start, ends at the guest's vr_top.
reg_save_area == <<"vr", -FpEnd>>

variadic_list ==
    /\ va_pc = "marshal"
    /\ gp_arg_buffer' = IF va.gr_offs >= 0 THEN gp_arg_buffer
                                           ELSE [n \in DOMAIN gp_arg_buffer |-> CopiedWord(n)]
    /\ native' = [gp_offset |-> GpEnd,
                  fp_offset |-> FpEnd + va.vr_offs,
                  overflow |-> <<IF va.gr_offs >= 0 THEN "stack" ELSE "buffer", 0>>,
                  reg_save_area |-> reg_save_area]
    /\ va_pc' = "reading"
    /\ UNCHANGED <<va, ref, ints, fps, got, want>>

-----------------------------------------------------------------------------
(* Reading.  The native function's va_arg, and beside it what the guest's  *)
(* own would have returned.                                                *)

Load(p) ==
    IF p[1] # "buffer" THEN p
    ELSE IF p[2] \div WordSize \in DOMAIN gp_arg_buffer THEN gp_arg_buffer[p[2] \div WordSize]
    ELSE Garbage

Overflow(n) == [n EXCEPT !.overflow = <<@[1], @[2] + WordSize>>]

\* va_arg of x86-64, an integer or a pointer, and a double.
va_arg_int ==
    IF native.gp_offset < GpEnd
    THEN /\ got' = <<native.reg_save_area[1], native.reg_save_area[2] + native.gp_offset>>
         /\ native' = [native EXCEPT !.gp_offset = @ + WordSize]
    ELSE got' = Load(native.overflow) /\ native' = Overflow(native)

va_arg_fp ==
    IF native.fp_offset < FpEnd
    THEN /\ got' = <<native.reg_save_area[1], native.reg_save_area[2] + native.fp_offset>>
         /\ native' = [native EXCEPT !.fp_offset = @ + VecSize]
    ELSE got' = Load(native.overflow) /\ native' = Overflow(native)

\* va_arg of AArch64; offs and size are those of the class of registers.  The
\* guest passes nothing on a stack it has not got.
guest_va_arg(area, offs, size) ==
    IF ref[offs] < 0
    THEN want' = <<area, ref[offs]>> /\ ref' = [ref EXCEPT ![offs] = @ + size]
    ELSE va.stack /\ want' = <<"stack", ref.stack>> /\ ref' = [ref EXCEPT !.stack = @ + WordSize]

read_int ==
    /\ va_pc = "reading" /\ ints + fps < MaxReads
    /\ guest_va_arg("gr", "gr_offs", WordSize)
    /\ va_arg_int
    /\ ints' = ints + 1
    /\ UNCHANGED <<va, gp_arg_buffer, va_pc, fps>>

read_fp ==
    /\ va_pc = "reading" /\ ints + fps < MaxReads
    /\ guest_va_arg("vr", "vr_offs", VecSize)
    /\ va_arg_fp
    /\ fps' = fps + 1
    /\ UNCHANGED <<va, gp_arg_buffer, va_pc, ints>>

VaNext == variadic_list \/ read_int \/ read_fp

VaSpec == VaInit /\ [][VaNext]_list

-----------------------------------------------------------------------------
(* Properties.                                                             *)

\* Offsets stay within the areas they index.
VaTyped ==
    /\ va_pc \in {"marshal", "reading"} /\ va \in Lists
    /\ ints \in Nat /\ fps \in Nat
    /\ gp_arg_buffer \in Buffer
    /\ native \in [gp_offset : 0 .. GpEnd, fp_offset : 0 .. FpEnd,
                   overflow : Areas \X Int, reg_save_area : Areas \X Int]
    /\ ref \in [gr_offs : Int, vr_offs : Int, stack : Nat]
    /\ (va_pc = "reading") => (native.reg_save_area[2] + native.fp_offset \in -(VecSize * SaveV) .. 0)

\* The guest had vector registers for all doubles read.
NoFpSpilt == fps * VecSize <= -va.vr_offs

\* Every argument the native function reads is the one the guest passed: always
\* when no general register was left, and otherwise while the guest's vector
\* registers last and the buffer has words.
ReadsExact ==
    (va.gr_offs >= 0 \/ (NoFpSpilt /\ ints <= BufferSlots)) => got = want

-----------------------------------------------------------------------------
(* What the proof needs: how far the two va_lists have come.               *)

\* Vector registers: as many bytes are left on both sides.
VectorsLevel ==
    /\ ref.vr_offs <= 0 /\ ref.vr_offs % VecSize = 0
    /\ native.fp_offset = FpEnd + ref.vr_offs
    /\ NoFpSpilt => ref.vr_offs = va.vr_offs + VecSize * fps

\* No general register was left: the overflow area is the guest's stack.
OnStack ==
    va.gr_offs >= 0 => /\ ref.gr_offs = va.gr_offs
                       /\ native.overflow = <<"stack", ref.stack>>

\* Some were: the next integer is the next word of the buffer, and the guest's is
\* in the register, or the place on the stack, that this word was copied from.
InBuffer ==
    va.gr_offs < 0 /\ NoFpSpilt =>
        /\ native.overflow = <<"buffer", WordSize * ints>>
        /\ IF WordSize * ints < gr_size
           THEN ref.gr_offs = va.gr_offs + WordSize * ints /\ ref.stack = 0
           ELSE ref.gr_offs = 0 /\ ref.stack = WordSize * ints - gr_size

Copied ==
    va.gr_offs < 0 =>
        \A n \in 0 .. BufferSlots - 1 :
            /\ WordSize * n < gr_size => gp_arg_buffer[n] = <<"gr", WordSize * n - gr_size>>
            /\ WordSize * n >= gr_size /\ va.stack => gp_arg_buffer[n] = <<"stack", WordSize * n - gr_size>>

ListInv ==
    /\ VaTyped /\ ReadsExact
    /\ native.gp_offset = IF va_pc = "reading" THEN GpEnd ELSE 0
    /\ va_pc = "reading" => /\ native.reg_save_area = reg_save_area
                            /\ VectorsLevel /\ OnStack /\ InBuffer /\ Copied
    /\ va_pc = "marshal" => \E v \in Lists : VaStart(v)

=============================================================================
