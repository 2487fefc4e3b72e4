------------------------------ MODULE GuestProofs ------------------------------
(***************************************************************************)
(* What a guest may rely on where its calls leave guest code, for any      *)
(* depth, threads, times and streams: the registers of its calls are kept  *)
(* however fibers nest, no wait on a condition variable is cut short, and  *)
(* zlib uses the guest's allocators as the guest meant them.  Each is a    *)
(* specification of its own.                                               *)
(***************************************************************************)
EXTENDS Fibers, PthreadCond, ZStream, TLAPS

(* Sequences. *)
(* r is q with e at its end.                                               *)
Appends(r, q, e) ==
    /\ DOMAIN r = DOMAIN q \cup {Len(q) + 1} /\ r[Len(q) + 1] = e
    /\ \A n \in DOMAIN q : r[n] = q[n]

LEMMA Appending ==
    ASSUME NEW S, NEW q \in Seq(S), NEW e \in S
    PROVE  Append(q, e) \in Seq(S) /\ Appends(Append(q, e), q, e)
  BY DEF Appends

LEMMA Element ==
    ASSUME NEW S, NEW q \in Seq(S), NEW n \in DOMAIN q
    PROVE  q[n] \in S
  OBVIOUS

LEMMA Removing ==
    ASSUME NEW S, NEW q \in Seq(S), q # <<>>
    PROVE  /\ Tail(q) \in Seq(S) /\ 1 \in DOMAIN q /\ Head(q) = q[1]
           /\ \A n \in DOMAIN Tail(q) : n + 1 \in DOMAIN q /\ Tail(q)[n] = q[n + 1]
  OBVIOUS

(***************************************************************************)
(* Fibers: FibersInv is inductive.                                         *)
(***************************************************************************)
(* What the table says of the functions that are treated specially.        *)
LEMMA Table ==
  /\ ~symbols["longjmp"].runs /\ Sorts \subseteq Functions
  /\ \A f \in WellTagged : symbols[f].runs => ~GetSupervisorFastCall(f)
  /\ Null \notin Comparators /\ MaxDepth \in Nat /\ Fresh \in Positions
<1>1. ~symbols["longjmp"].runs  BY Zenon DEF symbols, Symbol
<1>2. Fresh \in Positions  BY Zenon, FibersAssumption DEF Fresh
<1>3. Sorts \subseteq Functions  BY DEF Sorts, Functions, symbols
<1> QED  BY Zenon, <1>1, <1>2, <1>3, FibersAssumption DEF WellTagged, GetSupervisorFastCall

LEMMA InitFibers == FibersInit => FibersInv
<1> SUFFICES ASSUME FibersInit PROVE FibersInv  OBVIOUS
<1>0. IdleRegisters \in Registers  BY Table DEF IdleRegisters, Registers
<1>a. NoFiber \in Frame  BY Zenon, <1>0 DEF NoFiber, NewFiber, Frame
<1>1. FibersTypeOK
  <2>1. fiber \in [Levels -> Frame]  BY Zenon, <1>a DEF FibersInit
  <2>2. depth \in 0 .. MaxDepth  BY Table DEF FibersInit
  <2> QED  BY Zenon, <1>0, <2>1, <2>2 DEF FibersInit, FibersTypeOK
<1>2. OnlyUntaggedFail /\ RegistersRestored /\ GuestAtOwnLevel /\ ComparatorOwn
  BY DEF FibersInit, OnlyUntaggedFail, RegistersRestored, GuestAtOwnLevel, ComparatorOwn
<1>3. ExecutingExact /\ StackOK /\ SvcOK  BY DEF FibersInit, ExecutingExact, StackOK, SvcOK
<1> QED  BY Zenon, <1>1, <1>2, <1>3 DEF FibersInv

(* The guest moves within its activation.                                  *)
LEMMA MoveStep == FibersInv /\ fault = "none" /\ guest_moves => FibersInv'
<1> SUFFICES ASSUME FibersInv, fault = "none", guest_moves PROVE FibersInv'  OBVIOUS
<1> USE DEF guest_moves, compars
<1>0. regs' \in Registers /\ regs'.level = regs.level
  BY Zenon DEF FibersInv, FibersTypeOK, Registers
<1>1. FibersTypeOK'  BY Zenon, <1>0 DEF FibersInv, FibersTypeOK
<1>2. OnlyUntaggedFail' /\ RegistersRestored' /\ GuestAtOwnLevel' /\ ComparatorOwn'
  BY Zenon, <1>0 DEF FibersInv, OnlyUntaggedFail, RegistersRestored, GuestAtOwnLevel, ComparatorOwn, Top
<1>3. ExecutingExact' /\ SvcOK'
  BY Zenon, <1>0 DEF FibersInv, ExecutingExact, SvcOK, Top
<1>4. StackOK'  BY Zenon DEF FibersInv, StackOK, InCall, CallOK
<1> QED  BY Zenon, <1>1, <1>2, <1>3, <1>4 DEF FibersInv

(* A native function begins, on either path.                               *)
LEMMA EnterStep ==
  ASSUME NEW f \in Functions, FibersInv, fault = "none", enter(f), depth > 0, ctl # "host",
         ~Top.strayed => regs.level = depth,
         UNCHANGED <<executing, svc_number>>,
         executing <=> GetSupervisorFastCall(f),
         f = "longjmp" => jmp_buf # Null
  PROVE  FibersInv'
<1>1. /\ depth \in Levels /\ fiber \in [Levels -> Frame] /\ regs \in Registers
      /\ depth' = depth /\ ctl' = "host" /\ regs' = regs /\ jmp_buf' = jmp_buf /\ fault' = fault
  BY Table DEF FibersInv, FibersTypeOK, Levels, enter
<1> DEFINE marked(d) == [fiber[d] EXCEPT !.nested = @ \/ (f \in Sorts /\ fiber[d].fn = f)]
<1>2. PICK cmp \in Comparators :
        /\ fiber' = [d \in Levels |->
              IF d = depth THEN InNative(f, regs, IF f \in Sorts THEN cmp ELSE Null) ELSE marked(d)]
        /\ current_qsort_compar' = IF f = "qsort" THEN cmp ELSE current_qsort_compar
        /\ current_bsearch_compar' = IF f = "bsearch" THEN cmp ELSE current_bsearch_compar
  BY Zenon DEF enter
<1>a. fiber[depth] \in Frame  BY Zenon, <1>1
<1> DEFINE called == InNative(f, regs, IF f \in Sorts THEN cmp ELSE Null)
<1>b. called \in Frame  BY <1>a, <1>1 DEF Frame, InNative, Top
<1>c. /\ called.fn = f /\ called.at = regs /\ called.compar = IF f \in Sorts THEN cmp ELSE Null
      /\ called.saved = fiber[depth].saved /\ called.routine = fiber[depth].routine
      /\ called.strayed = Top.strayed /\ called.nested = FALSE
  BY Zenon DEF InNative, Top
<1>d. \A d \in Levels :
        /\ marked(d) \in Frame
        /\ marked(d).fn = fiber[d].fn /\ marked(d).at = fiber[d].at /\ marked(d).saved = fiber[d].saved
        /\ marked(d).compar = fiber[d].compar /\ marked(d).routine = fiber[d].routine
        /\ marked(d).strayed = fiber[d].strayed
        /\ marked(d).nested = (fiber[d].nested \/ (f \in Sorts /\ fiber[d].fn = f))
  <2> TAKE d \in Levels
  <2> DEFINE b == fiber[d].nested \/ (f \in Sorts /\ fiber[d].fn = f)
  <2>1. fiber[d] \in Frame /\ b \in BOOLEAN  BY Zenon, <1>1
  <2>2. marked(d) = [fiber[d] EXCEPT !.nested = b]  BY Zenon
  <2> HIDE DEF b
  <2>3. marked(d) \in Frame  BY <2>1, <2>2 DEF Frame
  <2>4. /\ marked(d).fn = fiber[d].fn /\ marked(d).at = fiber[d].at /\ marked(d).saved = fiber[d].saved
        /\ marked(d).compar = fiber[d].compar /\ marked(d).routine = fiber[d].routine
        /\ marked(d).strayed = fiber[d].strayed
    BY <2>1, <2>2 DEF Frame
  <2>5. marked(d).nested = b  BY <2>1, <2>2 DEF Frame
  <2> QED  BY Zenon, <2>3, <2>4, <2>5 DEF b
<1> HIDE DEF called, marked
<1>3. /\ fiber' \in [Levels -> Frame] /\ fiber'[depth] = called
      /\ \A d \in Levels \ {depth} : fiber'[d] = marked(d)
  <2>1. fiber' = [d \in Levels |-> IF d = depth THEN called ELSE marked(d)]  BY Zenon, <1>2 DEF called
  <2> QED  BY Zenon, <1>1, <1>b, <1>d, <2>1
<1>4. FibersTypeOK'  BY Zenon, <1>1, <1>2, <1>3 DEF FibersInv, FibersTypeOK
<1>5. OnlyUntaggedFail' /\ RegistersRestored' /\ GuestAtOwnLevel'
  BY <1>1, <1>3, <1>c DEF FibersInv, OnlyUntaggedFail, RegistersRestored, GuestAtOwnLevel, Top
<1>6. \A d \in 1 .. depth : d \in Levels /\ fiber'[d].routine = fiber[d].routine
                                      /\ fiber'[d].saved = fiber[d].saved
  BY <1>1, <1>3, <1>c, <1>d, Table DEF Levels
<1>e. \A d \in 1 .. depth - 1 :
        /\ d \in Levels /\ d # depth /\ d < depth /\ CallOK(d)
        /\ fiber'[d].fn = fiber[d].fn /\ fiber'[d].compar = fiber[d].compar
        /\ fiber'[d].at = fiber[d].at /\ fiber'[d].strayed = fiber[d].strayed
        /\ fiber'[d].nested = (fiber[d].nested \/ (f \in Sorts /\ fiber[d].fn = f))
  <2> TAKE d \in 1 .. depth - 1
  <2>1. d \in Levels /\ d # depth /\ d < depth /\ d \in 1 .. depth  BY <1>1, Table DEF Levels
  <2>2. CallOK(d)  BY Zenon, <2>1 DEF FibersInv, StackOK, InCall
  <2> QED  BY Zenon, <1>3, <1>d, <2>1, <2>2
<1>7. ComparatorOwn'
  <2> SUFFICES ASSUME NEW d \in 2 .. depth, fiber'[d - 1].fn \in Sorts, ~fiber'[d - 1].nested
               PROVE  fiber'[d].routine = fiber'[d - 1].compar
    BY Zenon, <1>1 DEF ComparatorOwn
  <2>1. d \in 1 .. depth /\ d - 1 \in 1 .. depth - 1  BY <1>1 DEF Levels
  <2>2. fiber[d - 1].fn \in Sorts /\ ~fiber[d - 1].nested  BY Zenon, <1>e, <2>1
  <2> QED  BY Zenon, <1>6, <1>e, <2>1, <2>2 DEF FibersInv, ComparatorOwn
<1>8. ExecutingExact'  BY Zenon, <1>1, <1>3, <1>c DEF ExecutingExact, Top
<1>9. \A d \in 1 .. depth - 1 : CallOK(d)'
  <2> TAKE d \in 1 .. depth - 1
  <2>1. fiber'[d].fn = "qsort" /\ ~fiber'[d].nested => fiber'[d].compar = current_qsort_compar'
    BY Zenon, <1>2, <1>e DEF CallOK, Sorts
  <2>2. fiber'[d].fn = "bsearch" /\ ~fiber'[d].nested => fiber'[d].compar = current_bsearch_compar'
    BY Zenon, <1>2, <1>e DEF CallOK, Sorts
  <2> QED  BY Zenon, <1>1, <1>e, <2>1, <2>2 DEF CallOK
<1>10. CallOK(depth)'
  <2>1. fiber'[depth'].fn = f /\ (~fiber'[depth'].strayed => fiber'[depth'].at.level = depth')
        /\ ~(depth' < depth')
    BY <1>1, <1>3, <1>c DEF Levels
  <2>2. f \in Sorts => fiber'[depth'].compar = cmp  BY Zenon, <1>1, <1>3, <1>c
  <2> QED  BY Zenon, <1>2, <2>1, <2>2 DEF CallOK, Sorts
<1>11. StackOK'
  <2> SUFFICES ASSUME NEW d \in 1 .. depth
               PROVE  /\ fiber'[d].saved = IF d = 1 THEN IdleRegisters ELSE fiber'[d - 1].at
                      /\ CallOK(d)' /\ InCall(d)'
    BY Zenon, <1>1 DEF StackOK
  <2>1. (d = depth \/ d \in 1 .. depth - 1) /\ (d # 1 => d - 1 \in 1 .. depth - 1)  BY <1>1 DEF Levels
  <2>2. CallOK(d)' /\ InCall(d)'  BY Zenon, <1>1, <1>9, <1>10, <1>e, <2>1 DEF InCall
  <2>3. fiber[d].saved = IF d = 1 THEN IdleRegisters ELSE fiber[d - 1].at  BY Zenon DEF FibersInv, StackOK
  <2> QED  BY Zenon, <1>6, <1>e, <2>1, <2>2, <2>3
<1>12. SvcOK'  BY Zenon, <1>1, <1>3, <1>c DEF SvcOK, Top
<1> QED  BY Zenon, <1>4, <1>5, <1>7, <1>8, <1>11, <1>12 DEF FibersInv

LEMMA CallStep ==
  ASSUME NEW f \in Functions, FibersInv, fault = "none", guest_calls(f), f = "longjmp" => jmp_buf # Null
  PROVE  FibersInv'
<1>1. ctl = "guest" /\ executing /\ depth > 0 /\ (~Top.strayed => regs.level = depth)
  BY Zenon DEF FibersInv, ExecutingExact, SvcOK, GuestAtOwnLevel, guest_calls
<1>2. CASE GetSupervisorFastCall(f)
  <2>1. enter(f) /\ UNCHANGED <<executing, svc_number>>  BY Zenon, <1>2 DEF guest_calls
  <2> QED  BY Zenon, <1>1, <1>2, <2>1, EnterStep
<1>3. CASE ~GetSupervisorFastCall(f)
  <2>1. /\ svc_number' = f /\ executing' = FALSE /\ ctl' = "svc"
        /\ UNCHANGED <<depth, fiber, regs, jmp_buf, fault, current_qsort_compar, current_bsearch_compar>>
    BY Zenon, <1>3 DEF guest_calls, compars
  <2>2. FibersTypeOK'  BY Zenon, <2>1 DEF FibersInv, FibersTypeOK
  <2>3. OnlyUntaggedFail' /\ RegistersRestored' /\ GuestAtOwnLevel' /\ ComparatorOwn'
    BY Zenon, <2>1 DEF FibersInv, OnlyUntaggedFail, RegistersRestored, GuestAtOwnLevel, ComparatorOwn
  <2>4. ExecutingExact'  BY Zenon, <2>1 DEF ExecutingExact
  <2>5. StackOK'  BY Zenon, <1>1, <2>1 DEF FibersInv, StackOK, InCall, CallOK
  <2>6. SvcOK'  BY Zenon, <1>1, <1>3, <2>1 DEF SvcOK, Top
  <2> QED  BY Zenon, <2>2, <2>3, <2>4, <2>5, <2>6 DEF FibersInv
<1> QED  BY Zenon, <1>2, <1>3

LEMMA SvcStep == FibersInv /\ fault = "none" /\ handle_call_svc => FibersInv'
<1> SUFFICES ASSUME FibersInv, fault = "none", handle_call_svc, NEW f \in Functions, svc_number = f
             PROVE  FibersInv'
  BY Zenon DEF FibersInv, SvcOK, handle_call_svc
<1>1. ctl = "svc" /\ enter(f) /\ UNCHANGED <<executing, svc_number>>  BY Zenon DEF handle_call_svc
<1>2. /\ ~GetSupervisorFastCall(f) /\ ~executing
      /\ depth > 0 /\ (~Top.strayed => regs.level = depth)
      /\ f = "longjmp" => jmp_buf # Null
  BY Zenon, <1>1 DEF FibersInv, SvcOK, ExecutingExact, FibersTypeOK
<1> QED  BY Zenon, <1>1, <1>2, EnterStep

(* The guest goes on: the level of its registers is the fiber's own, also  *)
(* after setjmp and longjmp, or else it has strayed.                       *)
LEMMA ReturnStep == FibersInv /\ fault = "none" /\ native_returns => FibersInv'
<1> SUFFICES ASSUME FibersInv, fault = "none", native_returns PROVE FibersInv'  OBVIOUS
<1> DEFINE jumps == Top.fn = "longjmp" /\ jmp_buf.level # regs.level
           back == InGuest(jumps)
<1>1. /\ ctl = "host" /\ depth > 0 /\ depth \in Levels /\ fiber[depth] \in Frame /\ fiber \in [Levels -> Frame]
      /\ depth' = depth /\ ctl' = "guest" /\ executing' = TRUE
      /\ UNCHANGED <<svc_number, current_qsort_compar, current_bsearch_compar, fault>>
      /\ fiber' = [fiber EXCEPT ![depth] = back]
  BY Table DEF native_returns, FibersInv, FibersTypeOK, Levels, compars
<1>2. regs \in Registers /\ (~Top.strayed => regs.level = depth)
  BY <1>1 DEF FibersInv, FibersTypeOK, RegistersRestored, StackOK, InCall, CallOK, Top
<1>3. Top.fn = "longjmp" => jmp_buf \in Registers
  BY Zenon, <1>1 DEF FibersInv, FibersTypeOK, SvcOK
<1>4. regs' \in Registers /\ jmp_buf' \in Registers \cup {Null}
  BY Zenon, <1>2, <1>3 DEF native_returns, FibersInv, FibersTypeOK
<1>a. ~Top.strayed /\ ~jumps => regs'.level = depth
  BY Zenon, <1>2 DEF native_returns
<1>5. /\ back.saved = fiber[depth].saved /\ back.routine = fiber[depth].routine /\ back.fn = Null
      /\ back.strayed = (Top.strayed \/ jumps)
      /\ back \in Frame
  BY <1>1, Table DEF InGuest, Top, Frame, IdleRegisters, Registers
<1> HIDE DEF back
<1>6. /\ fiber' \in [Levels -> Frame] /\ fiber'[depth] = back
      /\ \A d \in Levels \ {depth} : fiber'[d] = fiber[d]
  BY Zenon, <1>1, <1>5
<1>7. FibersTypeOK'  BY Zenon, <1>1, <1>4, <1>6 DEF FibersInv, FibersTypeOK
<1>8. OnlyUntaggedFail' /\ RegistersRestored' /\ GuestAtOwnLevel'
  BY Zenon, <1>1, <1>5, <1>6, <1>a DEF OnlyUntaggedFail, RegistersRestored, GuestAtOwnLevel, Top
<1>9. \A d \in 1 .. depth : /\ d \in Levels
                            /\ fiber'[d].saved = fiber[d].saved /\ fiber'[d].routine = fiber[d].routine
  BY <1>1, <1>5, <1>6, Table DEF Levels
<1>10. ComparatorOwn'
  BY <1>1, <1>6, <1>9, Table DEF FibersInv, ComparatorOwn, Levels
<1>11. ExecutingExact' /\ SvcOK'  BY Zenon, <1>1, <1>4 DEF ExecutingExact, SvcOK
<1>12. \A d \in 1 .. depth - 1 : fiber'[d] = fiber[d] /\ CallOK(d)' /\ InCall(d)'
  BY <1>1, <1>6, <1>9 DEF FibersInv, StackOK, InCall, CallOK, Levels
<1>13. ~InCall(depth)' /\ fiber'[depth].fn = Null
  BY <1>1, <1>5, <1>6 DEF InCall, Levels
<1>14. StackOK'
  BY <1>1, <1>9, <1>12, <1>13 DEF FibersInv, StackOK, Levels
<1> QED  BY Zenon, <1>7, <1>8, <1>10, <1>11, <1>14 DEF FibersInv

(* A fiber runs: it saves the registers of the call it is nested in.       *)
LEMMA RunStep ==
  ASSUME FibersInv, fault = "none", fiber_runs, ~executing
  PROVE  FibersInv'
<1> DEFINE n == depth + 1
           fresh == NewFiber(regs, callee)
<1>1. /\ ctl = "host" /\ depth \in 0 .. MaxDepth /\ n \in Levels /\ fiber \in [Levels -> Frame]
      /\ regs \in Registers
      /\ depth > 0 => symbols[Top.fn].runs
  BY Table DEF fiber_runs, FibersInv, FibersTypeOK, Levels
<1>2. depth > 0 => depth \in Levels /\ CallOK(depth) /\ ~GetSupervisorFastCall(fiber[depth].fn)
  <2>1. depth > 0 => depth \in 1 .. depth /\ InCall(depth) /\ depth \in Levels
    BY <1>1 DEF InCall, Levels
  <2>2. depth > 0 => CallOK(depth)  BY Zenon, <2>1 DEF FibersInv, StackOK
  <2> QED  BY Zenon, <1>1, <2>1, <2>2 DEF FibersInv, ExecutingExact, Top
<1>4. /\ depth' = n /\ fiber' = [fiber EXCEPT ![n] = fresh]
      /\ regs' = [level |-> n, pos |-> Fresh] /\ executing' = TRUE /\ ctl' = "guest"
      /\ UNCHANGED <<svc_number, jmp_buf, current_qsort_compar, current_bsearch_compar, fault>>
  BY Zenon DEF fiber_runs, compars
<1>5. /\ fresh.saved = regs /\ fresh.routine = callee /\ fresh.fn = Null
      /\ callee \in Comparators \cup {Null}
  BY Zenon DEF NewFiber, callee, FibersInv, FibersTypeOK
<1>6. fresh \in Frame
  <2>1. IdleRegisters \in Registers  BY Table DEF IdleRegisters, Registers
  <2> QED  BY Zenon, <1>1, <1>5, <2>1 DEF NewFiber, Frame
<1> HIDE DEF fresh
<1>7. /\ fiber' \in [Levels -> Frame] /\ fiber'[n] = fresh
      /\ \A d \in Levels \ {n} : fiber'[d] = fiber[d]
  BY Zenon, <1>1, <1>4, <1>6
<1>8. regs' \in Registers /\ regs'.level = n  BY <1>1, <1>4, Table DEF Registers, Levels
<1>9. FibersTypeOK'  BY <1>1, <1>4, <1>7, <1>8, Table DEF FibersInv, FibersTypeOK, Levels
<1>10. OnlyUntaggedFail' /\ RegistersRestored' /\ GuestAtOwnLevel'
  BY Zenon, <1>4, <1>8 DEF OnlyUntaggedFail, RegistersRestored, GuestAtOwnLevel
<1>11. \A d \in 1 .. depth : d \in Levels /\ d # n /\ fiber'[d] = fiber[d] /\ CallOK(d)
  BY <1>1, <1>7, Table DEF FibersInv, StackOK, InCall, Levels
<1>12. depth > 0 /\ fiber[depth].fn \in Sorts /\ ~fiber[depth].nested => callee = fiber[depth].compar
  BY <1>2 DEF callee, CallOK, Sorts, Top
<1>13. ComparatorOwn'
  <2> SUFFICES ASSUME NEW d \in 2 .. n, fiber'[d - 1].fn \in Sorts, ~fiber'[d - 1].nested
               PROVE  fiber'[d].routine = fiber'[d - 1].compar
    BY Zenon, <1>4 DEF ComparatorOwn
  <2>1. CASE d = n  BY <1>1, <1>5, <1>7, <1>11, <1>12, <2>1
  <2>2. CASE d # n
    <3>1. d \in 2 .. depth /\ d \in 1 .. depth /\ d - 1 \in 1 .. depth  BY <1>1, <2>2
    <3> QED  BY Zenon, <1>11, <3>1 DEF FibersInv, ComparatorOwn
  <2> QED  BY Zenon, <2>1, <2>2
<1>14. ExecutingExact' /\ SvcOK'  BY <1>1, <1>4 DEF ExecutingExact, SvcOK
<1>15. \A d \in 1 .. depth : CallOK(d)' /\ InCall(d)'
  <2> TAKE d \in 1 .. depth
  <2>1. symbols[fiber[d].fn].runs /\ ~GetSupervisorFastCall(fiber[d].fn)
    <3>1. CASE d = depth  BY <1>1, <1>2, <3>1 DEF Top
    <3>2. CASE d # depth  BY <1>1, <1>11, <3>2 DEF CallOK
    <3> QED  BY Zenon, <3>1, <3>2
  <2>2. CallOK(d)'  BY Zenon, <1>1, <1>4, <1>11, <2>1 DEF CallOK
  <2>3. InCall(d)'  BY <1>1, <1>4, <1>11, <2>1 DEF InCall
  <2> QED  BY Zenon, <2>2, <2>3
<1>16. fiber'[n].saved = IF n = 1 THEN IdleRegisters ELSE fiber'[n - 1].at
  BY <1>1, <1>5, <1>7, <1>11 DEF FibersInv, RegistersRestored, Top
<1>17. \A d \in 1 .. depth : fiber'[d].saved = IF d = 1 THEN IdleRegisters ELSE fiber'[d - 1].at
  <2> TAKE d \in 1 .. depth
  <2>1. d # 1 => d - 1 \in 1 .. depth  BY <1>1
  <2> QED  BY Zenon, <1>11, <2>1 DEF FibersInv, StackOK
<1>18. \A d \in {n} : ~InCall(d)' /\ fiber'[d].fn = Null  BY <1>1, <1>4, <1>5, <1>7 DEF InCall
<1>19. \A d \in 1 .. n : d = n \/ d \in 1 .. depth  BY <1>1
<1>20. StackOK'
  <2> SUFFICES ASSUME NEW d \in 1 .. n
               PROVE  /\ fiber'[d].saved = IF d = 1 THEN IdleRegisters ELSE fiber'[d - 1].at
                      /\ InCall(d)' => CallOK(d)'
                      /\ ~InCall(d)' => fiber'[d].fn = Null
    BY Zenon, <1>4 DEF StackOK
  <2>1. CASE d = n  BY Zenon, <1>16, <1>18, <2>1
  <2>2. CASE d \in 1 .. depth  BY Zenon, <1>15, <1>17, <2>2
  <2> QED  BY Zenon, <1>19, <2>1, <2>2
<1> QED  BY Zenon, <1>9, <1>10, <1>13, <1>14, <1>20 DEF FibersInv

(* The assertion fails: only a function on the fast path gets here.        *)
LEMMA FailStep ==
  ASSUME FibersInv, fault = "none", fiber_runs, executing
  PROVE  FibersInv'
<1>1. /\ ctl = "host" /\ depth \in 0 .. MaxDepth /\ fault' = "executing"
      /\ depth > 0 => symbols[Top.fn].runs
      /\ UNCHANGED <<depth, fiber, ctl, regs, executing, svc_number, jmp_buf,
                     current_qsort_compar, current_bsearch_compar>>
  BY Zenon DEF fiber_runs, compars, FibersInv, FibersTypeOK
<1>2. depth > 0 /\ GetSupervisorFastCall(Top.fn)  BY Zenon, <1>1 DEF FibersInv, ExecutingExact
<1>3. OnlyUntaggedFail'  BY Zenon, <1>1, <1>2, Table DEF OnlyUntaggedFail, Top
<1>4. FibersTypeOK'  BY Zenon, <1>1 DEF FibersInv, FibersTypeOK
<1>5. RegistersRestored' /\ GuestAtOwnLevel' /\ ComparatorOwn'
  BY Zenon, <1>1 DEF FibersInv, RegistersRestored, GuestAtOwnLevel, ComparatorOwn, Top
<1>6. ExecutingExact' /\ SvcOK'  BY Zenon, <1>1 DEF FibersInv, ExecutingExact, SvcOK, Top
<1>7. \A d : (InCall(d)' <=> InCall(d)) /\ (CallOK(d)' <=> CallOK(d))
  BY Zenon, <1>1 DEF InCall, CallOK
<1>8. StackOK'  BY Zenon, <1>1, <1>7 DEF FibersInv, StackOK
<1> QED  BY Zenon, <1>3, <1>4, <1>5, <1>6, <1>8 DEF FibersInv

(* A fiber ends: the call it was nested in has its registers back.         *)
LEMMA EndStep == FibersInv /\ fault = "none" /\ fiber_ends => FibersInv'
<1> SUFFICES ASSUME FibersInv, fault = "none", fiber_ends PROVE FibersInv'  OBVIOUS
<1> DEFINE n == depth - 1
<1>1. /\ ctl = "guest" /\ depth \in Levels /\ fiber \in [Levels -> Frame] /\ fiber[depth] \in Frame
      /\ n \in 0 .. MaxDepth /\ depth' = n /\ ctl' = "host" /\ executing' = FALSE
      /\ regs' = fiber[depth].saved /\ fiber' = [fiber EXCEPT ![depth] = NoFiber]
      /\ UNCHANGED <<svc_number, current_qsort_compar, current_bsearch_compar, fault>>
  BY Table DEF fiber_ends, FibersInv, FibersTypeOK, SvcOK, Levels, compars, Top
<1>2. NoFiber \in Frame  BY Table DEF NoFiber, NewFiber, Frame, IdleRegisters, Registers
<1>3. fiber' \in [Levels -> Frame] /\ \A d \in Levels \ {depth} : fiber'[d] = fiber[d]
  BY Zenon, <1>1, <1>2
<1>4. regs' \in Registers /\ jmp_buf' \in Registers \cup {Null}
  BY Zenon, <1>1 DEF Frame, fiber_ends, FibersInv, FibersTypeOK
<1>5. FibersTypeOK'  BY Zenon, <1>1, <1>3, <1>4 DEF FibersInv, FibersTypeOK
<1>6. \A d \in 1 .. n : d \in Levels /\ d \in 1 .. depth /\ d # depth /\ fiber'[d] = fiber[d]
                       /\ CallOK(d)
                       /\ symbols[fiber[d].fn].runs /\ ~GetSupervisorFastCall(fiber[d].fn)
  <2>1. \A d \in 1 .. n : d \in Levels /\ d \in 1 .. depth /\ d # depth /\ d < depth
    BY <1>1, Table DEF Levels
  <2>2. \A d \in 1 .. n : CallOK(d)  BY Zenon, <2>1 DEF FibersInv, StackOK, InCall
  <2> QED  BY Zenon, <1>3, <2>1, <2>2 DEF CallOK
<1>7. regs' = IF n = 0 THEN IdleRegisters ELSE fiber'[n].at
  BY <1>1, <1>6 DEF FibersInv, StackOK, Levels
<1>8. RegistersRestored' /\ OnlyUntaggedFail' /\ GuestAtOwnLevel'
  BY Zenon, <1>1, <1>7 DEF OnlyUntaggedFail, RegistersRestored, GuestAtOwnLevel, Top
<1>9. ComparatorOwn'
  <2> SUFFICES ASSUME NEW d \in 2 .. n, fiber'[d - 1].fn \in Sorts, ~fiber'[d - 1].nested
               PROVE  fiber'[d].routine = fiber'[d - 1].compar
    BY Zenon, <1>1 DEF ComparatorOwn
  <2>1. d \in 1 .. n /\ d - 1 \in 1 .. n /\ d \in 2 .. depth  BY <1>1 DEF Levels
  <2> QED  BY Zenon, <1>6, <2>1 DEF FibersInv, ComparatorOwn
<1>10. n > 0 => ~GetSupervisorFastCall(fiber'[n].fn) /\ fiber'[n].fn # "longjmp"
  BY <1>1, <1>6, Table DEF CallOK
<1>11. ExecutingExact'  BY Zenon, <1>1, <1>10 DEF ExecutingExact, Top
<1>12. SvcOK'  BY Zenon, <1>1, <1>10 DEF SvcOK, Top
<1>13. \A d \in 1 .. n : CallOK(d)' /\ InCall(d)'
  BY <1>1, <1>6 DEF CallOK, InCall
<1>14. \A d \in 1 .. n : fiber'[d].saved = IF d = 1 THEN IdleRegisters ELSE fiber'[d - 1].at
  <2> TAKE d \in 1 .. n
  <2>1. d # 1 => d - 1 \in 1 .. n  BY <1>1
  <2> QED  BY Zenon, <1>6, <2>1 DEF FibersInv, StackOK
<1>15. StackOK'  BY Zenon, <1>1, <1>13, <1>14 DEF StackOK
<1> QED  BY Zenon, <1>5, <1>8, <1>9, <1>11, <1>12, <1>15 DEF FibersInv

LEMMA StutterStep == FibersInv /\ UNCHANGED fibers => FibersInv'
<1> SUFFICES ASSUME FibersInv, UNCHANGED fibers PROVE FibersInv'  OBVIOUS
<1>1. UNCHANGED <<ctl, depth, fiber, regs, executing, svc_number, jmp_buf, current_qsort_compar,
                  current_bsearch_compar, fault>>
  BY Zenon DEF fibers, compars
<1>2. FibersTypeOK'  BY Zenon, <1>1 DEF FibersInv, FibersTypeOK
<1>3. OnlyUntaggedFail' /\ RegistersRestored' /\ GuestAtOwnLevel'
  BY Zenon, <1>1 DEF FibersInv, OnlyUntaggedFail, RegistersRestored, GuestAtOwnLevel, Top
<1>4. ComparatorOwn'  BY Zenon, <1>1 DEF FibersInv, ComparatorOwn
<1>5. ExecutingExact'  BY Zenon, <1>1 DEF FibersInv, ExecutingExact, Top
<1>6. \A d : InCall(d)' <=> InCall(d)  BY Zenon, <1>1 DEF InCall
<1>7. \A d : CallOK(d)' <=> CallOK(d)  BY Zenon, <1>1 DEF CallOK
<1>8. StackOK'  BY Zenon, <1>1, <1>6, <1>7 DEF FibersInv, StackOK
<1>9. SvcOK'  BY Zenon, <1>1 DEF FibersInv, SvcOK, Top
<1> QED  BY Zenon, <1>2, <1>3, <1>4, <1>5, <1>8, <1>9 DEF FibersInv

LEMMA FibersInvariant == FibersSpec => []FibersInv
<1>1. FibersInv /\ [FibersNext]_fibers => FibersInv'
  BY Zenon, MoveStep, CallStep, SvcStep, ReturnStep, RunStep, FailStep, EndStep, StutterStep
     DEF FibersNext
<1> QED  BY InitFibers, <1>1, PTL DEF FibersSpec

(* The assertion in ScopedExecutionFiber::run fails for untagged functions *)
(* that run guest code and for no other, whatever the guest calls.         *)
THEOREM FibersSafe == FibersSpec => []OnlyUntaggedFail
<1>1. FibersInv => OnlyUntaggedFail  BY Zenon DEF FibersInv
<1> QED  BY FibersInvariant, <1>1, PTL

(* A native call gives the guest its registers back, for every depth of    *)
(* nesting and any guest.                                                  *)
THEOREM CallsPreserveRegisters == FibersSpec => []RegistersRestored
<1>1. FibersInv => RegistersRestored  BY Zenon DEF FibersInv
<1> QED  BY FibersInvariant, <1>1, PTL

(* Guest code runs in the fiber it belongs to, never in one below or       *)
(* above, but for a fiber whose own longjmp has left the activation.       *)
THEOREM GuestsAtOwnLevel == FibersSpec => []GuestAtOwnLevel
<1>1. FibersInv => GuestAtOwnLevel  BY Zenon DEF FibersInv
<1> QED  BY FibersInvariant, <1>1, PTL

(* jit->IsExecuting() is true exactly in guest code and on the fast path:  *)
(* what the assertion in ScopedExecutionFiber::run tests is what it means. *)
THEOREM ExecutingKnown == FibersSpec => []ExecutingExact
<1>1. FibersInv => ExecutingExact  BY Zenon DEF FibersInv
<1> QED  BY FibersInvariant, <1>1, PTL

(* The stack of fibers is well formed at any depth.                        *)
THEOREM FibersTyped == FibersSpec => []FibersTypeOK
<1>1. FibersInv => FibersTypeOK  BY Zenon DEF FibersInv
<1> QED  BY FibersInvariant, <1>1, PTL

(* A sort compares with its own comparator, however sorts of the two kinds *)
(* nest and whatever else the guest does, until a sort of the same kind    *)
(* begins within it.                                                       *)
THEOREM ComparatorsOwn == FibersSpec => []ComparatorOwn
<1>1. FibersInv => ComparatorOwn  BY Zenon DEF FibersInv
<1> QED  BY FibersInvariant, <1>1, PTL

(***************************************************************************)
(* The condition variable.  Its clock, once it has one, is the clock that  *)
(* the guest takes it to have, or is MONOTONIC where the guest takes it to *)
(* have the default; nobody waits on one without a clock.                  *)
(***************************************************************************)
Waits == [at : {"idle", "blocked", "relock"}, clock : GuestClocks \cup {None},
          until : 0 .. Horizon, ret : {"none", "0", "ETIMEDOUT"}]

(* The host's clock c for what is the clock g to the guest.                *)
Follows(c, g) == c \in Clocks /\ (c = g \/ (c = "MONOTONIC" /\ g = "default"))

ClockKnown ==
    /\ cond \in Clocks => Follows(cond, known)
    /\ cond = "static" => known = "REALTIME"
    /\ attr # None => Follows(attr, meant)

WaitOK(t) ==
    /\ wait[t].at # "idle" => cond \in Clocks
    /\ wait[t].at = "blocked" => wait[t].ret = "none"

CondInv == CondTypeOK /\ ClockKnown /\ \A t \in Threads : WaitOK(t)

LEMMA Times ==
    /\ MaxTime \in Nat /\ MaxDelay \in Nat /\ Horizon \in Nat
    /\ MaxSkew \in Nat /\ MaxSkew > 0
BY CondAssumption DEF Horizon

LEMMA Waiting == CondTypeOK <=>
    /\ attr \in Clocks \cup {None} /\ meant \in GuestClocks \cup {None}
    /\ attr = None <=> meant = None
    /\ cond \in Clocks \cup {"static", "destroyed"}
    /\ known \in GuestClocks /\ cond_owner \in Threads \cup {None}
    /\ wait \in [Threads -> Waits] /\ mono \in 0 .. Horizon /\ skew \in 1 .. MaxSkew
BY Zenon DEF CondTypeOK, Waits

LEMMA NoWaitIs == NoWait \in Waits /\ NoWait.at = "idle"
BY Times DEF NoWait, Waits

LEMMA CondStart == CondInit => CondInv
<1> SUFFICES ASSUME CondInit PROVE CondInv
    OBVIOUS
<1>1. CondTypeOK
    BY Times, NoWaitIs, Waiting DEF CondInit, Clocks, GuestClocks
<1>2. ClockKnown
    BY Zenon DEF CondInit, ClockKnown, Clocks
<1>3. ASSUME NEW t \in Threads PROVE WaitOK(t)
    BY Zenon, NoWaitIs DEF CondInit, WaitOK
<1> QED
    BY Zenon, <1>1, <1>2, <1>3 DEF CondInv

(* The clock of a variable that a call makes, or finds made. *)
LEMMA CondMade ==
    ASSUME CondTypeOK, ClockKnown, Usable
    PROVE  Follows(cond_to_host(cond), known)
BY Zenon, Waiting DEF ClockKnown, Follows, Usable, cond_to_host, host_condattr, Clocks

(* Waiters change on a variable that has been made. *)
LEMMA CondWaits ==
    ASSUME CondInv, Usable, cond' = cond_to_host(cond), wait' \in [Threads -> Waits],
           \A t \in Threads : wait'[t].at = "blocked" => wait'[t].ret = "none",
           cond_owner' \in Threads \cup {None}, UNCHANGED <<attr, meant, known, mono, skew>>
    PROVE  CondInv'
<1>1. Follows(cond', known') /\ cond' \in Clocks
    BY Zenon, CondMade DEF CondInv, Follows
<1>2. CondTypeOK'
    BY Zenon, <1>1, Waiting DEF CondInv, CondTypeOK, Waits
<1>3. ClockKnown'
    BY Zenon, <1>1 DEF CondInv, ClockKnown, Clocks
<1>4. ASSUME NEW t \in Threads PROVE WaitOK(t)'
    BY Zenon, <1>1 DEF WaitOK
<1> QED
    BY Zenon, <1>2, <1>3, <1>4 DEF CondInv

LEMMA CondBlocks ==
    ASSUME CondInv, NEW t \in Threads, NEW clock \in GuestClocks \cup {None},
           NEW until \in 0 .. Horizon, Block(t, clock, until)
    PROVE  CondInv'
<1> DEFINE w == [at |-> "blocked", clock |-> clock, until |-> until, ret |-> "none"]
<1>1. w \in Waits /\ w.at = "blocked" /\ w.ret = "none"
    BY Zenon DEF Waits
<1> HIDE DEF w
<1>2. /\ wait' = [wait EXCEPT ![t] = w] /\ Usable /\ cond' = cond_to_host(cond)
      /\ cond_owner' = None /\ UNCHANGED <<attr, meant, known, mono, skew>>
    BY Zenon DEF Block, w
<1>3. wait \in [Threads -> Waits] /\ \A u \in Threads : WaitOK(u)
    BY Zenon, Waiting DEF CondInv
<1>4. /\ wait' \in [Threads -> Waits]
      /\ \A u \in Threads : wait'[u].at = "blocked" => wait'[u].ret = "none"
    BY Zenon, <1>1, <1>2, <1>3 DEF WaitOK
<1> QED
    BY Zenon, <1>2, <1>4, CondWaits

(* The host wakes some of those that wait. *)
LEMMA WokenIs ==
    ASSUME CondInv, NEW S \in SUBSET Threads, NEW why \in {"0", "ETIMEDOUT"}, Woken(S, why),
           NEW t \in Threads
    PROVE  /\ wait' \in [Threads -> Waits]
           /\ t \notin S => wait'[t] = wait[t]
           /\ t \in S => wait'[t].at = "relock" /\ wait'[t].ret = why
<1>1. wait \in [Threads -> Waits]
    BY Zenon, Waiting DEF CondInv
<1>2. ASSUME NEW r \in Waits
      PROVE  /\ [r EXCEPT !.at = "relock", !.ret = why] \in Waits
             /\ [r EXCEPT !.at = "relock", !.ret = why].at = "relock"
             /\ [r EXCEPT !.at = "relock", !.ret = why].ret = why
    BY Zenon DEF Waits
<1> QED
    BY Zenon, <1>1, <1>2 DEF Woken

LEMMA CondWakes ==
    ASSUME CondInv, NEW S \in SUBSET Threads, NEW why \in {"0", "ETIMEDOUT"}, Woken(S, why),
           Usable, cond' = cond_to_host(cond), UNCHANGED <<attr, meant, known, cond_owner, mono, skew>>
    PROVE  CondInv'
<1>1. ASSUME NEW t \in Threads PROVE wait'[t].at = "blocked" => wait'[t].ret = "none"
  <2>1. WaitOK(t)
      BY Zenon DEF CondInv
  <2> QED
      BY Zenon, <2>1, WokenIs DEF WaitOK
<1>2. wait' \in [Threads -> Waits]
  <2>1. CASE Threads = {}
      BY Zenon, <2>1 DEF Woken
  <2>2. CASE \E t \in Threads : TRUE
      BY Zenon, <2>2, WokenIs
  <2> QED
      BY Zenon, <2>1, <2>2
<1>3. cond_owner' \in Threads \cup {None}
    BY Zenon, Waiting DEF CondInv
<1> QED
    BY Zenon, <1>1, <1>2, <1>3, CondWaits

(* The variable and its waiters stay. *)
LEMMA CondSame ==
    ASSUME CondInv, UNCHANGED <<cond, known, wait>>, attr' \in Clocks \cup {None},
           meant' \in GuestClocks \cup {None}, attr' = None <=> meant' = None,
           attr' # None => Follows(attr', meant'),
           cond_owner' \in Threads \cup {None}, mono' \in 0 .. Horizon, skew' \in 1 .. MaxSkew
    PROVE  CondInv'
<1>1. CondTypeOK'
    BY Zenon, Waiting DEF CondInv, CondTypeOK, Waits
<1>2. ClockKnown'
    BY Zenon DEF CondInv, ClockKnown
<1>3. \A t \in Threads : WaitOK(t)'
    BY Zenon DEF CondInv, WaitOK
<1> QED
    BY Zenon, <1>1, <1>2, <1>3 DEF CondInv

(* Nobody waits, and the variable is initialised or destroyed. *)
LEMMA CondRemade ==
    ASSUME CondInv, NobodyWaits, UNCHANGED <<attr, meant, cond_owner, wait, mono, skew>>,
           known' \in GuestClocks, cond' \in Clocks \cup {"static", "destroyed"}, ClockKnown'
    PROVE  CondInv'
<1>1. CondTypeOK'
    BY Zenon, Waiting DEF CondInv, CondTypeOK, Waits
<1>2. ASSUME NEW t \in Threads PROVE WaitOK(t)'
    BY Zenon, NoWaitIs DEF NobodyWaits, WaitOK
<1> QED
    BY Zenon, <1>1, <1>2 DEF CondInv

LEMMA CondSteps == CondInv /\ [CondNext]_condition => CondInv'
<1> SUFFICES ASSUME CondInv, [CondNext]_condition PROVE CondInv'
    OBVIOUS
<1>0. /\ attr \in Clocks \cup {None} /\ meant \in GuestClocks \cup {None}
      /\ (attr = None <=> meant = None) /\ (attr # None => Follows(attr, meant))
      /\ cond \in Clocks \cup {"static", "destroyed"}
      /\ known \in GuestClocks /\ cond_owner \in Threads \cup {None}
      /\ wait \in [Threads -> Waits] /\ mono \in 0 .. Horizon /\ skew \in 1 .. MaxSkew
      /\ ClockKnown
    BY Zenon, Waiting DEF CondInv, ClockKnown
<1>1. CASE UNCHANGED condition
    BY Zenon, <1>0, <1>1, CondSame DEF condition
<1>2. CASE pthread_condattr_init \/ pthread_condattr_setclock \/ pthread_condattr_getclock
  <2>1. /\ attr' \in Clocks \cup {None} /\ meant' \in GuestClocks \cup {None}
        /\ (attr' = None <=> meant' = None) /\ (attr' # None => Follows(attr', meant'))
    <3>1. CASE pthread_condattr_init
        BY <1>0, <3>1, CondAssumption DEF pthread_condattr_init, Follows, Clocks, GuestClocks
    <3>2. CASE pthread_condattr_setclock
        BY Zenon, <1>0, <3>2, CondAssumption DEF pthread_condattr_setclock, Follows, GuestClocks
    <3>3. CASE pthread_condattr_getclock
        BY Zenon, <1>0, <3>3, CondAssumption DEF pthread_condattr_getclock, Follows, GuestClocks
    <3> QED
        BY Zenon, <1>2, <3>1, <3>2, <3>3
  <2>2. UNCHANGED <<cond, known, cond_owner, wait, mono, skew>>
      BY Zenon, <1>2 DEF pthread_condattr_init, pthread_condattr_setclock, pthread_condattr_getclock
  <2> QED
      BY Zenon, <1>0, <2>1, <2>2, CondSame
<1>3. CASE tick \/ settime
  <2>1. mono' \in 0 .. Horizon /\ skew' \in 1 .. MaxSkew
      BY <1>0, <1>3, Times DEF tick, settime
  <2>2. UNCHANGED <<attr, meant, cond, known, cond_owner, wait>>
      BY Zenon, <1>3 DEF tick, settime
  <2> QED
      BY Zenon, <1>0, <2>1, <2>2, CondSame
<1>4. CASE pthread_cond_init
  <2>1. /\ NobodyWaits /\ UNCHANGED <<attr, meant, cond_owner, wait, mono, skew>>
        /\ Follows(cond', known') /\ cond' \in Clocks /\ known' \in GuestClocks
      BY Zenon, <1>0, <1>4 DEF pthread_cond_init, host_condattr, Follows, Clocks, GuestClocks
  <2>2. ClockKnown'
      BY Zenon, <1>0, <2>1 DEF ClockKnown, Clocks
  <2> QED
      BY Zenon, <2>1, <2>2, CondRemade
<1>5. CASE pthread_cond_destroy
  <2>1. /\ NobodyWaits /\ UNCHANGED <<attr, meant, known, cond_owner, wait, mono, skew>>
        /\ cond' = "destroyed" \/ cond' = cond
      BY Zenon, <1>5 DEF pthread_cond_destroy
  <2>2. ClockKnown'
      BY Zenon, <1>0, <2>1 DEF ClockKnown, Clocks
  <2> QED
      BY Zenon, <1>0, <2>1, <2>2, CondRemade
<1>6. CASE pthread_cond_signal \/ pthread_cond_broadcast
  <2>1. /\ cond' = cond_to_host(cond) /\ Usable
        /\ UNCHANGED <<attr, meant, known, cond_owner, mono, skew>>
      BY Zenon, <1>6 DEF pthread_cond_signal, pthread_cond_broadcast
  <2>2. CASE UNCHANGED wait
    <3>1. \A t \in Threads : wait'[t].at = "blocked" => wait'[t].ret = "none"
        BY Zenon, <2>2 DEF CondInv, WaitOK
    <3> QED
        BY Zenon, <1>0, <2>1, <2>2, <3>1, CondWaits
  <2>3. CASE \E S \in SUBSET Threads : Woken(S, "0")
      BY Zenon, <2>1, <2>3, CondWakes
  <2> QED
      BY Zenon, <1>6, <2>2, <2>3 DEF pthread_cond_signal, pthread_cond_broadcast, Blocked
<1>7. ASSUME NEW t \in Threads, mutex_taken(t) \/ mutex_given_up(t) PROVE CondInv'
  <2>1. cond_owner' \in Threads \cup {None} /\ UNCHANGED <<attr, meant, cond, known, wait, mono, skew>>
      BY Zenon, <1>7 DEF mutex_taken, mutex_given_up
  <2> QED
      BY Zenon, <1>0, <2>1, CondSame
<1>8. ASSUME NEW t \in Threads, pthread_cond_wait(t) PROVE CondInv'
  <2>1. 0 \in 0 .. Horizon
      BY Times
  <2> QED
      BY Zenon, <1>8, <2>1, CondBlocks DEF pthread_cond_wait
<1>9. ASSUME NEW t \in Threads,
             pthread_cond_timedwait(t) \/ pthread_cond_timedwait_monotonic_np(t)
      PROVE  CondInv'
  <2>1. PICK clock \in GuestClocks, delay \in 0 .. MaxDelay : Block(t, clock, Now(clock) + delay)
      BY Zenon, <1>0, <1>9 DEF pthread_cond_timedwait, pthread_cond_timedwait_monotonic_np, GuestClocks, Clocks, Now
  <2>2. mono <= MaxTime
      BY Zenon, <2>1 DEF Block
  <2>3. Now(clock) + delay \in 0 .. Horizon
      BY <1>0, <2>2, Times DEF Now, Horizon
  <2> QED
      BY Zenon, <2>1, <2>3, CondBlocks
<1>10. ASSUME NEW t \in Threads, timeout(t) PROVE CondInv'
  <2>1. cond \in Clocks
      BY Zenon, <1>10 DEF timeout, WaitAt, CondInv, WaitOK
  <2>2. cond_to_host(cond) = cond /\ Usable
      BY Zenon, <2>1 DEF cond_to_host, Clocks, Usable
  <2>3. {t} \in SUBSET Threads
      OBVIOUS
  <2>4. Woken({t}, "ETIMEDOUT") /\ UNCHANGED <<attr, meant, cond, known, cond_owner, mono, skew>>
      BY Zenon, <1>10 DEF timeout
  <2> QED
      BY Zenon, <2>2, <2>3, <2>4, CondWakes
<1>11. ASSUME NEW t \in Threads, relock(t) PROVE CondInv'
  <2>1. /\ wait' = [wait EXCEPT ![t] = NoWait] /\ cond_owner' = t
        /\ wait[t].at = "relock" /\ UNCHANGED <<attr, meant, cond, known, mono, skew>>
      BY Zenon, <1>11 DEF relock, WaitAt
  <2>2. cond \in Clocks
      BY Zenon, <2>1 DEF CondInv, WaitOK
  <2>3. cond_to_host(cond) = cond /\ Usable
      BY Zenon, <2>2 DEF cond_to_host, Clocks, Usable
  <2>4. wait' \in [Threads -> Waits]
      BY Zenon, <1>0, <2>1, NoWaitIs
  <2>5. ASSUME NEW u \in Threads PROVE wait'[u].at = "blocked" => wait'[u].ret = "none"
    <3>1. WaitOK(u)
        BY Zenon DEF CondInv
    <3> QED
        BY Zenon, <1>0, <2>1, <3>1, NoWaitIs DEF WaitOK
  <2> QED
      BY Zenon, <2>1, <2>3, <2>4, <2>5, CondWaits
<1> QED
    BY Zenon, <1>1, <1>2, <1>3, <1>4, <1>5, <1>6, <1>7, <1>8, <1>9, <1>10, <1>11 DEF CondNext

(* The condition variable's state has its types: deadlines are in range.   *)
THEOREM ConditionTyped == CondSpec => []CondTypeOK
<1>1. CondInv => CondTypeOK
    BY Zenon DEF CondInv
<1> QED
    BY CondStart, CondSteps, <1>1, PTL DEF CondSpec

(* A wait whose deadline is on the clock the guest takes the variable to   *)
(* have, be it by default, reports ETIMEDOUT only when that clock has      *)
(* reached the deadline, for any threads and times, and however the        *)
(* realtime clock is set ahead of the monotonic one                        *)
(* (pthread_cond_timedwait).                                               *)
THEOREM WaitsNotCutShort == CondSpec => NoEarlyTimeout
<1> DEFINE Timely == \A t \in Threads :
              Agreed(t) /\ wait'[t].ret = "ETIMEDOUT" => Now(known) >= wait[t].until
<1>1. CondInv /\ [CondNext]_condition => [Timely]_condition
  <2> SUFFICES ASSUME CondInv, CondNext,
                      NEW t \in Threads, Agreed(t), wait'[t].ret = "ETIMEDOUT"
               PROVE  Now(known) >= wait[t].until
      BY Zenon DEF Timely
  <2>1. wait[t].at = "blocked" /\ wait[t].ret = "none" /\ Follows(cond, known)
      BY Zenon DEF Agreed, WaitAt, CondInv, WaitOK, ClockKnown
  <2>2. wait \in [Threads -> Waits] /\ wait' # wait
      BY Zenon, <2>1, Waiting DEF CondInv
  <2>3. ~pthread_cond_signal /\ ~pthread_cond_broadcast
    <3>1. ASSUME NEW S \in SUBSET Threads, Woken(S, "0") PROVE FALSE
        BY Zenon, <2>1, <3>1, WokenIs
    <3> QED
        BY Zenon, <2>2, <3>1 DEF pthread_cond_signal, pthread_cond_broadcast, Blocked
  <2>4. ASSUME NEW u \in Threads, NEW c, NEW d, Block(u, c, d) PROVE FALSE
    <3>1. u # t
        BY Zenon, <2>1, <2>4 DEF Block, WaitAt
    <3>2. wait'[t] = wait[t]
        BY Zenon, <2>2, <2>4, <3>1 DEF Block
    <3> QED
        BY Zenon, <2>1, <3>2
  <2>5. ASSUME NEW u \in Threads, relock(u) PROVE FALSE
    <3>1. u # t
        BY Zenon, <2>1, <2>5 DEF relock, WaitAt
    <3>2. wait'[t] = wait[t]
        BY Zenon, <2>2, <2>5, <3>1 DEF relock
    <3> QED
        BY Zenon, <2>1, <3>2
  <2>6. \A u \in Threads : /\ ~pthread_cond_wait(u) /\ ~pthread_cond_timedwait(u)
                           /\ ~pthread_cond_timedwait_monotonic_np(u)
      BY Zenon, <2>4 DEF pthread_cond_wait, pthread_cond_timedwait, pthread_cond_timedwait_monotonic_np
  <2>7. /\ ~pthread_condattr_init /\ ~pthread_condattr_setclock /\ ~pthread_condattr_getclock
        /\ ~pthread_cond_init
        /\ ~pthread_cond_destroy /\ ~tick /\ ~settime
        /\ \A u \in Threads : ~mutex_taken(u) /\ ~mutex_given_up(u)
      BY Zenon, <2>2 DEF pthread_condattr_init, pthread_condattr_setclock,
                  pthread_condattr_getclock, pthread_cond_init,
                  pthread_cond_destroy, tick, settime, mutex_taken, mutex_given_up
  <2>8. PICK u \in Threads : timeout(u)
      BY Zenon, <2>3, <2>5, <2>6, <2>7 DEF CondNext
  <2>9. u = t
    <3>1. Woken({u}, "ETIMEDOUT") /\ {u} \in SUBSET Threads
        BY Zenon, <2>8 DEF timeout
    <3>2. t \notin {u} => wait'[t] = wait[t]
        BY Zenon, <3>1, WokenIs
    <3> QED
        BY Zenon, <2>1, <3>2
  <2>10. Now(cond) >= wait[t].until
      BY Zenon, <2>8, <2>9 DEF timeout
  <2>11. mono \in Nat /\ skew \in Nat /\ wait[t].until \in Nat
    <3>1. mono \in 0 .. Horizon /\ skew \in 1 .. MaxSkew /\ wait[t].until \in 0 .. Horizon
        BY Zenon, <2>2, Waiting DEF CondInv, Waits
    <3> QED
        BY <3>1, Times
  <2>12. CASE cond = known
      BY Zenon, <2>10, <2>12
  <2>13. CASE cond = "MONOTONIC" /\ known = "default"
      BY <2>10, <2>11, <2>13 DEF Now
  <2> QED
      BY Zenon, <2>1, <2>12, <2>13 DEF Follows
<1> QED
    BY CondStart, CondSteps, <1>1, PTL DEF CondSpec, NoEarlyTimeout, Timely

(***************************************************************************)
(* The functions of a z_stream: ZlibInv is inductive.                      *)
(***************************************************************************)
LEMMA NoBlocks ==
    ASSUME NEW s \in Streams, blocks'[s] = <<>>
    PROVE  BlocksOK(s)'
  BY DEF BlocksOK

(* A step of one stream leaves what the others need as it was.             *)
LEMMA StreamKept ==
    ASSUME NEW s \in Streams, StreamOK(s),
           stream'[s] = stream[s], stream_pc'[s] = stream_pc[s], blocks'[s] = blocks[s],
           reused'[s] = reused[s],
           \A w \in DOMAIN wrappers : w \in DOMAIN wrappers' /\ wrappers'[w] = wrappers[w]
    PROVE  StreamOK(s)'
<1>1. stream[s].zalloc = "caller" =>
        /\ stream[s].opaque \in DOMAIN wrappers'
        /\ wrappers'[stream[s].opaque] = wrappers[stream[s].opaque]
    BY Zenon DEF StreamOK, FieldsOK
<1>2. Allocator(s)' = Allocator(s)
    BY Zenon, <1>1 DEF Allocator, zalloc_caller
<1>3. FieldsOK(s)'
    BY Zenon, <1>1 DEF StreamOK, FieldsOK
<1>4. BlocksOK(s)'
    BY Zenon, <1>2 DEF StreamOK, BlocksOK
<1> QED
    BY Zenon, <1>3, <1>4 DEF StreamOK

LEMMA OthersKept ==
    ASSUME ZlibInv, NEW s \in Streams, NEW f, NEW p, NEW b, NEW r,
           reused' = [reused EXCEPT ![s] = r],
           stream' = [stream EXCEPT ![s] = f],
           stream_pc' = [stream_pc EXCEPT ![s] = p],
           blocks' = [blocks EXCEPT ![s] = b],
           \A w \in DOMAIN wrappers : w \in DOMAIN wrappers' /\ wrappers'[w] = wrappers[w]
    PROVE  \A u \in Streams \ {s} : StreamOK(u)'
<1> SUFFICES ASSUME NEW u \in Streams, u # s PROVE StreamOK(u)'
    OBVIOUS
<1>1. StreamOK(u)
    BY Zenon DEF ZlibInv
<1>2. /\ stream'[u] = stream[u] /\ stream_pc'[u] = stream_pc[u] /\ blocks'[u] = blocks[u]
      /\ reused'[u] = reused[u]
    BY Zenon DEF ZlibInv, ZlibTyped
<1> QED
    BY Zenon, <1>1, <1>2, StreamKept

(* What is left to show of a step of stream s.                             *)
LEMMA ZlibOne ==
    ASSUME ZlibInv, NEW s \in Streams,
           NEW f \in [zalloc : StreamFunctions, zfree : StreamFunctions, opaque : StreamOpaques],
           NEW p \in {"unset", "set", "init", "live", "ending"},
           NEW b \in Seq(StreamFunctions \X StreamOpaques),
           stream' = [stream EXCEPT ![s] = f],
           stream_pc' = [stream_pc EXCEPT ![s] = p],
           blocks' = [blocks EXCEPT ![s] = b],
           NEW r \in BOOLEAN, reused' = [reused EXCEPT ![s] = r],
           wrappers' = wrappers, FreedByItsOwn', StreamOK(s)'
    PROVE  ZlibInv'
<1>1. ZlibTyped'
    BY Zenon DEF ZlibInv, ZlibTyped
<1>2. \A u \in Streams \ {s} : StreamOK(u)'
    BY Zenon, OthersKept
<1> QED
    BY Zenon, <1>1, <1>2 DEF ZlibInv

LEMMA ZlibSame ==
    ASSUME ZlibInv, NEW s \in Streams
    PROVE  /\ stream = [stream EXCEPT ![s] = stream[s]]
           /\ blocks = [blocks EXCEPT ![s] = blocks[s]]
           /\ stream[s] \in [zalloc : StreamFunctions, zfree : StreamFunctions, opaque : StreamOpaques]
           /\ blocks[s] \in Seq(StreamFunctions \X StreamOpaques)
           /\ stream_pc = [stream_pc EXCEPT ![s] = stream_pc[s]]
           /\ reused = [reused EXCEPT ![s] = reused[s]] /\ reused[s] \in BOOLEAN
           /\ StreamOK(s) /\ FreedByItsOwn
  BY Zenon DEF ZlibInv, ZlibTyped

LEMMA ZlibStart == ZlibInit => ZlibInv
<1> SUFFICES ASSUME ZlibInit PROVE ZlibInv
    OBVIOUS
<1>1. ZlibTyped
    BY DEF ZlibInit, ZlibTyped, Unset, StreamFunctions, StreamOpaques
<1>2. \A s \in Streams : StreamOK(s)
  <2> TAKE s \in Streams
  <2>1. stream[s].zalloc = Z_NULL /\ stream[s].zfree = Z_NULL /\ stream_pc[s] = "unset" /\ blocks[s] = <<>>
      BY DEF ZlibInit, Unset
  <2>2. FieldsOK(s)
      BY Zenon, <2>1, AllocatorsAssumption DEF FieldsOK, HostFunctions
  <2> QED
      BY <2>1, <2>2 DEF StreamOK, BlocksOK
<1>3. FreedByItsOwn
    BY Zenon DEF ZlibInit, FreedByItsOwn, Nothing
<1>4. wrappers = <<>>
    BY Zenon DEF ZlibInit
<1> QED
    BY <1>1, <1>2, <1>3, <1>4 DEF ZlibInv

(* The steps that only move a stream on.                                   *)
LEMMA ZlibMoves ==
    ASSUME ZlibInv, NEW s \in Streams, init_refused(s) \/ end_stream(s) \/ ended(s)
    PROVE  ZlibInv'
<1>1. PICK p \in {"unset", "ending"} :
        /\ stream_pc' = [stream_pc EXCEPT ![s] = p]
        /\ UNCHANGED <<stream, wrappers, blocks, reused, freed>>
        /\ \/ stream_pc[s] = "init" /\ p = "unset"
           \/ stream_pc[s] = "live" /\ p = "ending"
           \/ stream_pc[s] = "ending" /\ p = "unset" /\ blocks[s] = <<>>
    BY Zenon DEF init_refused, end_stream, ended
<1>2. stream_pc'[s] = p
    BY Zenon, <1>1 DEF ZlibInv, ZlibTyped
<1>3. StreamOK(s)'
  <2>1. Allocator(s)' = Allocator(s) /\ blocks'[s] = blocks[s]
      BY Zenon, <1>1 DEF Allocator, zalloc_caller
  <2>2. FieldsOK(s)'
      BY Zenon, <1>1, <1>2, <2>1, ZlibSame DEF StreamOK, FieldsOK
  <2>3. BlocksOK(s)'
      BY Zenon, <1>1, <1>2, <2>1, ZlibSame DEF StreamOK, BlocksOK
  <2> QED
      BY Zenon, <2>2, <2>3 DEF StreamOK
<1>4. FreedByItsOwn'
    BY Zenon, <1>1, ZlibSame DEF FreedByItsOwn
<1>5. /\ stream' = [stream EXCEPT ![s] = stream[s]] /\ blocks' = [blocks EXCEPT ![s] = blocks[s]]
      /\ p \in {"unset", "set", "init", "live", "ending"} /\ wrappers' = wrappers
      /\ reused' = [reused EXCEPT ![s] = reused[s]]
    BY Zenon, <1>1, ZlibSame
<1> QED
    BY Zenon, <1>1, <1>3, <1>4, <1>5, ZlibSame, ZlibOne

LEMMA ZlibSets ==
    ASSUME ZlibInv, NEW s \in Streams, set_fields(s)
    PROVE  ZlibInv'
<1>1. PICK f \in Pairs \cup {Z_NULL}, o \in Opaques \cup {Z_NULL} :
        stream' = [stream EXCEPT ![s] = [zalloc |-> f, zfree |-> f, opaque |-> o]]
    BY Zenon DEF set_fields
<1>2. /\ stream_pc[s] = "unset" /\ stream_pc' = [stream_pc EXCEPT ![s] = "set"]
      /\ UNCHANGED <<wrappers, blocks, reused, freed>>
    BY Zenon DEF set_fields
<1>3. stream_pc'[s] = "set" /\ stream'[s] = [zalloc |-> f, zfree |-> f, opaque |-> o]
    BY Zenon, <1>1, <1>2 DEF ZlibInv, ZlibTyped
<1>4. blocks'[s] = <<>>
    BY Zenon, <1>2, ZlibSame DEF StreamOK, BlocksOK
<1>5. StreamOK(s)'
  <2>1. stream'[s].zalloc = f /\ stream'[s].zfree = f /\ stream'[s].opaque = o
      BY <1>3
  <2>2. f # "caller"
      BY Zenon, AllocatorsAssumption DEF HostFunctions
  <2>3. FieldsOK(s)'
      BY Zenon, <1>3, <2>1, <2>2 DEF FieldsOK
  <2> QED
      BY Zenon, <1>4, <2>3, NoBlocks DEF StreamOK
<1>6. FreedByItsOwn'
    BY Zenon, <1>2, ZlibSame DEF FreedByItsOwn
<1>7. [zalloc |-> f, zfree |-> f, opaque |-> o]
        \in [zalloc : StreamFunctions, zfree : StreamFunctions, opaque : StreamOpaques]
    BY Zenon DEF StreamFunctions, StreamOpaques
<1> QED
    BY Zenon, <1>1, <1>2, <1>5, <1>6, <1>7, ZlibSame, ZlibOne

LEMMA ZlibDefaults ==
    ASSUME ZlibInv, NEW s \in Streams, zlib_defaults(s)
    PROVE  ZlibInv'
<1>1. /\ stream_pc[s] = "init" /\ stream_pc' = [stream_pc EXCEPT ![s] = "live"]
      /\ UNCHANGED <<wrappers, blocks, reused, freed>> /\ blocks[s] = <<>>
    BY Zenon, ZlibSame DEF zlib_defaults, StreamOK, BlocksOK
<1>2. stream_pc'[s] = "live" /\ FreedByItsOwn'
  <2>1. stream_pc'[s] = "live"
      BY Zenon, <1>1 DEF ZlibInv, ZlibTyped
  <2> QED
      BY Zenon, <1>1, <2>1 DEF ZlibInv, FreedByItsOwn
<1> BlocksOK(s)'
    BY Zenon, <1>1, NoBlocks
<1>3. CASE stream[s].zalloc = Z_NULL
  <2> DEFINE z == [zalloc |-> "zlib", zfree |-> "zlib", opaque |-> Z_NULL]
  <2>1. stream' = [stream EXCEPT ![s] = z] /\ stream'[s] = z
      BY Zenon, <1>3 DEF zlib_defaults, ZlibInv, ZlibTyped
  <2>2. StreamOK(s)'
    <3>1. stream'[s].zalloc = "zlib" /\ stream'[s].zfree = "zlib"
        BY <2>1
    <3> QED
        BY Zenon, <1>2, <3>1 DEF StreamOK, FieldsOK, HostFunctions
  <2>3. z \in [zalloc : StreamFunctions, zfree : StreamFunctions, opaque : StreamOpaques]
      BY Zenon DEF StreamFunctions, HostFunctions, StreamOpaques
  <2> QED
      BY Zenon, <1>1, <1>2, <2>1, <2>2, <2>3, ZlibSame, ZlibOne
<1>4. CASE stream[s].zalloc # Z_NULL
  <2>1. stream' = stream
      BY Zenon, <1>4 DEF zlib_defaults
  <2>2. stream[s].zalloc = "caller"
      BY Zenon, <1>1, <1>4, ZlibSame DEF StreamOK, FieldsOK
  <2>3. StreamOK(s)'
      BY Zenon, <1>1, <1>2, <2>1, <2>2, ZlibSame DEF StreamOK, FieldsOK, HostFunctions
  <2> QED
      BY Zenon, <1>1, <1>2, <2>1, <2>3, ZlibSame, ZlibOne
<1> QED
    BY Zenon, <1>3, <1>4

LEMMA ZlibInits ==
    ASSUME ZlibInv, NEW s \in Streams, init_stream(s)
    PROVE  ZlibInv'
<1> DEFINE again == stream_pc[s] = "unset"
<1>1. /\ stream_pc[s] \in {"unset", "set"} /\ stream_pc' = [stream_pc EXCEPT ![s] = "init"]
      /\ reused' = [reused EXCEPT ![s] = again]
      /\ UNCHANGED <<blocks, freed>> /\ patch_z_stream(s)
      /\ blocks[s] = <<>> /\ stream[s].zalloc = stream[s].zfree
      /\ ~again => stream[s].zalloc \in Pairs \cup {Z_NULL}
    BY Zenon, ZlibSame DEF init_stream, StreamOK, FieldsOK, BlocksOK
<1>2. stream_pc'[s] = "init" /\ FreedByItsOwn' /\ reused'[s] = again
    BY Zenon, <1>1, ZlibSame DEF ZlibInv, ZlibTyped, FreedByItsOwn
<1>a. again \in BOOLEAN
    BY Zenon
<1> HIDE DEF again
<1> BlocksOK(s)'
    BY Zenon, <1>1, NoBlocks
<1>3. CASE stream[s].zalloc = Z_NULL \/ stream[s].zfree = Z_NULL
  <2>1. UNCHANGED <<stream, wrappers>>
      BY Zenon, <1>1, <1>3 DEF patch_z_stream
  <2>2. stream[s].zalloc = Z_NULL /\ stream[s].zfree = Z_NULL /\ Z_NULL # "caller"
      BY Zenon, <1>1, <1>3, AllocatorsAssumption DEF HostFunctions
  <2>3. StreamOK(s)'
      BY Zenon, <1>2, <2>1, <2>2 DEF StreamOK, FieldsOK
  <2>4. /\ stream' = [stream EXCEPT ![s] = stream[s]] /\ blocks' = [blocks EXCEPT ![s] = blocks[s]]
        /\ stream[s] \in [zalloc : StreamFunctions, zfree : StreamFunctions, opaque : StreamOpaques]
        /\ blocks[s] \in Seq(StreamFunctions \X StreamOpaques)
      BY Zenon, <1>1, <2>1, ZlibSame
  <2>5. "init" \in {"unset", "set", "init", "live", "ending"} /\ wrappers' = wrappers
      BY Zenon, <2>1
  <2> QED
      BY Zenon, <1>1, <1>2, <1>a, <2>3, <2>4, <2>5, ZlibOne
<1>4. CASE ~(stream[s].zalloc = Z_NULL \/ stream[s].zfree = Z_NULL)
  <2> DEFINE w == [guest_zalloc |-> stream[s].zalloc, guest_zfree |-> stream[s].zfree,
                   guest_opaque |-> stream[s].opaque]
             W == [guest_zalloc : StreamFunctions, guest_zfree : StreamFunctions, guest_opaque : StreamOpaques]
             z == [zalloc |-> "caller", zfree |-> "caller", opaque |-> Len(wrappers) + 1]
  <2>1. wrappers' = Append(wrappers, w) /\ stream' = [stream EXCEPT ![s] = z] /\ stream'[s] = z
      BY Zenon, <1>1, <1>4 DEF patch_z_stream, ZlibInv, ZlibTyped
  <2>2. /\ w \in W /\ w.guest_zalloc = w.guest_zfree
        /\ ~again => w.guest_zalloc \in Pairs
      BY Zenon, <1>1, <1>4, ZlibSame
  <2>3. wrappers \in Seq(W) /\ \A n \in DOMAIN wrappers : wrappers[n].guest_zalloc = wrappers[n].guest_zfree
      BY Zenon DEF ZlibInv, ZlibTyped
  <2> HIDE DEF w, W
  <2>4. /\ wrappers' \in Seq(W) /\ DOMAIN wrappers' = DOMAIN wrappers \cup {Len(wrappers) + 1}
        /\ \A n \in DOMAIN wrappers : wrappers'[n] = wrappers[n]
        /\ wrappers'[Len(wrappers) + 1] = w
    <3> HIDE DEF z
    <3>1. wrappers \in Seq(W) /\ w \in W /\ wrappers' = Append(wrappers, w)
        BY Zenon, <2>1, <2>2, <2>3
    <3>2. wrappers' \in Seq(W) /\ Appends(wrappers', wrappers, w)
        BY Zenon, <3>1, Appending
    <3> QED
        BY Zenon, <3>2 DEF Appends
  <2>5. \A n \in DOMAIN wrappers' : wrappers'[n].guest_zalloc = wrappers'[n].guest_zfree
      BY Zenon, <2>2, <2>3, <2>4
  <2>6. \A u \in Streams \ {s} : StreamOK(u)'
    <3>1. blocks' = [blocks EXCEPT ![s] = blocks[s]]
        BY Zenon, <1>1, ZlibSame
    <3>2. \A n \in DOMAIN wrappers : n \in DOMAIN wrappers' /\ wrappers'[n] = wrappers[n]
        BY Zenon, <2>4
    <3> QED
        BY Zenon, <1>1, <2>1, <3>1, <3>2, OthersKept
  <2>7. StreamOK(s)'
    <3>1. stream'[s] = z
        BY Zenon, <2>1
    <3>2. stream'[s].zalloc = "caller" /\ stream'[s].zfree = "caller" /\ stream'[s].opaque = Len(wrappers) + 1
        BY <3>1
    <3>3. Len(wrappers) + 1 \in DOMAIN wrappers'
        BY Zenon, <2>4
    <3>4. ~again => wrappers'[Len(wrappers) + 1].guest_zalloc \in Pairs
        BY Zenon, <2>2, <2>4
    <3> QED
        BY Zenon, <1>2, <3>2, <3>3, <3>4 DEF StreamOK, FieldsOK
  <2>8. z \in [zalloc : StreamFunctions, zfree : StreamFunctions, opaque : StreamOpaques]
    <3>1. Len(wrappers) + 1 \in Nat
        BY <2>3
    <3> QED
        BY Zenon, <3>1 DEF StreamFunctions, HostFunctions, StreamOpaques
  <2>9. ZlibTyped'
      BY Zenon, <1>1, <1>a, <2>1, <2>4, <2>8 DEF ZlibInv, ZlibTyped, W
  <2> QED
      BY Zenon, <1>2, <2>5, <2>6, <2>7, <2>9 DEF ZlibInv
<1> QED
    BY Zenon, <1>3, <1>4

(* What an allocation yields is what the stream's allocator is.            *)
LEMMA AllocatorTyped ==
    ASSUME ZlibInv, NEW s \in Streams, stream_pc[s] \in {"live", "ending"}
    PROVE  /\ Allocator(s) \in StreamFunctions \X StreamOpaques
           /\ Allocator(s) = IF stream[s].zfree = "caller" THEN zfree_caller(stream[s].opaque)
                                                           ELSE <<stream[s].zfree, stream[s].opaque>>
<1>1. CASE stream[s].zalloc = "caller"
  <2>1. PICK n \in DOMAIN wrappers : n = stream[s].opaque
      BY Zenon, <1>1, ZlibSame DEF StreamOK, FieldsOK
  <2>2. /\ wrappers[n] \in [guest_zalloc : StreamFunctions, guest_zfree : StreamFunctions, guest_opaque : StreamOpaques]
        /\ wrappers[n].guest_zalloc = wrappers[n].guest_zfree
    <3>1. wrappers \in Seq([guest_zalloc : StreamFunctions, guest_zfree : StreamFunctions, guest_opaque : StreamOpaques])
        BY Zenon DEF ZlibInv, ZlibTyped
    <3> QED
        BY Zenon, <2>1, <3>1, Element DEF ZlibInv
  <2>3. Allocator(s) = <<wrappers[n].guest_zalloc, wrappers[n].guest_opaque>>
      BY Zenon, <1>1, <2>1 DEF Allocator, zalloc_caller
  <2>4. wrappers[n].guest_zalloc \in StreamFunctions
      BY Zenon, <2>2
  <2>5. stream[s].zfree = "caller" /\ zfree_caller(stream[s].opaque) = <<wrappers[n].guest_zfree, wrappers[n].guest_opaque>>
      BY Zenon, <1>1, <2>1, ZlibSame DEF zfree_caller, StreamOK, FieldsOK
  <2>6. Allocator(s) \in StreamFunctions \X StreamOpaques
      BY <2>2, <2>3, <2>4
  <2>7. Allocator(s) = zfree_caller(stream[s].opaque)
      BY Zenon, <2>2, <2>3, <2>5
  <2> QED
      BY Zenon, <2>5, <2>6, <2>7
<1>2. CASE stream[s].zalloc = "zlib"
    BY Zenon, <1>2, ZlibSame DEF Allocator, StreamOK, FieldsOK
<1> QED
    BY Zenon, <1>1, <1>2, ZlibSame DEF StreamOK, FieldsOK, HostFunctions

LEMMA ZlibAllocates ==
    ASSUME ZlibInv, NEW s \in Streams, allocate(s)
    PROVE  ZlibInv'
<1> DEFINE B == StreamFunctions \X StreamOpaques
           b == Append(blocks[s], Allocator(s))
<1>1. /\ stream_pc[s] = "live" /\ UNCHANGED <<stream, wrappers, stream_pc, reused, freed>>
      /\ blocks' = [blocks EXCEPT ![s] = b]
    BY Zenon DEF allocate, Allocator
<1>2. Allocator(s) \in B
    BY Zenon, <1>1, AllocatorTyped
<1>3. blocks[s] \in Seq(B)
    BY Zenon, ZlibSame
<1>  b = Append(blocks[s], Allocator(s))
    OBVIOUS
<1> HIDE DEF B, b
<1>4. /\ b \in Seq(B) /\ DOMAIN b = DOMAIN blocks[s] \cup {Len(blocks[s]) + 1}
      /\ \A n \in DOMAIN blocks[s] : b[n] = blocks[s][n]
      /\ b[Len(blocks[s]) + 1] = Allocator(s)
  <2>1. b \in Seq(B) /\ Appends(b, blocks[s], Allocator(s))
      BY Zenon, <1>2, <1>3, Appending
  <2> QED
      BY Zenon, <2>1 DEF Appends
<1>5. \A n \in DOMAIN b : b[n] = Allocator(s)
  <2>1. \A n \in DOMAIN blocks[s] : blocks[s][n] = Allocator(s)
      BY Zenon, ZlibSame DEF StreamOK, BlocksOK
  <2> QED
      BY Zenon, <1>4, <2>1
<1>6. blocks'[s] = b
    BY Zenon, <1>1 DEF ZlibInv, ZlibTyped
<1>7. Allocator(s)' = Allocator(s)
    BY Zenon, <1>1 DEF Allocator, zalloc_caller
<1>8. StreamOK(s)'
  <2>1. FieldsOK(s)'
      BY Zenon, <1>1, <1>7, ZlibSame DEF StreamOK, FieldsOK
  <2> QED
      BY Zenon, <1>1, <1>5, <1>6, <1>7, <2>1 DEF StreamOK, BlocksOK
<1>9. FreedByItsOwn'
    BY Zenon, <1>1, ZlibSame DEF FreedByItsOwn
<1>10. /\ stream' = [stream EXCEPT ![s] = stream[s]] /\ stream_pc' = [stream_pc EXCEPT ![s] = stream_pc[s]]
       /\ reused' = [reused EXCEPT ![s] = reused[s]] /\ reused[s] \in BOOLEAN
       /\ stream[s] \in [zalloc : StreamFunctions, zfree : StreamFunctions, opaque : StreamOpaques]
       /\ stream_pc[s] \in {"unset", "set", "init", "live", "ending"} /\ wrappers' = wrappers
    BY Zenon, <1>1, ZlibSame
<1>11. b \in Seq(StreamFunctions \X StreamOpaques)
    BY Zenon, <1>4 DEF B
<1> QED
    BY Zenon, <1>1, <1>8, <1>9, <1>10, <1>11, ZlibOne

LEMMA ZlibFrees ==
    ASSUME ZlibInv, NEW s \in Streams, free_block(s)
    PROVE  ZlibInv'
<1> DEFINE B == StreamFunctions \X StreamOpaques
           b == Tail(blocks[s])
<1>1. /\ stream_pc[s] = "ending" /\ blocks[s] # <<>> /\ UNCHANGED <<stream, wrappers, stream_pc, reused>>
      /\ blocks' = [blocks EXCEPT ![s] = b]
    BY Zenon DEF free_block
<1>2. blocks[s] \in Seq(B)
    BY Zenon, ZlibSame
<1> HIDE DEF B
<1>3. /\ b \in Seq(B) /\ 1 \in DOMAIN blocks[s] /\ Head(blocks[s]) = blocks[s][1]
      /\ \A n \in DOMAIN b : n + 1 \in DOMAIN blocks[s] /\ b[n] = blocks[s][n + 1]
    BY Zenon, <1>1, <1>2, Removing
<1>4. /\ \A n \in DOMAIN b : b[n] = Allocator(s)
      /\ Head(blocks[s]) = Allocator(s)
    BY Zenon, <1>3, ZlibSame DEF StreamOK, BlocksOK
<1> HIDE DEF b
<1>5. blocks'[s] = b
    BY Zenon, <1>1 DEF ZlibInv, ZlibTyped
<1>6. Allocator(s)' = Allocator(s)
    BY Zenon, <1>1 DEF Allocator, zalloc_caller
<1>7. StreamOK(s)'
  <2>1. FieldsOK(s)'
      BY Zenon, <1>1, <1>6, ZlibSame DEF StreamOK, FieldsOK
  <2> QED
      BY Zenon, <1>1, <1>4, <1>5, <1>6, <2>1 DEF StreamOK, BlocksOK
<1>8. FreedByItsOwn'
    BY Zenon, <1>1, <1>4, AllocatorTyped DEF FreedByItsOwn, free_block
<1> QED
    BY Zenon, <1>1, <1>3, <1>7, <1>8, ZlibSame, ZlibOne DEF B

LEMMA ZlibStep == ZlibInv /\ [ZlibNext]_streams => ZlibInv'
<1> SUFFICES ASSUME ZlibInv, [ZlibNext]_streams PROVE ZlibInv'
    OBVIOUS
<1>1. CASE UNCHANGED streams
  <2>1. UNCHANGED <<stream, wrappers, blocks, stream_pc, reused, freed>>
      BY Zenon, <1>1 DEF streams
  <2>2. \A s \in Streams : StreamOK(s)'
      BY Zenon, <2>1 DEF ZlibInv, StreamOK, FieldsOK, BlocksOK, Allocator, zalloc_caller
  <2> QED
      BY Zenon, <2>1, <2>2 DEF ZlibInv, ZlibTyped, FreedByItsOwn
<1>2. CASE ZlibNext
    BY Zenon, <1>2, ZlibSets, ZlibInits, ZlibMoves, ZlibDefaults, ZlibAllocates, ZlibFrees DEF ZlibNext
<1> QED
    BY Zenon, <1>1, <1>2

(* zlib never calls the guest's functions as the host's, a fiber runs a    *)
(* host's as the guest's only for a stream the guest has initialised again *)
(* as it was left, and every block goes back to the allocator and the      *)
(* opaque it came from, for any streams and allocators (patch_z_stream,    *)
(* zalloc_caller, zfree_caller).                                           *)
THEOREM AllocatorsSafe == ZlibSpec => []AllocatorsExact
<1>1. ZlibInv => AllocatorsExact
    BY Zenon DEF ZlibInv, AllocatorsExact, HostCallsHost, GuestCallsGuest, StreamOK, FieldsOK
<1> QED
    BY <1>1, ZlibStart, ZlibStep, PTL DEF ZlibSpec
=============================================================================
