------------------------------ MODULE OnceProofs ------------------------------
(***************************************************************************)
(* What is to happen once, and to be seen whole, for any threads, controls,*)
(* locks, fields and events: routines of pthread_once, however their calls *)
(* nest, and input and game starts of the event loop.  Each is a           *)
(* specification of its own.                                               *)
(***************************************************************************)
EXTENDS PthreadOnce, MainLoop, TLAPS

(* The event queue of MainLoop as a sequence.                              *)

Events == {"shown", "resized", "motion", "quit", "startup", "start_game"}

(* What the queue has of an event. *)
Has(q, e) == {i \in 1 .. Len(q) : q[i] = e}
Count(q, e) == Cardinality(Has(q, e))

IsAppend(q, r, e) ==
    /\ Len(r) = Len(q) + 1 /\ r[Len(r)] = e
    /\ \A i \in 1 .. Len(q) : r[i] = q[i]

IsTail(q, r, e) ==
    /\ Len(q) = Len(r) + 1 /\ q[1] = e
    /\ \A i \in 1 .. Len(r) : r[i] = q[i + 1]

LEMMA HasPushed ==
    ASSUME NEW q \in Seq(Events), NEW r \in Seq(Events), NEW e, NEW f, IsAppend(q, r, e)
    PROVE  /\ e # f => Has(r, f) = Has(q, f)
           /\ e = f => Has(r, f) = Has(q, f) \cup {Len(q) + 1}
           /\ Len(q) + 1 \notin Has(q, f)
<1>1. Len(q) + 1 \notin Has(q, f)
    BY DEF Has
<1>2. CASE e # f
    BY <1>1, <1>2 DEF IsAppend, Has
<1>3. CASE e = f
    BY <1>1, <1>3 DEF IsAppend, Has
<1> QED
    BY Zenon, <1>1, <1>2, <1>3

Shift(S) == [i \in S |-> i + 1]
OneToOne(g, S, T) ==
    /\ g \in [S -> T]
    /\ \A i, j \in S : g[i] = g[j] => i = j
    /\ \A k \in T : \E i \in S : g[i] = k

(* Polling moves every event but the first one place down. *)
LEMMA HasPolled ==
    ASSUME NEW q \in Seq(Events), NEW r \in Seq(Events), NEW e, NEW f, IsTail(q, r, e)
    PROVE  OneToOne(Shift(Has(r, f)), Has(r, f), Has(q, f) \ {1}) /\ (1 \in Has(q, f) <=> e = f)
<1>1. \A i \in Has(r, f) : i \in Nat /\ i + 1 \in Has(q, f) \ {1}
    BY DEF Has, IsTail
<1>2. \A k \in Has(q, f) \ {1} : k - 1 \in Has(r, f) /\ k = (k - 1) + 1
    BY DEF Has, IsTail
<1>3. 1 \in Has(q, f) <=> e = f
    BY DEF Has, IsTail
<1>4. \A i, j \in Has(r, f) : Shift(Has(r, f))[i] = Shift(Has(r, f))[j] => i = j
    BY <1>1 DEF Shift
<1>5. \A k \in Has(q, f) \ {1} : \E i \in Has(r, f) : Shift(Has(r, f))[i] = k
    BY Zenon, <1>2 DEF Shift
<1> QED
    BY Zenon, <1>1, <1>3, <1>4, <1>5 DEF Shift, OneToOne

------------------------------------------------------------------------------
(***************************************************************************)
(* pthread_once.  Nested calls hold the one mutex as often as they nest; a *)
(* control that is set has its routine behind it, or under way.            *)
(***************************************************************************)
(* Sequences. *)
LEMMA Empty == \A S : <<>> \in Seq(S) /\ Len(<<>>) = 0
OBVIOUS

LEMMA Sequence ==
    ASSUME NEW S, NEW s \in Seq(S)
    PROVE  /\ Len(s) \in Nat /\ (s # <<>> <=> Len(s) > 0)
           /\ \A i \in 1 .. Len(s) : s[i] \in S
OBVIOUS

LEMMA Appended ==
    ASSUME NEW S, NEW s \in Seq(S), NEW e \in S
    PROVE  /\ Append(s, e) \in Seq(S) /\ Len(Append(s, e)) = Len(s) + 1
           /\ \A i \in 1 .. Len(s) : Append(s, e)[i] = s[i]
           /\ Append(s, e)[Len(s) + 1] = e
OBVIOUS

LEMMA Replaced ==
    ASSUME NEW S, NEW s \in Seq(S), NEW i \in 1 .. Len(s), NEW e \in S
    PROVE  /\ [s EXCEPT ![i] = e] \in Seq(S) /\ Len([s EXCEPT ![i] = e]) = Len(s)
           /\ \A j \in 1 .. Len(s) : [s EXCEPT ![i] = e][j] = IF j = i THEN e ELSE s[j]
OBVIOUS

LEMMA Cut ==
    ASSUME NEW S, NEW s \in Seq(S), NEW n \in 0 .. Len(s)
    PROVE  /\ SubSeq(s, 1, n) \in Seq(S) /\ Len(SubSeq(s, 1, n)) = n
           /\ \A i \in 1 .. n : SubSeq(s, 1, n)[i] = s[i]
OBVIOUS

Frames == [c : Controls, at : {"lock", "test", "routine", "unlock"}]

(* How often a thread holds the mutex: for every call but one that still   *)
(* waits for it.                                                           *)
Depth(t) == IF At(t, "lock") THEN Len(stack[t]) - 1 ELSE Len(stack[t])

OnceTyped ==
    /\ control \in [Controls -> 0 .. 1] /\ ran \in [Controls -> 0 .. 1]
    /\ stack \in [Threads -> Seq(Frames)]
    /\ done \in [Controls -> BOOLEAN] /\ returned \in [Threads -> SUBSET Controls]
    /\ owner \in Threads \cup {None} /\ count \in Nat

(* Only the innermost call is elsewhere than in its routine; the mutex is  *)
(* held once for every call inside it, by one thread.                      *)
NestedAt(t) ==
    /\ \A i \in 1 .. Len(stack[t]) - 1 : stack[t][i].at = "routine"
    /\ owner = t => count = Depth(t) /\ count > 0
    /\ owner # t => Depth(t) = 0
Nested == (owner = None => count = 0) /\ \A t \in Threads : NestedAt(t)

(* A control is set once its routine is begun; then the routine has ended, *)
(* or a thread is in it.                                                   *)
BegunAt(t) == \A i \in 1 .. Len(stack[t]) :
    stack[t][i].at \in {"routine", "unlock"} => control[stack[t][i].c] = 1
UnderWay(c) == \E t \in Threads : \E i \in 1 .. Len(stack[t]) :
    stack[t][i] = [c |-> c, at |-> "routine"]
Begun ==
    /\ \A c \in Controls : ran[c] = control[c]
    /\ \A t \in Threads : BegunAt(t)
    /\ \A c \in Controls : control[c] = 1 => done[c] \/ UnderWay(c)

OnceInv == OnceTyped /\ Nested /\ Begun /\ ReturnsComplete

LEMMA OnceStart == OnceInit => OnceInv
<1> SUFFICES ASSUME OnceInit PROVE OnceInv
    OBVIOUS
<1>1. \A t \in Threads : stack[t] = <<>> /\ stack[t] \in Seq(Frames) /\ Len(stack[t]) = 0
    BY Zenon, Empty DEF OnceInit
<1>2. \A t \in Threads : Depth(t) = 0
    BY Zenon, <1>1 DEF At, Depth
<1>3. OnceTyped
    BY <1>1 DEF OnceInit, OnceTyped
<1>4. Nested
  <2> SUFFICES ASSUME NEW t \in Threads
               PROVE  NestedAt(t)
      BY Zenon DEF Nested, OnceInit
  <2>1. 1 .. Len(stack[t]) - 1 = {}
      BY <1>1
  <2>2. owner # t
      BY Zenon, OnceAssumption DEF OnceInit
  <2> QED
      BY Zenon, <1>2, <2>1, <2>2 DEF NestedAt
<1>5. Begun /\ ReturnsComplete
    BY <1>1 DEF OnceInit, Begun, BegunAt, ReturnsComplete
<1> QED
    BY Zenon, <1>3, <1>4, <1>5 DEF OnceInv

(* A thread's stack, by its length and innermost call. *)
LEMMA Stacks ==
    ASSUME OnceTyped, NEW t \in Threads
    PROVE  /\ Len(stack[t]) \in Nat
           /\ stack[t] \in Seq(Frames)
           /\ \A i \in 1 .. Len(stack[t]) : stack[t][i] \in Frames
           /\ stack[t] # <<>> <=> Len(stack[t]) > 0
           /\ stack[t] # <<>> => Len(stack[t]) \in 1 .. Len(stack[t]) /\ Innermost(t) \in Frames
<1>1. stack[t] \in Seq(Frames)
    BY Zenon DEF OnceTyped
<1>2. Len(stack[t]) \in Nat /\ \A i \in 1 .. Len(stack[t]) : stack[t][i] \in Frames
    BY Zenon, <1>1, Sequence
<1>3. stack[t] # <<>> <=> Len(stack[t]) > 0
    BY Zenon, <1>1, Sequence
<1> QED
    BY <1>1, <1>2, <1>3 DEF Innermost

(* Moving the innermost call to another place. *)
LEMMA GotoStack ==
    ASSUME OnceTyped, NEW t \in Threads, stack[t] # <<>>,
           NEW place \in {"lock", "test", "routine", "unlock"}, Goto(t, place)
    PROVE  /\ stack' \in [Threads -> Seq(Frames)]
           /\ \A u \in Threads : u # t => stack'[u] = stack[u]
           /\ Len(stack'[t]) = Len(stack[t])
           /\ \A i \in 1 .. Len(stack[t]) - 1 : stack'[t][i] = stack[t][i]
           /\ stack'[t][Len(stack[t])] = [c |-> Innermost(t).c, at |-> place]
<1> DEFINE e == [c |-> Innermost(t).c, at |-> place]
<1>1. e \in Frames
    BY Zenon, Stacks DEF Frames
<1>2. stack'[t] = [stack[t] EXCEPT ![Len(stack[t])] = e] /\ stack' = [stack EXCEPT ![t] = stack'[t]]
    BY Zenon DEF Goto, OnceTyped
<1>3. /\ stack'[t] \in Seq(Frames) /\ Len(stack'[t]) = Len(stack[t])
      /\ \A j \in 1 .. Len(stack[t]) : stack'[t][j] = IF j = Len(stack[t]) THEN e ELSE stack[t][j]
    BY <1>1, <1>2, Stacks, Replaced
<1>4. stack' \in [Threads -> Seq(Frames)] /\ \A u \in Threads : u # t => stack'[u] = stack[u]
    BY Zenon, <1>2, <1>3 DEF OnceTyped
<1>5. \A i \in 1 .. Len(stack[t]) - 1 : i \in 1 .. Len(stack[t]) /\ i # Len(stack[t])
    BY Stacks
<1>6. Len(stack[t]) \in 1 .. Len(stack[t])
    BY Zenon, Stacks
<1> QED
    BY Zenon, <1>3, <1>4, <1>5, <1>6

(* A call is added. *)
LEMMA PushStack ==
    ASSUME OnceTyped, NEW t \in Threads, NEW c \in Controls, pthread_once(t, c)
    PROVE  /\ stack' \in [Threads -> Seq(Frames)]
           /\ \A u \in Threads : u # t => stack'[u] = stack[u]
           /\ Len(stack'[t]) = Len(stack[t]) + 1
           /\ \A i \in 1 .. Len(stack[t]) : stack'[t][i] = stack[t][i]
           /\ stack'[t][Len(stack[t]) + 1] = [c |-> c, at |-> "lock"]
<1> DEFINE e == [c |-> c, at |-> "lock"]
<1>1. e \in Frames
    BY Zenon DEF Frames
<1>2. stack'[t] = Append(stack[t], e) /\ stack' = [stack EXCEPT ![t] = stack'[t]]
    BY Zenon DEF pthread_once, OnceTyped
<1>3. /\ stack'[t] \in Seq(Frames) /\ Len(stack'[t]) = Len(stack[t]) + 1
      /\ \A i \in 1 .. Len(stack[t]) : stack'[t][i] = stack[t][i]
      /\ stack'[t][Len(stack[t]) + 1] = e
    BY <1>1, <1>2, Stacks, Appended
<1> QED
    BY Zenon, <1>2, <1>3 DEF OnceTyped

(* The innermost call comes back. *)
LEMMA PopStack ==
    ASSUME OnceTyped, NEW t \in Threads, stack[t] # <<>>, Back(t)
    PROVE  /\ stack' \in [Threads -> Seq(Frames)]
           /\ \A u \in Threads : u # t => stack'[u] = stack[u]
           /\ Len(stack'[t]) = Len(stack[t]) - 1
           /\ \A i \in 1 .. Len(stack[t]) - 1 : stack'[t][i] = stack[t][i]
<1> DEFINE n == Len(stack[t]) - 1
<1>1. n \in 0 .. Len(stack[t]) /\ stack[t] \in Seq(Frames)
    BY Stacks
<1>2. stack'[t] = SubSeq(stack[t], 1, n) /\ stack' = [stack EXCEPT ![t] = stack'[t]]
    BY Zenon DEF Back, OnceTyped
<1> HIDE DEF n
<1>3. /\ stack'[t] \in Seq(Frames) /\ Len(stack'[t]) = n
      /\ \A i \in 1 .. n : stack'[t][i] = stack[t][i]
    BY <1>1, <1>2, Cut
<1> QED
    BY Zenon, <1>2, <1>3 DEF OnceTyped, n

(* The place of a thread's innermost call. *)
LEMMA Places ==
    ASSUME OnceTyped, NEW t \in Threads, NEW place, At(t, place)
    PROVE  /\ stack[t] # <<>> /\ Len(stack[t]) > 0
           /\ Innermost(t) = stack[t][Len(stack[t])] /\ Innermost(t).at = place /\ Innermost(t).c \in Controls
           /\ Depth(t) = IF place = "lock" THEN Len(stack[t]) - 1 ELSE Len(stack[t])
<1>1. stack[t] # <<>> /\ Len(stack[t]) > 0 /\ Innermost(t).at = place
    BY Zenon, Stacks DEF At
<1>2. Innermost(t).c \in Controls
    BY Zenon, <1>1, Stacks DEF Frames
<1>3. At(t, "lock") <=> place = "lock"
    BY Zenon, <1>1 DEF At
<1> QED
    BY Zenon, <1>1, <1>2, <1>3 DEF Innermost, Depth


(* What a step of one thread must show for the calls to stay nested. *)
LEMMA NestedStep ==
    ASSUME Nested, NEW t \in Threads,
           \A u \in Threads : u # t => stack'[u] = stack[u],
           (owner' = owner /\ count' = count) \/ (owner \in {None, t} /\ owner' \in {None, t}),
           owner' = None => count' = 0,
           NestedAt(t)'
    PROVE  Nested'
<1> SUFFICES ASSUME NEW u \in Threads, u # t PROVE NestedAt(u)'
    BY Zenon DEF Nested
<1>1. NestedAt(u) /\ stack'[u] = stack[u] /\ u # None
    BY Zenon, OnceAssumption DEF Nested
<1>2. Depth(u)' = Depth(u)
    BY Zenon, <1>1 DEF Depth, At, Innermost
<1>3. \A i \in 1 .. Len(stack'[u]) - 1 : stack'[u][i].at = "routine"
    BY Zenon, <1>1 DEF NestedAt
<1>4. owner' = u <=> owner = u
    BY Zenon, <1>1
<1>5. owner = u => count' = count
    BY Zenon, <1>1
<1> QED
    BY Zenon, <1>1, <1>2, <1>3, <1>4, <1>5 DEF NestedAt

(* What it must show for begun routines to stay accounted for. *)
LEMMA BegunStep ==
    ASSUME OnceTyped, Begun, NEW t \in Threads,
           \A u \in Threads : u # t => stack'[u] = stack[u],
           \A c \in Controls : ran'[c] = control'[c],
           \A c \in Controls : control[c] = 1 => control'[c] = 1,
           \A c \in Controls : done[c] => done'[c],
           BegunAt(t)',
           \A c \in Controls : control[c] = 0 /\ control'[c] = 1 => UnderWay(c)',
           \A c \in Controls : \A i \in 1 .. Len(stack[t]) :
              stack[t][i] = [c |-> c, at |-> "routine"] => done'[c] \/ UnderWay(c)'
    PROVE  Begun'
<1>1. ASSUME NEW u \in Threads, u # t PROVE BegunAt(u)'
  <2>1. stack'[u] = stack[u] /\ BegunAt(u)
      BY Zenon, <1>1 DEF Begun
  <2>2. \A i \in 1 .. Len(stack[u]) : stack[u][i].c \in Controls
      BY Zenon, Stacks DEF Frames
  <2> QED
      BY Zenon, <2>1, <2>2 DEF BegunAt
<1>2. ASSUME NEW c \in Controls, control'[c] = 1 PROVE done'[c] \/ UnderWay(c)'
  <2>1. CASE control[c] # 1
      BY <1>2, <2>1 DEF OnceTyped
  <2>2. CASE control[c] = 1 /\ done[c]
      BY Zenon, <2>2
  <2>3. CASE control[c] = 1 /\ ~done[c]
    <3>1. PICK u \in Threads : \E i \in 1 .. Len(stack[u]) : stack[u][i] = [c |-> c, at |-> "routine"]
        BY Zenon, <2>3 DEF Begun, UnderWay
    <3>2. CASE u = t
        BY Zenon, <3>1, <3>2
    <3>3. CASE u # t
        BY <3>1, <3>3 DEF UnderWay
    <3> QED
        BY Zenon, <3>2, <3>3
  <2> QED
      BY Zenon, <2>1, <2>2, <2>3
<1> QED
    BY Zenon, <1>1, <1>2 DEF Begun

(* What BegunAt depends on. *)
LEMMA BegunKept ==
    ASSUME NEW t, BegunAt(t), control' = control,
           \A i \in 1 .. Len(stack'[t]) :
              \/ i \in 1 .. Len(stack[t]) /\ stack'[t][i] = stack[t][i]
              \/ stack'[t][i].at \notin {"routine", "unlock"}
              \/ control[stack'[t][i].c] = 1
    PROVE  BegunAt(t)'
    BY Zenon DEF BegunAt

(* A step that moves the innermost call and keeps the controls. *)
LEMMA LockInv ==
    ASSUME OnceInv, NEW t \in Threads, unique_lock(t)
    PROVE  OnceInv'
<1> DEFINE n == Len(stack[t])
<1>1. /\ stack[t] # <<>> /\ n > 0 /\ n \in Nat /\ Depth(t) = n - 1
      /\ stack[t][n].at = "lock" /\ n \in 1 .. n
    BY Zenon, Places, Stacks DEF unique_lock, OnceInv
<1>2. /\ stack' \in [Threads -> Seq(Frames)]
      /\ \A u \in Threads : u # t => stack'[u] = stack[u]
      /\ Len(stack'[t]) = n
      /\ \A i \in 1 .. n - 1 : stack'[t][i] = stack[t][i]
      /\ stack'[t][n] = [c |-> Innermost(t).c, at |-> "test"]
    BY Zenon, <1>1, GotoStack DEF unique_lock, OnceInv
<1>3. /\ owner \in {None, t} /\ owner' = t /\ count' = count + 1
      /\ UNCHANGED <<control, ran, done, returned>>
    BY Zenon DEF unique_lock, history
<1>4. OnceTyped'
    BY <1>2, <1>3 DEF OnceInv, OnceTyped
<1>5. Nested'
  <2>1. Depth(t)' = n
      BY <1>1, <1>2 DEF Depth, At, Innermost
  <2>2. count \in Nat /\ count = n - 1
      BY Zenon, <1>1, <1>3, OnceAssumption DEF OnceInv, OnceTyped, Nested, NestedAt
  <2>3. \A i \in 1 .. n - 1 : stack'[t][i].at = "routine"
      BY Zenon, <1>2 DEF OnceInv, Nested, NestedAt
  <2>4. NestedAt(t)'
      BY <1>2, <1>3, <2>1, <2>2, <2>3 DEF NestedAt
  <2> QED
      BY Zenon, <1>2, <1>3, <2>4, NestedStep, OnceAssumption DEF OnceInv
<1>6. Begun'
  <2>1. \A i \in 1 .. n : i # n => i \in 1 .. n - 1
      BY <1>1
  <2>2. BegunAt(t)'
    <3>1. BegunAt(t)
        BY Zenon DEF OnceInv, Begun
    <3>2. \A i \in 1 .. n : stack'[t][i] = stack[t][i] \/ stack'[t][i].at = "test"
        BY <1>2, <2>1
    <3> QED
        BY Zenon, <1>2, <1>3, <3>1, <3>2, BegunKept
  <2>3. ASSUME NEW c \in Controls, NEW i \in 1 .. n, stack[t][i] = [c |-> c, at |-> "routine"]
        PROVE  UnderWay(c)'
    <3>1. i # n
        BY <1>1, <2>3
    <3>2. i \in 1 .. Len(stack'[t]) /\ stack'[t][i] = [c |-> c, at |-> "routine"]
        BY Zenon, <1>2, <2>1, <2>3, <3>1
    <3> QED
        BY Zenon, <3>2 DEF UnderWay
  <2>4. \A c \in Controls : ran'[c] = control'[c]
      BY Zenon, <1>3 DEF OnceInv, Begun
  <2> QED
      BY <1>2, <1>3, <2>2, <2>3, <2>4, BegunStep DEF OnceInv
<1> QED
    BY Zenon, <1>3, <1>4, <1>5, <1>6 DEF OnceInv, ReturnsComplete

(* A new call waits for the mutex. *)
LEMMA CallInv ==
    ASSUME OnceInv, NEW t \in Threads, NEW c0 \in Controls, pthread_once(t, c0)
    PROVE  OnceInv'
<1> DEFINE n == Len(stack[t])
<1>1. n \in Nat /\ (n > 0 => stack[t][n].at = "routine") /\ Depth(t) = n
  <2>1. n \in Nat /\ (stack[t] # <<>> <=> n > 0)
      BY Zenon, Stacks DEF OnceInv
  <2>2. CASE stack[t] = <<>>
      BY Zenon, <2>1, <2>2 DEF Depth, At
  <2>3. CASE At(t, "routine")
      BY <2>1, <2>3, Places DEF OnceInv
  <2> QED
      BY Zenon, <2>2, <2>3 DEF pthread_once, InGuest
<1>2. /\ stack' \in [Threads -> Seq(Frames)]
      /\ \A u \in Threads : u # t => stack'[u] = stack[u]
      /\ Len(stack'[t]) = n + 1
      /\ \A i \in 1 .. n : stack'[t][i] = stack[t][i]
      /\ stack'[t][n + 1] = [c |-> c0, at |-> "lock"]
    BY Zenon, PushStack DEF OnceInv
<1>3. UNCHANGED <<owner, count, control, ran, done, returned>>
    BY Zenon DEF pthread_once, history, mutex
<1>4. OnceTyped'
    BY Zenon, <1>2, <1>3 DEF OnceInv, OnceTyped
<1>5. \A i \in 1 .. n + 1 : i # n + 1 => i \in 1 .. n
    BY <1>1
<1>6. Nested'
  <2>1. stack'[t] # <<>>
      BY <1>1, <1>2, <1>4, Stacks, Empty DEF OnceTyped
  <2>2. Depth(t)' = n
      BY <1>1, <1>2, <2>1 DEF Depth, At, Innermost
  <2>3. \A i \in 1 .. n : i = n \/ i \in 1 .. n - 1
      BY <1>1
  <2>4. \A i \in 1 .. n : stack'[t][i].at = "routine"
    <3>1. \A i \in 1 .. n - 1 : stack[t][i].at = "routine"
        BY Zenon DEF OnceInv, Nested, NestedAt
    <3>2. n \in 1 .. n => stack[t][n].at = "routine"
        BY <1>1
    <3> HIDE DEF n
    <3> QED
        BY Zenon, <1>2, <2>3, <3>1, <3>2
  <2>5. Len(stack'[t]) - 1 = n
      BY <1>1, <1>2
  <2>6. NestedAt(t)'
      BY Zenon, <1>1, <1>3, <2>2, <2>4, <2>5 DEF OnceInv, Nested, NestedAt
  <2>7. owner' = None => count' = 0
      BY Zenon, <1>3 DEF OnceInv, Nested
  <2> QED
      BY Zenon, <1>2, <1>3, <2>6, <2>7, NestedStep DEF OnceInv
<1>7. Begun'
  <2>1. BegunAt(t)'
      BY <1>2, <1>3, <1>5 DEF BegunAt, OnceInv, Begun
  <2>2. ASSUME NEW c \in Controls, NEW i \in 1 .. n, stack[t][i] = [c |-> c, at |-> "routine"]
        PROVE  UnderWay(c)'
    <3>1. i \in 1 .. Len(stack'[t]) /\ stack'[t][i] = [c |-> c, at |-> "routine"]
        BY <1>1, <1>2, <2>2
    <3> QED
        BY Zenon, <3>1 DEF UnderWay
  <2>3. \A c \in Controls : ran'[c] = control'[c]
      BY Zenon, <1>3 DEF OnceInv, Begun
  <2> QED
      BY <1>2, <1>3, <2>1, <2>2, <2>3, BegunStep DEF OnceInv
<1> QED
    BY Zenon, <1>3, <1>4, <1>6, <1>7 DEF OnceInv, ReturnsComplete

(* Places inside the mutex are the owner's. *)
LEMMA Owns ==
    ASSUME OnceInv, NEW t \in Threads, NEW place \in {"test", "routine", "unlock"}, At(t, place)
    PROVE  owner = t /\ count = Len(stack[t]) /\ count \in Nat /\ count > 0
<1>1. Depth(t) = Len(stack[t]) /\ Len(stack[t]) > 0
    BY Zenon, Places DEF OnceInv
<1> QED
    BY <1>1 DEF OnceInv, Nested, NestedAt, OnceTyped

(* The innermost call moves on inside the mutex. *)
LEMMA MoveNested ==
    ASSUME OnceInv, NEW t \in Threads, NEW from \in {"test", "routine"}, At(t, from),
           NEW to \in {"routine", "unlock"}, Goto(t, to), UNCHANGED <<owner, count>>
    PROVE  Nested'
<1> DEFINE n == Len(stack[t])
<1>1. owner = t /\ count = n /\ n \in Nat /\ n > 0 /\ stack[t] # <<>>
    BY Zenon, Owns, Places DEF OnceInv
<1>2. /\ stack' \in [Threads -> Seq(Frames)]
      /\ \A u \in Threads : u # t => stack'[u] = stack[u]
      /\ Len(stack'[t]) = n
      /\ \A i \in 1 .. n - 1 : stack'[t][i] = stack[t][i]
      /\ stack'[t][n] = [c |-> Innermost(t).c, at |-> to]
    BY Zenon, <1>1, GotoStack DEF OnceInv
<1>3. Depth(t)' = n
    BY <1>1, <1>2 DEF Depth, At, Innermost
<1>4. \A i \in 1 .. n - 1 : stack'[t][i].at = "routine"
    BY Zenon, <1>2 DEF OnceInv, Nested, NestedAt
<1>5. NestedAt(t)'
    BY Zenon, <1>1, <1>2, <1>3, <1>4 DEF NestedAt
<1>6. owner' = None => count' = 0
    BY Zenon DEF OnceInv, Nested
<1> QED
    BY Zenon, <1>2, <1>5, <1>6, NestedStep DEF OnceInv

(* The control is tested, and set before the routine is entered. *)
LEMMA TestInv ==
    ASSUME OnceInv, NEW t \in Threads, once_test(t)
    PROVE  OnceInv'
<1> DEFINE n == Len(stack[t])
           c0 == Innermost(t).c
<1>1. /\ n \in Nat /\ n > 0 /\ stack[t] # <<>> /\ n \in 1 .. n
      /\ stack[t][n].at = "test" /\ c0 \in Controls
    BY Zenon, Places, Stacks DEF OnceInv, once_test
<1>2. PICK to \in {"routine", "unlock"} :
      /\ Goto(t, to) /\ control' = [control EXCEPT ![c0] = 1]
      /\ ran' \in [Controls -> 0 .. 1] /\ \A c \in Controls : ran'[c] = control'[c]
      /\ (control[c0] = 0 => to = "routine")
  <2>1. CASE control[c0] = 0
    <3>1. ran' = [ran EXCEPT ![c0] = @ + 1] /\ control' = [control EXCEPT ![c0] = 1] /\ Goto(t, "routine")
        BY Zenon, <2>1 DEF once_test
    <3>2. ran[c0] = 0 /\ \A c \in Controls : ran[c] = control[c]
        BY Zenon, <1>1, <2>1 DEF OnceInv, Begun
    <3>3. ran' \in [Controls -> 0 .. 1] /\ \A c \in Controls : ran'[c] = control'[c]
        BY <1>1, <3>1, <3>2 DEF OnceInv, OnceTyped
    <3> QED
        BY Zenon, <3>1, <3>3
  <2>2. CASE control[c0] # 0
    <3>1. Goto(t, "unlock") /\ UNCHANGED <<control, ran>>
        BY Zenon, <2>2 DEF once_test
    <3>2. control[c0] = 1
        BY <1>1, <2>2 DEF OnceInv, OnceTyped
    <3>3. control' = [control EXCEPT ![c0] = 1] /\ ran' \in [Controls -> 0 .. 1] /\ \A c \in Controls : ran'[c] = control'[c]
        BY Zenon, <1>1, <3>1, <3>2 DEF OnceInv, Begun, OnceTyped
    <3> QED
        BY Zenon, <2>2, <3>1, <3>3
  <2> QED
      BY Zenon, <2>1, <2>2
<1> HIDE DEF c0
<1>3. /\ stack' \in [Threads -> Seq(Frames)]
      /\ \A u \in Threads : u # t => stack'[u] = stack[u]
      /\ Len(stack'[t]) = n
      /\ \A i \in 1 .. n - 1 : stack'[t][i] = stack[t][i]
      /\ stack'[t][n] = [c |-> c0, at |-> to]
    BY ZenonT(30), <1>1, <1>2, GotoStack DEF OnceInv, c0
<1>4. UNCHANGED <<owner, count, done, returned>>
    BY Zenon DEF once_test, mutex
<1>5. OnceTyped'
    BY Zenon, <1>1, <1>2, <1>3, <1>4 DEF OnceInv, OnceTyped
<1>6. Nested'
    BY Zenon, <1>2, <1>4, MoveNested DEF once_test
<1>7. \A i \in 1 .. n : i # n => i \in 1 .. n - 1
    BY <1>1
<1>8. control'[c0] = 1 /\ \A c \in Controls : c # c0 => control'[c] = control[c]
    BY Zenon, <1>1, <1>2 DEF OnceInv, OnceTyped
<1>9. Begun'
  <2>1. BegunAt(t)'
    <3>1. ASSUME NEW i \in 1 .. n, i # n, stack'[t][i].at \in {"routine", "unlock"}
          PROVE  control'[stack'[t][i].c] = 1
      <4>1. stack'[t][i] = stack[t][i] /\ control[stack[t][i].c] = 1 /\ stack[t][i].c \in Controls
          BY Zenon, <1>3, <1>7, <3>1, Stacks DEF OnceInv, Begun, BegunAt, Frames
      <4> QED
          BY Zenon, <1>8, <4>1
    <3> QED
        BY <1>3, <1>8, <3>1 DEF BegunAt
  <2>2. ASSUME NEW c \in Controls, NEW i \in 1 .. n, stack[t][i] = [c |-> c, at |-> "routine"]
        PROVE  UnderWay(c)'
    <3>1. i # n
        BY <1>1, <2>2
    <3>2. i \in 1 .. Len(stack'[t]) /\ stack'[t][i] = [c |-> c, at |-> "routine"]
        BY Zenon, <1>3, <1>7, <2>2, <3>1
    <3> QED
        BY Zenon, <3>2 DEF UnderWay
  <2>3. ASSUME NEW c \in Controls, control[c] = 0, control'[c] = 1
        PROVE  UnderWay(c)'
    <3>1. c = c0 /\ to = "routine"
        BY <1>2, <1>8, <2>3
    <3> QED
        BY Zenon, <1>1, <1>3, <3>1 DEF UnderWay
  <2>4. \A c \in Controls : ran'[c] = control'[c]
      BY Zenon, <1>2
  <2>5. \A c \in Controls : control[c] = 1 => control'[c] = 1
      BY Zenon, <1>8
  <2> QED
      BY Zenon, <1>3, <1>4, <2>1, <2>2, <2>3, <2>4, <2>5, BegunStep DEF OnceInv
<1> QED
    BY Zenon, <1>4, <1>5, <1>6, <1>9 DEF OnceInv, ReturnsComplete

(* The routine ends. *)
LEMMA RoutineInv ==
    ASSUME OnceInv, NEW t \in Threads, routine_returns(t)
    PROVE  OnceInv'
<1> DEFINE n == Len(stack[t])
           c0 == Innermost(t).c
<1>1. /\ n \in Nat /\ n > 0 /\ stack[t] # <<>> /\ n \in 1 .. n
      /\ stack[t][n].at = "routine" /\ stack[t][n].c = c0 /\ c0 \in Controls
    BY Zenon, Places, Stacks DEF OnceInv, routine_returns
<1>2. Goto(t, "unlock") /\ done' = [done EXCEPT ![c0] = TRUE]
    BY Zenon DEF routine_returns
<1> HIDE DEF c0
<1>3. /\ stack' \in [Threads -> Seq(Frames)]
      /\ \A u \in Threads : u # t => stack'[u] = stack[u]
      /\ Len(stack'[t]) = n
      /\ \A i \in 1 .. n - 1 : stack'[t][i] = stack[t][i]
      /\ stack'[t][n] = [c |-> c0, at |-> "unlock"]
    BY Zenon, <1>1, <1>2, GotoStack DEF OnceInv, c0
<1>4. UNCHANGED <<owner, count, control, ran, returned>>
    BY Zenon DEF routine_returns, mutex
<1>5. OnceTyped'
    BY Zenon, <1>1, <1>2, <1>3, <1>4 DEF OnceInv, OnceTyped
<1>6. Nested'
    BY Zenon, <1>2, <1>4, MoveNested DEF routine_returns
<1>7. \A i \in 1 .. n : i # n => i \in 1 .. n - 1
    BY <1>1
<1>8. done'[c0] /\ \A c \in Controls : done[c] => done'[c]
    BY Zenon, <1>1, <1>2 DEF OnceInv, OnceTyped
<1>9. Begun'
  <2>1. control[c0] = 1
      BY Zenon, <1>1 DEF OnceInv, Begun, BegunAt
  <2>2. BegunAt(t)'
    <3>1. BegunAt(t)
        BY Zenon DEF OnceInv, Begun
    <3>2. \A i \in 1 .. n : stack'[t][i] = stack[t][i] \/ stack'[t][i].c = c0
        BY <1>3, <1>7
    <3> QED
        BY Zenon, <1>3, <1>4, <2>1, <3>1, <3>2, BegunKept
  <2>3. ASSUME NEW c \in Controls, NEW i \in 1 .. n, stack[t][i] = [c |-> c, at |-> "routine"]
        PROVE  done'[c] \/ UnderWay(c)'
    <3>1. CASE i = n
        BY <1>1, <1>8, <2>3, <3>1
    <3>2. CASE i # n
      <4>1. i \in 1 .. Len(stack'[t]) /\ stack'[t][i] = [c |-> c, at |-> "routine"]
          BY Zenon, <1>3, <1>7, <2>3, <3>2
      <4> QED
          BY Zenon, <4>1 DEF UnderWay
    <3> QED
        BY Zenon, <3>1, <3>2
  <2>4. \A c \in Controls : ran'[c] = control'[c]
      BY Zenon, <1>4 DEF OnceInv, Begun
  <2>5. /\ \A c \in Controls : control[c] = 1 => control'[c] = 1
        /\ \A c \in Controls : control[c] = 0 /\ control'[c] = 1 => UnderWay(c)'
      BY <1>4
  <2>6. \A c \in Controls : \A i \in 1 .. n :
           stack[t][i] = [c |-> c, at |-> "routine"] => done'[c] \/ UnderWay(c)'
      BY Zenon, <2>3
  <2> QED
      BY Zenon, <1>3, <1>8, <2>2, <2>4, <2>5, <2>6, BegunStep DEF OnceInv
<1> QED
    BY Zenon, <1>4, <1>5, <1>6, <1>8, <1>9 DEF OnceInv, ReturnsComplete, OnceTyped

(* The call comes back.  If its control was set when it came, the routine  *)
(* was not with another thread, which would own the mutex: it had ended,   *)
(* or it is the one this thread is in.                                     *)
LEMMA UnlockInv ==
    ASSUME OnceInv, NEW t \in Threads, once_unlock(t)
    PROVE  OnceInv'
<1> DEFINE n == Len(stack[t])
           c0 == Innermost(t).c
<1>1. /\ n \in Nat /\ n > 0 /\ stack[t] # <<>> /\ n \in 1 .. n
      /\ stack[t][n].at = "unlock" /\ stack[t][n].c = c0 /\ c0 \in Controls
    BY Zenon, Places, Stacks DEF OnceInv, once_unlock
<1>2. owner = t /\ count = n
    BY Zenon, Owns DEF once_unlock
<1>3. /\ stack' \in [Threads -> Seq(Frames)]
      /\ \A u \in Threads : u # t => stack'[u] = stack[u]
      /\ Len(stack'[t]) = n - 1
      /\ \A i \in 1 .. n - 1 : stack'[t][i] = stack[t][i]
    BY Zenon, <1>1, PopStack DEF OnceInv, once_unlock
<1>4. /\ count' = n - 1 /\ owner' = (IF n = 1 THEN None ELSE t)
      /\ UNCHANGED <<control, ran, done>>
    BY Zenon, <1>2 DEF once_unlock
<1>5. returned' = IF Inside(t, c0) THEN returned ELSE [returned EXCEPT ![t] = @ \cup {c0}]
    BY Zenon DEF once_unlock, Back
<1> HIDE DEF c0
<1>6. OnceTyped'
  <2>1. returned' \in [Threads -> SUBSET Controls]
      BY Zenon, <1>1, <1>5 DEF OnceInv, OnceTyped
  <2>2. count' \in Nat
      BY <1>1, <1>4
  <2> QED
      BY Zenon, <1>3, <1>4, <2>1, <2>2 DEF OnceInv, OnceTyped
<1>7. Nested'
  <2>1. \A i \in 1 .. n - 1 : stack'[t][i].at = "routine"
      BY Zenon, <1>3 DEF OnceInv, Nested, NestedAt
  <2>2. \A i \in 1 .. n - 1 - 1 : i \in 1 .. n - 1
      BY <1>1
  <2>3. n = 1 => stack'[t] = <<>>
      BY <1>1, <1>3, Empty
  <2>4. n # 1 => n - 1 \in 1 .. n - 1
    <3> HIDE DEF n
    <3> QED
        BY <1>1
  <2>5. ~At(t, "lock")'
      BY Zenon, <1>3, <2>1, <2>3, <2>4 DEF At, Innermost
  <2>6. Depth(t)' = n - 1
      BY Zenon, <1>3, <2>5 DEF Depth
  <2>7. NestedAt(t)'
    <3>1. \A i \in 1 .. Len(stack'[t]) - 1 : stack'[t][i].at = "routine"
        BY Zenon, <1>3, <2>1, <2>2
    <3>2. owner' = t => n - 1 > 0
      <4> HIDE DEF n
      <4> QED
          BY <1>1, <1>4, OnceAssumption
    <3>3. owner' # t => n - 1 = 0
        BY <1>1, <1>4
    <3> QED
        BY Zenon, <1>4, <2>6, <3>1, <3>2, <3>3 DEF NestedAt
  <2>8. owner' = None => count' = 0
      BY <1>1, <1>4, OnceAssumption
  <2> QED
      BY Zenon, <1>2, <1>3, <1>4, <2>7, <2>8, NestedStep DEF OnceInv
<1>8. Begun'
  <2>1. \A i \in 1 .. n - 1 : i \in 1 .. n
      BY <1>1
  <2>2. BegunAt(t)'
    <3>1. BegunAt(t)
        BY Zenon DEF OnceInv, Begun
    <3>2. \A i \in 1 .. n - 1 : i \in 1 .. n /\ stack'[t][i] = stack[t][i]
        BY Zenon, <1>3, <2>1
    <3> QED
        BY Zenon, <1>3, <1>4, <3>1, <3>2, BegunKept
  <2>3. ASSUME NEW c \in Controls, NEW i \in 1 .. n, stack[t][i] = [c |-> c, at |-> "routine"]
        PROVE  UnderWay(c)'
    <3>1. i # n
        BY <1>1, <2>3
    <3>2. i \in 1 .. n - 1
        BY <1>1, <3>1
    <3>3. i \in 1 .. Len(stack'[t]) /\ stack'[t][i] = [c |-> c, at |-> "routine"]
        BY Zenon, <1>3, <2>3, <3>2
    <3> QED
        BY Zenon, <3>3 DEF UnderWay
  <2>4. \A c \in Controls : ran'[c] = control'[c]
      BY Zenon, <1>4 DEF OnceInv, Begun
  <2> QED
      BY <1>3, <1>4, <2>2, <2>3, <2>4, BegunStep DEF OnceInv
<1>9. ReturnsComplete'
  <2>1. ASSUME ~Inside(t, c0) PROVE done[c0]
    <3>1. control[c0] = 1
        BY Zenon, <1>1 DEF OnceInv, Begun, BegunAt
    <3>2. ASSUME NEW u \in Threads, NEW i \in 1 .. Len(stack[u]), stack[u][i] = [c |-> c0, at |-> "routine"]
          PROVE  FALSE
      <4>1. u = t
        <5>1. CASE i = Len(stack[u])
          <6>1. stack[u] # <<>>
              BY <3>2, Stacks DEF OnceInv
          <6>2. At(u, "routine")
              BY <3>2, <5>1, <6>1 DEF At, Innermost
          <6> QED
              BY Zenon, <1>2, <6>2, Owns
        <5>2. CASE i # Len(stack[u])
          <6>1. Len(stack[u]) \in Nat /\ Len(stack[u]) > 1
              BY <3>2, <5>2, Stacks DEF OnceInv
          <6>2. Depth(u) # 0
            <7>1. Depth(u) \in {Len(stack[u]), Len(stack[u]) - 1}
                BY Zenon DEF Depth
            <7> QED
                BY <6>1, <7>1
          <6> QED
              BY Zenon, <1>2, <6>2 DEF OnceInv, Nested, NestedAt
        <5> QED
            BY Zenon, <5>1, <5>2
      <4>2. i # n
          BY <1>1, <3>2, <4>1
      <4>3. i \in 1 .. n - 1
          BY <1>1, <3>2, <4>1, <4>2
      <4> QED
          BY <2>1, <3>2, <4>1, <4>3 DEF Inside
    <3> QED
        BY Zenon, <1>1, <3>1, <3>2 DEF OnceInv, Begun, UnderWay
  <2> QED
      BY Zenon, <1>1, <1>4, <1>5, <2>1 DEF OnceInv, ReturnsComplete, OnceTyped
<1> QED
    BY Zenon, <1>6, <1>7, <1>8, <1>9 DEF OnceInv

(* The guest's own locks, and stuttering, leave the shim's state alone. *)
LEMMA UnchangedInv ==
    ASSUME OnceInv, UNCHANGED <<control, mutex, stack, history>>
    PROVE  OnceInv'
<1>1. /\ control' = control /\ owner' = owner /\ count' = count /\ stack' = stack
      /\ ran' = ran /\ done' = done /\ returned' = returned
    BY Zenon DEF mutex, history
<1>2. OnceTyped' /\ ReturnsComplete'
    BY Zenon, <1>1 DEF OnceInv, OnceTyped, ReturnsComplete
<1>3. Nested'
    BY Zenon, <1>1 DEF OnceInv, Nested, NestedAt, Depth, At, Innermost
<1>4. Begun'
    BY <1>1 DEF OnceInv, Begun, BegunAt, UnderWay
<1> QED
    BY Zenon, <1>2, <1>3, <1>4 DEF OnceInv

LEMMA OnceSteps == OnceInv /\ [OnceNext]_once => OnceInv'
<1> SUFFICES ASSUME OnceInv, [OnceNext]_once PROVE OnceInv'
    OBVIOUS
<1>1. ASSUME NEW t \in Threads, NEW c \in Controls, pthread_once(t, c) PROVE OnceInv'
    BY Zenon, <1>1, CallInv
<1>2. ASSUME NEW t \in Threads, unique_lock(t) PROVE OnceInv'
    BY Zenon, <1>2, LockInv
<1>3. ASSUME NEW t \in Threads, once_test(t) PROVE OnceInv'
    BY Zenon, <1>3, TestInv
<1>4. ASSUME NEW t \in Threads, routine_returns(t) PROVE OnceInv'
    BY Zenon, <1>4, RoutineInv
<1>5. ASSUME NEW t \in Threads, once_unlock(t) PROVE OnceInv'
    BY Zenon, <1>5, UnlockInv
<1>6. ASSUME NEW t \in Threads, NEW m \in Locks, guest_wants(t, m) \/ guest_unlocks(t, m)
      PROVE  OnceInv'
  <2>1. UNCHANGED <<control, mutex, stack, history>>
      BY Zenon, <1>6 DEF guest_wants, guest_unlocks
  <2> QED
      BY Zenon, <2>1, UnchangedInv
<1>7. ASSUME NEW t \in Threads, guest_locks(t) PROVE OnceInv'
  <2>1. UNCHANGED <<control, mutex, stack, history>>
      BY Zenon, <1>7 DEF guest_locks
  <2> QED
      BY Zenon, <2>1, UnchangedInv
<1>8. CASE UNCHANGED once
  <2>1. UNCHANGED <<control, mutex, stack, history>>
      BY Zenon, <1>8 DEF once
  <2> QED
      BY Zenon, <2>1, UnchangedInv
<1> QED
    BY Zenon, <1>1, <1>2, <1>3, <1>4, <1>5, <1>6, <1>7, <1>8 DEF OnceNext, OnceStep

(* pthread_once begins no routine twice: whatever threads call it, however *)
(* often, and from within which routines.                                  *)
THEOREM RoutinesRunOnce == OnceSpec => []RunsOnce
<1>1. OnceInv => RunsOnce
    BY DEF OnceInv, OnceTyped, RunsOnce
<1> QED
    BY OnceStart, OnceSteps, <1>1, PTL DEF OnceSpec

(* When pthread_once has come back, the routine has ended, unless the call *)
(* was made from inside that routine.                                      *)
THEOREM CallsReturnComplete == OnceSpec => []ReturnsComplete
<1>1. OnceInv => ReturnsComplete
    BY Zenon DEF OnceInv
<1> QED
    BY OnceStart, OnceSteps, <1>1, PTL DEF OnceSpec

(* The guest's own locks have their types. *)
LocksTyped ==
    /\ lock \in [Locks -> Threads \cup {None}] /\ wants \in [Threads -> Locks \cup {None}]
    /\ calls \in [Threads -> 0 .. MaxCalls]

LEMMA LocksTypedSteps ==
    ASSUME LocksTyped, [OnceNext]_once
    PROVE  LocksTyped'
<1>1. CASE UNCHANGED <<lock, wants, calls>>
    BY Zenon, <1>1 DEF LocksTyped
<1>2. ASSUME NEW t \in Threads, calls[t] < MaxCalls, calls' = [calls EXCEPT ![t] = @ + 1],
             lock' = lock, wants' = wants \/ \E m \in Locks : wants' = [wants EXCEPT ![t] = m]
      PROVE  LocksTyped'
  <2>1. calls[t] + 1 \in 0 .. MaxCalls
      BY <1>2, OnceAssumption DEF LocksTyped
  <2> QED
      BY Zenon, <1>2, <2>1 DEF LocksTyped
<1>3. ASSUME NEW t \in Threads, guest_locks(t) PROVE LocksTyped'
    BY Zenon, <1>3 DEF guest_locks, LocksTyped
<1>4. ASSUME NEW t \in Threads, NEW m \in Locks, guest_unlocks(t, m) PROVE LocksTyped'
    BY Zenon, <1>4 DEF guest_unlocks, LocksTyped
<1>5. CASE UNCHANGED once
    BY Zenon, <1>1, <1>5 DEF once, locks
<1>6. ASSUME NEW t \in Threads,
             unique_lock(t) \/ once_test(t) \/ routine_returns(t) \/ once_unlock(t)
      PROVE  LocksTyped'
    BY Zenon, <1>1, <1>6 DEF unique_lock, once_test, routine_returns, once_unlock, locks
<1>7. ASSUME NEW t \in Threads, NEW c \in Controls, pthread_once(t, c) PROVE LocksTyped'
    BY Zenon, <1>2, <1>7 DEF pthread_once, locks
<1>8. ASSUME NEW t \in Threads, NEW m \in Locks, guest_wants(t, m) PROVE LocksTyped'
    BY Zenon, <1>2, <1>8 DEF guest_wants
<1> QED
    BY Zenon, <1>3, <1>4, <1>5, <1>6, <1>7, <1>8 DEF OnceNext, OnceStep

(* The state of pthread_once has its types. *)
THEOREM OncesTyped == OnceSpec => []OnceTypeOK
<1>1. OnceInit => LocksTyped
    BY OnceAssumption DEF OnceInit, LocksTyped
<1>2. LocksTyped /\ [OnceNext]_once => LocksTyped'
    BY Zenon, LocksTypedSteps
<1>3. ASSUME OnceInv, LocksTyped PROVE OnceTypeOK
  <2>1. ran \in [Controls -> Nat]
      BY <1>3 DEF OnceInv, OnceTyped
  <2> QED
      BY Zenon, <1>3, <2>1 DEF OnceInv, OnceTyped, LocksTyped, OnceTypeOK, Frames
<1> QED
    BY OnceStart, OnceSteps, <1>1, <1>2, <1>3, PTL DEF OnceSpec

(***************************************************************************)
(* The event loop.  A request whose event is on its way is complete, and   *)
(* for guests that wait it is the only one: nobody writes while the loop   *)
(* reads.                                                                  *)
(***************************************************************************)
LoopTyped ==
    /\ queue \in Seq(Events)
    /\ current \in [FieldNames -> Nat] /\ callbacks \subseteq [id : Nat, written : 0 .. Len(Fields)]
    /\ request \in Nat /\ sent \in Nat /\ unread \subseteq FieldNames
    /\ frame_del \in Nat /\ passed \in Nat /\ moved \in Nat

(* Motion is pending in this frame only with its flag; a start that has    *)
(* read some fields has seen a request.                                    *)
Pending ==
    /\ ~mouse_motion_task => frame_del = 0
    /\ at = "params" => unread = FieldNames \/ seen # {}

(* A start that is due is of a request that has been sent, and not served. *)
StartDue == game_start_task \/ at = "params" \/ Count(queue, "start_game") > 0

OneStart ==
    /\ Count(queue, "start_game") <= 1
    /\ Count(queue, "start_game") > 0 => ~game_start_task /\ at # "params"
    /\ game_start_task => at # "params"

(* At most one callback is in progress, of the last request, and what it   *)
(* has written stays; once it is over all fields are of that request.      *)
OneCall ==
    /\ \A k \in callbacks : /\ callbacks = {k} /\ k.id = request /\ sent < request
                        /\ \A i \in 1 .. k.written : current[Fields[i]] = request
    /\ callbacks = {} => sent = request /\ \A f \in FieldNames : current[f] = request

Spaced == spaced =>
    /\ sent <= request /\ served \in 0 .. sent
    /\ OneCall
    /\ StartDue => callbacks = {} /\ served # sent
    /\ OneStart
    /\ at = "params" => seen \subseteq {request}
    /\ ~torn

Moving == moved = passed + frame_del + Count(queue, "motion")

LoopInv == LoopTyped /\ Pending /\ Spaced /\ Moving

(* The queue gets an event, and gives up its first. *)
LEMMA Pushes ==
    ASSUME NEW q \in Seq(Events), NEW e \in Events
    PROVE  Append(q, e) \in Seq(Events) /\ IsAppend(q, Append(q, e), e)
BY DEF IsAppend

LEMMA Polls ==
    ASSUME NEW q \in Seq(Events), q # <<>>
    PROVE  /\ Tail(q) \in Seq(Events) /\ Head(q) \in Events
           /\ IsTail(q, Tail(q), Head(q))
<1>1. /\ Tail(q) \in Seq(Events) /\ Head(q) \in Events /\ Len(Tail(q)) = Len(q) - 1
      /\ \A i \in 1 .. Len(Tail(q)) : Tail(q)[i] = q[i + 1]
    OBVIOUS
<1>2. Head(q) = q[1] /\ Len(q) \in Nat
    OBVIOUS
<1> QED
    BY <1>1, <1>2 DEF IsTail

(* What the proof needs to know of numbers of elements; it is shown at the *)
(* end, from the theorems about finite sets.                               *)
Counting ==
    /\ \A q \in Seq(Events) : \A e : Count(q, e) \in Nat
    /\ \A q \in Seq(Events), r \in Seq(Events) : \A e, f : IsAppend(q, r, e) =>
           Count(r, f) = Count(q, f) + (IF e = f THEN 1 ELSE 0)
    /\ \A q \in Seq(Events), r \in Seq(Events) : \A e, f : IsTail(q, r, e) =>
           Count(q, f) = Count(r, f) + (IF e = f THEN 1 ELSE 0)
    /\ \A q \in Seq(Events) : Len(q) = 0 => \A e : Count(q, e) = 0
    /\ \A n : Cardinality({n}) = 1

(* The steps of the loop and of others, by what they do to the queue: it   *)
(* keeps it, appends e, or takes e.                                        *)
Same == queue' = queue
Pushed(e) == IsAppend(queue, queue', e) /\ queue' \in Seq(Events)
Taken(e) == IsTail(queue, queue', e) /\ queue' \in Seq(Events)

LEMMA QueueSame ==
    ASSUME Same, NEW f
    PROVE  Count(queue', f) = Count(queue, f)
BY Zenon DEF Same

LEMMA QueuePushed ==
    ASSUME Counting, LoopTyped, NEW e, Pushed(e), NEW f
    PROVE  Count(queue', f) = Count(queue, f) + (IF e = f THEN 1 ELSE 0)
BY DEF Counting, LoopTyped, Pushed

LEMMA QueueTaken ==
    ASSUME Counting, LoopTyped, NEW e, Taken(e), NEW f
    PROVE  Count(queue, f) = Count(queue', f) + (IF e = f THEN 1 ELSE 0)
BY DEF Counting, LoopTyped, Taken

LEMMA DoesPush ==
    ASSUME LoopTyped, NEW e \in Events, SDL_PushEvent(e)
    PROVE  Pushed(e)
BY Zenon, Pushes DEF LoopTyped, SDL_PushEvent, Pushed

LEMMA DoesPoll ==
    ASSUME LoopTyped, NEW e, poll(e)
    PROVE  Taken(e)
BY Zenon, Polls DEF LoopTyped, poll, Taken

LEMMA Counts ==
    ASSUME Counting, LoopTyped, NEW e
    PROVE  Count(queue, e) \in Nat
BY Zenon DEF Counting, LoopTyped

LEMMA FieldsSome == Fields \in Seq(STRING) /\ Len(Fields) \in Nat /\ Len(Fields) > 0 /\ FieldNames # {}
<1>1. Fields \in Seq(STRING) /\ Fields # <<>>
    BY Zenon, LoopAssumption
<1>2. Len(Fields) \in Nat /\ Len(Fields) > 0 /\ DOMAIN Fields = 1 .. Len(Fields)
    BY <1>1
<1>3. 1 \in DOMAIN Fields
    BY <1>2
<1> QED
    BY Zenon, <1>1, <1>2, <1>3 DEF FieldNames

LEMMA LoopStart ==
    ASSUME Counting, LoopInit
    PROVE  LoopInv
<1>1. queue = <<>> /\ queue \in Seq(Events)
    BY DEF LoopInit
<1>2. \A e : Count(queue, e) = 0
    BY Zenon, <1>1 DEF Counting
<1>3. LoopTyped
    BY <1>1, FieldsSome DEF LoopInit, LoopTyped
<1>4. Pending
    BY Zenon DEF LoopInit, Pending
<1>5. Spaced
  <2>1. ~StartDue
      BY <1>2 DEF LoopInit, StartDue
  <2>2. OneStart
      BY <1>2 DEF LoopInit, OneStart
  <2>3. OneCall
      BY Zenon DEF LoopInit, OneCall
  <2> QED
      BY <2>1, <2>2, <2>3 DEF LoopInit, Spaced
<1>6. Moving
    BY <1>2 DEF LoopInit, Moving
<1> QED
    BY Zenon, <1>3, <1>4, <1>5, <1>6 DEF LoopInv

(* A step that leaves requests and starts alone: events of other kinds     *)
(* come, or are taken.                                                     *)
Calm == UNCHANGED <<game_start_task, current, request, callbacks, sent, unread, seen, served,
                    torn, spaced>>

LEMMA LoopCalm ==
    ASSUME LoopInv, Calm, at = "params" <=> at' = "params",
           queue' \in Seq(Events), Count(queue', "start_game") = Count(queue, "start_game"),
           frame_del' \in Nat, passed' \in Nat, moved' \in Nat, Moving',
           ~mouse_motion_task' => frame_del' = 0
    PROVE  LoopInv'
<1>1. LoopTyped'
    BY Zenon DEF LoopInv, LoopTyped, Calm
<1>2. Pending'
    BY Zenon DEF LoopInv, Pending, Calm
<1>3. StartDue' <=> StartDue
    BY Zenon DEF StartDue, Calm
<1>4. OneStart' <=> OneStart
    BY Zenon DEF OneStart, Calm
<1>5. OneCall' <=> OneCall
    BY Zenon DEF OneCall, Calm
<1>6. Spaced'
    BY Zenon, <1>3, <1>4, <1>5 DEF LoopInv, Spaced, Calm
<1> QED
    BY Zenon, <1>1, <1>2, <1>6 DEF LoopInv

(* Motion stays where it is. *)
Still == UNCHANGED <<frame_del, mouse_motion_task, passed, moved>>

LEMMA LoopStill ==
    ASSUME LoopInv, Still, Count(queue', "motion") = Count(queue, "motion")
    PROVE  /\ Moving' /\ frame_del' \in Nat /\ passed' \in Nat /\ moved' \in Nat
           /\ ~mouse_motion_task' => frame_del' = 0
BY Zenon DEF LoopInv, LoopTyped, Pending, Moving, Still

(* Events of the window and the app. *)
LEMMA LoopEvents ==
    ASSUME Counting, LoopInv, window_shown \/ window_closed \/ onDataModelNotificationCallback \/ window_event
    PROVE  LoopInv'
<1>1. Calm /\ UNCHANGED <<at, frame_del, mouse_motion_task, passed>>
    BY Zenon DEF window_shown, window_closed, onDataModelNotificationCallback, window_event, Calm,
           flags, motion, params, game, outside
<1>2. PICK e \in Events \ {"start_game"} :
         /\ Pushed(e)
         /\ e # "motion" => moved' = moved
         /\ e = "motion" => moved' = moved + 1
  <2>1. PICK e \in Events \ {"start_game"} :
           /\ SDL_PushEvent(e)
           /\ e # "motion" => moved' = moved
           /\ e = "motion" => moved' = moved + 1
      BY DEF window_shown, window_closed, onDataModelNotificationCallback, window_event, outside,
             Events
  <2> QED
      BY Zenon, <2>1, DoesPush DEF LoopInv
<1>3. LoopTyped /\ queue' \in Seq(Events)
    BY Zenon, <1>2 DEF LoopInv, Pushed
<1>4. Count(queue', "start_game") = Count(queue, "start_game")
  <2>1. Count(queue', "start_game") = Count(queue, "start_game") + 0
      BY Zenon, <1>2, <1>3, QueuePushed
  <2> QED
      BY <1>3, <2>1, Counts
<1>5. Count(queue', "motion") = Count(queue, "motion") + (IF e = "motion" THEN 1 ELSE 0)
    BY Zenon, <1>2, <1>3, QueuePushed
<1>6. frame_del' \in Nat /\ passed' \in Nat /\ moved' \in Nat /\ Moving'
    BY <1>1, <1>2, <1>3, <1>5, Counts DEF LoopInv, LoopTyped, Moving
<1>7. ~mouse_motion_task' => frame_del' = 0
    BY Zenon, <1>1 DEF LoopInv, Pending
<1> QED
    BY Zenon, <1>1, <1>3, <1>4, <1>6, <1>7, LoopCalm

(* Steps of the loop that take no request. *)
LEMMA LoopPolls ==
    ASSUME Counting, LoopInv, NEW e \in Events \ {"start_game"}, poll(e), Calm, UNCHANGED <<at, passed, moved>>,
           e = "motion" => frame_del' = frame_del + 1 /\ mouse_motion_task' = TRUE,
           e # "motion" => UNCHANGED <<frame_del, mouse_motion_task>>
    PROVE  LoopInv'
<1>1. LoopTyped /\ Taken(e) /\ queue' \in Seq(Events)
    BY Zenon, DoesPoll DEF LoopInv, Taken
<1>2. /\ Count(queue', "start_game") \in Nat /\ Count(queue', "motion") \in Nat
      /\ Count(queue, "start_game") \in Nat /\ Count(queue, "motion") \in Nat
    BY Zenon, <1>1, Counts DEF Counting
<1>3. Count(queue', "start_game") = Count(queue, "start_game")
  <2>1. Count(queue, "start_game") = Count(queue', "start_game") + 0
      BY Zenon, <1>1, QueueTaken
  <2> QED
      BY <1>2, <2>1
<1>4. Count(queue, "motion") = Count(queue', "motion") + (IF e = "motion" THEN 1 ELSE 0)
    BY Zenon, <1>1, QueueTaken
<1>5. frame_del' \in Nat /\ passed' \in Nat /\ moved' \in Nat /\ Moving'
  <2>1. /\ frame_del \in Nat /\ passed \in Nat /\ moved \in Nat
        /\ moved = passed + frame_del + Count(queue, "motion")
      BY Zenon DEF LoopInv, LoopTyped, Moving
  <2>2. CASE e = "motion"
      BY <1>2, <1>4, <2>1, <2>2 DEF Moving
  <2>3. CASE e # "motion"
      BY <1>2, <1>4, <2>1, <2>3 DEF Moving
  <2> QED
      BY Zenon, <2>2, <2>3
<1>6. ~mouse_motion_task' => frame_del' = 0
    BY Zenon DEF LoopInv, Pending
<1> QED
    BY Zenon, <1>1, <1>3, <1>5, <1>6, LoopCalm

LEMMA LoopRests ==
    ASSUME LoopInv, poll_empty \/ resize_surface \/ start_app
    PROVE  LoopInv'
<1>1. Calm /\ Still /\ Same /\ at # "params" /\ at' # "params"
    BY Zenon DEF poll_empty, resize_surface, start_app, Calm, Still, Same,
           flags, motion, params, game, outside
<1>2. queue' \in Seq(Events)
    BY Zenon, <1>1 DEF Same, LoopInv, LoopTyped
<1> QED
    BY Zenon, <1>1, <1>2, QueueSame, LoopStill, LoopCalm

(* The motion of the frame is passed on. *)
LEMMA LoopMoves ==
    ASSUME Counting, LoopInv, mouse_move
    PROVE  LoopInv'
<1>1. /\ Calm /\ Same /\ at # "params" /\ at' # "params" /\ moved' = moved /\ frame_del' = 0
      /\ passed' = IF mouse_motion_task THEN passed + frame_del ELSE passed
    BY Zenon DEF mouse_move, Calm, Same, flags, params, game, outside
<1>2. passed' = passed + frame_del
  <2>1. CASE mouse_motion_task
      BY Zenon, <1>1, <2>1
  <2>2. CASE ~mouse_motion_task
      BY <1>1, <2>2 DEF LoopInv, LoopTyped, Pending
  <2> QED
      BY Zenon, <2>1, <2>2
<1>3. LoopTyped /\ queue' \in Seq(Events)
    BY Zenon, <1>1 DEF Same, LoopInv, LoopTyped
<1>4. frame_del' \in Nat /\ passed' \in Nat /\ moved' \in Nat /\ Moving'
  <2>1. /\ moved \in Nat /\ passed \in Nat /\ frame_del \in Nat /\ Count(queue, "motion") \in Nat
        /\ moved = passed + frame_del + Count(queue, "motion")
      BY Zenon, <1>3, Counts DEF LoopInv, LoopTyped, Moving
  <2>2. queue' = queue
      BY Zenon, <1>1 DEF Same
  <2> QED
      BY <1>1, <1>2, <2>1, <2>2 DEF Moving
<1> QED
    BY Zenon, <1>1, <1>3, <1>4, QueueSame, LoopCalm

(* A request is begun: where guests wait, no start is due. *)
LEMMA LoopRequests ==
    ASSUME LoopInv, message_bus_run
    PROVE  LoopInv'
<1> DEFINE k == [id |-> request + 1, written |-> 0]
<1>1. /\ UNCHANGED <<queue, at, game_start_task, current, sent, unread, seen, served, torn, spaced>>
      /\ Still /\ (spaced => callbacks = {} /\ served = sent)
      /\ request' = request + 1 /\ callbacks' = callbacks \cup {k}
    BY Zenon DEF message_bus_run, Still, flags, motion, game, outside
<1>2. k \in [id : Nat, written : 0 .. Len(Fields)] /\ k.id = request' /\ k.written = 0
    BY <1>1, FieldsSome DEF LoopInv, LoopTyped
<1> HIDE DEF k
<1>3. LoopTyped'
  <2>1. request' \in Nat
      BY <1>1 DEF LoopInv, LoopTyped
  <2> QED
      BY Zenon, <1>1, <1>2, <2>1 DEF LoopInv, LoopTyped, Still
<1>4. Pending'
    BY Zenon, <1>1 DEF LoopInv, Pending, Still
<1>5. Moving'
    BY Zenon, <1>1 DEF LoopInv, Moving, Still
<1>6. Spaced'
  <2> SUFFICES ASSUME spaced PROVE Spaced'
      BY Zenon, <1>1 DEF Spaced
  <2>1. ~StartDue /\ OneStart /\ served \in 0 .. sent /\ ~torn /\ sent \in Nat /\ sent = request
      BY Zenon, <1>1 DEF LoopInv, LoopTyped, Spaced, OneCall
  <2>2. ~StartDue' /\ OneStart' /\ at' # "params"
      BY Zenon, <1>1, <2>1 DEF StartDue, OneStart
  <2>3. callbacks' = {k}
      BY Zenon, <1>1
  <2>4. sent' < request' /\ sent' <= request'
      BY <1>1, <2>1
  <2>5. \A i : i \notin 1 .. k.written
      BY <1>2
  <2>6. OneCall'
      BY Zenon, <1>2, <2>3, <2>4, <2>5 DEF OneCall
  <2> QED
      BY Zenon, <1>1, <2>1, <2>2, <2>4, <2>6 DEF Spaced
<1> QED
    BY Zenon, <1>3, <1>4, <1>5, <1>6 DEF LoopInv

(* A field is written. *)
LEMMA LoopWrites ==
    ASSUME LoopInv, NEW k \in callbacks, set_start_game_params(k)
    PROVE  LoopInv'
<1> DEFINE f == Fields[k.written + 1]
           l == [k EXCEPT !.written = @ + 1]
<1>1. /\ UNCHANGED <<queue, at, game_start_task, request, sent, unread, seen, served, torn, spaced>>
      /\ Still /\ k.written < Len(Fields)
      /\ current' = [current EXCEPT ![f] = k.id] /\ callbacks' = (callbacks \ {k}) \cup {l}
    BY Zenon DEF set_start_game_params, Still, flags, motion, game, outside
<1>2. /\ k \in [id : Nat, written : 0 .. Len(Fields)] /\ current \in [FieldNames -> Nat]
      /\ Len(Fields) \in Nat
    BY Zenon, FieldsSome DEF LoopInv, LoopTyped
<1>3. /\ l \in [id : Nat, written : 0 .. Len(Fields)] /\ l.id = k.id /\ l.written = k.written + 1
      /\ k.id \in Nat /\ k.written \in 0 .. Len(Fields)
    BY <1>1, <1>2
<1>4. \A i \in 1 .. Len(Fields) : Fields[i] \in FieldNames
    BY FieldsSome DEF FieldNames
<1>5. LoopTyped'
  <2>1. current' \in [FieldNames -> Nat]
    <3> HIDE DEF f
    <3> QED
        BY Zenon, <1>1, <1>2, <1>3
  <2> HIDE DEF l
  <2> QED
      BY Zenon, <1>1, <1>3, <2>1 DEF LoopInv, LoopTyped, Still
<1>6. Pending'
    BY Zenon, <1>1 DEF LoopInv, Pending, Still
<1>7. Moving'
    BY Zenon, <1>1 DEF LoopInv, Moving, Still
<1>8. Spaced'
  <2> SUFFICES ASSUME spaced PROVE Spaced'
      BY Zenon, <1>1 DEF Spaced
  <2>1. ~StartDue /\ OneStart /\ OneCall /\ sent <= request /\ served \in 0 .. sent /\ ~torn
      BY Zenon DEF LoopInv, Spaced
  <2>2. ~StartDue' /\ OneStart' /\ at' # "params"
      BY Zenon, <1>1, <2>1 DEF StartDue, OneStart
  <2>3. /\ callbacks = {k} /\ k.id = request /\ sent < request
        /\ \A i \in 1 .. k.written : current[Fields[i]] = request
      BY Zenon, <2>1 DEF OneCall
  <2> HIDE DEF l
  <2>4. callbacks' = {l} /\ l.id = request'
      BY Zenon, <1>1, <1>3, <2>3
  <2>5. ASSUME NEW i \in 1 .. l.written PROVE current'[Fields[i]] = request'
    <3>1. Fields[i] \in FieldNames
        BY <1>1, <1>2, <1>3, <1>4
    <3>2. CASE i = k.written + 1
        BY Zenon, <1>1, <1>2, <2>3, <3>1, <3>2
    <3>3. CASE i \in 1 .. k.written
      <4>1. current[Fields[i]] = request
          BY Zenon, <2>3, <3>3
      <4> QED
          BY Zenon, <1>1, <1>2, <2>3, <3>1, <4>1
    <3> QED
        BY <1>3, <3>2, <3>3
  <2>6. OneCall'
      BY Zenon, <1>1, <2>3, <2>4, <2>5 DEF OneCall
  <2> QED
      BY Zenon, <1>1, <2>1, <2>2, <2>6 DEF Spaced
<1> QED
    BY Zenon, <1>5, <1>6, <1>7, <1>8 DEF LoopInv

(* The event of a request is pushed, when all is written. *)
LEMMA LoopSends ==
    ASSUME Counting, LoopInv, NEW k \in callbacks, message_bus_push(k)
    PROVE  LoopInv'
<1>1. /\ UNCHANGED <<at, game_start_task, current, request, unread, seen, served, torn, spaced>>
      /\ Still /\ k.written = Len(Fields) /\ callbacks' = callbacks \ {k}
      /\ sent' = (IF sent < k.id THEN k.id ELSE sent)
      /\ SDL_PushEvent("start_game")
    BY Zenon DEF message_bus_push, Still, flags, motion, game, outside
<1>2. LoopTyped /\ Pushed("start_game") /\ queue' \in Seq(Events)
    BY Zenon, <1>1, DoesPush DEF LoopInv, Pushed, Events
<1>3. /\ Count(queue', "start_game") = Count(queue, "start_game") + 1
      /\ Count(queue', "motion") = Count(queue, "motion")
      /\ Count(queue, "start_game") \in Nat
  <2>1. Count(queue', "start_game") = Count(queue, "start_game") + 1
      BY Zenon, <1>2, QueuePushed
  <2>2. Count(queue', "motion") = Count(queue, "motion") + 0
      BY Zenon, <1>2, QueuePushed
  <2> QED
      BY <1>2, <2>1, <2>2, Counts
<1>4. LoopTyped'
  <2>1. k.id \in Nat /\ sent \in Nat
      BY <1>2 DEF LoopTyped
  <2>2. sent' \in Nat
      BY Zenon, <1>1, <2>1
  <2> QED
      BY Zenon, <1>1, <1>2, <2>2 DEF LoopTyped, Still
<1>5. Pending'
    BY Zenon, <1>1 DEF LoopInv, Pending, Still
<1>6. Moving'
    BY Zenon, <1>1, <1>3, LoopStill
<1>7. Spaced'
  <2> SUFFICES ASSUME spaced PROVE Spaced'
      BY Zenon, <1>1 DEF Spaced
  <2>1. sent \in Nat /\ request \in Nat
      BY Zenon, <1>2 DEF LoopTyped
  <2>2. ~StartDue /\ OneCall /\ served \in 0 .. sent /\ ~torn
      BY Zenon DEF LoopInv, Spaced
  <2>3. at # "params" /\ ~game_start_task /\ Count(queue, "start_game") = 0
      BY <1>3, <2>2 DEF StartDue
  <2>4. OneStart' /\ at' # "params"
      BY <1>1, <1>3, <2>3 DEF OneStart
  <2>5. /\ callbacks = {k} /\ k.id = request /\ sent < request
        /\ \A i \in 1 .. k.written : current[Fields[i]] = request
      BY Zenon, <2>2 DEF OneCall
  <2>6. sent' = request' /\ callbacks' = {}
      BY Zenon, <1>1, <2>5
  <2>7. ASSUME NEW f \in FieldNames PROVE current'[f] = request'
    <3>1. PICK i \in DOMAIN Fields : f = Fields[i]
        BY Zenon DEF FieldNames
    <3>2. i \in 1 .. k.written
        BY <1>1, <3>1, FieldsSome
    <3> QED
        BY Zenon, <1>1, <2>5, <3>1, <3>2
  <2>8. OneCall'
      BY Zenon, <2>6, <2>7 DEF OneCall
  <2>9. sent' <= request' /\ served' \in 0 .. sent' /\ served' # sent'
      BY <1>1, <2>1, <2>2, <2>5, <2>6
  <2> QED
      BY Zenon, <1>1, <2>2, <2>4, <2>6, <2>8, <2>9 DEF Spaced
<1> QED
    BY Zenon, <1>4, <1>5, <1>6, <1>7 DEF LoopInv

(* The event is taken: the same start is due. *)
LEMMA LoopTakes ==
    ASSUME Counting, LoopInv, poll("start_game"), game_start_task' = TRUE,
           Still, UNCHANGED <<at, current, request, callbacks, sent, unread, seen, served, torn, spaced>>
    PROVE  LoopInv'
<1>1. LoopTyped /\ Taken("start_game") /\ queue' \in Seq(Events) /\ at = "poll"
    BY Zenon, DoesPoll DEF LoopInv, Taken, poll
<1>2. /\ Count(queue, "start_game") = Count(queue', "start_game") + 1
      /\ Count(queue', "motion") = Count(queue, "motion")
      /\ Count(queue', "start_game") \in Nat
  <2>1. Count(queue, "start_game") = Count(queue', "start_game") + 1
      BY Zenon, <1>1, QueueTaken
  <2>2. Count(queue, "motion") = Count(queue', "motion") + 0
      BY Zenon, <1>1, QueueTaken
  <2>3. Count(queue', "start_game") \in Nat /\ Count(queue', "motion") \in Nat
      BY Zenon, <1>1 DEF Counting
  <2> QED
      BY <2>1, <2>2, <2>3
<1>3. LoopTyped'
    BY Zenon, <1>1 DEF LoopTyped, Still
<1>4. Pending'
    BY Zenon DEF LoopInv, Pending, Still
<1>5. Moving'
    BY Zenon, <1>2, LoopStill
<1>6. Spaced'
  <2> SUFFICES ASSUME spaced PROVE Spaced'
      BY Zenon DEF Spaced
  <2>1. StartDue /\ Count(queue, "start_game") > 0
      BY <1>2 DEF StartDue
  <2>2. /\ callbacks = {} /\ served # sent /\ served \in 0 .. sent /\ OneCall
        /\ sent <= request /\ ~torn /\ Count(queue, "start_game") <= 1
      BY Zenon, <2>1 DEF LoopInv, Spaced, OneStart
  <2>3. OneStart' /\ at' # "params"
      BY <1>1, <1>2, <2>2 DEF OneStart
  <2>4. OneCall'
      BY Zenon, <2>2 DEF OneCall
  <2> QED
      BY Zenon, <2>2, <2>3, <2>4 DEF Spaced
<1> QED
    BY Zenon, <1>3, <1>4, <1>5, <1>6 DEF LoopInv

(* The loop starts the game, if it is to. *)
LEMMA LoopStarts ==
    ASSUME LoopInv, start_game
    PROVE  LoopInv'
<1>1. /\ UNCHANGED <<queue, current, request, callbacks, sent, served, torn, spaced>>
      /\ Still /\ at = "game" /\ game_start_task' = FALSE
      /\ IF game_start_task THEN at' = "params" /\ unread' = FieldNames /\ seen' = {}
                            ELSE at' = "motion" /\ UNCHANGED <<unread, seen>>
    BY Zenon DEF start_game, Still, motion, params, outside
<1>2. LoopTyped'
    BY Zenon, <1>1 DEF LoopInv, LoopTyped, Still
<1>3. Pending'
  <2>1. at' = "params" => unread' = FieldNames
      BY Zenon, <1>1
  <2> QED
      BY Zenon, <1>1, <2>1 DEF LoopInv, Pending, Still
<1>4. Moving'
    BY Zenon, <1>1, LoopStill
<1>5. Spaced'
  <2> SUFFICES ASSUME spaced PROVE Spaced'
      BY Zenon, <1>1 DEF Spaced
  <2>1. StartDue' => StartDue
      BY Zenon, <1>1 DEF StartDue
  <2>2. OneStart'
      BY Zenon, <1>1 DEF LoopInv, Spaced, OneStart
  <2>3. at' = "params" => seen' = {}
      BY Zenon, <1>1
  <2>4. OneCall' <=> OneCall
      BY Zenon, <1>1 DEF OneCall
  <2> QED
      BY Zenon, <1>1, <2>1, <2>2, <2>3, <2>4 DEF LoopInv, Spaced
<1> QED
    BY Zenon, <1>2, <1>3, <1>4, <1>5 DEF LoopInv

(* The guest reads a field, which nobody writes where guests wait. *)
LEMMA LoopReads ==
    ASSUME LoopInv, NEW f \in FieldNames, read_param(f)
    PROVE  LoopInv'
<1>1. /\ UNCHANGED <<queue, at, game_start_task, current, request, callbacks, sent, served, torn, spaced>>
      /\ Still /\ at = "params" /\ unread' = unread \ {f} /\ seen' = seen \cup {current[f]}
    BY Zenon DEF read_param, Still, flags, motion, params, outside
<1>2. LoopTyped'
    BY Zenon, <1>1 DEF LoopInv, LoopTyped, Still
<1>3. Pending'
    BY Zenon, <1>1 DEF LoopInv, Pending, Still
<1>4. Moving'
    BY Zenon, <1>1, LoopStill
<1>5. Spaced'
  <2> SUFFICES ASSUME spaced PROVE Spaced'
      BY Zenon, <1>1 DEF Spaced
  <2>1. StartDue /\ (StartDue' <=> StartDue) /\ (OneStart' <=> OneStart)
      BY Zenon, <1>1 DEF StartDue, OneStart
  <2>2. callbacks = {} /\ OneCall /\ seen \subseteq {request}
      BY Zenon, <1>1, <2>1 DEF LoopInv, Spaced
  <2>3. current[f] = request /\ OneCall'
      BY Zenon, <1>1, <2>2 DEF OneCall
  <2>4. seen' \subseteq {request'}
      BY Zenon, <1>1, <2>2, <2>3
  <2> QED
      BY Zenon, <1>1, <2>1, <2>3, <2>4 DEF LoopInv, Spaced
<1> QED
    BY Zenon, <1>2, <1>3, <1>4, <1>5 DEF LoopInv

(* All fields are read: of one request, where guests wait. *)
LEMMA LoopServed ==
    ASSUME Counting, LoopInv, game_started
    PROVE  LoopInv'
<1>1. /\ UNCHANGED <<queue, game_start_task, current, request, callbacks, sent, unread, seen, spaced>>
      /\ Still /\ at = "params" /\ unread = {} /\ at' = "motion"
      /\ served' = CHOOSE r \in seen : \A s \in seen : r <= s
      /\ torn' = (torn \/ Cardinality(seen) > 1)
    BY Zenon DEF game_started, Still, flags, motion, params, outside
<1>2. LoopTyped'
    BY Zenon, <1>1 DEF LoopInv, LoopTyped, Still
<1>3. Pending'
    BY Zenon, <1>1 DEF LoopInv, Pending, Still
<1>4. Moving'
    BY Zenon, <1>1, LoopStill
<1>5. Spaced'
  <2> SUFFICES ASSUME spaced PROVE Spaced'
      BY Zenon, <1>1 DEF Spaced
  <2>1. StartDue /\ request \in Nat /\ sent \in Nat
      BY Zenon, <1>1 DEF StartDue, LoopInv, LoopTyped
  <2>2. sent = request /\ OneStart /\ OneCall /\ seen \subseteq {request} /\ ~torn
      BY Zenon, <1>1, <2>1 DEF LoopInv, Spaced, OneCall
  <2>3. seen = {request}
    <3>1. seen # {}
        BY Zenon, <1>1, FieldsSome DEF LoopInv, Pending
    <3> QED
        BY Zenon, <2>2, <3>1
  <2>4. served' = request
    <3>1. \E r \in seen : \A s \in seen : r <= s
        BY <2>1, <2>3
    <3>2. served' \in seen
        BY Zenon, <1>1, <3>1
    <3> QED
        BY Zenon, <2>3, <3>2
  <2>5. ~torn'
    <3>1. Cardinality(seen) = 1
        BY Zenon, <2>3 DEF Counting
    <3>2. ~(Cardinality(seen) > 1)
        BY <3>1
    <3> QED
        BY Zenon, <1>1, <2>2, <3>2
  <2>6. ~StartDue'
    <3>1. ~game_start_task /\ ~(Count(queue, "start_game") > 0)
        BY Zenon, <1>1, <2>2 DEF OneStart
    <3> QED
        BY Zenon, <1>1, <3>1 DEF StartDue
  <2>7. OneStart'
      BY Zenon, <1>1, <2>2 DEF OneStart
  <2>8. sent' <= request' /\ served' \in 0 .. sent' /\ at' # "params"
    <3>1. sent' = sent /\ request' = request /\ at' # "params"
        BY Zenon, <1>1
    <3> QED
        BY <2>1, <2>2, <2>4, <3>1
  <2>9. OneCall'
      BY Zenon, <1>1, <2>2 DEF OneCall
  <2> QED
      BY Zenon, <2>5, <2>6, <2>7, <2>8, <2>9 DEF Spaced
<1> QED
    BY Zenon, <1>2, <1>3, <1>4, <1>5 DEF LoopInv

LEMMA LoopSteps ==
    ASSUME Counting, LoopInv, [LoopNext]_loop
    PROVE  LoopInv'
<1>1. CASE UNCHANGED loop
  <2>1. Calm /\ Still /\ Same /\ at' = at
      BY Zenon, <1>1 DEF loop, Calm, Still, Same, flags, motion, params, game, outside
  <2>2. queue' \in Seq(Events)
      BY Zenon, <2>1 DEF Same, LoopInv, LoopTyped
  <2> QED
      BY Zenon, <2>1, <2>2, QueueSame, LoopStill, LoopCalm
<1>2. CASE poll_quit \/ poll_motion \/ poll_window
  <2>1. /\ Calm /\ UNCHANGED <<at, passed, moved>>
        /\ \E e \in Events \ {"start_game"} :
              /\ poll(e)
              /\ e = "motion" => frame_del' = frame_del + 1 /\ mouse_motion_task' = TRUE
              /\ e # "motion" => UNCHANGED <<frame_del, mouse_motion_task>>
      BY Zenon, <1>2 DEF poll_quit, poll_motion, poll_window, Calm, Events,
                  flags, motion, params, game, outside
  <2> QED
      BY Zenon, <2>1, LoopPolls
<1>3. CASE poll_custom
  <2>1. /\ Still /\ UNCHANGED <<at, current, request, callbacks, sent, unread, seen, served, torn, spaced>>
        /\ \/ poll("startup") /\ UNCHANGED game_start_task
           \/ poll("start_game") /\ game_start_task' = TRUE
      BY Zenon, <1>3 DEF poll_custom, Still, motion, params, game, outside
  <2>2. CASE poll("startup") /\ UNCHANGED game_start_task
    <3>1. Calm /\ UNCHANGED <<at, passed, moved, frame_del, mouse_motion_task>>
        BY Zenon, <2>1, <2>2 DEF Calm, Still
    <3>2. "startup" \in Events \ {"start_game"} /\ "startup" # "motion"
        BY Zenon DEF Events
    <3> QED
        BY Zenon, <2>2, <3>1, <3>2, LoopPolls
  <2>3. CASE poll("start_game") /\ game_start_task' = TRUE
      BY Zenon, <2>1, <2>3, LoopTakes
  <2> QED
      BY Zenon, <2>1, <2>2, <2>3
<1>4. CASE Main
    BY Zenon, <1>2, <1>3, <1>4, LoopRests, LoopStarts, LoopReads, LoopServed, LoopMoves DEF Main
<1>5. CASE Caller
    BY Zenon, <1>5, LoopWrites, LoopSends DEF Caller
<1> QED
    BY Zenon, <1>1, <1>4, <1>5, LoopRequests, LoopEvents DEF LoopNext

(* Counting, from the theorems about finite sets. *)
INSTANCE FiniteSetTheorems

LEMMA HasFinite ==
    ASSUME NEW q \in Seq(Events), NEW e
    PROVE  IsFiniteSet(Has(q, e)) /\ Count(q, e) \in Nat
<1>1. IsFiniteSet(1 .. Len(q)) /\ Has(q, e) \in SUBSET (1 .. Len(q))
    BY FS_Interval DEF Has
<1>2. IsFiniteSet(Has(q, e))
    BY Zenon, <1>1, FS_Subset
<1> QED
    BY Zenon, <1>2, FS_CardinalityType DEF Count

LEMMA CountPushed ==
    ASSUME NEW q \in Seq(Events), NEW r \in Seq(Events), NEW e, NEW f, IsAppend(q, r, e)
    PROVE  Count(r, f) = Count(q, f) + (IF e = f THEN 1 ELSE 0)
<1>1. CASE e # f
  <2>1. Has(r, f) = Has(q, f)
      BY <1>1, HasPushed
  <2>2. Count(q, f) \in Nat
      BY Zenon, HasFinite
  <2>3. Count(r, f) = Count(q, f)
      BY Zenon, <2>1 DEF Count
  <2> QED
      BY <1>1, <2>2, <2>3
<1>2. CASE e = f
  <2>1. Has(r, f) = Has(q, f) \cup {Len(q) + 1} /\ Len(q) + 1 \notin Has(q, f)
      BY <1>2, HasPushed
  <2>2. IsFiniteSet(Has(q, f))
      BY Zenon, HasFinite
  <2>3. Cardinality(Has(q, f) \cup {Len(q) + 1}) = Cardinality(Has(q, f)) + 1
      BY Zenon, <2>1, <2>2, FS_AddElement
  <2>4. Count(r, f) = Count(q, f) + 1
      BY Zenon, <2>1, <2>3 DEF Count
  <2> QED
      BY Zenon, <1>2, <2>4
<1> QED
    BY Zenon, <1>1, <1>2

LEMMA CountPolled ==
    ASSUME NEW q \in Seq(Events), NEW r \in Seq(Events), NEW e, NEW f, IsTail(q, r, e)
    PROVE  Count(q, f) = Count(r, f) + (IF e = f THEN 1 ELSE 0)
<1> DEFINE S == Has(r, f)
           Q == Has(q, f)
           T == Q \ {1}
           g == Shift(S)
<1>1. OneToOne(g, S, T) /\ (1 \in Q <=> e = f)
    BY Zenon, HasPolled
<1>2. IsFiniteSet(S) /\ Count(r, f) \in Nat
    BY Zenon, HasFinite
<1>3. IsFiniteSet(Q) /\ Count(q, f) \in Nat
    BY Zenon, HasFinite
<1>4. Count(r, f) = Cardinality(S) /\ Count(q, f) = Cardinality(Q)
    BY Zenon DEF Count
<1> HIDE DEF S, Q, g
<1>5. g \in Bijection(S, T)
    BY Zenon, <1>1 DEF OneToOne, Bijection, Injection, Surjection, IsInjective
<1>6. Cardinality(T) = Cardinality(S)
    BY Zenon, <1>2, <1>5, FS_Bijection DEF ExistsBijection
<1>7. Cardinality(T) = IF 1 \in Q THEN Cardinality(Q) - 1 ELSE Cardinality(Q)
    BY Zenon, <1>3, FS_RemoveElement
<1> QED
    BY <1>1, <1>2, <1>3, <1>4, <1>6, <1>7

LEMMA Counted == Counting
<1>1. ASSUME NEW q \in Seq(Events), Len(q) = 0, NEW e PROVE Count(q, e) = 0
  <2>1. Has(q, e) = {}
      BY <1>1 DEF Has
  <2> QED
      BY Zenon, <2>1, FS_EmptySet DEF Count
<1>2. \A n : Cardinality({n}) = 1
    BY Zenon, FS_Singleton
<1> QED
    BY Zenon, <1>1, <1>2, HasFinite, CountPushed, CountPolled DEF Counting

(* For any fields, requests and events: no motion is lost or passed twice, *)
(* and guests that wait for one game to be started before they request the *)
(* next have theirs started with the parameters of one request, although   *)
(* these are written and read without a lock (main, set_start_game_params).*)
THEOREM InputsWhole == LoopSpec => []InputWhole
<1>1. LoopInv => InputWhole
  <2> SUFFICES ASSUME LoopInv PROVE MotionConserved /\ ParamsWhole
      BY Zenon DEF InputWhole
  <2>1. DOMAIN queue = 1 .. Len(queue)
      BY DEF LoopInv, LoopTyped
  <2>2. MotionConserved
      BY Zenon, <2>1 DEF LoopInv, Moving, MotionConserved, Count, Has
  <2>3. ParamsWhole
      BY Zenon DEF LoopInv, Spaced, ParamsWhole
  <2> QED
      BY Zenon, <2>2, <2>3
<1>2. LoopInit => LoopInv
    BY Zenon, Counted, LoopStart
<1>3. LoopInv /\ [LoopNext]_loop => LoopInv'
    BY Zenon, Counted, LoopSteps
<1> QED
    BY <1>1, <1>2, <1>3, PTL DEF LoopSpec
=============================================================================
