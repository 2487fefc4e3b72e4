-------------------------- MODULE PthreadMutexProofs --------------------------
(***************************************************************************)
(* Mutexes for any threads, mutexes and number of calls: one host mutex    *)
(* for each, and careful guests hold what they were told.                  *)
(***************************************************************************)
EXTENDS PthreadMutex, TLAPS

(***************************************************************************)
(* The thread that makes a host mutex has the guard, and stores the        *)
(* pointer before the host mutex is ready; host mutexes belong to one      *)
(* mutex each; the thread a host mutex belongs to has locked it.           *)
(***************************************************************************)
Ops == {"lock", "trylock", "unlock"}
Making == {"new", "construct"}
Hosted == [is : {"free", "raw", "live"}, kind : Kinds \cup {None},
           owner : Threads \cup {None}, count : Nat]
Called == [at : {"idle", "test", "guard", "read"} \cup Making \cup Ops, op : Ops \cup {None},
           m : Mutexes \cup {None}, h : Hosts \cup {None}]

MutexTyped ==
    /\ wrapped \in [Mutexes -> Hosts \cup {None}] /\ kind \in [Mutexes -> Kinds]
    /\ state \in [Mutexes -> {"static", "made", "destroyed"}]
    /\ host \in [Hosts -> Hosted]
    /\ guard \in Threads \cup {None} /\ held \in [Threads -> [Mutexes -> Nat]]
    /\ call \in [Threads -> Called]
    /\ mutex_calls \in 0 .. MutexCalls /\ fault \in {"none", "uninitialised"}

(* A mutex that is in use has not been destroyed.  The guard is with the   *)
(* thread that makes a host mutex, and the pointer is stored in between.   *)
CallOK(t) ==
    /\ call[t].at = "idle" => call[t] = Idle
    /\ call[t].at # "idle" => /\ call[t].m \in Mutexes /\ call[t].op \in Ops
                              /\ state[call[t].m] # "destroyed"
    /\ call[t].at \in Ops => call[t].at = call[t].op /\ call[t].h = wrapped[call[t].m]
    /\ call[t].at \notin Ops => call[t].h = None
    /\ call[t].at \in Ops \cup {"construct", "read"} => wrapped[call[t].m] # None
    /\ call[t].at = "new" => wrapped[call[t].m] = None
    /\ call[t].at = "construct" => host[wrapped[call[t].m]].is = "raw"
    /\ call[t].at \in Making <=> guard = t
    /\ call[t].at # "idle" /\ call[t].op = "unlock" => held[t][call[t].m] > 0

(* A mutex that exists has a host mutex of its own, which is ready, or     *)
(* about to be.                                                            *)
Has(m, h) == state[m] # "destroyed" /\ wrapped[m] = h

Constructing(m) == \E t \in Threads : call[t].at = "construct" /\ call[t].m = m

HostOK(m) == state[m] # "destroyed" /\ wrapped[m] # None =>
    /\ \/ host[wrapped[m]].is = "live" /\ host[wrapped[m]].kind = kind[m]
       \/ host[wrapped[m]].is = "raw" /\ Constructing(m)
    /\ \A n \in Mutexes : Has(n, wrapped[m]) => n = m

(* Every host mutex has its mutex, and an owner as long as it is locked. *)
OwnerOK(h) ==
    /\ host[h].is # "free" => \E m \in Mutexes : Has(m, h)
    /\ host[h].owner = None <=> host[h].count = 0
    /\ host[h].is # "live" => host[h].owner = None

(* A careful guest is alone with a mutex until it is made, locks again     *)
(* only recursive ones, and was told what the host did.                    *)
Alone(t, u) ==
    t # u /\ call[t].m = call[u].m /\ call[t].at # "idle" /\ call[u].at # "idle" =>
       wrapped[call[t].m] # None /\ call[t].at \notin Making /\ call[u].at \notin Making

Relocks(t) == call[t].at # "idle" /\ call[t].op = "lock" =>
    held[t][call[t].m] = 0 \/ kind[call[t].m] = "recursive"

HeldOK(t, m) == held[t][m] =
    IF state[m] # "destroyed" /\ wrapped[m] # None /\ host[wrapped[m]].owner = t
    THEN host[wrapped[m]].count ELSE 0

CallsOK == \A t \in Threads : CallOK(t)
HostsOK == (\A m \in Mutexes : HostOK(m)) /\ (\A h \in Hosts : OwnerOK(h))
CarefulOK == careful =>
    /\ \A t, u \in Threads : Alone(t, u)
    /\ \A t \in Threads : Relocks(t)
    /\ \A t \in Threads, m \in Mutexes : HeldOK(t, m)
    /\ fault = "none"

MutexInv == MutexTyped /\ CallsOK /\ HostsOK /\ CarefulOK

(* Updates of one field. *)
LEMMA CalledAt ==
    ASSUME NEW r \in Called, NEW place \in {"guard", "new", "construct", "read"}
    PROVE  [r EXCEPT !.at = place] \in Called
BY Zenon DEF Called, Making

LEMMA HostedRaw ==
    ASSUME NEW r \in Hosted
    PROVE  [r EXCEPT !.is = "raw"] \in Hosted
BY Zenon DEF Hosted

Gets(r, o, n) == [r EXCEPT !.owner = o, !.count = n]

LEMMA HostedBy ==
    ASSUME NEW r \in Hosted, NEW o \in Threads \cup {None}, NEW n \in Nat
    PROVE  /\ Gets(r, o, n) \in Hosted /\ Gets(r, o, n).is = r.is
           /\ Gets(r, o, n).kind = r.kind
           /\ Gets(r, o, n).owner = o /\ Gets(r, o, n).count = n
BY Zenon DEF Hosted, Gets

LEMMA NoneApart == None \notin Threads \cup Hosts /\ MutexCalls \in Nat
BY Zenon, MutexAssumption

(* A thread inside a call. *)
LEMMA InCall ==
    ASSUME MutexInv, NEW t \in Threads, call[t].at # "idle"
    PROVE  /\ call[t] \in Called
           /\ call[t].m \in Mutexes /\ call[t].op \in Ops /\ state[call[t].m] # "destroyed"
           /\ call[t].at \in Ops => /\ call[t].at = call[t].op /\ call[t].h = wrapped[call[t].m]
                                    /\ call[t].h \in Hosts
<1>1. call[t] \in Called
    BY Zenon DEF MutexInv, MutexTyped
<1>2. call[t].at \in Ops => wrapped[call[t].m] \in Hosts
    BY Zenon DEF MutexInv, MutexTyped, CallsOK, CallOK
<1> QED
    BY Zenon, <1>1, <1>2 DEF MutexInv, CallsOK, CallOK

(* A thread that does not move, while its mutex stays as it is. *)
LEMMA CallKept ==
    ASSUME MutexInv, NEW u \in Threads, call'[u] = call[u], guard' = u <=> guard = u,
           call[u].at # "idle" => /\ wrapped'[call[u].m] = wrapped[call[u].m]
                                  /\ state'[call[u].m] # "destroyed"
                                  /\ held'[u] = held[u],
           call[u].at = "construct" => host'[wrapped[call[u].m]].is = "raw"
    PROVE  CallOK(u)'
<1>1. CallOK(u)
    BY Zenon DEF MutexInv, CallsOK
<1> QED
    BY Zenon, <1>1 DEF CallOK, Making, Ops

(* A thread goes on, and everything else stays. *)
Stay == UNCHANGED <<wrapped, kind, state, host, held, fault, careful>>

LEMMA MutexMoves ==
    ASSUME MutexInv, NEW t \in Threads, Stay, call' = [call EXCEPT ![t] = call'[t]],
           call'[t] \in Called, mutex_calls' \in 0 .. MutexCalls, guard' \in Threads \cup {None},
           \A u \in Threads : u # t => (guard' = u <=> guard = u),
           call[t].at # "construct", call'[t].at # "construct",
           CallOK(t)', careful => Relocks(t)' /\ \A u \in Threads : Alone(t, u)'
    PROVE  MutexInv'
<1> USE DEF Stay
<1>1. \A u \in Threads : u # t => call'[u] = call[u]
    BY Zenon DEF MutexInv, MutexTyped
<1>2. MutexTyped'
    BY Zenon DEF MutexInv, MutexTyped
<1>3. CallsOK'
  <2>1. ASSUME NEW u \in Threads, u # t PROVE CallOK(u)'
    <3>1. CallOK(u)
        BY Zenon DEF MutexInv, CallsOK
    <3> QED
        BY Zenon, <1>1, <2>1, <3>1, CallKept DEF CallOK
  <2> QED
      BY Zenon, <2>1 DEF CallsOK
<1>4. HostsOK'
  <2>1. ASSUME NEW m \in Mutexes PROVE HostOK(m)'
    <3>1. HostOK(m)
        BY Zenon DEF MutexInv, HostsOK
    <3>2. Constructing(m) => Constructing(m)'
        BY Zenon, <1>1 DEF Constructing
    <3> QED
        BY Zenon, <3>1, <3>2 DEF HostOK, Has
  <2>2. ASSUME NEW h \in Hosts PROVE OwnerOK(h)'
    <3>1. OwnerOK(h)
        BY Zenon DEF MutexInv, HostsOK
    <3> QED
        BY Zenon, <3>1 DEF OwnerOK, Has
  <2> QED
      BY Zenon, <2>1, <2>2 DEF HostsOK
<1>5. CarefulOK'
  <2> SUFFICES ASSUME careful PROVE CarefulOK'
      BY Zenon DEF CarefulOK
  <2>1. ASSUME NEW u \in Threads, NEW w \in Threads PROVE Alone(u, w)'
    <3>1. CASE u = t \/ w = t
        BY <3>1 DEF Alone
    <3>2. CASE u # t /\ w # t
      <4>1. Alone(u, w)
          BY Zenon DEF MutexInv, CarefulOK
      <4> QED
          BY Zenon, <1>1, <3>2, <4>1 DEF Alone
    <3> QED
        BY Zenon, <3>1, <3>2
  <2>2. ASSUME NEW u \in Threads, u # t PROVE Relocks(u)'
      BY Zenon, <1>1, <2>2 DEF MutexInv, CarefulOK, Relocks
  <2>3. \A u \in Threads, m \in Mutexes : HeldOK(u, m)'
      BY Zenon DEF MutexInv, CarefulOK, HeldOK
  <2>4. fault' = "none"
      BY Zenon DEF MutexInv, CarefulOK
  <2> QED
      BY Zenon, <2>1, <2>2, <2>3, <2>4 DEF CarefulOK
<1> QED
    BY Zenon, <1>2, <1>3, <1>4, <1>5 DEF MutexInv

(* A thread enters a function. *)
LEMMA MutexEnters ==
    ASSUME MutexInv, NEW t \in Threads, NEW op \in Ops, NEW m \in Mutexes, enter(t, op, m)
    PROVE  MutexInv'
<1> DEFINE c == [at |-> "test", op |-> op, m |-> m, h |-> None]
<1>1. /\ call[t].at = "idle" /\ mutex_calls < MutexCalls /\ mutex_calls' = mutex_calls + 1
      /\ call' = [call EXCEPT ![t] = c] /\ Stay /\ UNCHANGED guard
      /\ state[m] # "destroyed" /\ (op = "unlock" => held[t][m] > 0)
    BY Zenon DEF enter, CallAt, Polite, Stay
<1>2. call'[t] = c /\ c \in Called
    BY Zenon, <1>1 DEF MutexInv, MutexTyped, Called
<1>3. mutex_calls' \in 0 .. MutexCalls
    BY <1>1, NoneApart DEF MutexInv, MutexTyped
<1>4. CallOK(t)'
  <2>1. CallOK(t)
      BY Zenon DEF MutexInv, CallsOK
  <2>2. guard # t
      BY Zenon, <1>1, <2>1 DEF CallOK, Making
  <2>3. /\ call'[t].at = "test" /\ call'[t].op = op
        /\ call'[t].m = m /\ call'[t].h = None
      BY <1>2
  <2> QED
      BY Zenon, <1>1, <2>2, <2>3 DEF CallOK, Stay, Making, Ops
<1>5. ASSUME careful PROVE Relocks(t)' /\ \A u \in Threads : Alone(t, u)'
  <2>1. op = "lock" => held[t][m] = 0 \/ kind[m] = "recursive"
    <3>1. held[t][m] \in Nat
        BY Zenon DEF MutexInv, MutexTyped
    <3>2. op = "lock" /\ held[t][m] > 0 => kind[m] = "recursive"
        BY <1>5, Zenon DEF enter, Polite
    <3> QED
        BY <3>1, <3>2
  <2>2. ASSUME NEW u \in Threads, u # t, call[u].m = m
        PROVE  wrapped[m] # None /\ call[u].at \notin Making
      BY Zenon, <1>5, <2>2 DEF enter, Polite, Users, Past, is_mutex_initialized, Making
  <2>3. \A u \in Threads : u # t => call'[u] = call[u]
      BY Zenon, <1>1 DEF MutexInv, MutexTyped
  <2>4. call'[t].at = "test" /\ call'[t].op = op /\ call'[t].m = m
      BY <1>2
  <2>5. Relocks(t)'
      BY Zenon, <1>1, <2>1, <2>4 DEF Relocks, Stay
  <2>6. ASSUME NEW u \in Threads PROVE Alone(t, u)'
      BY Zenon, <1>1, <2>2, <2>3, <2>4 DEF Alone, Stay, Making
  <2> QED
      BY Zenon, <2>5, <2>6
<1>6. guard' \in Threads \cup {None}
    BY Zenon, <1>1 DEF MutexInv, MutexTyped
<1>7. /\ call' = [call EXCEPT ![t] = call'[t]] /\ call'[t] \in Called
      /\ call[t].at # "construct" /\ call'[t].at # "construct"
  <2>1. call'[t].at = "test"
      BY <1>2
  <2>2. call' = [call EXCEPT ![t] = call'[t]] /\ call'[t] \in Called
    <3> HIDE DEF c
    <3> QED
        BY Zenon, <1>1, <1>2
  <2> QED
      BY Zenon, <1>1, <2>1, <2>2
<1> HIDE DEF c
<1> QED
    BY Zenon, <1>1, <1>3, <1>4, <1>5, <1>6, <1>7, MutexMoves

(* The tests: without a lock, and under the guard. *)
LEMMA MutexTests ==
    ASSUME MutexInv, NEW t \in Threads, mutex_to_host(t) \/ mutex_static_initializer(t)
    PROVE  MutexInv'
<1>1. /\ call[t].at \in {"test", "guard"} /\ Stay /\ UNCHANGED mutex_calls
      /\ guard' \in {guard, t}
    BY Zenon DEF mutex_to_host, mutex_static_initializer, CallAt, Stay
<1>2. PICK place \in {"guard", "new", "read"} :
         /\ call' = [call EXCEPT ![t].at = place]
         /\ place = "read" <=> wrapped[call[t].m] # None
         /\ guard' = IF place = "new" THEN t ELSE guard
         /\ place = "new" => guard = None
    BY Zenon DEF mutex_to_host, mutex_static_initializer, CallGoto, is_mutex_initialized
<1>3. call[t] \in Called /\ call[t].m \in Mutexes
    BY Zenon, <1>1, InCall
<1>4. /\ call'[t] \in Called /\ call' = [call EXCEPT ![t] = call'[t]]
      /\ call'[t].at = place /\ call'[t].op = call[t].op
      /\ call'[t].m = call[t].m /\ call'[t].h = call[t].h
  <2>1. call \in [Threads -> Called]
      BY Zenon DEF MutexInv, MutexTyped
  <2>2. /\ call'[t] = [call[t] EXCEPT !.at = place]
        /\ call' = [call EXCEPT ![t] = [call[t] EXCEPT !.at = place]]
      BY Zenon, <1>2, <2>1
  <2>3. call'[t] \in Called
    <3>1. [call[t] EXCEPT !.at = place] \in Called
        BY Zenon, <1>3, CalledAt
    <3> QED
        BY Zenon, <2>2, <3>1
  <2>4. /\ call'[t].at = place /\ call'[t].op = call[t].op
        /\ call'[t].m = call[t].m /\ call'[t].h = call[t].h
      BY Zenon, <1>3, <2>2 DEF Called
  <2> QED
      BY Zenon, <2>2, <2>3, <2>4
<1>5. CallOK(t)'
  <2>1. CallOK(t)
      BY Zenon DEF MutexInv, CallsOK
  <2> QED
      BY Zenon, <1>1, <1>2, <1>4, <2>1 DEF CallOK, Stay, Making, Ops
<1>6. ASSUME careful PROVE Relocks(t)' /\ \A u \in Threads : Alone(t, u)'
  <2>1. Relocks(t) /\ \A u \in Threads : Alone(t, u)
      BY Zenon, <1>6 DEF MutexInv, CarefulOK
  <2>2. \A u \in Threads : u # t => call'[u] = call[u]
      BY Zenon, <1>4 DEF MutexInv, MutexTyped
  <2> QED
      BY <1>1, <1>2, <1>4, <2>1, <2>2 DEF Relocks, Alone, Stay, Making
<1>7. /\ mutex_calls' \in 0 .. MutexCalls /\ guard' \in Threads \cup {None}
      /\ \A u \in Threads : u # t => (guard' = u <=> guard = u)
    BY Zenon, <1>1, <1>2, NoneApart DEF MutexInv, MutexTyped
<1> QED
    BY Zenon, <1>1, <1>4, <1>5, <1>6, <1>7, MutexMoves

(* to_host returns the pointer. *)
LEMMA MutexReads ==
    ASSUME MutexInv, NEW t \in Threads, return_wrapped(t)
    PROVE  MutexInv'
<1>1. call[t].at = "read" /\ Stay /\ UNCHANGED <<guard, mutex_calls>>
    BY Zenon DEF return_wrapped, CallAt, Stay
<1>2. /\ call[t] \in Called /\ call[t].m \in Mutexes /\ call[t].op \in Ops
      /\ wrapped[call[t].m] \in Hosts
  <2>1. wrapped[call[t].m] # None
      BY Zenon, <1>1 DEF MutexInv, CallsOK, CallOK
  <2> QED
      BY Zenon, <1>1, <2>1, InCall DEF MutexInv, MutexTyped
<1>3. /\ call' = [call EXCEPT ![t] = call'[t]] /\ call'[t] \in Called
      /\ call'[t].at = call[t].op /\ call'[t].op = call[t].op
      /\ call'[t].m = call[t].m /\ call'[t].h = wrapped[call[t].m]
  <2>1. call \in [Threads -> Called]
      BY Zenon DEF MutexInv, MutexTyped
  <2>2. /\ call'[t] = [call[t] EXCEPT !.at = call[t].op, !.h = wrapped[call[t].m]]
        /\ call' = [call EXCEPT ![t] = call'[t]]
      BY Zenon, <2>1 DEF return_wrapped
  <2>3. call'[t] \in Called
      BY Zenon, <1>2, <2>2 DEF Called
  <2> QED
      BY Zenon, <1>2, <2>2, <2>3 DEF Called
<1>4. call[t].op \notin {"idle", "new", "construct", "read"}
    BY Zenon, <1>2 DEF Ops
<1>5. CallOK(t)'
  <2>1. CallOK(t)
      BY Zenon DEF MutexInv, CallsOK
  <2>2. guard # t /\ (call[t].op = "unlock" => held[t][call[t].m] > 0)
      BY Zenon, <1>1, <2>1 DEF CallOK, Making
  <2>3. wrapped[call[t].m] # None /\ state[call[t].m] # "destroyed"
      BY Zenon, <1>1, <2>1 DEF CallOK
  <2> QED
      BY Zenon, <1>1, <1>2, <1>3, <1>4, <2>2, <2>3 DEF CallOK, Stay, Making
<1>6. ASSUME careful PROVE Relocks(t)' /\ \A u \in Threads : Alone(t, u)'
  <2>1. Relocks(t) /\ \A u \in Threads : Alone(t, u)
      BY Zenon, <1>6 DEF MutexInv, CarefulOK
  <2>2. \A u \in Threads : u # t => call'[u] = call[u]
      BY Zenon, <1>3 DEF MutexInv, MutexTyped
  <2>3. Relocks(t)'
      BY Zenon, <1>1, <1>3, <2>1 DEF Relocks, Stay
  <2>4. ASSUME NEW u \in Threads PROVE Alone(t, u)'
      BY Zenon, <1>1, <1>3, <1>4, <2>1, <2>2 DEF Alone, Stay, Making
  <2> QED
      BY Zenon, <2>3, <2>4
<1>7. /\ mutex_calls' \in 0 .. MutexCalls /\ guard' \in Threads \cup {None}
      /\ call'[t].at # "construct"
    BY Zenon, <1>1, <1>2, <1>3 DEF MutexInv, MutexTyped, Ops
<1> QED
    BY Zenon, <1>1, <1>3, <1>5, <1>6, <1>7, MutexMoves

(***************************************************************************)
(* A call comes back.  Host mutexes keep their state and kind, and the     *)
(* thread's own may have another owner.                                    *)
(***************************************************************************)
LEMMA MutexReturns ==
    ASSUME MutexInv, NEW t \in Threads, call[t].at \in Ops, Return(t), NEW h \in Hosts,
           UNCHANGED <<wrapped, kind, state, guard, mutex_calls, fault, careful>>,
           host' \in [Hosts -> Hosted], held' \in [Threads -> [Mutexes -> Nat]],
           \A g \in Hosts : host'[g].is = host[g].is /\ host'[g].kind = host[g].kind,
           \A g \in Hosts : g # h => host'[g] = host[g],
           \A u \in Threads : u # t => held'[u] = held[u],
           OwnerOK(h)',
           careful => \A u \in Threads, m \in Mutexes : HeldOK(u, m)'
    PROVE  MutexInv'
<1>1. /\ call'[t] = Idle /\ call' \in [Threads -> Called]
      /\ \A u \in Threads : u # t => call'[u] = call[u]
  <2>1. call \in [Threads -> Called]
      BY Zenon DEF MutexInv, MutexTyped
  <2>2. Idle \in Called
      BY Zenon DEF Idle, Called
  <2> QED
      BY Zenon, <2>1, <2>2 DEF Return
<1>2. /\ call[t].at # "idle" /\ call[t].at \notin Making /\ guard # t
      /\ call'[t].at = "idle" /\ call'[t].h = None
  <2>1. guard = t => call[t].at \in Making
      BY Zenon DEF MutexInv, CallsOK, CallOK
  <2>2. call'[t].at = "idle" /\ call'[t].h = None
    <3>1. call'[t] = Idle
        BY Zenon, <1>1
    <3> QED
        BY <3>1 DEF Idle
  <2> QED
      BY Zenon, <2>1, <2>2 DEF Ops, Making
<1>3. MutexTyped'
    BY Zenon, <1>1 DEF MutexInv, MutexTyped
<1>4. CallsOK'
  <2>1. CallOK(t)'
      BY Zenon, <1>1, <1>2 DEF CallOK, Ops, Making
  <2>2. ASSUME NEW u \in Threads, u # t PROVE CallOK(u)'
    <3>1. CallOK(u)
        BY Zenon DEF MutexInv, CallsOK
    <3>2. call[u].at = "construct" =>
             wrapped[call[u].m] \in Hosts /\ host[wrapped[call[u].m]].is = "raw"
      <4>1. wrapped \in [Mutexes -> Hosts \cup {None}]
          BY Zenon DEF MutexInv, MutexTyped
      <4> QED
          BY Zenon, <3>1, <4>1 DEF CallOK
    <3>3. call[u].at # "idle" => state[call[u].m] # "destroyed"
        BY Zenon, <3>1 DEF CallOK
    <3> QED
        BY Zenon, <1>1, <2>2, <3>2, <3>3, CallKept
  <2> QED
      BY Zenon, <2>1, <2>2 DEF CallsOK
<1>5. HostsOK'
  <2>1. ASSUME NEW m \in Mutexes PROVE HostOK(m)'
    <3>1. HostOK(m) /\ wrapped[m] \in Hosts \cup {None}
        BY Zenon DEF MutexInv, HostsOK, MutexTyped
    <3>2. Constructing(m) => Constructing(m)'
        BY Zenon, <1>1 DEF Constructing, Ops
    <3> QED
        BY Zenon, <3>1, <3>2 DEF HostOK, Has
  <2>2. ASSUME NEW g \in Hosts, g # h PROVE OwnerOK(g)'
    <3>1. OwnerOK(g)
        BY Zenon DEF MutexInv, HostsOK
    <3>2. host'[g] = host[g]
        BY Zenon, <2>2
    <3> QED
        BY Zenon, <3>1, <3>2 DEF OwnerOK, Has
  <2> QED
      BY Zenon, <2>1, <2>2 DEF HostsOK
<1>6. CarefulOK'
  <2> SUFFICES ASSUME careful PROVE CarefulOK'
      BY Zenon DEF CarefulOK
  <2>1. ASSUME NEW u \in Threads, NEW w \in Threads PROVE Alone(u, w)'
    <3>1. Alone(u, w)
        BY Zenon DEF MutexInv, CarefulOK
    <3> QED
        BY Zenon, <1>1, <1>2, <3>1 DEF Alone
  <2>2. ASSUME NEW u \in Threads PROVE Relocks(u)'
    <3>1. Relocks(u)
        BY Zenon DEF MutexInv, CarefulOK
    <3> QED
        BY Zenon, <1>1, <1>2, <3>1 DEF Relocks
  <2>3. fault' = "none"
      BY Zenon DEF MutexInv, CarefulOK
  <2> QED
      BY Zenon, <2>1, <2>2, <2>3 DEF CarefulOK
<1> QED
    BY Zenon, <1>3, <1>4, <1>5, <1>6 DEF MutexInv

(* The host left everything as it was, and the thread was told nothing     *)
(* new, or is one of a careless guest.                                     *)
LEMMA MutexAsBefore ==
    ASSUME MutexInv, NEW t \in Threads, call[t].at \in Ops, Return(t),
           UNCHANGED <<wrapped, kind, state, host, guard, mutex_calls, fault, careful>>,
           held' \in [Threads -> [Mutexes -> Nat]],
           \A u \in Threads : u # t => held'[u] = held[u],
           careful => held' = held
    PROVE  MutexInv'
<1> PICK h \in Hosts : h = call[t].h
    BY Zenon, InCall DEF Ops
<1>1. OwnerOK(h)'
  <2>1. OwnerOK(h)
      BY Zenon DEF MutexInv, HostsOK
  <2> QED
      BY Zenon, <2>1 DEF OwnerOK, Has
<1>2. careful => \A u \in Threads, m \in Mutexes : HeldOK(u, m)'
    BY DEF MutexInv, CarefulOK, HeldOK
<1>3. host' \in [Hosts -> Hosted]
    BY Zenon DEF MutexInv, MutexTyped
<1> QED
    BY Zenon, <1>1, <1>2, <1>3, MutexReturns

(* The mutex has the owner o, n times, and the thread is told so. *)
LEMMA MutexChanges ==
    ASSUME MutexInv, NEW t \in Threads, call[t].at \in Ops, Return(t),
           NEW o \in {None, t}, NEW n \in Nat, NEW d \in Nat, o = None <=> n = 0,
           host[call[t].h].is = "live", host[call[t].h].owner \in {None, t},
           host' = [host EXCEPT ![call[t].h].owner = o, ![call[t].h].count = n],
           Told(t, d), careful => d = n,
           UNCHANGED <<wrapped, kind, state, guard, mutex_calls, fault, careful>>
    PROVE  MutexInv'
<1> PICK h \in Hosts : h = call[t].h
    BY Zenon, InCall DEF Ops
<1> PICK m \in Mutexes : m = call[t].m
    BY Zenon, InCall DEF Ops
<1>1. Has(m, h)
    BY Zenon, InCall DEF Ops, Has
<1>2. /\ host' \in [Hosts -> Hosted]
      /\ host'[h].is = "live" /\ host'[h].kind = host[h].kind
      /\ host'[h].owner = o /\ host'[h].count = n
      /\ \A g \in Hosts : g # h => host'[g] = host[g]
  <2>1. host \in [Hosts -> Hosted] /\ o \in Threads \cup {None}
      BY Zenon DEF MutexInv, MutexTyped
  <2>2. host'[h] = Gets(host[h], o, n)
      BY Zenon, <2>1 DEF Gets
  <2>3. host[h] \in Hosted
      BY Zenon, <2>1
  <2>4. /\ Gets(host[h], o, n) \in Hosted /\ Gets(host[h], o, n).is = host[h].is
        /\ Gets(host[h], o, n).kind = host[h].kind
        /\ Gets(host[h], o, n).owner = o /\ Gets(host[h], o, n).count = n
      BY <2>1, <2>3, HostedBy
  <2>5. /\ host'[h] \in Hosted /\ host'[h].is = "live" /\ host'[h].kind = host[h].kind
        /\ host'[h].owner = o /\ host'[h].count = n
      BY Zenon, <2>2, <2>4
  <2>6. /\ host' = [host EXCEPT ![h] = host'[h]]
        /\ \A g \in Hosts : g # h => host'[g] = host[g]
      BY Zenon, <2>1
  <2>7. host' \in [Hosts -> Hosted]
      BY Zenon, <2>1, <2>5, <2>6
  <2> QED
      BY Zenon, <2>5, <2>6, <2>7
<1>3. /\ held' \in [Threads -> [Mutexes -> Nat]] /\ held'[t][m] = d
      /\ \A k \in Mutexes : k # m => held'[t][k] = held[t][k]
      /\ \A u \in Threads : u # t => held'[u] = held[u]
    BY Zenon DEF Told, MutexInv, MutexTyped
<1>4. \A k \in Mutexes : Has(k, h) => k = m
  <2>1. HostOK(m) /\ h # None
      BY Zenon, NoneApart DEF MutexInv, HostsOK
  <2> QED
      BY Zenon, <1>1, <2>1 DEF HostOK, Has
<1>5. ASSUME careful, NEW u \in Threads, NEW k \in Mutexes PROVE HeldOK(u, k)'
  <2>1. HeldOK(u, k)
      BY Zenon, <1>5 DEF MutexInv, CarefulOK
  <2>2. CASE k = m
    <3>1. state'[k] # "destroyed" /\ wrapped'[k] = h /\ h # None /\ u # None
        BY Zenon, <1>1, <2>2, NoneApart DEF Has
    <3>2. held'[u][k] = IF o = u THEN n ELSE 0
      <4>1. CASE u = t
          BY Zenon, <1>3, <1>5, <2>2, <4>1, NoneApart
      <4>2. CASE u # t
        <5>1. held[u][k] = 0
            BY Zenon, <1>1, <2>1, <2>2, <4>2, <3>1 DEF HeldOK
        <5> QED
            BY Zenon, <1>3, <3>1, <4>2, <5>1
      <4> QED
          BY Zenon, <4>1, <4>2
    <3> QED
        BY Zenon, <1>2, <3>1, <3>2 DEF HeldOK
  <2>3. CASE k # m
    <3>1. state[k] # "destroyed" /\ wrapped[k] # None => wrapped[k] \in Hosts /\ wrapped[k] # h
        BY Zenon, <1>4, <2>3 DEF Has, MutexInv, MutexTyped
    <3>2. held'[u][k] = held[u][k]
        BY Zenon, <1>3, <2>3
    <3> QED
        BY Zenon, <1>2, <2>1, <3>1, <3>2 DEF HeldOK
  <2> QED
      BY Zenon, <2>2, <2>3
<1>6. OwnerOK(h)'
  <2>1. Has(m, h)'
      BY Zenon, <1>1 DEF Has
  <2> QED
      BY Zenon, <1>2, <2>1 DEF OwnerOK
<1>7. \A g \in Hosts : host'[g].is = host[g].is /\ host'[g].kind = host[g].kind
    BY Zenon, <1>2
<1> QED
    BY Zenon, <1>2, <1>3, <1>5, <1>6, <1>7, MutexReturns

(* One mutex gets another host mutex, or loses it, while nobody uses it. *)
LEMMA MutexRemade ==
    ASSUME MutexInv, NEW m \in Mutexes, NEW g \in Hosts \cup {None}, MutexTyped',
           UNCHANGED <<guard, call, held, fault, careful>>,
           \A u \in Threads : call[u].at # "idle" => call[u].m # m,
           careful => \A u \in Threads : held[u][m] = 0,
           \A k \in Mutexes : k # m =>
              /\ wrapped'[k] = wrapped[k] /\ kind'[k] = kind[k] /\ state'[k] = state[k]
              /\ g # None => ~Has(k, g),
           \A h \in Hosts : h # g => host'[h] = host[h] /\ ~Has(m, h) /\ ~Has(m, h)',
           g # None => /\ host'[g].owner = None /\ host'[g].count = 0
                       /\ host'[g].is # "free" => Has(m, g)'
                       /\ Has(m, g)' => host'[g].is = "live" /\ host'[g].kind = kind'[m]
    PROVE  MutexInv'
<1>1. CallsOK'
  <2>1. ASSUME NEW u \in Threads PROVE CallOK(u)'
    <3>1. CallOK(u)
        BY Zenon DEF MutexInv, CallsOK
    <3>2. CASE call[u].at = "idle"
        BY Zenon, <3>1, <3>2 DEF CallOK, Making, Ops
    <3>3. CASE call[u].at # "idle"
      <4>1. call[u].m \in Mutexes /\ call[u].m # m /\ state[call[u].m] # "destroyed"
          BY Zenon, <3>1, <3>3 DEF CallOK
      <4>2. wrapped[call[u].m] # g \/ g = None
          BY Zenon, <4>1 DEF Has
      <4>3. call[u].at = "construct" => host'[wrapped[call[u].m]].is = "raw"
        <5>1. call[u].at = "construct" =>
                 host[wrapped[call[u].m]].is = "raw" /\ wrapped[call[u].m] # None
            BY Zenon, <3>1 DEF CallOK
        <5>2. wrapped[call[u].m] \in Hosts \cup {None}
            BY Zenon, <4>1 DEF MutexInv, MutexTyped
        <5> QED
            BY Zenon, <4>2, <5>1, <5>2
      <4> QED
          BY Zenon, <3>1, <4>1, <4>3, CallKept
    <3> QED
        BY Zenon, <3>2, <3>3
  <2> QED
      BY Zenon, <2>1 DEF CallsOK
<1>2. ASSUME NEW k \in Mutexes, k # m PROVE HostOK(k)'
  <2>1. HostOK(k) /\ wrapped[k] \in Hosts \cup {None}
      BY Zenon DEF MutexInv, HostsOK, MutexTyped
  <2>2. Constructing(k) => Constructing(k)'
      BY Zenon DEF Constructing
  <2>3. /\ wrapped'[k] = wrapped[k] /\ kind'[k] = kind[k] /\ state'[k] = state[k]
        /\ g # None => ~Has(k, g)
      BY Zenon, <1>2
  <2> SUFFICES ASSUME state'[k] # "destroyed", wrapped'[k] # None PROVE HostOK(k)'
      BY Zenon DEF HostOK
  <2>4. wrapped[k] \in Hosts /\ wrapped[k] # g
      BY Zenon, <2>1, <2>3 DEF Has
  <2>5. host'[wrapped[k]] = host[wrapped[k]] /\ ~Has(m, wrapped[k])'
    <3>1. PICK h \in Hosts : h = wrapped[k]
        BY Zenon, <2>4
    <3>2. host'[h] = host[h] /\ ~(state'[m] # "destroyed" /\ wrapped'[m] = h)
        BY Zenon, <2>4, <3>1 DEF Has
    <3> QED
        BY Zenon, <2>3, <3>1, <3>2 DEF Has
  <2>6. \A n \in Mutexes : Has(n, wrapped[k])' => n = k
    <3> SUFFICES ASSUME NEW n \in Mutexes, Has(n, wrapped[k])' PROVE n = k
        OBVIOUS
    <3>1. n # m
        BY Zenon, <2>5
    <3>2. Has(n, wrapped[k])
        BY Zenon, <2>3, <3>1 DEF Has
    <3> QED
        BY Zenon, <2>1, <2>3, <2>4, <3>2 DEF HostOK
  <2> QED
      BY Zenon, <2>1, <2>2, <2>3, <2>5, <2>6 DEF HostOK
<1>3. HostOK(m)'
  <2> SUFFICES ASSUME state'[m] # "destroyed", wrapped'[m] # None PROVE HostOK(m)'
      BY Zenon DEF HostOK
  <2>1. wrapped'[m] \in Hosts
      BY Zenon DEF MutexTyped
  <2>2. wrapped'[m] = g /\ g # None
      BY Zenon, <2>1 DEF Has
  <2>3. host'[g].is = "live" /\ host'[g].kind = kind'[m]
      BY Zenon, <2>2 DEF Has
  <2>4. \A n \in Mutexes : state'[n] # "destroyed" /\ wrapped'[n] = g => n = m
      BY <2>2 DEF Has
  <2> QED
      BY Zenon, <2>2, <2>3, <2>4 DEF HostOK, Has
<1>4. ASSUME NEW h \in Hosts PROVE OwnerOK(h)'
  <2>1. CASE h = g
      BY Zenon, <2>1, NoneApart DEF OwnerOK
  <2>2. CASE h # g
    <3>1. OwnerOK(h) /\ host'[h] = host[h] /\ ~Has(m, h)
        BY Zenon, <2>2 DEF MutexInv, HostsOK
    <3>2. (\E k \in Mutexes : Has(k, h)) => \E k \in Mutexes : Has(k, h)'
        BY <3>1 DEF Has
    <3> QED
        BY Zenon, <3>1, <3>2 DEF OwnerOK
  <2> QED
      BY Zenon, <2>1, <2>2
<1>5. CarefulOK'
  <2> SUFFICES ASSUME careful PROVE CarefulOK'
      BY Zenon DEF CarefulOK
  <2>1. ASSUME NEW u \in Threads, NEW w \in Threads PROVE Alone(u, w)'
    <3>1. Alone(u, w) /\ CallOK(u)
        BY Zenon DEF MutexInv, CarefulOK, CallsOK
    <3> QED
        BY Zenon, <3>1 DEF Alone, CallOK
  <2>2. ASSUME NEW u \in Threads PROVE Relocks(u)'
    <3>1. Relocks(u) /\ CallOK(u)
        BY Zenon DEF MutexInv, CarefulOK, CallsOK
    <3> QED
        BY Zenon, <3>1 DEF Relocks, CallOK
  <2>3. ASSUME NEW u \in Threads, NEW k \in Mutexes PROVE HeldOK(u, k)'
    <3>1. HeldOK(u, k) /\ u # None
        BY Zenon, NoneApart DEF MutexInv, CarefulOK
    <3>2. CASE k = m
      <4>1. state'[m] # "destroyed" /\ wrapped'[m] # None => host'[wrapped'[m]].owner = None
        <5>1. wrapped'[m] \in Hosts \cup {None}
            BY Zenon DEF MutexTyped
        <5> QED
            BY Zenon, <5>1 DEF Has
      <4> QED
          BY Zenon, <3>1, <3>2, <4>1 DEF HeldOK
    <3>3. CASE k # m
      <4>1. /\ wrapped'[k] = wrapped[k] /\ state'[k] = state[k] /\ (g # None => ~Has(k, g))
            /\ wrapped[k] \in Hosts \cup {None}
          BY Zenon, <3>3 DEF MutexInv, MutexTyped
      <4>2. state[k] # "destroyed" /\ wrapped[k] # None => host'[wrapped[k]] = host[wrapped[k]]
          BY Zenon, <4>1 DEF Has
      <4> QED
          BY <3>1, <4>1, <4>2 DEF HeldOK
    <3> QED
        BY Zenon, <3>2, <3>3
  <2>4. fault' = "none"
      BY Zenon DEF MutexInv, CarefulOK
  <2> QED
      BY Zenon, <2>1, <2>2, <2>3, <2>4 DEF CarefulOK
<1> QED
    BY Zenon, <1>1, <1>2, <1>3, <1>4, <1>5 DEF MutexInv, HostsOK

(* A host mutex that nobody has is not another's. *)
LEMMA FreeOfAll ==
    ASSUME MutexInv, NEW h \in Hosts, host[h].is = "free", NEW k \in Mutexes
    PROVE  ~Has(k, h)
<1>1. HostOK(k) /\ h # None
    BY Zenon, NoneApart DEF MutexInv, HostsOK
<1> QED
    BY Zenon, <1>1 DEF HostOK, Has

LEMMA MutexInits ==
    ASSUME MutexInv, NEW t \in Threads, NEW m \in Mutexes, NEW k \in Kinds,
           pthread_mutex_init(t, m, k)
    PROVE  MutexInv'
<1>1. PICK h \in Hosts : /\ host[h].is = "free" /\ host' = [host EXCEPT ![h] = Made(k)]
                         /\ wrapped' = [wrapped EXCEPT ![m] = h]
    BY Zenon DEF pthread_mutex_init
<1>2. /\ kind' = [kind EXCEPT ![m] = k] /\ state' = [state EXCEPT ![m] = "made"]
      /\ mutex_calls < MutexCalls /\ mutex_calls' = mutex_calls + 1
      /\ UNCHANGED <<guard, call, held, fault, careful>>
      /\ Unused(m) /\ (state[m] = "destroyed" \/ wrapped[m] = None)
    BY Zenon DEF pthread_mutex_init, is_mutex_initialized
<1>3. Made(k) \in Hosted
    BY Zenon DEF Made, Hosted
<1>4. MutexTyped'
  <2>1. host' \in [Hosts -> Hosted]
      BY Zenon, <1>1, <1>3 DEF MutexInv, MutexTyped
  <2>2. mutex_calls' \in 0 .. MutexCalls
      BY <1>2, NoneApart DEF MutexInv, MutexTyped
  <2>3. /\ wrapped' \in [Mutexes -> Hosts \cup {None}] /\ kind' \in [Mutexes -> Kinds]
        /\ state' \in [Mutexes -> {"static", "made", "destroyed"}]
      BY Zenon, <1>1, <1>2 DEF MutexInv, MutexTyped
  <2> QED
      BY Zenon, <1>2, <2>1, <2>2, <2>3 DEF MutexInv, MutexTyped
<1>5. /\ wrapped'[m] = h /\ kind'[m] = k /\ state'[m] = "made" /\ host'[h] = Made(k)
      /\ \A n \in Mutexes : n # m =>
            wrapped'[n] = wrapped[n] /\ kind'[n] = kind[n] /\ state'[n] = state[n]
      /\ \A g \in Hosts : g # h => host'[g] = host[g]
    BY Zenon, <1>1, <1>2 DEF MutexInv, MutexTyped
<1>6. /\ host'[h].is = "live" /\ host'[h].kind = k
      /\ host'[h].owner = None /\ host'[h].count = 0
  <2>1. LET r == Made(k) IN
           r.is = "live" /\ r.kind = k /\ r.owner = None /\ r.count = 0
      BY Zenon DEF Made
  <2> QED
      BY Zenon, <1>5, <2>1
<1>7. /\ \A u \in Threads : call[u].at # "idle" => call[u].m # m
      /\ \A u \in Threads : held[u][m] = 0
    BY Zenon, <1>2 DEF Unused, Users
<1>8. \A g \in Hosts : g # h => ~Has(m, g) /\ ~Has(m, g)'
    BY Zenon, <1>2, <1>5, NoneApart DEF Has
<1>9. \A n \in Mutexes : ~Has(n, h)
    BY Zenon, <1>1, FreeOfAll
<1>10. Has(m, h)'
    BY Zenon, <1>5 DEF Has
<1>11. h # None /\ h \in Hosts \cup {None}
    BY Zenon, NoneApart
<1>12. /\ \A n \in Mutexes : n # m =>
             /\ wrapped'[n] = wrapped[n] /\ kind'[n] = kind[n] /\ state'[n] = state[n]
             /\ h # None => ~Has(n, h)
       /\ \A g \in Hosts : g # h => host'[g] = host[g] /\ ~Has(m, g) /\ ~Has(m, g)'
       /\ h # None => /\ host'[h].owner = None /\ host'[h].count = 0
                      /\ host'[h].is # "free" => Has(m, h)'
                      /\ Has(m, h)' => host'[h].is = "live" /\ host'[h].kind = kind'[m]
    BY Zenon, <1>5, <1>6, <1>8, <1>9, <1>10
<1> QED
    BY Zenon, <1>2, <1>4, <1>7, <1>11, <1>12, MutexRemade

LEMMA MutexDestroys ==
    ASSUME MutexInv, NEW t \in Threads, NEW m \in Mutexes, pthread_mutex_destroy(t, m)
    PROVE  MutexInv'
<1>1. /\ state' = [state EXCEPT ![m] = "destroyed"] /\ state[m] # "destroyed"
      /\ mutex_calls < MutexCalls /\ mutex_calls' = mutex_calls + 1
      /\ UNCHANGED <<wrapped, kind, guard, call, held, fault, careful>>
      /\ Unused(m)
    BY Zenon DEF pthread_mutex_destroy
<1>2. PICK g \in Hosts \cup {None} : g = wrapped[m]
    BY Zenon DEF MutexInv, MutexTyped
<1>3. /\ host' \in [Hosts -> Hosted]
      /\ \A h \in Hosts : h # g => host'[h] = host[h]
      /\ g # None => host'[g] = Free
  <2>1. Free \in Hosted /\ host \in [Hosts -> Hosted]
      BY Zenon DEF Free, Hosted, MutexInv, MutexTyped
  <2>2. host' = IF g # None THEN [host EXCEPT ![g] = Free] ELSE host
      BY Zenon, <1>2 DEF pthread_mutex_destroy, is_mutex_initialized
  <2> QED
      BY Zenon, <2>1, <2>2
<1>4. MutexTyped'
  <2>1. mutex_calls' \in 0 .. MutexCalls
      BY <1>1, NoneApart DEF MutexInv, MutexTyped
  <2>2. state' \in [Mutexes -> {"static", "made", "destroyed"}]
      BY Zenon, <1>1 DEF MutexInv, MutexTyped
  <2> QED
      BY Zenon, <1>1, <1>3, <2>1, <2>2 DEF MutexInv, MutexTyped
<1>5. state'[m] = "destroyed" /\ \A n \in Mutexes : n # m => state'[n] = state[n]
    BY Zenon, <1>1 DEF MutexInv, MutexTyped
<1>6. g # None => host'[g].is = "free" /\ host'[g].owner = None /\ host'[g].count = 0
  <2>1. Free.is = "free" /\ Free.owner = None /\ Free.count = 0
      BY Zenon DEF Free
  <2> QED
      BY Zenon, <1>3, <2>1
<1>7. /\ \A u \in Threads : call[u].at # "idle" => call[u].m # m
      /\ \A u \in Threads : held[u][m] = 0
    BY Zenon, <1>1 DEF Unused, Users
<1>8. \A h \in Hosts : ~Has(m, h)' /\ (h # g => ~Has(m, h))
    BY Zenon, <1>2, <1>5 DEF Has
<1>9. g # None => \A n \in Mutexes : n # m => ~Has(n, g)
  <2>1. HostOK(m)
      BY Zenon DEF MutexInv, HostsOK
  <2> QED
      BY Zenon, <1>1, <1>2, <2>1 DEF HostOK
<1>10. /\ \A n \in Mutexes : n # m =>
             /\ wrapped'[n] = wrapped[n] /\ kind'[n] = kind[n] /\ state'[n] = state[n]
             /\ g # None => ~Has(n, g)
       /\ \A h \in Hosts : h # g => host'[h] = host[h] /\ ~Has(m, h) /\ ~Has(m, h)'
       /\ g # None => /\ host'[g].owner = None /\ host'[g].count = 0
                      /\ host'[g].is # "free" => Has(m, g)'
                      /\ Has(m, g)' => host'[g].is = "live" /\ host'[g].kind = kind'[m]
  <2>1. ~Has(m, g)'
      BY Zenon, <1>5 DEF Has
  <2> QED
      BY Zenon, <1>1, <1>3, <1>5, <1>6, <1>8, <1>9, <2>1
<1> QED
    BY Zenon, <1>1, <1>4, <1>7, <1>10, MutexRemade

LEMMA MutexReuses ==
    ASSUME MutexInv, NEW t \in Threads, NEW m \in Mutexes, NEW k \in Kinds,
           static_again(t, m, k)
    PROVE  MutexInv'
<1>1. /\ wrapped' = [wrapped EXCEPT ![m] = None] /\ kind' = [kind EXCEPT ![m] = k]
      /\ state' = [state EXCEPT ![m] = "static"] /\ state[m] = "destroyed"
      /\ UNCHANGED <<host, guard, call, held, mutex_calls, fault, careful>>
    BY Zenon DEF static_again
<1>2. MutexTyped'
  <2>1. /\ wrapped' \in [Mutexes -> Hosts \cup {None}] /\ kind' \in [Mutexes -> Kinds]
        /\ state' \in [Mutexes -> {"static", "made", "destroyed"}]
      BY Zenon, <1>1 DEF MutexInv, MutexTyped
  <2> QED
      BY Zenon, <1>1, <2>1 DEF MutexInv, MutexTyped
<1>3. /\ wrapped'[m] = None
      /\ \A n \in Mutexes : n # m =>
            wrapped'[n] = wrapped[n] /\ kind'[n] = kind[n] /\ state'[n] = state[n]
    BY Zenon, <1>1 DEF MutexInv, MutexTyped
<1>4. \A u \in Threads : call[u].at # "idle" => call[u].m # m
    BY Zenon, <1>1 DEF MutexInv, CallsOK, CallOK
<1>5. ASSUME careful, NEW u \in Threads PROVE held[u][m] = 0
  <2>1. HeldOK(u, m)
      BY Zenon, <1>5 DEF MutexInv, CarefulOK
  <2> QED
      BY Zenon, <1>1, <2>1 DEF HeldOK
<1>6. \A h \in Hosts : host'[h] = host[h] /\ ~Has(m, h) /\ ~Has(m, h)'
    BY Zenon, <1>1, <1>3, NoneApart DEF Has
<1>7. PICK g \in Hosts \cup {None} : g = None
    OBVIOUS
<1>8. \A n \in Mutexes : n # m =>
         /\ wrapped'[n] = wrapped[n] /\ kind'[n] = kind[n] /\ state'[n] = state[n]
         /\ g # None => ~Has(n, g)
    BY Zenon, <1>3, <1>7
<1> QED
    BY Zenon, <1>1, <1>2, <1>4, <1>5, <1>6, <1>7, <1>8, MutexRemade

(***************************************************************************)
(* The thread with the guard makes the host mutex g: it stores the         *)
(* pointer, then has the host initialise it.                               *)
(***************************************************************************)
MakesCall(t, m) ==
    /\ call[t].at \in Making /\ call[t].m = m
    /\ call'[t].at \in {"construct", "read"} /\ call'[t].op = call[t].op
    /\ call'[t].m = m /\ call'[t].h = None
    /\ \A u \in Threads : u # t => call'[u] = call[u]

MakesPointer(m, g) ==
    /\ wrapped[m] \in {None, g} /\ wrapped'[m] = g
    /\ \A k \in Mutexes : k # m => wrapped'[k] = wrapped[k] /\ ~Has(k, g)
    /\ UNCHANGED <<kind, state, held, fault, careful>>

MakesHost(t, m, g) ==
    /\ \A h \in Hosts : h # g => host'[h] = host[h]
    /\ host[g].owner = None /\ host'[g].owner = None /\ host'[g].count = 0
    /\ call'[t].at = "construct" => host'[g].is = "raw" /\ guard' = t
    /\ call'[t].at = "read" =>
          host'[g].is = "live" /\ host'[g].kind = kind[m] /\ guard' = None

LEMMA MutexMakes ==
    ASSUME MutexInv, NEW t \in Threads, NEW m \in Mutexes, NEW g \in Hosts, MutexTyped',
           MakesCall(t, m), MakesPointer(m, g), MakesHost(t, m, g)
    PROVE  MutexInv'
<1>1. /\ call[t].at # "idle" /\ call[t].op \in Ops /\ state[m] # "destroyed" /\ guard = t
      /\ call[t].op = "unlock" => held[t][m] > 0
  <2>1. CallOK(t)
      BY Zenon DEF MutexInv, CallsOK
  <2> QED
      BY Zenon, <2>1 DEF CallOK, Making, MakesCall
<1>2. t # None /\ g # None
    BY Zenon, NoneApart
<1>3. CallOK(t)'
    BY Zenon, <1>1, <1>2 DEF CallOK, Making, Ops, MakesCall, MakesPointer, MakesHost
<1>4. ASSUME NEW u \in Threads, u # t
      PROVE  CallOK(u)' /\ call[u].at \notin Making /\ call'[u] = call[u]
  <2>1. CallOK(u) /\ guard # u
      BY Zenon, <1>1, <1>4 DEF MutexInv, CallsOK
  <2>2. call[u].at \notin Making
      BY Zenon, <2>1 DEF CallOK
  <2>3. call'[u] = call[u]
      BY Zenon, <1>4 DEF MakesCall
  <2>4. guard' # u
      BY Zenon, <1>4, NoneApart DEF MakesCall, MakesHost
  <2>5. UNCHANGED <<state, held>>
      BY Zenon DEF MakesPointer
  <2>6. CASE call[u].at = "idle"
      BY Zenon, <2>1, <2>2, <2>3, <2>4, <2>6, CallKept DEF Making
  <2>7. CASE call[u].at # "idle" /\ (call[u].m # m \/ wrapped[m] = g)
    <3>1. call[u].m \in Mutexes /\ state[call[u].m] # "destroyed"
        BY Zenon, <2>1, <2>7 DEF CallOK
    <3>2. wrapped'[call[u].m] = wrapped[call[u].m]
        BY Zenon, <2>7, <3>1 DEF MakesPointer
    <3>3. call[u].at # "construct" /\ (guard' = u <=> guard = u)
        BY Zenon, <2>1, <2>2, <2>4 DEF Making
    <3>4. held'[u] = held[u] /\ state'[call[u].m] # "destroyed"
        BY Zenon, <2>5, <3>1
    <3> QED
        BY Zenon, <2>2, <2>3, <3>2, <3>3, <3>4, CallKept
  <2>8. CASE call[u].at # "idle" /\ call[u].m = m /\ wrapped[m] # g
    <3>1. wrapped[m] = None
        BY Zenon, <2>8 DEF MakesPointer
    <3>2. call[u].at \notin Ops \cup {"construct", "read"} /\ call[u].op \in Ops
        BY Zenon, <2>1, <2>8, <3>1 DEF CallOK
    <3>3. call[u].h = None /\ (call[u].op = "unlock" => held[u][m] > 0)
        BY Zenon, <2>1, <2>8, <3>2 DEF CallOK
    <3> QED
        BY Zenon, <1>1, <2>2, <2>3, <2>4, <2>5, <2>8, <3>2, <3>3 DEF CallOK, Making
  <2> QED
      BY Zenon, <2>2, <2>3, <2>6, <2>7, <2>8
<1>5. ASSUME NEW k \in Mutexes, k # m
      PROVE  /\ wrapped'[k] = wrapped[k] /\ wrapped[k] \in Hosts \cup {None}
             /\ state'[k] = state[k] /\ kind'[k] = kind[k]
             /\ state[k] # "destroyed" /\ wrapped[k] # None =>
                   wrapped[k] # g /\ host'[wrapped[k]] = host[wrapped[k]]
  <2>1. /\ wrapped'[k] = wrapped[k] /\ ~Has(k, g)
        /\ state'[k] = state[k] /\ kind'[k] = kind[k]
      BY Zenon, <1>5 DEF MakesPointer
  <2>2. wrapped[k] \in Hosts \cup {None}
      BY Zenon DEF MutexInv, MutexTyped
  <2> QED
      BY Zenon, <2>1, <2>2 DEF MakesHost, Has
<1>6. wrapped'[m] = g /\ state'[m] = state[m] /\ kind'[m] = kind[m]
    BY Zenon DEF MakesPointer
<1>7. ASSUME NEW k \in Mutexes PROVE HostOK(k)'
  <2>1. CASE k = m
    <3>1. \A n \in Mutexes : Has(n, g)' => n = m
        BY Zenon, <1>2, <1>5 DEF Has
    <3>2. call'[t].at = "construct" => Constructing(m)'
        BY Zenon DEF Constructing, MakesCall
    <3>3. \/ host'[g].is = "live" /\ host'[g].kind = kind'[m]
          \/ host'[g].is = "raw" /\ Constructing(m)'
        BY Zenon, <1>6, <3>2 DEF MakesHost, MakesCall
    <3> QED
        BY Zenon, <1>6, <2>1, <3>1, <3>3 DEF HostOK
  <2>2. CASE k # m
    <3>1. HostOK(k)
        BY Zenon DEF MutexInv, HostsOK
    <3>2. ~Constructing(k)
        BY Zenon, <1>4, <2>2 DEF Constructing, Making, MakesCall
    <3> SUFFICES ASSUME state[k] # "destroyed", wrapped[k] # None PROVE HostOK(k)'
        BY Zenon, <1>5, <2>2 DEF HostOK
    <3>3. /\ wrapped'[k] = wrapped[k] /\ kind'[k] = kind[k]
          /\ wrapped[k] # g /\ host'[wrapped[k]] = host[wrapped[k]]
        BY Zenon, <1>5, <2>2
    <3>4. ASSUME NEW n \in Mutexes, Has(n, wrapped[k])' PROVE n = k
      <4>1. n # m
          BY Zenon, <1>6, <3>3, <3>4 DEF Has
      <4>2. Has(n, wrapped[k])
          BY Zenon, <1>5, <3>3, <3>4, <4>1 DEF Has
      <4> QED
          BY Zenon, <3>1, <4>2 DEF HostOK
    <3> QED
        BY Zenon, <3>1, <3>2, <3>3, <3>4 DEF HostOK
  <2> QED
      BY Zenon, <2>1, <2>2
<1>8. ASSUME NEW h \in Hosts PROVE OwnerOK(h)'
  <2>1. CASE h = g
    <3>1. Has(m, h)'
        BY Zenon, <1>1, <1>6, <2>1 DEF Has
    <3>2. host'[h].owner = None /\ host'[h].count = 0
        BY Zenon, <2>1 DEF MakesHost
    <3> QED
        BY Zenon, <3>1, <3>2 DEF OwnerOK
  <2>2. CASE h # g
    <3>1. OwnerOK(h) /\ host'[h] = host[h]
        BY Zenon, <2>2 DEF MutexInv, HostsOK, MakesHost
    <3>2. ASSUME NEW k \in Mutexes, Has(k, h) PROVE Has(k, h)'
      <4>1. k # m
          BY Zenon, <2>2, <3>2, NoneApart DEF Has, MakesPointer
      <4> QED
          BY Zenon, <1>5, <3>2, <4>1 DEF Has
    <3> QED
        BY Zenon, <3>1, <3>2 DEF OwnerOK
  <2> QED
      BY Zenon, <2>1, <2>2
<1>9. CarefulOK'
  <2> SUFFICES ASSUME careful PROVE CarefulOK'
      BY Zenon DEF CarefulOK, MakesPointer
  <2>1. ASSUME NEW u \in Threads, u # t PROVE call[u].at = "idle" \/ call[u].m # m
    <3>1. Alone(t, u)
        BY Zenon DEF MutexInv, CarefulOK
    <3> QED
        BY Zenon, <1>1, <2>1, <3>1 DEF Alone, MakesCall
  <2>2. ASSUME NEW u \in Threads, u # t PROVE Alone(t, u)' /\ Alone(u, t)'
    <3>1. call'[u] = call[u] /\ call'[t].m = m
        BY Zenon, <2>2 DEF MakesCall
    <3> QED
        BY Zenon, <2>1, <2>2, <3>1 DEF Alone
  <2>3. ASSUME NEW u \in Threads, NEW w \in Threads, u # t, w # t PROVE Alone(u, w)'
    <3>1. Alone(u, w) /\ CallOK(u) /\ call'[u] = call[u] /\ call'[w] = call[w]
        BY Zenon, <1>4, <2>3 DEF MutexInv, CarefulOK, CallsOK
    <3>2. call[u].at # "idle" => wrapped'[call[u].m] = wrapped[call[u].m]
        BY Zenon, <1>5, <2>1, <2>3, <3>1 DEF CallOK
    <3> QED
        BY Zenon, <3>1, <3>2 DEF Alone
  <2>4. Alone(t, t)'
      BY Zenon DEF Alone
  <2>5. ASSUME NEW u \in Threads PROVE Relocks(u)'
    <3>1. Relocks(u) /\ UNCHANGED <<held, kind>>
        BY Zenon DEF MutexInv, CarefulOK, MakesPointer
    <3>2. CASE u = t
        BY Zenon, <1>1, <3>1, <3>2 DEF Relocks, MakesCall
    <3>3. CASE u # t
        BY Zenon, <1>4, <3>1, <3>3 DEF Relocks
    <3> QED
        BY Zenon, <3>2, <3>3
  <2>6. ASSUME NEW u \in Threads, NEW k \in Mutexes PROVE HeldOK(u, k)'
    <3>1. HeldOK(u, k) /\ u # None /\ held' = held
        BY Zenon, NoneApart DEF MutexInv, CarefulOK, MakesPointer
    <3>2. CASE k = m
      <4>1. host'[g].owner = None /\ host[g].owner = None /\ wrapped[m] \in {None, g}
          BY Zenon DEF MakesHost, MakesPointer
      <4>2. held[u][k] = 0
          BY Zenon, <3>1, <3>2, <4>1 DEF HeldOK
      <4> QED
          BY Zenon, <1>6, <3>1, <3>2, <4>1, <4>2 DEF HeldOK
    <3>3. CASE k # m
      <4>1. CASE state[k] # "destroyed" /\ wrapped[k] # None
        <5>1. wrapped'[k] = wrapped[k] /\ host'[wrapped[k]] = host[wrapped[k]]
            BY Zenon, <1>5, <3>3, <4>1
        <5>2. state'[k] = state[k]
            BY Zenon, <1>5, <3>3
        <5> QED
            BY Zenon, <3>1, <5>1, <5>2 DEF HeldOK
      <4>2. CASE ~(state[k] # "destroyed" /\ wrapped[k] # None)
          BY Zenon, <1>5, <3>1, <3>3, <4>2 DEF HeldOK
      <4> QED
          BY Zenon, <4>1, <4>2
    <3> QED
        BY Zenon, <3>2, <3>3
  <2>7. fault' = "none"
      BY Zenon DEF MutexInv, CarefulOK, MakesPointer
  <2>8. \A u, w \in Threads : Alone(u, w)'
      BY Zenon, <2>2, <2>3, <2>4
  <2> QED
      BY Zenon, <2>5, <2>6, <2>7, <2>8 DEF CarefulOK
<1>10. CallsOK'
    BY Zenon, <1>3, <1>4 DEF CallsOK
<1>11. HostsOK'
    BY Zenon, <1>7, <1>8 DEF HostsOK
<1> QED
    BY Zenon, <1>9, <1>10, <1>11 DEF MutexInv

(* The pointer is stored. *)
LEMMA MutexStores ==
    ASSUME MutexInv, NEW t \in Threads, make_c_wrapped(t)
    PROVE  MutexInv'
<1>1. PICK g \in Hosts : /\ host[g].is = "free" /\ host' = [host EXCEPT ![g].is = "raw"]
                         /\ wrapped' = [wrapped EXCEPT ![call[t].m] = g]
    BY Zenon DEF make_c_wrapped
<1>2. /\ call[t].at = "new" /\ call' = [call EXCEPT ![t].at = "construct"]
      /\ UNCHANGED <<kind, state, guard, held, mutex_calls, fault, careful>>
    BY Zenon DEF make_c_wrapped, CallAt, CallGoto
<1>3. PICK m \in Mutexes : m = call[t].m
    BY Zenon, <1>2, InCall
<1>4. wrapped[m] = None /\ guard = t /\ call[t].h = None
    BY Zenon, <1>2, <1>3 DEF MutexInv, CallsOK, CallOK, Making, Ops
<1>5. /\ host[g].owner = None /\ host[g].count = 0 /\ \A k \in Mutexes : ~Has(k, g)
    BY Zenon, <1>1, FreeOfAll DEF MutexInv, HostsOK, OwnerOK
<1>6. /\ host' \in [Hosts -> Hosted] /\ host'[g].is = "raw"
      /\ host'[g].owner = None /\ host'[g].count = 0
      /\ \A h \in Hosts : h # g => host'[h] = host[h]
  <2>1. host \in [Hosts -> Hosted] /\ host[g] \in Hosted
      BY Zenon DEF MutexInv, MutexTyped
  <2>2. [host[g] EXCEPT !.is = "raw"] \in Hosted
      BY Zenon, <2>1, HostedRaw
  <2>3. /\ host'[g] = [host[g] EXCEPT !.is = "raw"]
        /\ \A h \in Hosts : h # g => host'[h] = host[h]
      BY Zenon, <1>1, <2>1
  <2>4. host' \in [Hosts -> Hosted]
      BY Zenon, <1>1, <2>1, <2>2
  <2>5. host'[g].is = "raw" /\ host'[g].owner = host[g].owner /\ host'[g].count = host[g].count
      BY Zenon, <2>1, <2>3 DEF Hosted
  <2> QED
      BY Zenon, <1>5, <2>3, <2>4, <2>5
<1>7. /\ call' \in [Threads -> Called] /\ call'[t].at = "construct"
      /\ call'[t].op = call[t].op /\ call'[t].m = m /\ call'[t].h = None
      /\ \A u \in Threads : u # t => call'[u] = call[u]
  <2>1. call \in [Threads -> Called] /\ call[t] \in Called
      BY Zenon DEF MutexInv, MutexTyped
  <2>2. [call[t] EXCEPT !.at = "construct"] \in Called
      BY Zenon, <2>1, CalledAt
  <2>3. call' \in [Threads -> Called] /\ \A u \in Threads : u # t => call'[u] = call[u]
      BY Zenon, <1>2, <2>1, <2>2
  <2>4. call'[t] = [call[t] EXCEPT !.at = "construct"]
      BY Zenon, <1>2, <2>1
  <2>5. /\ call'[t].at = "construct" /\ call'[t].op = call[t].op
        /\ call'[t].m = call[t].m /\ call'[t].h = call[t].h
      BY Zenon, <2>1, <2>4 DEF Called
  <2> QED
      BY Zenon, <1>3, <1>4, <2>3, <2>5
<1>8. /\ wrapped' \in [Mutexes -> Hosts \cup {None}] /\ wrapped'[m] = g
      /\ \A k \in Mutexes : k # m => wrapped'[k] = wrapped[k]
    BY Zenon, <1>1, <1>3 DEF MutexInv, MutexTyped
<1>9. MutexTyped'
    BY Zenon, <1>2, <1>6, <1>7, <1>8 DEF MutexInv, MutexTyped
<1>10. MakesCall(t, m)
    BY Zenon, <1>2, <1>3, <1>7 DEF MakesCall, Making
<1>11. MakesPointer(m, g)
    BY Zenon, <1>2, <1>4, <1>5, <1>8 DEF MakesPointer
<1>12. MakesHost(t, m, g)
    BY Zenon, <1>2, <1>4, <1>5, <1>6, <1>7 DEF MakesHost
<1> QED
    BY Zenon, <1>9, <1>10, <1>11, <1>12, MutexMakes

(* The host mutex is ready, and the guard given up. *)
LEMMA MutexConstructs ==
    ASSUME MutexInv, NEW t \in Threads, pthread_mutex_init_host(t)
    PROVE  MutexInv'
<1>1. /\ call[t].at = "construct" /\ call' = [call EXCEPT ![t].at = "read"] /\ guard' = None
      /\ UNCHANGED <<wrapped, kind, state, held, mutex_calls, fault, careful>>
      /\ host' = [host EXCEPT ![wrapped[call[t].m]] = Made(kind[call[t].m])]
    BY Zenon DEF pthread_mutex_init_host, CallAt, CallGoto
<1>2. PICK m \in Mutexes : m = call[t].m
    BY Zenon, <1>1, InCall
<1>3. /\ wrapped[m] # None /\ host[wrapped[m]].is = "raw" /\ call[t].h = None
      /\ state[m] # "destroyed"
    BY Zenon, <1>1, <1>2 DEF MutexInv, CallsOK, CallOK, Ops
<1>4. PICK g \in Hosts : g = wrapped[m]
    BY Zenon, <1>3 DEF MutexInv, MutexTyped
<1>5. host[g].owner = None /\ \A k \in Mutexes : k # m => ~Has(k, g)
  <2>1. HostOK(m) /\ OwnerOK(g)
      BY Zenon DEF MutexInv, HostsOK
  <2> QED
      BY Zenon, <1>3, <1>4, <2>1 DEF HostOK, OwnerOK
<1>6. /\ host' \in [Hosts -> Hosted] /\ host'[g] = Made(kind[m])
      /\ \A h \in Hosts : h # g => host'[h] = host[h]
  <2>1. host \in [Hosts -> Hosted] /\ kind[m] \in Kinds
      BY Zenon DEF MutexInv, MutexTyped
  <2>2. Made(kind[m]) \in Hosted
      BY Zenon, <2>1 DEF Made, Hosted
  <2> QED
      BY Zenon, <1>1, <1>2, <1>4, <2>1, <2>2
<1>7. /\ host'[g].is = "live" /\ host'[g].kind = kind[m]
      /\ host'[g].owner = None /\ host'[g].count = 0
  <2>1. LET r == Made(kind[m]) IN
           r.is = "live" /\ r.kind = kind[m] /\ r.owner = None /\ r.count = 0
      BY Zenon DEF Made
  <2> QED
      BY Zenon, <1>6, <2>1
<1>8. /\ call' \in [Threads -> Called] /\ call'[t].at = "read"
      /\ call'[t].op = call[t].op /\ call'[t].m = m /\ call'[t].h = None
      /\ \A u \in Threads : u # t => call'[u] = call[u]
  <2>1. call \in [Threads -> Called] /\ call[t] \in Called
      BY Zenon DEF MutexInv, MutexTyped
  <2>2. [call[t] EXCEPT !.at = "read"] \in Called
      BY Zenon, <2>1, CalledAt
  <2>3. call' \in [Threads -> Called] /\ \A u \in Threads : u # t => call'[u] = call[u]
      BY Zenon, <1>1, <2>1, <2>2
  <2>4. call'[t] = [call[t] EXCEPT !.at = "read"]
      BY Zenon, <1>1, <2>1
  <2>5. /\ call'[t].at = "read" /\ call'[t].op = call[t].op
        /\ call'[t].m = call[t].m /\ call'[t].h = call[t].h
      BY Zenon, <2>1, <2>4 DEF Called
  <2> QED
      BY Zenon, <1>2, <1>3, <2>3, <2>5
<1>9. MutexTyped'
    BY Zenon, <1>1, <1>6, <1>8 DEF MutexInv, MutexTyped
<1>10. MakesCall(t, m)
    BY Zenon, <1>1, <1>2, <1>8 DEF MakesCall, Making
<1>11. MakesPointer(m, g)
    BY Zenon, <1>1, <1>4, <1>5 DEF MakesPointer
<1>12. MakesHost(t, m, g)
    BY Zenon, <1>1, <1>5, <1>6, <1>7, <1>8 DEF MakesHost
<1> QED
    BY Zenon, <1>9, <1>10, <1>11, <1>12, MutexMakes

(* The host mutex of a careful guest's call is ready. *)
LEMMA CarefulLive ==
    ASSUME MutexInv, careful, NEW t \in Threads, call[t].at \in Ops
    PROVE  host[call[t].h].is = "live"
<1>1. /\ call[t].m \in Mutexes /\ state[call[t].m] # "destroyed" /\ call[t].at # "idle"
      /\ call[t].h = wrapped[call[t].m] /\ call[t].h \in Hosts
    BY Zenon, InCall DEF Ops
<1>2. wrapped[call[t].m] # None
    BY Zenon, <1>1, NoneApart
<1>3. ~Constructing(call[t].m)
  <2> SUFFICES ASSUME NEW u \in Threads, call[u].at = "construct", call[u].m = call[t].m
               PROVE  FALSE
      BY Zenon DEF Constructing
  <2>1. Alone(t, u)
      BY Zenon DEF MutexInv, CarefulOK
  <2> QED
      BY Zenon, <1>1, <2>1 DEF Alone, Making, Ops
<1>4. HostOK(call[t].m)
    BY Zenon, <1>1 DEF MutexInv, HostsOK
<1> QED
    BY Zenon, <1>1, <1>2, <1>3, <1>4 DEF HostOK

(* The calls stay as they are. *)
LEMMA CallsStay ==
    ASSUME CallsOK, UNCHANGED <<wrapped, state, host, guard, call, held>>
    PROVE  CallsOK'
<1>1. ASSUME NEW t \in Threads PROVE CallOK(t)'
  <2>1. CallOK(t)
      BY Zenon DEF CallsOK
  <2> QED
      BY Zenon, <2>1 DEF CallOK
<1> QED
    BY Zenon, <1>1 DEF CallsOK

(* The tables of host mutexes stay as they are. *)
LEMMA HostsStay ==
    ASSUME HostsOK, UNCHANGED <<wrapped, kind, state, host, call>>
    PROVE  HostsOK'
<1>1. ASSUME NEW m \in Mutexes PROVE HostOK(m)'
  <2>1. HostOK(m)
      BY Zenon DEF HostsOK
  <2> QED
      BY Zenon, <2>1 DEF HostOK, Has, Constructing
<1>2. ASSUME NEW h \in Hosts PROVE OwnerOK(h)'
  <2>1. OwnerOK(h)
      BY Zenon DEF HostsOK
  <2> QED
      BY Zenon, <2>1 DEF OwnerOK, Has
<1> QED
    BY Zenon, <1>1, <1>2 DEF HostsOK

(* A host mutex that is not ready: not where the guest is careful. *)
LEMMA MutexFaults ==
    ASSUME MutexInv, NEW t \in Threads, call[t].at \in Ops, Undefined(t),
           UNCHANGED <<wrapped, kind, state, guard, mutex_calls, careful>>
    PROVE  MutexInv'
<1>1. ~careful
    BY Zenon, CarefulLive DEF Undefined
<1>2. UNCHANGED <<wrapped, kind, state, host, guard, call, held, mutex_calls>>
    BY Zenon DEF Undefined
<1>3. fault' \in {"none", "uninitialised"}
    BY Zenon DEF Undefined
<1>4. MutexTyped'
    BY Zenon, <1>2, <1>3 DEF MutexInv, MutexTyped
<1>5. CallsOK'
    BY Zenon, <1>2, CallsStay DEF MutexInv
<1>6. HostsOK'
    BY Zenon, <1>2, HostsStay DEF MutexInv
<1>7. CarefulOK'
    BY Zenon, <1>1 DEF CarefulOK
<1> QED
    BY Zenon, <1>4, <1>5, <1>6, <1>7 DEF MutexInv

(* What a thread was told, where the guest is careful. *)
LEMMA ToldExact ==
    ASSUME MutexInv, careful, NEW t \in Threads, call[t].at \in Ops
    PROVE  held[t][call[t].m] =
              IF host[call[t].h].owner = t THEN host[call[t].h].count ELSE 0
<1>1. /\ call[t].m \in Mutexes /\ state[call[t].m] # "destroyed"
      /\ call[t].h = wrapped[call[t].m] /\ wrapped[call[t].m] # None
    BY Zenon, InCall, NoneApart DEF Ops
<1>2. HeldOK(t, call[t].m)
    BY Zenon, <1>1 DEF MutexInv, CarefulOK
<1> QED
    BY Zenon, <1>1, <1>2 DEF HeldOK

(* The host gives the mutex to the thread. *)
LEMMA MutexTakes ==
    ASSUME MutexInv, NEW t \in Threads, call[t].at \in Ops, Take(t),
           UNCHANGED <<wrapped, kind, state, guard, mutex_calls, careful>>
    PROVE  MutexInv'
<1> DEFINE n == host[call[t].h].count + 1
           d == held[t][call[t].m] + 1
<1>1. call[t].h \in Hosts /\ call[t].m \in Mutexes
    BY Zenon, InCall DEF Ops
<1>2. host[call[t].h].count \in Nat /\ held[t][call[t].m] \in Nat
    BY Zenon, <1>1 DEF MutexInv, MutexTyped, Hosted
<1>3. n \in Nat /\ n # 0 /\ d \in Nat
    BY <1>2
<1>4. /\ host[call[t].h].is = "live" /\ host[call[t].h].owner \in {None, t} /\ Told(t, d)
      /\ host' = [host EXCEPT ![call[t].h].owner = t, ![call[t].h].count = n]
      /\ Return(t) /\ UNCHANGED fault
  <2>1. host' = [host EXCEPT ![call[t].h].owner = t, ![call[t].h].count = n]
    <3>1. host \in [Hosts -> Hosted]
        BY Zenon DEF MutexInv, MutexTyped
    <3> QED
        BY Zenon, <1>1, <3>1 DEF Take, Hosted
  <2> QED
      BY Zenon, <2>1 DEF Take
<1>5. careful => d = n
  <2>1. host[call[t].h].owner = None => host[call[t].h].count = 0
      BY Zenon, <1>1 DEF MutexInv, HostsOK, OwnerOK
  <2>2. careful => held[t][call[t].m] = host[call[t].h].count
      BY Zenon, <1>4, <2>1, NoneApart, ToldExact
  <2> QED
      BY Zenon, <2>2
<1>6. t # None
    BY Zenon, NoneApart
<1> HIDE DEF n, d
<1> QED
    BY Zenon, <1>3, <1>4, <1>5, <1>6, MutexChanges

LEMMA MutexLocks ==
    ASSUME MutexInv, NEW t \in Threads, pthread_mutex_lock(t)
    PROVE  MutexInv'
<1>1. /\ call[t].at = "lock" /\ call[t].at \in Ops
      /\ UNCHANGED <<wrapped, kind, state, guard, mutex_calls, careful>>
    BY Zenon DEF pthread_mutex_lock, CallAt, Ops
<1>2. CASE Undefined(t)
    BY Zenon, <1>1, <1>2, MutexFaults
<1>3. CASE Take(t)
    BY Zenon, <1>1, <1>3, MutexTakes
<1>4. CASE /\ host[call[t].h].is = "live" /\ host[call[t].h].owner = t
           /\ host[call[t].h].kind = "errorcheck"
           /\ Told(t, held[t][call[t].m] + 1)
           /\ Return(t) /\ UNCHANGED <<host, fault>>
  <2>1. /\ call[t].h \in Hosts /\ call[t].m \in Mutexes /\ call[t].h = wrapped[call[t].m]
        /\ state[call[t].m] # "destroyed" /\ call[t].op = "lock" /\ call[t].at # "idle"
      BY Zenon, <1>1, InCall
  <2>2. ~careful
    <3> SUFFICES ASSUME careful PROVE FALSE
        OBVIOUS
    <3>1. host[call[t].h].count # 0
        BY Zenon, <1>4, <2>1, NoneApart DEF MutexInv, HostsOK, OwnerOK
    <3>2. held[t][call[t].m] # 0
        BY Zenon, <1>1, <1>4, <3>1, ToldExact
    <3>3. Relocks(t) /\ HostOK(call[t].m)
        BY Zenon, <2>1 DEF MutexInv, CarefulOK, HostsOK
    <3>4. kind[call[t].m] = "recursive"
        BY Zenon, <2>1, <3>2, <3>3 DEF Relocks
    <3>5. host[call[t].h].kind = kind[call[t].m]
        BY Zenon, <1>4, <2>1, <3>3, NoneApart DEF HostOK
    <3> QED
        BY Zenon, <1>4, <3>4, <3>5
  <2>3. /\ held' \in [Threads -> [Mutexes -> Nat]]
        /\ \A u \in Threads : u # t => held'[u] = held[u]
    <3>1. held \in [Threads -> [Mutexes -> Nat]]
        BY Zenon DEF MutexInv, MutexTyped
    <3>2. held[t][call[t].m] + 1 \in Nat
      <4>1. held[t] \in [Mutexes -> Nat]
          BY Zenon, <3>1
      <4>2. held[t][call[t].m] \in Nat
          BY Zenon, <2>1, <4>1
      <4> QED
          BY <4>2
    <3> QED
        BY Zenon, <1>4, <2>1, <3>1, <3>2 DEF Told
  <2> QED
      BY Zenon, <1>1, <1>4, <2>2, <2>3, MutexAsBefore
<1> QED
    BY Zenon, <1>2, <1>3, <1>4 DEF pthread_mutex_lock

LEMMA MutexTryLocks ==
    ASSUME MutexInv, NEW t \in Threads, pthread_mutex_trylock(t)
    PROVE  MutexInv'
<1>1. /\ call[t].at \in Ops
      /\ UNCHANGED <<wrapped, kind, state, guard, mutex_calls, careful>>
    BY Zenon DEF pthread_mutex_trylock, CallAt, Ops
<1>2. CASE Undefined(t)
    BY Zenon, <1>1, <1>2, MutexFaults
<1>3. CASE Take(t)
    BY Zenon, <1>1, <1>3, MutexTakes
<1>4. CASE Return(t) /\ UNCHANGED <<host, held, fault>>
  <2>1. held' \in [Threads -> [Mutexes -> Nat]]
      BY Zenon, <1>4 DEF MutexInv, MutexTyped
  <2> QED
      BY Zenon, <1>1, <1>4, <2>1, MutexAsBefore
<1> QED
    BY Zenon, <1>2, <1>3, <1>4 DEF pthread_mutex_trylock

LEMMA MutexUnlocks ==
    ASSUME MutexInv, NEW t \in Threads, pthread_mutex_unlock(t)
    PROVE  MutexInv'
<1> DEFINE n == host[call[t].h].count - 1
           d == held[t][call[t].m] - 1
           o == IF host[call[t].h].count > 1 THEN t ELSE None
<1>1. /\ call[t].at = "unlock" /\ call[t].at \in Ops /\ call[t].at # "idle" /\ Return(t)
      /\ UNCHANGED <<wrapped, kind, state, guard, mutex_calls, fault, careful>>
    BY Zenon DEF pthread_mutex_unlock, CallAt, Ops
<1>2. call[t].h \in Hosts /\ call[t].m \in Mutexes /\ call[t].op = "unlock"
    BY Zenon, <1>1, InCall
<1>3. CASE host[call[t].h].owner = t
  <2>1. t # None
      BY Zenon, NoneApart
  <2>2. host[call[t].h].count \in Nat /\ held[t][call[t].m] \in Nat
      BY Zenon, <1>2 DEF MutexInv, MutexTyped, Hosted
  <2>3. host[call[t].h].count # 0 /\ host[call[t].h].is = "live"
      BY Zenon, <1>2, <1>3, <2>1 DEF MutexInv, HostsOK, OwnerOK
  <2>4. n \in Nat /\ (o = None <=> n = 0) /\ o \in {None, t}
      BY <2>1, <2>2, <2>3
  <2>5. d \in Nat
    <3>1. held[t][call[t].m] > 0
        BY Zenon, <1>1, <1>2 DEF MutexInv, CallsOK, CallOK
    <3> QED
        BY <2>2, <3>1
  <2>6. Told(t, d) /\ host' = [host EXCEPT ![call[t].h].owner = o, ![call[t].h].count = n]
    <3>1. host \in [Hosts -> Hosted]
        BY Zenon DEF MutexInv, MutexTyped
    <3>2. host' = [host EXCEPT ![call[t].h].count = n, ![call[t].h].owner = o]
        BY Zenon, <1>2, <1>3, <3>1 DEF pthread_mutex_unlock, Hosted
    <3>3. [host EXCEPT ![call[t].h].count = n, ![call[t].h].owner = o]
             = [host EXCEPT ![call[t].h].owner = o, ![call[t].h].count = n]
      <4> HIDE DEF n, o
      <4> QED
          BY Zenon, <1>2, <3>1 DEF Hosted
    <3> QED
        BY Zenon, <1>3, <3>2, <3>3 DEF pthread_mutex_unlock
  <2>7. careful => d = n
      BY Zenon, <1>1, <1>3, ToldExact
  <2>8. host[call[t].h].owner \in {None, t}
      BY Zenon, <1>3
  <2> HIDE DEF o, n, d
  <2> QED
      BY Zenon, <1>1, <2>3, <2>4, <2>5, <2>6, <2>7, <2>8, MutexChanges
<1>4. CASE host[call[t].h].owner # t
  <2>1. UNCHANGED <<host, held>>
      BY Zenon, <1>4 DEF pthread_mutex_unlock
  <2>2. held' \in [Threads -> [Mutexes -> Nat]]
      BY Zenon, <2>1 DEF MutexInv, MutexTyped
  <2> QED
      BY Zenon, <1>1, <2>1, <2>2, MutexAsBefore
<1> QED
    BY Zenon, <1>3, <1>4

LEMMA MutexSteps == MutexInv /\ [MutexNext]_mutexes => MutexInv'
<1> SUFFICES ASSUME MutexInv, [MutexNext]_mutexes PROVE MutexInv'
    OBVIOUS
<1>1. CASE UNCHANGED mutexes
  <2>1. UNCHANGED <<wrapped, kind, state, host, guard, call, held, mutex_calls, fault, careful>>
      BY Zenon, <1>1 DEF mutexes
  <2>2. MutexTyped'
      BY Zenon, <2>1 DEF MutexInv, MutexTyped
  <2>3. CallsOK'
      BY Zenon, <2>1, CallsStay DEF MutexInv
  <2>4. HostsOK'
      BY Zenon, <2>1, HostsStay DEF MutexInv
  <2>5. CarefulOK'
      BY Zenon, <2>1 DEF MutexInv, CarefulOK, Alone, Relocks, HeldOK
  <2> QED
      BY Zenon, <2>2, <2>3, <2>4, <2>5 DEF MutexInv
<1>2. CASE MutexNext
  <2>1. PICK t \in Threads :
           \/ \E m \in Mutexes :
                 \/ \E op \in Ops : enter(t, op, m)
                 \/ pthread_mutex_destroy(t, m)
                 \/ \E k \in Kinds : pthread_mutex_init(t, m, k) \/ static_again(t, m, k)
           \/ mutex_to_host(t) \/ mutex_static_initializer(t) \/ make_c_wrapped(t)
           \/ pthread_mutex_init_host(t) \/ return_wrapped(t)
           \/ pthread_mutex_lock(t) \/ pthread_mutex_trylock(t) \/ pthread_mutex_unlock(t)
      BY Zenon, <1>2 DEF MutexNext, Ops
  <2> QED
      BY Zenon, <2>1, MutexEnters, MutexDestroys, MutexInits, MutexReuses, MutexTests, MutexStores,
         MutexConstructs, MutexReads, MutexLocks, MutexTryLocks, MutexUnlocks
<1> QED
    BY Zenon, <1>1, <1>2

LEMMA MutexStart == MutexInit => MutexInv
<1> SUFFICES ASSUME MutexInit PROVE MutexInv
    OBVIOUS
<1>1. /\ wrapped = [m \in Mutexes |-> None] /\ kind \in [Mutexes -> Kinds]
      /\ state = [m \in Mutexes |-> "static"] /\ host = [h \in Hosts |-> Free]
      /\ guard = None /\ call = [t \in Threads |-> Idle]
      /\ held = [t \in Threads |-> [m \in Mutexes |-> 0]]
      /\ mutex_calls = 0 /\ fault = "none"
    BY Zenon DEF MutexInit
<1>2. MutexTyped
  <2>1. Free \in Hosted
      BY Zenon DEF Free, Hosted
  <2>2. Idle \in Called
      BY Zenon DEF Idle, Called
  <2> QED
      BY <1>1, <2>1, <2>2, NoneApart DEF MutexTyped
<1>3. \A t \in Threads : call[t] = Idle /\ call[t].at = "idle" /\ call[t].h = None
    BY Zenon, <1>1 DEF Idle
<1>4. CallsOK
    BY Zenon, <1>1, <1>3, NoneApart DEF CallsOK, CallOK, Ops, Making
<1>5. HostsOK
  <2>1. \A h \in Hosts : host[h].is = "free" /\ host[h].owner = None /\ host[h].count = 0
      BY Zenon, <1>1 DEF Free
  <2> QED
      BY Zenon, <1>1, <2>1 DEF HostsOK, HostOK, OwnerOK
<1>6. CarefulOK
    BY Zenon, <1>1, <1>3 DEF CarefulOK, Alone, Relocks, HeldOK
<1> QED
    BY Zenon, <1>2, <1>4, <1>5, <1>6 DEF MutexInv

(* For any threads and mutexes, and any number of calls: mutexes have one  *)
(* host mutex of their kind, however first calls race; and careful guests  *)
(* hold what they were told, and never reach a host mutex that is not      *)
(* ready (pthread_mutex_lock, pthread_mutex_init, pthread_mutex_destroy).  *)
THEOREM MutexesSafe == MutexSpec => []MutexesExact
<1>1. MutexInv => MutexesExact
  <2> SUFFICES ASSUME MutexInv PROVE MutexesExact
      OBVIOUS
  <2>1. ASSUME NEW h \in Hosts, host[h].is # "free"
        PROVE  \E m \in Mutexes : {n \in Mutexes : state[n] # "destroyed" /\ wrapped[n] = h} = {m}
    <3>1. PICK m \in Mutexes : Has(m, h)
        BY Zenon, <2>1 DEF MutexInv, HostsOK, OwnerOK
    <3>2. HostOK(m) /\ h # None
        BY Zenon, NoneApart DEF MutexInv, HostsOK
    <3>3. \A n \in Mutexes : Has(n, h) => n = m
        BY Zenon, <3>1, <3>2 DEF HostOK, Has
    <3> QED
        BY Zenon, <3>1, <3>3 DEF Has
  <2>2. \A m \in Mutexes :
           state[m] # "destroyed" /\ wrapped[m] # None /\ host[wrapped[m]].is = "live" => host[wrapped[m]].kind = kind[m]
      BY Zenon DEF MutexInv, HostsOK, HostOK
  <2>3. \A t \in Threads : call[t].h # None => call[t].h = wrapped[call[t].m]
      BY Zenon DEF MutexInv, CallsOK, CallOK
  <2>4. OneHost
      BY Zenon, <2>1, <2>2, <2>3 DEF OneHost, is_mutex_initialized
  <2>5. HoldsExact /\ Initialised
      BY Zenon DEF HoldsExact, Initialised, is_mutex_initialized, MutexInv, CarefulOK, HeldOK
  <2> QED
      BY Zenon, <2>4, <2>5 DEF MutexesExact
<1> QED
    BY MutexStart, MutexSteps, <1>1, PTL DEF MutexSpec

(* The mutexes' state has its types. *)
THEOREM MutexesTyped == MutexSpec => []MutexTypeOK
<1>1. MutexInv => MutexTypeOK
    BY Zenon DEF MutexInv, MutexTyped, Hosted, MutexTypeOK
<1> QED
    BY MutexStart, MutexSteps, <1>1, PTL DEF MutexSpec
=============================================================================
