-------------------------- MODULE ThreadSpecificData --------------------------
(***************************************************************************)
(* What thread-specific data promises a guest that keeps its keys: each    *)
(* thread has its own value for each key, only the thread itself sets it,  *)
(* and after its routine has returned the destructor of a key is called,   *)
(* in that thread, with the value the thread last set, which is then gone. *)
(***************************************************************************)
EXTENDS Integers

CONSTANTS Threads, Keys, Values, Dtors, Null, Absent

VARIABLES
  phase,    \* "idle", "guest", "ending"
  dtor,     \* the destructor of a created key
  val,      \* thread -> key -> value
  call      \* the destructor call a thread is in: [routine, arg], or Null

tsd == <<phase, dtor, val, call>>

NoValues == [k \in Keys |-> Null]
InGuest(t) == phase[t] = "guest" \/ call[t] # Null

Init ==
  /\ phase = [t \in Threads |-> "idle"] /\ call = [t \in Threads |-> Null]
  /\ dtor = [k \in Keys |-> Absent] /\ val = [t \in Threads |-> NoValues]

(* Values a thread kept through every round of destructors are forgotten   *)
(* with the thread; one that begins has none.                              *)
Begin(t) ==
  /\ phase[t] = "idle" /\ val[t] = NoValues
  /\ phase' = [phase EXCEPT ![t] = "guest"]
  /\ UNCHANGED <<dtor, val, call>>

Create(t, k, d) ==
  /\ InGuest(t) /\ dtor[k] = Absent
  /\ dtor' = [dtor EXCEPT ![k] = d]
  /\ UNCHANGED <<phase, val, call>>

Set(t, k, v) ==
  /\ InGuest(t) /\ dtor[k] # Absent
  /\ val' = [val EXCEPT ![t][k] = v]
  /\ UNCHANGED <<phase, dtor, call>>

End(t) ==
  /\ phase[t] = "guest"
  /\ phase' = [phase EXCEPT ![t] = "ending"]
  /\ UNCHANGED <<dtor, val, call>>

Call(t, k) ==
  /\ phase[t] = "ending" /\ call[t] = Null /\ val[t][k] # Null
  /\ call' = [call EXCEPT ![t] = [routine |-> dtor[k], value |-> val[t][k]]]
  /\ val' = [val EXCEPT ![t][k] = Null]
  /\ UNCHANGED <<phase, dtor>>

Return(t) ==
  /\ call[t] # Null
  /\ call' = [call EXCEPT ![t] = Null]
  /\ UNCHANGED <<phase, dtor, val>>

Gone(t) ==
  /\ phase[t] = "ending" /\ call[t] = Null
  /\ phase' = [phase EXCEPT ![t] = "idle"]
  /\ UNCHANGED <<dtor, val, call>>

Next ==
  \E t \in Threads :
    \/ Begin(t) \/ End(t) \/ Return(t) \/ Gone(t)
    \/ \E k \in Keys : \/ Call(t, k)
                       \/ \E d \in Dtors : Create(t, k, d)
                       \/ \E v \in Values \cup {Null} : Set(t, k, v)

Spec == Init /\ [][Next]_tsd
==============================================================================
