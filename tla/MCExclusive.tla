----------------------------- MODULE MCExclusive -----------------------------
(***************************************************************************)
(* Instance of ExclusiveMonitor for TLC, in Sober's configuration.  The    *)
(* guest is chosen at the start: one that does anything, or one whose      *)
(* threads add to a shared word (ExclusiveCounter).                        *)
(***************************************************************************)
EXTENDS ExclusiveCounter

VARIABLE guest

allvars == <<cvars, guest>>

MCInit ==
    \/ /\ guest = "any" /\ Init
       /\ left = [t \in Threads |-> 0] /\ loaded = [t \in Threads |-> None] /\ calls = 0
    \/ guest = "counter" /\ CounterInit

Any == guest = "any" /\ Next /\ UNCHANGED <<left, loaded, calls, guest>>
Counts(A) == guest = "counter" /\ A /\ UNCHANGED guest

MCNext == Any \/ Counts(CounterNext)

(* A runnable thread is scheduled; nothing makes it wait but the lock, and *)
(* that is held for a few instructions.  A thread that is done ends.       *)
MCSpec ==
    /\ MCInit /\ [][MCNext]_allvars
    /\ \A t \in Threads : /\ WF_allvars(Counts(left[t] > 0 /\ start(t)))
                          /\ WF_allvars(Counts(Loop(t)))
                          /\ WF_allvars(Counts(stop(t)))

(* Every addition of the counting guest is made, and none is lost or made  *)
(* twice: the word counts the store-exclusives that reported success, and  *)
(* all loops end, although Sober's monitor is switched off and processor   *)
(* ids go from thread to thread.                                           *)
AllAdded == [](guest = "counter" => NothingLost) /\ LoopsEnd
=============================================================================
