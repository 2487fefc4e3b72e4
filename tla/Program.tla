------------------------------- MODULE Program -------------------------------
(***************************************************************************)
(* The program's own threads together: the audio device, the event loop    *)
(* and the cookie store.  They share no state, so that a behaviour is one  *)
(* of a single part, chosen at the start.                                  *)
(***************************************************************************)
EXTENDS AudioDevice, MainLoop

CONSTANTS Names, Values, None, Junk, MaxBatch, MaxSets, MaxStarts

VARIABLES
    part,
    \* the cookie store
    cookies, file, order, process, sets, starts, last

store == <<cookies, file, order, process, sets, starts, last>>

Store == INSTANCE Cookies WITH at <- process

ASSUME StoreAssumption == Store!CookieAssumption

ProgramInit ==
    /\ part \in {"audio", "loop", "store"}
    /\ AudioInit /\ LoopInit /\ Store!Init
    /\ spaced => part = "loop"

AudioPart == part = "audio" /\ AudioNext /\ UNCHANGED <<part, loop, store>>
LoopPart == part = "loop" /\ LoopNext /\ UNCHANGED <<part, audio, store>>
StorePart == part = "store" /\ Store!Next /\ UNCHANGED <<part, audio, loop>>

ProgramNext == AudioPart \/ LoopPart \/ StorePart

ProgramSpec == ProgramInit /\ [][ProgramNext]_<<part, audio, loop, store>>

(* The fairness of each part (AudioDevice, MainLoop), while it runs. *)
FairProgramSpec ==
    /\ ProgramSpec
    /\ SF_audio(part = "audio" /\ Callback) /\ SF_audio(part = "audio" /\ Write)
    /\ WF_loop(part = "loop" /\ Main)
    /\ WF_loop(part = "loop" /\ Caller)
    /\ WF_loop(part = "loop" /\ window_shown)

(* The cookie with the fewest spaces is the latest (Cookies). *)
LatestFirst == Store!LatestFirst
=============================================================================
