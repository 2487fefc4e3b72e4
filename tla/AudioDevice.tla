----------------------------- MODULE AudioDevice -----------------------------
(***************************************************************************)
(* The audio device (src/src/class/audio_interface.cpp).                   *)
(*                                                                         *)
(* The guest's mixer writes blocks of 2048 bytes, SDL's audio thread asks  *)
(* for them.  Between the two are one buffer, a mutex and a condition      *)
(* variable without a predicate: write puts its block into the buffer and  *)
(* waits to be notified, the callback copies the buffer out and notifies   *)
(* after it has unlocked.  Blocks are numbered; a copy has two halves.     *)
(***************************************************************************)
EXTENDS Naturals

CONSTANT MaxBlocks      \* bound on the blocks written

ASSUME AudioAssumption == MaxBlocks \in Nat

VARIABLES
    audio_device,       \* "closed", "paused" or "playing"; "gone" at the end
    audio_buffer,       \* the number of the block in each half
    audio_mutex,        \* who has it
    writer, callback,   \* places of the two threads
    block,              \* the last block of the mixer
    stream,             \* what the callback is copying
    played, before,     \* history: the last two streams SDL was given
    spurious            \* history: a wait ended without a notification

writing == <<writer, block, spurious>>
playing == <<callback, stream, played, before>>
audio == <<audio_device, audio_buffer, audio_mutex, writing, playing>>

AudioInit ==
    /\ audio_device = "closed"
    /\ audio_buffer = <<0, 0>>
    /\ audio_mutex = "free"
    /\ writer = "out" /\ callback = "out"
    /\ block = 0 /\ spurious = FALSE
    /\ stream = <<0, 0>> /\ played = <<0, 0>> /\ before = <<0, 0>>

audio_interface_init ==
    /\ audio_device = "closed"
    /\ audio_device' = "paused"
    /\ UNCHANGED <<audio_buffer, audio_mutex, writing, playing>>

(* AudioDevice.init: from here on SDL calls the callback. *)
SDL_PauseAudioDevice ==
    /\ audio_device = "paused"
    /\ audio_device' = "playing"
    /\ UNCHANGED <<audio_buffer, audio_mutex, writing, playing>>

(* SDL_CloseAudioDevice waits for the callback to be out. *)
audio_interface_close ==
    /\ audio_device \in {"paused", "playing"} /\ callback = "out"
    /\ audio_device' = "gone"
    /\ UNCHANGED <<audio_buffer, audio_mutex, writing, playing>>

(***************************************************************************)
(* audio_callback                                                          *)
(***************************************************************************)
(* Mutant: no lock. *)
callback_lock_none ==
    /\ callback = "out" /\ audio_device = "playing"
    /\ callback' = "first"
    /\ UNCHANGED <<audio_device, audio_buffer, audio_mutex, writing, stream, played, before>>

callback_lock ==
    /\ callback = "out" /\ audio_device = "playing" /\ audio_mutex = "free"
    /\ audio_mutex' = "callback"
    /\ callback' = "first"
    /\ UNCHANGED <<audio_device, audio_buffer, writing, stream, played, before>>

callback_copy ==
    /\ \/ /\ callback = "first" /\ callback' = "second"
          /\ stream' = [stream EXCEPT ![1] = audio_buffer[1]]
          /\ UNCHANGED audio_mutex
       \/ /\ callback = "second" /\ callback' = "notify"
          /\ stream' = [stream EXCEPT ![2] = audio_buffer[2]]
          /\ audio_mutex' = IF audio_mutex = "callback" THEN "free" ELSE audio_mutex
    /\ UNCHANGED <<audio_device, audio_buffer, writing, played, before>>

(* Mutant: the notification is forgotten. *)
callback_notify_none ==
    /\ callback = "notify"
    /\ callback' = "out"
    /\ before' = played /\ played' = stream
    /\ UNCHANGED <<audio_device, audio_buffer, audio_mutex, writing, stream>>

(* notify_one, with the mutex already free; then the stream is SDL's. *)
callback_notify ==
    /\ callback = "notify"
    /\ callback' = "out"
    /\ before' = played /\ played' = stream
    /\ writer' = IF writer = "wait" THEN "woken" ELSE writer
    /\ UNCHANGED <<audio_device, audio_buffer, audio_mutex, block, spurious, stream>>

(***************************************************************************)
(* AudioDevice.write                                                       *)
(***************************************************************************)
write_lock ==
    /\ writer = "out" /\ block < MaxBlocks /\ audio_mutex = "free"
    /\ audio_mutex' = "writer"
    /\ block' = block + 1
    /\ writer' = "first"
    /\ UNCHANGED <<audio_device, audio_buffer, spurious, playing>>

write_copy ==
    /\ \/ /\ writer = "first" /\ writer' = "second"
          /\ audio_buffer' = [audio_buffer EXCEPT ![1] = block]
       \/ /\ writer = "second" /\ writer' = "waiting"
          /\ audio_buffer' = [audio_buffer EXCEPT ![2] = block]
    /\ UNCHANGED <<audio_device, audio_mutex, block, spurious, playing>>

(* Mutant: the wait ends at once. *)
write_wait_never ==
    /\ writer = "waiting"
    /\ audio_mutex' = "free"
    /\ writer' = "woken"
    /\ UNCHANGED <<audio_device, audio_buffer, block, spurious, playing>>

(* The wait gives the mutex up and waits, in one step. *)
write_wait ==
    /\ writer = "waiting"
    /\ audio_mutex' = "free"
    /\ writer' = "wait"
    /\ UNCHANGED <<audio_device, audio_buffer, block, spurious, playing>>

spurious_wakeup ==
    /\ writer = "wait"
    /\ writer' = "woken" /\ spurious' = TRUE
    /\ UNCHANGED <<audio_device, audio_buffer, audio_mutex, block, playing>>

(* The wait takes the mutex again, and write returns. *)
write_return ==
    /\ writer = "woken" /\ audio_mutex = "free"
    /\ writer' = "out"
    /\ UNCHANGED <<audio_device, audio_buffer, audio_mutex, block, spurious, playing>>

Callback == callback_lock \/ callback_copy \/ callback_notify
Write == write_copy \/ write_wait \/ write_return

AudioNext ==
    \/ audio_interface_init \/ SDL_PauseAudioDevice \/ audio_interface_close
    \/ Callback \/ Write \/ write_lock \/ spurious_wakeup

AudioSpec == AudioInit /\ [][AudioNext]_audio

(* SDL asks for audio again and again while the device plays; both threads *)
(* run, and the mutex is handed out fairly (its sections are short).       *)
FairAudioSpec == AudioSpec /\ SF_audio(Callback) /\ SF_audio(Write)

(***************************************************************************)
(* Properties.                                                             *)
(***************************************************************************)
(* Types. *)
AudioTypeOK ==
    /\ audio_device \in {"closed", "paused", "playing", "gone"}
    /\ {audio_buffer, stream, played, before} \subseteq [1 .. 2 -> 0 .. MaxBlocks]
    /\ audio_mutex \in {"free", "callback", "writer"}
    /\ callback \in {"out", "first", "second", "notify"}
    /\ writer \in {"out", "first", "second", "waiting", "wait", "woken"}
    /\ block \in 0 .. MaxBlocks /\ spurious \in BOOLEAN

(* SDL is never given halves of two blocks, although the callback and      *)
(* write run side by side and the buffer is used again for every block.    *)
BlocksWhole == played[1] = played[2]

(* Blocks are played in order, and between two callbacks the mixer         *)
(* overwrites at most one block: the one notification that comes after     *)
(* the unlock can end the wait of a write that began after the copy, and   *)
(* the block of that write is lost if the next one comes before the next   *)
(* callback.  As long as no wait ends by itself it is never more.          *)
AtMostOneLost == ~spurious => played[1] \in before[1] .. before[1] + 2

(* A write comes back: the callback that follows it ends its wait, unless  *)
(* the device is closed for good.                                          *)
WriteReturns == [](writer = "wait" /\ audio_device = "playing"
                      => <>(writer = "out" \/ audio_device = "gone"))
=============================================================================
