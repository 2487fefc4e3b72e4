------------------------------ MODULE MainLoop -------------------------------
(***************************************************************************)
(* The event loop of the main program (src/src/main.cpp), and what other   *)
(* threads send to it: the guest's notification that the app is ready      *)
(* (src/src/class/native_gl_interface.cpp), and its requests to join a     *)
(* game, which go through six globals and an event                         *)
(* (src/src/class/start_game_params.cpp).                                  *)
(*                                                                         *)
(* A frame polls all events into flags, then does the tasks of the flags   *)
(* that are set.  Guest code that the loop runs comes back, and may run    *)
(* beside every step of other threads.  Requests are numbered; a field     *)
(* holds the number of the request that wrote it.                          *)
(***************************************************************************)
EXTENDS Naturals, Sequences, FiniteSets, Functions

CONSTANTS
    Fields,             \* the globals, in the order they are written
    MaxRequests, MaxReady, MaxWindow    \* bounds on what happens

ASSUME LoopAssumption ==
    /\ Fields \in Seq(STRING) /\ Fields # <<>>
    /\ {MaxRequests, MaxReady, MaxWindow} \subseteq Nat

FieldNames == {Fields[i] : i \in DOMAIN Fields}

VARIABLES
    queue,              \* SDL's events
    at, is_running,     \* place in the frame
    window_presented, startup_task, game_start_task, resize_task,
    frame_del, mouse_motion_task,
    current,            \* the current_* globals of start_game_params.cpp
    request, callbacks, \* the last request, and the calls of run in progress
    unread, seen,       \* fields the guest has yet to read, and what it read
    subscribed,         \* whether the message bus calls back
    sent,               \* history: the last request whose event was pushed
    overlapped,         \* history: a request was made during another one's callback
    served,             \* history: the oldest field of the last start
    torn,               \* history: a start read fields of two requests
    ready, started,     \* history: notifications, starts of the app
    resized, drawn,     \* history: resizes, and updates of the surface
    moved, passed,      \* history: motion from SDL, and to the guest
    spaced              \* the guest: a request only when the one before was started

flags == <<window_presented, startup_task, game_start_task, resize_task>>
motion == <<frame_del, mouse_motion_task, passed>>
params == <<current, request, callbacks, sent, overlapped>>
game == <<unread, seen, served, torn>>
app == <<subscribed, started, drawn>>
outside == <<ready, resized, moved, spaced>>
loop == <<queue, at, is_running, flags, motion, params, game, app, outside>>

LoopInit ==
    /\ queue = <<>>
    /\ at = "poll" /\ is_running = TRUE
    /\ window_presented = FALSE /\ startup_task = FALSE
    /\ game_start_task = FALSE /\ resize_task = FALSE
    /\ frame_del = 0 /\ mouse_motion_task = FALSE /\ passed = 0
    /\ current = [f \in FieldNames |-> 0]
    /\ request = 0 /\ callbacks = {} /\ sent = 0 /\ overlapped = FALSE
    /\ unread = {} /\ seen = {} /\ served = 0 /\ torn = FALSE
    /\ subscribed = FALSE /\ started = 0 /\ drawn = 0
    /\ ready = 0 /\ resized = 0 /\ moved = 0
    /\ spaced \in BOOLEAN

SDL_PushEvent(e) == queue' = Append(queue, e)

(***************************************************************************)
(* Other threads.                                                          *)
(***************************************************************************)
(* SDL: the window is shown once, resized and closed; the mouse moves. *)
window_shown ==
    /\ ~window_presented /\ "shown" \notin Range(queue)
    /\ SDL_PushEvent("shown")
    /\ UNCHANGED <<at, is_running, flags, motion, params, game, app, outside>>

window_event ==
    /\ resized + moved < MaxWindow
    /\ \/ SDL_PushEvent("resized") /\ resized' = resized + 1 /\ UNCHANGED moved
       \/ SDL_PushEvent("motion") /\ moved' = moved + 1 /\ UNCHANGED resized
    /\ UNCHANGED <<at, is_running, flags, motion, params, game, app, ready, spaced>>

window_closed ==
    /\ is_running /\ "quit" \notin Range(queue)
    /\ SDL_PushEvent("quit")
    /\ UNCHANGED <<at, is_running, flags, motion, params, game, app, outside>>

(* APP_READY, from whichever thread of the guest. *)
onDataModelNotificationCallback ==
    /\ ready < MaxReady
    /\ ready' = ready + 1
    /\ SDL_PushEvent("startup")
    /\ UNCHANGED <<at, is_running, flags, motion, params, game, app, resized, moved, spaced>>

(* MessageBusCallback.run, for a request it can handle, from whichever     *)
(* thread the guest's message bus runs it on, with no lock: ...            *)
message_bus_run ==
    /\ subscribed /\ request < MaxRequests
    /\ spaced => callbacks = {} /\ served = sent
    /\ request' = request + 1
    /\ callbacks' = callbacks \cup {[id |-> request', written |-> 0]}
    /\ overlapped' = (overlapped \/ callbacks # {})
    /\ UNCHANGED <<queue, at, is_running, flags, motion, current, sent, game, app, outside>>

(* ... its fields are written one by one, ... *)
set_start_game_params(k) ==
    /\ k.written < Len(Fields)
    /\ current' = [current EXCEPT ![Fields[k.written + 1]] = k.id]
    /\ callbacks' = (callbacks \ {k}) \cup {[k EXCEPT !.written = @ + 1]}
    /\ UNCHANGED <<queue, at, is_running, flags, motion, request, sent, overlapped, game, app, outside>>

(* Mutant: the event may be pushed before the fields are written. *)
message_bus_push_early(k) ==
    /\ sent < k.id
    /\ SDL_PushEvent("start_game")
    /\ sent' = k.id
    /\ UNCHANGED <<at, is_running, flags, motion, current, request, callbacks, overlapped, game, app, outside>>

(* ... and the event is pushed last. *)
message_bus_push(k) ==
    /\ k.written = Len(Fields)
    /\ SDL_PushEvent("start_game")
    /\ sent' = IF sent < k.id THEN k.id ELSE sent
    /\ callbacks' = callbacks \ {k}
    /\ UNCHANGED <<at, is_running, flags, motion, current, request, overlapped, game, app, outside>>

(***************************************************************************)
(* The loop.                                                               *)
(***************************************************************************)
poll(e) == at = "poll" /\ queue # <<>> /\ Head(queue) = e /\ queue' = Tail(queue)

poll_quit ==
    /\ poll("quit")
    /\ is_running' = FALSE
    /\ UNCHANGED <<at, flags, motion, params, game, app, outside>>

(* Where the cursor is, and whether it is locked, is left out. *)
poll_motion ==
    /\ poll("motion")
    /\ frame_del' = frame_del + 1
    /\ mouse_motion_task' = TRUE
    /\ UNCHANGED <<at, is_running, flags, passed, params, game, app, outside>>

poll_window ==
    /\ \/ poll("resized") /\ resize_task' = TRUE /\ UNCHANGED window_presented
       \/ poll("shown") /\ window_presented' = TRUE /\ UNCHANGED resize_task
    /\ UNCHANGED <<at, is_running, startup_task, game_start_task, motion, params, game, app, outside>>

poll_custom ==
    /\ \/ poll("startup") /\ startup_task' = TRUE /\ UNCHANGED game_start_task
       \/ poll("start_game") /\ game_start_task' = TRUE /\ UNCHANGED startup_task
    /\ UNCHANGED <<at, is_running, window_presented, resize_task, motion, params, game, app, outside>>

poll_empty ==
    /\ at = "poll" /\ queue = <<>>
    /\ at' = "resize"
    /\ UNCHANGED <<queue, is_running, flags, motion, params, game, app, outside>>

(* Mutant: a resize before the window is shown is forgotten. *)
resize_surface_shown ==
    /\ at = "resize" /\ at' = "startup"
    /\ resize_task' = FALSE
    /\ drawn' = IF resize_task /\ window_presented THEN resized ELSE drawn
    /\ UNCHANGED <<queue, is_running, window_presented, startup_task, game_start_task,
                   motion, params, game, subscribed, started, outside>>

(* The guest looks up the size of the moment. *)
resize_surface ==
    /\ at = "resize" /\ at' = "startup"
    /\ resize_task' = FALSE
    /\ drawn' = IF resize_task THEN resized ELSE drawn
    /\ UNCHANGED <<queue, is_running, window_presented, startup_task, game_start_task,
                   motion, params, game, subscribed, started, outside>>

start_app ==
    /\ at = "startup" /\ at' = "game"
    /\ IF startup_task /\ window_presented
       THEN startup_task' = FALSE /\ subscribed' = TRUE /\ started' = started + 1
       ELSE UNCHANGED <<startup_task, subscribed, started>>
    /\ UNCHANGED <<queue, is_running, window_presented, game_start_task, resize_task,
                   motion, params, game, drawn, outside>>

start_game ==
    /\ at = "game"
    /\ game_start_task' = FALSE
    /\ IF game_start_task
       THEN at' = "params" /\ unread' = FieldNames /\ seen' = {}
       ELSE at' = "motion" /\ UNCHANGED <<unread, seen>>
    /\ UNCHANGED <<queue, is_running, window_presented, startup_task, resize_task,
                   motion, params, served, torn, app, outside>>

(* The guest reads the parameters through the methods of StartGameParams,  *)
(* in any order.                                                           *)
read_param(f) ==
    /\ at = "params" /\ f \in unread
    /\ unread' = unread \ {f}
    /\ seen' = seen \cup {current[f]}
    /\ UNCHANGED <<queue, at, is_running, flags, motion, params, served, torn, app, outside>>

game_started ==
    /\ at = "params" /\ unread = {}
    /\ at' = "motion"
    /\ served' = CHOOSE r \in seen : \A s \in seen : r <= s
    /\ torn' = (torn \/ Cardinality(seen) > 1)
    /\ UNCHANGED <<queue, is_running, flags, motion, params, unread, seen, app, outside>>

(* The last task; the next frame begins with no motion. *)
mouse_move ==
    /\ at = "motion"
    /\ passed' = IF mouse_motion_task THEN passed + frame_del ELSE passed
    /\ mouse_motion_task' = FALSE /\ frame_del' = 0
    /\ at' = IF is_running THEN "poll" ELSE "ended"
    /\ UNCHANGED <<queue, is_running, flags, params, game, app, outside>>

Main ==
    \/ poll_quit \/ poll_motion \/ poll_window \/ poll_custom \/ poll_empty
    \/ resize_surface \/ start_app \/ start_game
    \/ (\E f \in FieldNames : read_param(f)) \/ game_started \/ mouse_move

Caller == \E k \in callbacks : set_start_game_params(k) \/ message_bus_push(k)

LoopNext ==
    \/ Main \/ Caller \/ message_bus_run
    \/ window_shown \/ window_event \/ window_closed \/ onDataModelNotificationCallback

LoopSpec == LoopInit /\ [][LoopNext]_loop

(* The threads run, the guest comes back from what the loop calls, and     *)
(* SDL shows the window.                                                   *)
FairLoopSpec == LoopSpec /\ WF_loop(Main) /\ WF_loop(Caller) /\ WF_loop(window_shown)

(***************************************************************************)
(* Properties.                                                             *)
(***************************************************************************)
(* Types. *)
LoopTypeOK ==
    /\ queue \in Seq({"shown", "resized", "motion", "quit", "startup", "start_game"})
    /\ at \in {"poll", "resize", "startup", "game", "params", "motion", "ended"}
    /\ {is_running, window_presented, startup_task, game_start_task, resize_task,
        mouse_motion_task, subscribed, torn, overlapped} \subseteq BOOLEAN
    /\ current \in [FieldNames -> 0 .. MaxRequests] /\ unread \subseteq FieldNames
    /\ seen \subseteq 0 .. MaxRequests
    /\ {request, sent, served} \subseteq 0 .. MaxRequests
    /\ callbacks \subseteq [id : 1 .. request, written : 0 .. Len(Fields)]
    /\ started \in 0 .. MaxReady
    /\ {frame_del, passed} \subseteq 0 .. MaxWindow

(* No motion is lost or passed twice: what SDL has sent is with the guest, *)
(* in this frame, or in the queue, whatever else the frame did.            *)
MotionConserved ==
    moved = passed + frame_del + Cardinality({i \in DOMAIN queue : queue[i] = "motion"})

(* A game is started with the parameters of one request, for guests that   *)
(* wait for one to be started before they make the next; the fields are    *)
(* written and read by two threads without a lock.                         *)
ParamsWhole == spaced => ~torn

(* What other threads and the window system hand to the event loop reaches *)
(* the guest whole: no motion is lost or passed twice, and a game is       *)
(* started with the parameters of one request.                             *)
InputWhole == MotionConserved /\ ParamsWhole

(* Every request is served: also when requests overtake the loop and are   *)
(* folded into one flag, and when one is read half, a start follows whose  *)
(* every field is of that request or a later one, unless the loop ends.    *)
(* Callbacks that overlap mix their fields for good, and are excepted.     *)
RequestServed == \A r \in 1 .. MaxRequests :
    sent >= r ~> (served >= r \/ ~is_running \/ overlapped)

(* The app is started once it is ready and the window is shown, in         *)
(* whichever order they come.                                              *)
AppStarts == ready > 0 ~> (started > 0 \/ ~is_running)

(* The surface follows the window: after every resize, also one before the *)
(* window is shown or while a game starts, it is updated.                  *)
SurfaceFollows == \A r \in 1 .. MaxWindow : resized >= r ~> (drawn >= r \/ ~is_running)

(* The event loop gets to everything: every request is served, the app is  *)
(* started once it is ready and the window is shown, and after every       *)
(* resize the surface is updated.                                          *)
LoopServes == RequestServed /\ AppStarts /\ SurfaceFollows
=============================================================================
