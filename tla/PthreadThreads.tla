--------------------------- MODULE PthreadThreads ----------------------------
(***************************************************************************)
(* The guest's threads, for the thread functions of the libc shim.         *)
(***************************************************************************)
CONSTANTS Threads, None
=============================================================================
