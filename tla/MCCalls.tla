------------------------------- MODULE MCCalls -------------------------------
(* The guest's calls for TLC. *)
EXTENDS NativeCalls, TLC

(* Three levels of Vulkan functions.  The guest asks for them at levels   *)
(* that have them, for one at a level that has not, and for the function   *)
(* that looks up at device level there.                                    *)
MCLibrary == {"vkGetInstanceProcAddr", "eglGetProcAddress"}
MCVk == {"vkCreateInstance", "vkGetDeviceProcAddr", "vkQueueSubmit"}
MCAsks == {<<"global", "vkCreateInstance">>, <<"instance", "vkGetDeviceProcAddr">>,
           <<"instance", "vkQueueSubmit">>, <<"global", "vkQueueSubmit">>,
           <<"device", "vkQueueSubmit">>, <<"device", "vkGetDeviceProcAddr">>}

(* A GL name whose function has another. *)
MCGLFunction == [glMapBuffer |-> "glMapBufferRange"]

(* Bound: a guest draws with GL or with Vulkan; their entries do not meet. *)
MCOneApi == GLSyms \cap given = {} \/ VkSyms \cap given = {}

MCSymmetry == Permutations(Devices)

(* What a resolver answers for the internet, and entries that the shim has *)
(* no names for at each field that can throw.                              *)
Info(family, socktype, proto, addr, canon) ==
    [family |-> family, socktype |-> socktype, proto |-> proto, addr |-> addr, canon |-> canon]

MCHostAnswers ==
    { Info("INET", "STREAM", "TCP", "INET", TRUE),
      Info("INET6", "DGRAM", "UDP", "INET6", FALSE),
      Info("INET", "SEQPACKET", "TCP", "INET", TRUE),
      Info("INET", "STREAM", "SCTP", "INET", FALSE),
      Info("UNIX", "STREAM", "IP", "UNIX", FALSE) }

MCGuestHints ==
    { Info("INET", "any", "IP", "none", FALSE),
      Info("UNSPEC", "STREAM", "TCP", "none", FALSE),
      Info("INET6", "DGRAM", "UDP", "INET6", FALSE),
      Info("UNSPEC", "STREAM", "SCTP", "none", FALSE) }
=============================================================================
