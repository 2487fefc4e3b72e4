----------------------------- MODULE Trampolines -----------------------------
(***************************************************************************)
(* How the guest reaches native functions.                                 *)
(*                                                                         *)
(*   src/src/trampoline.cpp              table and guest code              *)
(*   src/src/libs/syms.cpp, jni.cpp      what is created at start-up       *)
(*   src/src/libs/egl_syms.cpp           functions bound by eglGetProcAddress*)
(*   src/src/libs/vulkan_syms.cpp        functions bound by vkGet*ProcAddr *)
(*   src/src/execution_context.cpp       GetSupervisorFastCall,            *)
(*                                       handle_call_svc                   *)
(*                                                                         *)
(* A trampoline is an entry of a vector, and two words of guest code: an   *)
(* SVC whose immediate is the entry's index plus an offset, and a return.  *)
(* The table is filled at start-up, in part after dlopen has run the       *)
(* library's constructors, which may have started threads (LoadThreads).   *)
(* GL and Vulkan entries have no function until the guest asks for it.     *)
(* When a context's JIT compiles a trampoline it binds the function of     *)
(* that moment into the code (fast path), or leaves the call to            *)
(* handle_call_svc, which reads the table every time.                      *)
(***************************************************************************)
EXTENDS Integers, Sequences, FiniteSets

CONSTANTS
    Words,              \* u32 words in the buffer (16384)
    Imms, Offset,       \* immediates of SVC (65536), trampoline_id_offset (16)
    LibrarySyms, GLSyms, VkSyms, JniSyms,       \* names
    GLFunction,         \* the function extra_gl_symbols has for each name
    SideEffects,        \* names with has_execution_side_effects
    Own, OwnDevice,     \* Vulkan names that have a function of the program's own
    Global, DeviceLevel,\* Vulkan names resolved without instance, with device
    Threads, Main, LoadThreads,
    Devices, None

Names == LibrarySyms \cup GLSyms \cup VkSyms \cup JniSyms
GLFuncs == {GLFunction[n] : n \in GLSyms}

ASSUME BufferAssumption ==
    /\ Words \in Nat /\ Imms \in Nat /\ Offset \in Nat
    /\ Words > 0
    /\ Words \div 2 + Offset <= Imms

ASSUME GuestAssumption ==
    /\ Main \in Threads /\ LoadThreads \subseteq Threads \ {Main}
    /\ {"vkGetInstanceProcAddr", "eglGetProcAddress"} \subseteq LibrarySyms
    /\ {"vkCreateInstance", "vkGetDeviceProcAddr"} \subseteq Own
    /\ Own \subseteq VkSyms /\ OwnDevice \subseteq DeviceLevel
    /\ None \notin Devices
    \* a symbol of two lists is two symbols
    /\ (LibrarySyms \cup JniSyms) \cap (GLSyms \cup VkSyms) = {}
    /\ LibrarySyms \cap JniSyms = {} /\ GLSyms \cap VkSyms = {}

VARIABLES
    stage,              \* main's progress through start-up
    trampolines,        \* the vector
    capacity, storage,  \* its capacity, and which allocation holds it
    trampoline_code, trampoline_code_index,
    given,              \* names whose guest address the guest has
    glad,               \* GL functions that glad has a pointer to
    global_instance,    \* whether there is an instance
    devices,            \* devices that exist
    answered,           \* history: what lookups of a Vulkan name have answered
    block,              \* what each context has compiled for each trampoline
    held,               \* a reference into the vector that a thread holds
    fault

table == <<trampolines, capacity, storage, trampoline_code, trampoline_code_index>>
drivers == <<glad, global_instance, devices, answered>>
guest == <<block, held>>
vars == <<stage, table, given, drivers, guest, fault>>

Native(name, by, dev) == [name |-> name, by |-> by, dev |-> dev]
Null == Native(None, "nobody", None)
ASSUME NoneAssumption == None # Null
Word == [op : {"none", "yield", "svc", "ret"}, imm : 0 .. Imms - 1]
Instr(op, imm) == [op |-> op, imm |-> imm]
Zero == Instr("none", 0)
NoRef == [use |-> "none", name |-> None, storage |-> 0]

(* The loader and the driver (external). *)
proc_addr(instance, name) ==
    IF instance \/ name \in Global THEN Native(name, "loader", None) ELSE Null
device_proc_addr(d, name) ==
    IF name \in DeviceLevel THEN Native(name, "driver", d) ELSE Null

Init ==     \* after trampoline_init
    /\ stage = "syms_init"
    /\ trampolines = <<>> /\ capacity = 0 /\ storage = 0
    /\ trampoline_code = [w \in 0 .. Words - 1 |-> IF w = 0 THEN Instr("yield", 0) ELSE Zero]
    /\ trampoline_code_index = 1
    /\ given = {}
    /\ glad = {} /\ global_instance = FALSE /\ devices = {}
    /\ answered = [n \in VkSyms |-> {}]
    /\ block = [t \in Threads |-> [n \in Names |-> None]]
    /\ held = [t \in Threads |-> NoRef]
    /\ fault = "none"

Created == {trampolines[i].name : i \in DOMAIN trampolines}
(* The next of a list of symbols; the order of a list is fixed. *)
NextOf(syms) == CHOOSE name \in syms : name \notin Created
IndexOf(name) == CHOOSE i \in DOMAIN trampolines : trampolines[i].name = name

(***************************************************************************)
(* trampoline_create: the test for exhaustion reads the word two beyond    *)
(* the index and takes it for an index itself.  Words are zero until they  *)
(* are written, and an instruction is larger than any index.               *)
(***************************************************************************)
(* emplace_back, with the vector's growth by doubling. *)
emplace_back(entry) ==
    /\ trampolines' = Append(trampolines, entry)
    /\ IF Len(trampolines) = capacity
       THEN /\ capacity' = IF capacity = 0 THEN 1 ELSE 2 * capacity
            /\ storage' = storage + 1
       ELSE UNCHANGED <<capacity, storage>>

(* What the test for exhaustion does: it throws, it lets the creation      *)
(* pass, or it reads outside the mapping.                                  *)
exhaustion_test ==
    IF trampoline_code_index + 2 >= Words THEN "overrun"
    ELSE IF trampoline_code[trampoline_code_index + 2] # Zero THEN "exhausted" ELSE "none"

emit(id) ==
    /\ trampoline_code' = [trampoline_code EXCEPT
                             ![trampoline_code_index] = Instr("svc", (id + Offset) % Imms),
                             ![trampoline_code_index + 1] = Instr("ret", 0)]
    /\ trampoline_code_index' = trampoline_code_index + 2

(* Mutant: the id is taken when the entry is already in the vector. *)
trampoline_create_after(name, native_func) ==
    /\ fault' = exhaustion_test
    /\ IF exhaustion_test # "none" THEN UNCHANGED table
       ELSE /\ emplace_back([name |-> name, native_func |-> native_func,
                             guest_trampoline |-> trampoline_code_index])
            /\ emit(Len(trampolines) + 1)

trampoline_create(name, native_func) ==
    /\ fault' = exhaustion_test
    /\ IF exhaustion_test # "none" THEN UNCHANGED table
       ELSE /\ emplace_back([name |-> name, native_func |-> native_func,
                             guest_trampoline |-> trampoline_code_index])
            /\ emit(Len(trampolines))

(* trampoline_get_by_id, of the immediate of an SVC. *)
trampoline_get_by_id(imm) == trampolines[imm - Offset + 1]

(***************************************************************************)
(* Start-up, in main's thread.                                             *)
(***************************************************************************)
add_library ==
    LET name == NextOf(LibrarySyms) IN
    /\ stage = "syms_init" /\ ~(LibrarySyms \subseteq Created)
    /\ trampoline_create(name, Native(name, "library", None))
    /\ UNCHANGED <<stage, given, drivers, guest>>

create_extra_gl_trampolines ==
    /\ stage = "syms_init" /\ LibrarySyms \subseteq Created
    /\ ~(GLSyms \subseteq Created)
    /\ trampoline_create(NextOf(GLSyms), Null)
    /\ UNCHANGED <<stage, given, drivers, guest>>

create_vulkan_trampolines ==
    /\ stage = "syms_init" /\ LibrarySyms \cup GLSyms \subseteq Created
    /\ ~(VkSyms \subseteq Created)
    /\ trampoline_create(NextOf(VkSyms), Null)
    /\ UNCHANGED <<stage, given, drivers, guest>>

(* linker::dlopen resolves the library's symbols and runs constructors. *)
dlopen ==
    /\ stage = "syms_init" /\ Names \ JniSyms \subseteq Created
    /\ stage' = "constructors"
    /\ given' = LibrarySyms
    /\ UNCHANGED <<table, drivers, guest, fault>>

Returned == held[Main] = NoRef

constructors_return ==
    /\ stage = "constructors" /\ Returned
    /\ stage' = "java_vm_new"
    /\ UNCHANGED <<table, given, drivers, guest, fault>>

(* Mutant: the table is filled when a thread first needs an environment. *)
java_vm_new_lazy ==
    LET name == NextOf(JniSyms) IN
    /\ stage \in {"java_vm_new", "running"} /\ ~(JniSyms \subseteq Created)
    /\ trampoline_create(name, Native(name, "library", None))
    /\ given' = given \cup {name}
    /\ stage' = "running"
    /\ UNCHANGED <<drivers, guest>>

java_vm_new ==
    LET name == NextOf(JniSyms) IN
    /\ stage = "java_vm_new" /\ ~(JniSyms \subseteq Created)
    /\ trampoline_create(name, Native(name, "library", None))
    /\ UNCHANGED <<stage, given, drivers, guest>>

JNI_OnLoad ==
    /\ stage = "java_vm_new" /\ JniSyms \subseteq Created
    /\ stage' = "running"
    /\ given' = given \cup JniSyms
    /\ UNCHANGED <<table, drivers, guest, fault>>

InGuest(t) ==
    /\ held[t] = NoRef
    /\ \/ stage = "running"
       \/ stage = "constructors" /\ t \in LoadThreads \cup {Main}
       \/ stage = "java_vm_new" /\ t \in LoadThreads

(* The entry that the guest code of a name leads to, and the function that *)
(* a call by a thread runs: the one that is compiled in, or the entry's.   *)
Entry(name) ==
    trampoline_get_by_id(trampoline_code[trampolines[IndexOf(name)].guest_trampoline].imm)
Reaches(t, name) ==
    IF block[t][name] \in {None, Null} THEN Entry(name).native_func ELSE block[t][name]

(***************************************************************************)
(* Binding.  A lookup is one step.                                         *)
(***************************************************************************)
(* glad loads the functions of the versions and extensions that the        *)
(* current context has, and leaves its other pointers alone; without a     *)
(* current context it loads nothing.  What a driver has once it has again. *)
gladLoadGLES2Loader == \E loaded \in SUBSET GLFuncs : glad' = glad \cup loaded

(* The pointer of a GL name, null until glad has loaded it. *)
deferred_value(name, loaded) ==
    IF GLFunction[name] \in loaded THEN Native(GLFunction[name], "loader", None) ELSE Null

(* eglGetProcAddress holds gl_lock, loads and binds all functions every    *)
(* time (gl_initialized is never set), and returns the address of the name *)
(* whether it has a function or not.                                       *)
eglGetProcAddress(t, name) ==
    /\ InGuest(t) /\ "eglGetProcAddress" \in given /\ name \in GLSyms
    /\ gladLoadGLES2Loader
    /\ trampolines' = [i \in DOMAIN trampolines |->
                         IF trampolines[i].name \in GLSyms
                         THEN [trampolines[i] EXCEPT !.native_func = deferred_value(trampolines[i].name, glad')]
                         ELSE trampolines[i]]
    /\ given' = given \cup {name}
    /\ UNCHANGED <<stage, capacity, storage, trampoline_code, trampoline_code_index>>
    /\ UNCHANGED <<global_instance, devices, answered, guest, fault>>

(* A Vulkan entry's function is replaced by every answer, null included;   *)
(* only for another answer is the address returned.                        *)
Bind(name, native_func) ==
    /\ trampolines' = [trampolines EXCEPT ![IndexOf(name)].native_func = native_func]
    /\ given' = IF native_func = Null THEN given ELSE given \cup {name}
    /\ answered' = [answered EXCEPT ![name] = @ \cup {native_func}]
    /\ UNCHANGED <<stage, capacity, storage, trampoline_code, trampoline_code_index>>
    /\ UNCHANGED <<glad, global_instance, devices, guest, fault>>

(* Mutant: the address is given before there is a function. *)
vkGetInstanceProcAddr_deferred(t, instance, name) ==
    /\ InGuest(t) /\ "vkGetInstanceProcAddr" \in given
    /\ instance => global_instance
    /\ given' = given \cup {name}
    /\ UNCHANGED <<stage, table, drivers, guest, fault>>

vkGetInstanceProcAddr(t, instance, name) ==
    /\ InGuest(t) /\ "vkGetInstanceProcAddr" \in given
    /\ instance => global_instance
    /\ Bind(name, IF name \in Own THEN Native(name, "own", None) ELSE proc_addr(instance, name))

(* Asked for its own name it binds the driver's function to its own        *)
(* trampoline.  That one answers with addresses of the host, which are no  *)
(* guest code.                                                             *)
vkGetDeviceProcAddr(t, d, name) ==
    /\ InGuest(t) /\ block[t]["vkGetDeviceProcAddr"] # None
    /\ d \in devices
    /\ \/ /\ Reaches(t, "vkGetDeviceProcAddr").by = "own"
          /\ Bind(name, IF name \in OwnDevice THEN Native(name, "own", None) ELSE device_proc_addr(d, name))
       \/ /\ Reaches(t, "vkGetDeviceProcAddr").by = "driver"
          /\ fault' = "host address"
          /\ UNCHANGED <<stage, table, given, drivers, guest>>

(* Where there is an instance it is returned.  Otherwise what the guest's  *)
(* variable holds after the driver's call becomes the instance, and is     *)
(* used, whatever the result: a new instance, nothing, or, when the call   *)
(* fails and leaves the variable alone, what it happened to hold.          *)
(* vkDestroyInstance does nothing, so that there is at most one.           *)
vkCreateInstance(t) ==
    /\ InGuest(t) /\ "vkCreateInstance" \in given
    /\ Reaches(t, "vkCreateInstance").by = "own" /\ ~global_instance
    /\ \E instance \in {"new", "null", "stale"} :
          /\ global_instance' = (instance = "new")
          /\ fault' = IF instance = "stale" THEN "invalid instance" ELSE fault
    /\ UNCHANGED <<stage, table, given, glad, devices, answered, guest>>

(* Devices come (external). *)
vkCreateDevice(t, d) ==
    /\ InGuest(t) /\ global_instance /\ d \notin devices
    /\ devices' = devices \cup {d}
    /\ UNCHANGED <<stage, table, given, glad, global_instance, answered, guest, fault>>

(***************************************************************************)
(* Calling.  The guest calls the trampolines whose address it has.         *)
(***************************************************************************)
(* The JIT compiles the trampoline: GetSupervisorFastCall takes a pointer  *)
(* into the vector ...                                                     *)
compile(t, name) ==
    /\ InGuest(t) /\ name \in given /\ block[t][name] = None
    /\ held' = [held EXCEPT ![t] = [use |-> "compile", name |-> name, storage |-> storage]]
    /\ UNCHANGED <<stage, table, given, drivers, block, fault>>

Dangling(t) == held[t].storage # storage

(* ... and reads through it: the function is bound into the code, unless   *)
(* there is none, or it has side effects.  A call of compiled code runs it *)
(* and changes nothing here (Reaches).                                     *)
GetSupervisorFastCall(t) ==
    LET name == held[t].name
        native_func == Entry(name).native_func IN
    /\ held[t].use = "compile"
    /\ fault' = IF Dangling(t) THEN "dangling" ELSE fault
    /\ block' = [block EXCEPT ![t][name] =
                   IF native_func = Null \/ name \in SideEffects THEN Null ELSE native_func]
    /\ held' = [held EXCEPT ![t] = NoRef]
    /\ UNCHANGED <<stage, table, given, drivers>>

call_svc(t, name) ==
    /\ InGuest(t) /\ block[t][name] = Null
    /\ held' = [held EXCEPT ![t] = [use |-> "call", name |-> name, storage |-> storage]]
    /\ UNCHANGED <<stage, table, given, drivers, block, fault>>

(* The function is called without a test for null. *)
handle_call_svc(t) ==
    /\ held[t].use = "call"
    /\ fault' = IF Dangling(t) THEN "dangling"
                ELSE IF Entry(held[t].name).native_func = Null THEN "null call" ELSE fault
    /\ held' = [held EXCEPT ![t] = NoRef]
    /\ UNCHANGED <<stage, table, given, drivers, block>>

CONSTANTS
    Asks,       \* what the guest asks for: pairs of a level and a name
    Calls       \* the names it calls
ASSUME AsksAssumption ==
    Asks \subseteq {"global", "instance", "device"} \X VkSyms /\ Calls \subseteq Names

Next ==
    /\ fault = "none"
    /\ \/ add_library \/ create_extra_gl_trampolines \/ create_vulkan_trampolines
       \/ dlopen \/ constructors_return \/ java_vm_new \/ JNI_OnLoad
       \/ \E t \in Threads :
            \/ \E n \in GLSyms : eglGetProcAddress(t, n)
            \/ \E n \in VkSyms :
                 \/ \E instance \in BOOLEAN :
                      /\ <<IF instance THEN "instance" ELSE "global", n>> \in Asks
                      /\ vkGetInstanceProcAddr(t, instance, n)
                 \/ <<"device", n>> \in Asks /\ \E d \in Devices : vkGetDeviceProcAddr(t, d, n)
            \/ vkCreateInstance(t)
            \/ \E d \in Devices : vkCreateDevice(t, d)
            \/ GetSupervisorFastCall(t) \/ handle_call_svc(t)
            \/ \E n \in Calls : compile(t, n) \/ call_svc(t, n)

Spec == Init /\ [][Next]_vars

(***************************************************************************)
(* Properties.                                                             *)
(***************************************************************************)
Natives == [name : Names \cup GLFuncs \cup {None}, by : {"nobody", "library", "own", "loader", "driver"},
            dev : Devices \cup {None}]

(* Types. *)
TypeOK ==
    /\ stage \in {"syms_init", "constructors", "java_vm_new", "running"}
    /\ trampolines \in Seq([name : Names, native_func : Natives, guest_trampoline : 0 .. Words - 1])
    /\ capacity \in Nat /\ storage \in Nat
    /\ trampoline_code \in [0 .. Words - 1 -> Word]
    /\ trampoline_code_index \in 0 .. Words
    /\ given \subseteq Names /\ glad \subseteq GLFuncs
    /\ global_instance \in BOOLEAN /\ devices \subseteq Devices
    /\ answered \in [VkSyms -> SUBSET Natives]
    /\ block \in [Threads -> [Names -> Natives \cup {None}]]
    /\ held \in [Threads -> [use : {"none", "compile", "call"}, name : Names \cup {None}, storage : Nat]]
    /\ fault \in {"none", "overrun", "exhausted", "dangling", "null call", "invalid instance", "host address"}

(* The guest code of every trampoline is an SVC that trampoline_get_by_id  *)
(* resolves to that very entry, followed by a return, whatever was created *)
(* before and after it: no id has lost bits, no code was overwritten, and  *)
(* the word that ends a run (the guest's exit) is intact.                  *)
RoutesExact ==
    /\ trampoline_code[0] = Instr("yield", 0)
    /\ \A i \in DOMAIN trampolines :
        LET addr == trampolines[i].guest_trampoline IN
        /\ addr \in 1 .. Words - 2
        /\ trampoline_code[addr].op = "svc"
        /\ trampoline_code[addr].imm - Offset + 1 = i
        /\ trampoline_code[addr + 1] = Instr("ret", 0)

(* What a call of a name may run: the program's function; of GL the one    *)
(* that the table has for the name, and none exactly as long as glad has   *)
(* found none; of Vulkan one that a lookup of that name has answered.      *)
Sound(name, f, loaded, answers) ==
    \/ name \in LibrarySyms \cup JniSyms /\ f = Native(name, "library", None)
    \/ name \in GLSyms /\ f = deferred_value(name, loaded)
    \/ name \in VkSyms /\ f \in answers[name]

(* Whatever was looked up, created and compiled before, in whatever thread *)
(* and order, a call through an address that the guest was given runs such *)
(* a function, be it compiled in (GetSupervisorFastCall) or read from the  *)
(* table (handle_call_svc).  So a call runs no function at all only of a   *)
(* GL name whose function no lookup has found in the context of its time   *)
(* (eglGetProcAddress returns its address all the same), or of a Vulkan    *)
(* name that a later lookup has found no function for; and it runs another *)
(* device's function only if the name was looked up for that device too.   *)
CallsReach == \A t \in Threads : \A n \in given : Sound(n, Reaches(t, n), glad, answered)

(* The vector of trampolines moves under a reference (that                 *)
(* GetSupervisorFastCall or handle_call_svc holds) only of a thread that a *)
(* constructor of the library has started, and only once java_vm_new adds  *)
(* to it; main's own references and those of every thread that starts      *)
(* later are live whenever they are used.                                  *)
ReferencesLive ==
    \A t \in Threads :
        held[t] # NoRef /\ Dangling(t) => t \in LoadThreads /\ stage # "constructors"
=============================================================================
