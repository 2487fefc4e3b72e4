-------------------------- MODULE TrampolinesProofs --------------------------
(***************************************************************************)
(* For any lists of symbols and any buffer: the guest code of a trampoline *)
(* leads to its own entry.  For any guest, with any number of threads that *)
(* constructors have started: every call runs a function that its name was *)
(* bound to, and only those threads' references into the table can dangle. *)
(***************************************************************************)
EXTENDS Trampolines, TLAPS

(* Sequences. *)
LEMMA Empty == \A S : <<>> \in Seq(S) /\ Len(<<>>) = 0
OBVIOUS

LEMMA Sequence ==
    \A S : \A s \in Seq(S) :
       /\ Len(s) \in Nat /\ DOMAIN s = 1 .. Len(s)
       /\ s \in [1 .. Len(s) -> S] /\ \A i \in DOMAIN s : s[i] \in S
OBVIOUS

LEMMA Appended ==
    \A S : \A s \in Seq(S), e \in S :
       /\ Append(s, e) \in Seq(S) /\ Len(Append(s, e)) = Len(s) + 1
       /\ DOMAIN Append(s, e) = 1 .. Len(s) + 1
       /\ \A i \in 1 .. Len(s) : Append(s, e)[i] = s[i]
       /\ Append(s, e)[Len(s) + 1] = e
OBVIOUS

Entries == [name : Names, native_func : Natives, guest_trampoline : Nat]

(* Where the code of the i-th entry lies, and what it is. *)
Laid(i) ==
    /\ trampolines[i].guest_trampoline = 2 * i - 1
    /\ trampoline_code[2 * i - 1] = Instr("svc", i - 1 + Offset)
    /\ trampoline_code[2 * i] = Instr("ret", 0)

TableOK ==
    /\ trampolines \in Seq(Entries)
    /\ trampoline_code_index = 2 * Len(trampolines) + 1
    /\ trampoline_code_index <= Words
    /\ DOMAIN trampoline_code = 0 .. Words - 1
    /\ trampoline_code[0] = Instr("yield", 0)
    /\ \A i \in 1 .. Len(trampolines) : Laid(i)

LEMMA TableRoutes == TableOK => RoutesExact
<1> SUFFICES ASSUME TableOK PROVE RoutesExact
    OBVIOUS
<1>1. DOMAIN trampolines = 1 .. Len(trampolines) /\ Len(trampolines) \in Nat
    BY Zenon, Sequence DEF TableOK
<1>2. ASSUME NEW i \in DOMAIN trampolines
      PROVE  LET addr == trampolines[i].guest_trampoline IN
             /\ addr \in 1 .. Words - 2
             /\ trampoline_code[addr].op = "svc"
             /\ trampoline_code[addr].imm - Offset + 1 = i
             /\ trampoline_code[addr + 1] = Instr("ret", 0)
  <2>1. i \in 1 .. Len(trampolines) /\ Laid(i)
      BY Zenon, <1>1 DEF TableOK
  <2>2. trampoline_code[2 * i - 1].op = "svc" /\ trampoline_code[2 * i - 1].imm = i - 1 + Offset
      BY <2>1 DEF Laid, Instr
  <2>3. trampolines[i].guest_trampoline = 2 * i - 1 /\ trampoline_code[2 * i] = Instr("ret", 0)
      BY Zenon, <2>1 DEF Laid
  <2>4. 2 * Len(trampolines) + 1 <= Words /\ Offset \in Nat
      BY Zenon, BufferAssumption DEF TableOK
  <2>5. i \in Nat /\ 2 * i - 1 \in 1 .. Words - 2 /\ 2 * i - 1 + 1 = 2 * i
      BY <1>1, <2>1, <2>4, BufferAssumption
  <2>6. (i - 1 + Offset) - Offset + 1 = i
      BY <2>4, <2>5
  <2> QED
      BY Zenon, <2>2, <2>3, <2>5, <2>6
<1>3. trampoline_code[0] = Instr("yield", 0)
    BY Zenon DEF TableOK
<1> QED
    BY Zenon, <1>2, <1>3 DEF RoutesExact

LEMMA NativesOK ==
    /\ Null \in Natives
    /\ \A n \in Names \cup GLFuncs : \A by \in {"library", "own", "loader"} :
          Native(n, by, None) \in Natives /\ Native(n, by, None) # Null
    /\ \A n \in Names, d \in Devices :
          Native(n, "driver", d) \in Natives /\ Native(n, "driver", d) # Null
    BY Zenon DEF Null, Native, Natives

(* A creation appends an entry and its code. *)
LEMMA CreateOK ==
    ASSUME TableOK, NEW n \in Names, NEW f \in Natives, trampoline_create(n, f)
    PROVE  TableOK'
<1> DEFINE e == [name |-> n, native_func |-> f, guest_trampoline |-> trampoline_code_index]
           len == Len(trampolines)
<1>1. len \in Nat /\ trampoline_code_index = 2 * len + 1 /\ DOMAIN trampolines = 1 .. len
    BY Zenon, Sequence DEF TableOK
<1>2. CASE exhaustion_test # "none"
  <2>1. UNCHANGED table
      BY Zenon, <1>2 DEF trampoline_create
  <2> QED
      BY Zenon, <2>1 DEF TableOK, Laid, table
<1>3. CASE exhaustion_test = "none"
  <2>1. trampoline_code_index + 2 < Words
      BY <1>1, <1>3, BufferAssumption DEF exhaustion_test
  <2>2. e \in Entries
      BY <1>1 DEF Entries
  <2>3. trampolines' = Append(trampolines, e) /\ emit(len)
      BY Zenon, <1>3 DEF trampoline_create, emplace_back
  <2>4. /\ trampolines' \in Seq(Entries) /\ Len(trampolines') = len + 1
        /\ \A i \in 1 .. len : trampolines'[i] = trampolines[i]
        /\ trampolines'[len + 1] = e
      BY <2>2, <2>3, Appended DEF TableOK
  <2>5. (len + Offset) % Imms = len + Offset
    <3>1. len + Offset \in 0 .. Imms - 1
        BY <1>1, <2>1, BufferAssumption
    <3> QED
        BY <3>1, BufferAssumption
  <2>6. /\ trampoline_code_index' = 2 * (len + 1) + 1
        /\ DOMAIN trampoline_code' = 0 .. Words - 1
        /\ trampoline_code'[2 * len + 1] = Instr("svc", len + Offset)
        /\ trampoline_code'[2 * len + 2] = Instr("ret", 0)
        /\ \A w \in 0 .. 2 * len : trampoline_code'[w] = trampoline_code[w]
    <3>1. /\ trampoline_code' = [trampoline_code EXCEPT ![2 * len + 1] = Instr("svc", len + Offset),
                                                        ![2 * len + 2] = Instr("ret", 0)]
          /\ trampoline_code_index' = 2 * len + 3
      <4>1. trampoline_code_index + 1 = 2 * len + 2 /\ trampoline_code_index + 2 = 2 * len + 3
          BY <1>1
      <4>2. /\ trampoline_code' = [trampoline_code EXCEPT
                                      ![trampoline_code_index] = Instr("svc", (len + Offset) % Imms),
                                      ![trampoline_code_index + 1] = Instr("ret", 0)]
            /\ trampoline_code_index' = trampoline_code_index + 2
          BY <2>3, Zenon DEF emit
      <4> QED
          BY <1>1, <2>5, <4>1, <4>2, Zenon
    <3>2. /\ 2 * len + 1 \in 0 .. Words - 1 /\ 2 * len + 2 \in 0 .. Words - 1
          /\ 2 * len + 1 # 2 * len + 2 /\ 2 * (len + 1) + 1 = 2 * len + 3
          /\ \A w \in 0 .. 2 * len : w \in 0 .. Words - 1 /\ w # 2 * len + 1 /\ w # 2 * len + 2
        BY <1>1, <2>1, BufferAssumption
    <3>3. DOMAIN trampoline_code = 0 .. Words - 1
        BY Zenon DEF TableOK
    <3>4. /\ trampoline_code'[2 * len + 1] = Instr("svc", len + Offset)
          /\ trampoline_code'[2 * len + 2] = Instr("ret", 0)
        BY <3>1, <3>2, <3>3, Zenon
    <3>5. \A w \in 0 .. 2 * len : trampoline_code'[w] = trampoline_code[w]
        BY <3>1, <3>2, <3>3, Zenon
    <3>6. DOMAIN trampoline_code' = 0 .. Words - 1
        BY <3>1, <3>3, Zenon
    <3>7. trampoline_code_index' = 2 * (len + 1) + 1
        BY <3>1, <3>2, Zenon
    <3> QED
        BY Zenon, <3>4, <3>5, <3>6, <3>7
  <2>7. ASSUME NEW i \in 1 .. len + 1 PROVE Laid(i)'
    <3>1. CASE i \in 1 .. len
      <4>1. Laid(i)
          BY Zenon, <3>1 DEF TableOK
      <4>2. 2 * i - 1 \in 0 .. 2 * len /\ 2 * i \in 0 .. 2 * len
          BY <1>1, <3>1
      <4> QED
          BY Zenon, <2>4, <2>6, <3>1, <4>1, <4>2 DEF Laid
    <3>2. CASE i = len + 1
      <4>1. 2 * i - 1 = 2 * len + 1 /\ 2 * i = 2 * len + 2 /\ i - 1 + Offset = len + Offset
          BY <1>1, <3>2, BufferAssumption
      <4>2. trampolines'[i].guest_trampoline = 2 * i - 1
          BY <1>1, <2>4, <3>2
      <4> QED
          BY Zenon, <2>6, <4>1, <4>2 DEF Laid
    <3> QED
        BY <1>1, <3>1, <3>2
  <2>8. trampoline_code'[0] = Instr("yield", 0)
      BY <1>1, <2>6 DEF TableOK
  <2>9. trampoline_code_index' <= Words
      BY <1>1, <2>1, <2>6, BufferAssumption
  <2> QED
      BY Zenon, <1>1, <2>4, <2>6, <2>7, <2>8, <2>9 DEF TableOK
<1> QED
    BY Zenon, <1>2, <1>3

(* Binding changes no entry's name or code. *)
LEMMA RebindOK ==
    ASSUME TableOK, UNCHANGED <<trampoline_code, trampoline_code_index>>,
           DOMAIN trampolines' = DOMAIN trampolines,
           trampolines' = [i \in DOMAIN trampolines |-> trampolines'[i]],
           \A i \in DOMAIN trampolines :
              /\ trampolines'[i] \in Entries
              /\ trampolines'[i].guest_trampoline = trampolines[i].guest_trampoline
    PROVE  TableOK'
<1>1. Len(trampolines) \in Nat /\ DOMAIN trampolines = 1 .. Len(trampolines)
    BY Zenon, Sequence DEF TableOK
<1>2. trampolines' \in [1 .. Len(trampolines) -> Entries]
    BY Zenon, <1>1
<1>3. trampolines' \in Seq(Entries) /\ Len(trampolines') = Len(trampolines)
    BY <1>1, <1>2
<1> QED
    BY Zenon, <1>1, <1>3 DEF TableOK, Laid

LEMMA InitTable == Init => TableOK
<1> SUFFICES ASSUME Init PROVE TableOK
    OBVIOUS
<1>1. trampolines \in Seq(Entries) /\ Len(trampolines) = 0
    BY Zenon, Empty DEF Init
<1>2. DOMAIN trampoline_code = 0 .. Words - 1 /\ trampoline_code[0] = Instr("yield", 0)
    BY BufferAssumption DEF Init
<1> QED
    BY <1>1, <1>2, BufferAssumption DEF Init, TableOK

LEMMA NextOfOK ==
    ASSUME NEW syms, ~(syms \subseteq Created)
    PROVE  NextOf(syms) \in syms /\ NextOf(syms) \notin Created
    BY Zenon DEF NextOf

(* Bind changes one entry's function. *)
LEMMA BindOK ==
    ASSUME TableOK, NEW n \in Names, NEW f \in Natives, Bind(n, f)
    PROVE  /\ TableOK'
           /\ DOMAIN trampolines' = DOMAIN trampolines
           /\ \A i \in DOMAIN trampolines :
                /\ trampolines'[i].name = trampolines[i].name
                /\ trampolines'[i].native_func =
                     IF i = IndexOf(n) THEN f ELSE trampolines[i].native_func
<1> DEFINE k == IndexOf(n)
<1> HIDE DEF k
<1>1. /\ trampolines' = [trampolines EXCEPT ![k].native_func = f]
      /\ UNCHANGED <<trampoline_code, trampoline_code_index>>
    BY Zenon DEF Bind, k
<1>2. trampolines \in [DOMAIN trampolines -> Entries]
    BY Zenon, Sequence DEF TableOK
<1>3. /\ DOMAIN trampolines' = DOMAIN trampolines
      /\ trampolines' = [i \in DOMAIN trampolines |-> trampolines'[i]]
    BY Zenon, <1>1, <1>2
<1>4. ASSUME NEW i \in DOMAIN trampolines
      PROVE  /\ trampolines'[i] \in Entries
             /\ trampolines'[i].guest_trampoline = trampolines[i].guest_trampoline
             /\ trampolines'[i].name = trampolines[i].name
             /\ trampolines'[i].native_func = IF i = k THEN f ELSE trampolines[i].native_func
    BY Zenon, <1>1, <1>2 DEF Entries
<1>5. TableOK'
    BY Zenon, <1>1, <1>3, <1>4, RebindOK
<1> QED
    BY Zenon, <1>3, <1>4, <1>5 DEF k

LEMMA DeferredOK == \A loaded : \A n \in GLSyms : deferred_value(n, loaded) \in Natives
    BY Zenon, NativesOK DEF deferred_value, GLFuncs

LEMMA EglOK ==
    ASSUME TableOK, NEW t, NEW n \in GLSyms, eglGetProcAddress(t, n)
    PROVE  /\ TableOK'
           /\ DOMAIN trampolines' = DOMAIN trampolines
           /\ \A i \in DOMAIN trampolines :
                /\ trampolines'[i].name = trampolines[i].name
                /\ trampolines'[i].native_func =
                     IF trampolines[i].name \in GLSyms THEN deferred_value(trampolines[i].name, glad')
                     ELSE trampolines[i].native_func
<1>1. /\ trampolines' = [i \in DOMAIN trampolines |->
                           IF trampolines[i].name \in GLSyms
                           THEN [trampolines[i] EXCEPT !.native_func = deferred_value(trampolines[i].name, glad')]
                           ELSE trampolines[i]]
      /\ UNCHANGED <<trampoline_code, trampoline_code_index>>
    BY Zenon DEF eglGetProcAddress
<1>2. \A i \in DOMAIN trampolines : trampolines[i] \in Entries
    BY Zenon, Sequence DEF TableOK
<1>3. /\ DOMAIN trampolines' = DOMAIN trampolines
      /\ trampolines' = [i \in DOMAIN trampolines |-> trampolines'[i]]
    BY Zenon, <1>1
<1>4. ASSUME NEW i \in DOMAIN trampolines
      PROVE  /\ trampolines'[i] \in Entries
             /\ trampolines'[i].guest_trampoline = trampolines[i].guest_trampoline
             /\ trampolines'[i].name = trampolines[i].name
             /\ trampolines'[i].native_func =
                  IF trampolines[i].name \in GLSyms THEN deferred_value(trampolines[i].name, glad')
                  ELSE trampolines[i].native_func
  <2>1. trampolines[i] \in Entries /\ trampolines[i].name \in Names
      BY Zenon, <1>2 DEF Entries
  <2>2. trampolines[i].name \in GLSyms => deferred_value(trampolines[i].name, glad') \in Natives
      BY Zenon, DeferredOK
  <2> QED
      BY Zenon, <1>1, <2>1, <2>2 DEF Entries
<1>5. TableOK'
    BY Zenon, <1>1, <1>3, <1>4, RebindOK
<1> QED
    BY Zenon, <1>3, <1>4, <1>5

LEMMA NextTable == TableOK /\ [Next]_vars => TableOK'
<1> SUFFICES ASSUME TableOK, [Next]_vars PROVE TableOK'
    OBVIOUS
<1> USE NativesOK
<1>1. CASE UNCHANGED <<trampolines, trampoline_code, trampoline_code_index>>
    BY Zenon, <1>1 DEF TableOK, Laid
<1>2. CASE add_library
    BY Zenon, <1>2, NextOfOK, CreateOK DEF add_library, Names
<1>3. CASE create_extra_gl_trampolines
    BY Zenon, <1>3, NextOfOK, CreateOK DEF create_extra_gl_trampolines, Names
<1>4. CASE create_vulkan_trampolines
    BY Zenon, <1>4, NextOfOK, CreateOK DEF create_vulkan_trampolines, Names
<1>5. CASE java_vm_new
    BY Zenon, <1>5, NextOfOK, CreateOK DEF java_vm_new, Names
<1>6. ASSUME NEW t \in Threads, NEW n \in GLSyms, eglGetProcAddress(t, n) PROVE TableOK'
    BY Zenon, <1>6, EglOK
<1>7. ASSUME NEW t \in Threads, NEW n \in VkSyms, NEW i \in BOOLEAN, vkGetInstanceProcAddr(t, i, n)
      PROVE  TableOK'
    BY Zenon, <1>7, BindOK DEF vkGetInstanceProcAddr, Names, proc_addr
<1>8. ASSUME NEW t \in Threads, NEW n \in VkSyms, NEW d \in Devices, vkGetDeviceProcAddr(t, d, n)
      PROVE  TableOK'
    BY ZenonT(30), <1>1, <1>8, BindOK DEF vkGetDeviceProcAddr, Names, device_proc_addr, table
<1> QED
    BY ZenonT(30), <1>1, <1>2, <1>3, <1>4, <1>5, <1>6, <1>7, <1>8
       DEF Next, vars, table, dlopen, constructors_return, JNI_OnLoad, vkCreateInstance,
           vkCreateDevice, GetSupervisorFastCall, handle_call_svc, compile, call_svc

(* Guest code leads to its own entry, for every list of symbols, every     *)
(* size of the buffer, every guest and any interleaving of its threads.    *)
THEOREM TrampolinesRoute == Spec => []RoutesExact
<1>1. TableOK /\ [Next]_vars => TableOK'
    BY Zenon, NextTable
<1> QED
    BY <1>1, InitTable, TableRoutes, PTL DEF Spec

(***************************************************************************)
(* Any guest's calls.                                                      *)
(***************************************************************************)
(* What the table holds: names once, and functions that a call may run;    *)
(* a Vulkan name that was not looked up has none, and the guest has not    *)
(* got its address.                                                        *)
BoundOK ==
    /\ \A i, j \in DOMAIN trampolines : trampolines[i].name = trampolines[j].name => i = j
    /\ \A i \in DOMAIN trampolines :
          \/ Sound(trampolines[i].name, trampolines[i].native_func, glad, answered)
          \/ trampolines[i].native_func = Null /\ trampolines[i].name \in VkSyms \ given
    /\ given \subseteq Created /\ given \subseteq Names
    /\ DOMAIN answered = VkSyms

(* What threads hold, and where: the vector has not moved since, or the    *)
(* thread is one that a constructor has started.                           *)
HeldOK ==
    /\ DOMAIN held = Threads
    /\ \A t \in Threads : held[t] # NoRef =>
          /\ held[t].name \in given
          /\ \/ stage = "running"
             \/ stage = "constructors" /\ t \in LoadThreads \cup {Main}
             \/ stage = "java_vm_new" /\ t \in LoadThreads
          /\ held[t].storage = storage \/ (t \in LoadThreads /\ stage # "constructors")

(* What is compiled. *)
CodeOK ==
    /\ DOMAIN block = Threads
    /\ \A t \in Threads : DOMAIN block[t] = Names
    /\ \A t \in Threads, n \in Names :
          block[t][n] # None => n \in given /\ (block[t][n] = Null \/ Sound(n, block[t][n], glad, answered))

StageOK ==
    /\ stage # "syms_init" => Names \ JniSyms \subseteq Created
    /\ stage = "syms_init" => given = {} /\ glad = {}

CallsOK == BoundOK /\ HeldOK /\ CodeOK /\ StageOK

(* What each part depends on. *)
LEMMA Unchanged ==
    /\ BoundOK /\ UNCHANGED <<trampolines, given, glad, answered>> => BoundOK'
    /\ HeldOK /\ UNCHANGED <<held, given, storage, stage>> => HeldOK'
    /\ CodeOK /\ UNCHANGED <<block, given, glad, answered>> => CodeOK'
    /\ StageOK /\ UNCHANGED <<stage, given, glad, trampolines>> => StageOK'
<1>1. BoundOK /\ UNCHANGED <<trampolines, given, glad, answered>> => BoundOK'
    BY Zenon DEF BoundOK, Created
<1>2. HeldOK /\ UNCHANGED <<held, given, storage, stage>> => HeldOK'
    BY Zenon DEF HeldOK
<1>3. CodeOK /\ UNCHANGED <<block, given, glad, answered>> => CodeOK'
    BY Zenon DEF CodeOK
<1>4. StageOK /\ UNCHANGED <<stage, given, glad, trampolines>> => StageOK'
    BY Zenon DEF StageOK, Created
<1> QED
    BY Zenon, <1>1, <1>2, <1>3, <1>4

LEMMA InitCalls == Init => CallsOK
    BY DEF Init, CallsOK, BoundOK, HeldOK, CodeOK, StageOK

(* A function stays sound while lookups go on; none stays so for a GL name *)
(* only while glad finds nothing new.                                      *)
LEMMA SoundKept ==
    ASSUME NEW n, NEW f, Sound(n, f, glad, answered), glad \subseteq glad',
           \A m \in VkSyms : answered[m] \subseteq answered'[m],
           f # Null \/ n \notin GLSyms \/ glad' = glad
    PROVE  Sound(n, f, glad', answered')
<1>1. CASE n \in LibrarySyms \cup JniSyms /\ f = Native(n, "library", None)
    BY Zenon, <1>1 DEF Sound
<1>2. CASE n \in GLSyms /\ f = deferred_value(n, glad)
    BY Zenon, <1>2 DEF Sound, deferred_value
<1>3. CASE n \in VkSyms /\ f \in answered[n]
    BY Zenon, <1>3 DEF Sound
<1> QED
    BY Zenon, <1>1, <1>2, <1>3 DEF Sound

(* The entry that the address of a name leads to has a sound function. *)
LEMMA EntryOK ==
    ASSUME TableOK, BoundOK, NEW n \in given
    PROVE  Sound(n, Entry(n).native_func, glad, answered)
<1> DEFINE k == IndexOf(n)
<1>1. k \in DOMAIN trampolines /\ trampolines[k].name = n
    BY Zenon DEF BoundOK, Created, IndexOf
<1>2. RoutesExact
    BY Zenon, TableRoutes
<1>3. trampoline_code[trampolines[k].guest_trampoline].imm - Offset + 1 = k
    BY Zenon, <1>1, <1>2 DEF RoutesExact
<1>4. Entry(n) = trampolines[k]
    BY Zenon, <1>3 DEF Entry, trampoline_get_by_id
<1> QED
    BY Zenon, <1>1, <1>4 DEF BoundOK

LEMMA CallsReached == TableOK /\ CallsOK => CallsReach
<1> SUFFICES ASSUME TableOK, CallsOK, NEW t \in Threads, NEW n \in given
             PROVE  Sound(n, Reaches(t, n), glad, answered)
    BY Zenon DEF CallsReach
<1>1. Sound(n, Entry(n).native_func, glad, answered)
    BY Zenon, EntryOK DEF CallsOK
<1>2. n \in Names
    BY Zenon DEF CallsOK, BoundOK
<1>3. CASE block[t][n] \in {None, Null}
    BY Zenon, <1>1, <1>3 DEF Reaches
<1>4. CASE block[t][n] \notin {None, Null}
    BY Zenon, <1>2, <1>4 DEF Reaches, CallsOK, CodeOK
<1> QED
    BY Zenon, <1>3, <1>4

(* A creation of a new name: while the table is first filled nobody holds  *)
(* a reference, and in java_vm_new only threads that constructors started. *)
LEMMA CreateCalls ==
    ASSUME TableOK, CallsOK, NEW n \in Names \ Created, NEW f \in Natives,
           trampoline_create(n, f), stage \in {"syms_init", "java_vm_new"},
           Sound(n, f, glad, answered) \/ (f = Null /\ n \in VkSyms),
           UNCHANGED <<stage, given, drivers, guest>>
    PROVE  CallsOK'
<1>1. CASE exhaustion_test # "none"
  <2>1. UNCHANGED table
      BY Zenon, <1>1 DEF trampoline_create, exhaustion_test
  <2> QED
      BY Zenon, <2>1, Unchanged DEF table, guest, drivers, CallsOK
<1>2. CASE exhaustion_test = "none"
  <2> DEFINE e == [name |-> n, native_func |-> f, guest_trampoline |-> trampoline_code_index]
             len == Len(trampolines)
  <2>1. trampolines' = Append(trampolines, e)
      BY Zenon, <1>2 DEF trampoline_create, emplace_back
  <2>2. e \in Entries /\ trampolines \in Seq(Entries) /\ len \in Nat /\ DOMAIN trampolines = 1 .. len
      BY Sequence DEF TableOK, Entries
  <2>3. /\ DOMAIN trampolines' = 1 .. len + 1
        /\ \A i \in 1 .. len : trampolines'[i] = trampolines[i]
        /\ trampolines'[len + 1] = e
      BY <2>1, <2>2, Appended
  <2>4. Created \subseteq Created'
      BY <2>2, <2>3 DEF Created
  <2>5. n \notin given
      BY Zenon DEF CallsOK, BoundOK
  <2>6. \A m, g : Sound(m, g, glad, answered) => Sound(m, g, glad', answered')
      BY Zenon DEF drivers
  <2>7. BoundOK'
    <3>1. \A i \in DOMAIN trampolines' : i \in DOMAIN trampolines \/ i = len + 1
        BY <2>2, <2>3
    <3>2. \A i \in DOMAIN trampolines : trampolines[i].name # n
        BY Zenon DEF Created
    <3>3. \A i, j \in DOMAIN trampolines' : trampolines'[i].name = trampolines'[j].name => i = j
        BY <2>2, <2>3, <3>1, <3>2 DEF CallsOK, BoundOK
    <3>4. ASSUME NEW i \in DOMAIN trampolines'
          PROVE  \/ Sound(trampolines'[i].name, trampolines'[i].native_func, glad', answered')
                 \/ trampolines'[i].native_func = Null /\ trampolines'[i].name \in VkSyms \ given'
      <4>1. CASE i \in DOMAIN trampolines
          BY Zenon, <2>2, <2>3, <2>6, <4>1 DEF CallsOK, BoundOK
      <4>2. CASE i = len + 1
        <5>1. trampolines'[i].name = n /\ trampolines'[i].native_func = f
            BY <2>3, <4>2
        <5> QED
            BY Zenon, <2>5, <2>6, <5>1
      <4> QED
          BY Zenon, <3>1, <4>1, <4>2
    <3> QED
        BY Zenon, <2>4, <3>3, <3>4 DEF CallsOK, BoundOK, drivers
  <2>8. HeldOK'
      BY Zenon DEF CallsOK, HeldOK, guest
  <2>9. CodeOK' /\ StageOK'
    <3>1. StageOK'
        BY Zenon, <2>4 DEF CallsOK, StageOK, drivers
    <3> QED
        BY Zenon, <3>1, Unchanged DEF CallsOK, guest, drivers
  <2> QED
      BY Zenon, <2>7, <2>8, <2>9 DEF CallsOK
<1> QED
    BY Zenon, <1>1, <1>2

(* Functions are replaced by what lookups answer, and the guest gets one   *)
(* address.                                                                *)
LEMMA RebindCalls ==
    ASSUME CallsOK, NEW n \in Names \ JniSyms, stage # "syms_init",
           given' \subseteq given \cup {n}, given \subseteq given',
           glad \subseteq glad', DOMAIN answered' = VkSyms,
           \A m \in VkSyms : answered[m] \subseteq answered'[m],
           DOMAIN trampolines' = DOMAIN trampolines,
           \A i \in DOMAIN trampolines :
              /\ trampolines'[i].name = trampolines[i].name
              /\ \/ Sound(trampolines[i].name, trampolines'[i].native_func, glad', answered')
                 \/ /\ trampolines'[i].native_func = trampolines[i].native_func
                    /\ trampolines[i].name # n
                    /\ trampolines[i].name \notin GLSyms \/ glad' = glad,
           UNCHANGED <<stage, storage, guest>>
    PROVE  CallsOK'
<1>1. Created' = Created
    BY Zenon DEF Created
<1>2. n \in Created
    BY Zenon DEF CallsOK, StageOK
<1>3. BoundOK'
  <2>1. ASSUME NEW i \in DOMAIN trampolines'
        PROVE  \/ Sound(trampolines'[i].name, trampolines'[i].native_func, glad', answered')
               \/ trampolines'[i].native_func = Null /\ trampolines'[i].name \in VkSyms \ given'
    <3>1. \/ Sound(trampolines[i].name, trampolines[i].native_func, glad, answered)
          \/ trampolines[i].native_func = Null /\ trampolines[i].name \in VkSyms \ given
        BY Zenon DEF CallsOK, BoundOK
    <3> QED
        BY Zenon, <3>1, SoundKept
  <2>2. \A i, j \in DOMAIN trampolines' : trampolines'[i].name = trampolines'[j].name => i = j
      BY Zenon DEF CallsOK, BoundOK
  <2> QED
      BY Zenon, <1>1, <1>2, <2>1, <2>2 DEF CallsOK, BoundOK
<1>4. HeldOK' /\ StageOK'
    BY Zenon, <1>1 DEF CallsOK, HeldOK, StageOK, guest
<1>5. CodeOK'
  <2>1. ASSUME NEW t \in Threads, NEW m \in Names, block[t][m] # None
        PROVE  m \in given' /\ (block[t][m] = Null \/ Sound(m, block[t][m], glad', answered'))
      BY Zenon, <2>1, SoundKept DEF CallsOK, CodeOK
  <2> QED
      BY Zenon, <2>1 DEF CallsOK, CodeOK, guest
<1> QED
    BY Zenon, <1>3, <1>4, <1>5 DEF CallsOK

LEMMA EglCalls ==
    ASSUME TableOK, CallsOK, NEW t \in Threads, NEW n \in GLSyms, eglGetProcAddress(t, n)
    PROVE  CallsOK'
<1>1. n \in Names \ JniSyms /\ stage # "syms_init"
    BY Zenon, GuestAssumption DEF eglGetProcAddress, Names, InGuest
<1>2. /\ DOMAIN trampolines' = DOMAIN trampolines
      /\ \A i \in DOMAIN trampolines :
           /\ trampolines'[i].name = trampolines[i].name
           /\ trampolines'[i].native_func =
                IF trampolines[i].name \in GLSyms THEN deferred_value(trampolines[i].name, glad')
                ELSE trampolines[i].native_func
    BY Zenon, EglOK
<1>3. \A i \in DOMAIN trampolines :
           /\ trampolines'[i].name = trampolines[i].name
           /\ \/ Sound(trampolines[i].name, trampolines'[i].native_func, glad', answered')
              \/ /\ trampolines'[i].native_func = trampolines[i].native_func
                 /\ trampolines[i].name # n
                 /\ trampolines[i].name \notin GLSyms \/ glad' = glad
    BY Zenon, <1>2 DEF Sound
<1>4. glad \subseteq glad'
    BY Zenon DEF eglGetProcAddress, gladLoadGLES2Loader
<1>5. /\ UNCHANGED <<stage, storage, guest>> /\ given' = given \cup {n}
      /\ answered' = answered
    BY Zenon DEF eglGetProcAddress
<1>6. DOMAIN answered' = VkSyms
    BY Zenon, <1>5 DEF CallsOK, BoundOK
<1> QED
    BY Zenon, <1>1, <1>2, <1>3, <1>4, <1>5, <1>6, RebindCalls

LEMMA BindCalls ==
    ASSUME TableOK, CallsOK, NEW n \in VkSyms, NEW f \in Natives, stage # "syms_init", Bind(n, f)
    PROVE  CallsOK'
<1>1. n \in Names \ JniSyms
    BY Zenon, GuestAssumption DEF Names
<1>2. /\ DOMAIN trampolines' = DOMAIN trampolines
      /\ \A i \in DOMAIN trampolines :
           /\ trampolines'[i].name = trampolines[i].name
           /\ trampolines'[i].native_func = IF i = IndexOf(n) THEN f ELSE trampolines[i].native_func
    BY Zenon, <1>1, BindOK
<1>3. n \in Created
    BY Zenon, <1>1 DEF CallsOK, StageOK
<1>4. \A i \in DOMAIN trampolines : trampolines[i].name = n <=> i = IndexOf(n)
  <2>1. IndexOf(n) \in DOMAIN trampolines /\ trampolines[IndexOf(n)].name = n
      BY Zenon, <1>3 DEF Created, IndexOf
  <2> QED
      BY Zenon, <2>1 DEF CallsOK, BoundOK
<1>5. /\ answered' = [answered EXCEPT ![n] = answered[n] \cup {f}] /\ glad' = glad
      /\ UNCHANGED <<stage, storage, guest>>
      /\ given' \subseteq given \cup {n} /\ given \subseteq given'
    BY Zenon DEF Bind
<1>6. /\ DOMAIN answered' = VkSyms /\ f \in answered'[n]
      /\ \A m \in VkSyms : answered[m] \subseteq answered'[m]
  <2>1. DOMAIN answered = VkSyms
      BY Zenon DEF CallsOK, BoundOK
  <2>2. DOMAIN answered' = VkSyms
      BY Zenon, <1>5, <2>1
  <2>3. \A m \in VkSyms : answered'[m] = IF m = n THEN answered[n] \cup {f} ELSE answered[m]
      BY Zenon, <1>5, <2>1
  <2> QED
      BY Zenon, <2>2, <2>3
<1>7. \A i \in DOMAIN trampolines :
           /\ trampolines'[i].name = trampolines[i].name
           /\ \/ Sound(trampolines[i].name, trampolines'[i].native_func, glad', answered')
              \/ /\ trampolines'[i].native_func = trampolines[i].native_func
                 /\ trampolines[i].name # n
                 /\ trampolines[i].name \notin GLSyms \/ glad' = glad
    BY Zenon, <1>2, <1>4, <1>5, <1>6 DEF Sound
<1> QED
    BY Zenon, <1>1, <1>2, <1>5, <1>6, <1>7, RebindCalls

LEMMA CompileCalls ==
    ASSUME TableOK, CallsOK, NEW t \in Threads, GetSupervisorFastCall(t)
    PROVE  CallsOK'
<1>1. held[t] # NoRef
    BY DEF GetSupervisorFastCall, NoRef
<1>2. held[t].name \in given /\ held[t].name \in Names
    BY Zenon, <1>1 DEF CallsOK, HeldOK, BoundOK
<1>3. Sound(held[t].name, Entry(held[t].name).native_func, glad, answered)
    BY Zenon, <1>2, EntryOK DEF CallsOK
<1>4. PICK f : /\ f = Null \/ Sound(held[t].name, f, glad, answered)
               /\ block' = [block EXCEPT ![t][held[t].name] = f]
    BY ZenonT(30), <1>3 DEF GetSupervisorFastCall
<1>5. /\ held' = [held EXCEPT ![t] = NoRef]
      /\ UNCHANGED <<stage, table, given, drivers>>
    BY Zenon DEF GetSupervisorFastCall
<1>6. HeldOK'
    BY Zenon, <1>5 DEF CallsOK, HeldOK, table
<1>7. CodeOK'
  <2>1. given' = given /\ \A m, g : Sound(m, g, glad, answered) => Sound(m, g, glad', answered')
      BY Zenon, <1>5 DEF drivers
  <2>2. DOMAIN block' = Threads /\ \A u \in Threads : DOMAIN block'[u] = Names
      BY Zenon, <1>2, <1>4 DEF CallsOK, CodeOK
  <2>3. ASSUME NEW u \in Threads, NEW m \in Names
        PROVE  block'[u][m] = IF u = t /\ m = held[t].name THEN f ELSE block[u][m]
      BY Zenon, <1>2, <1>4 DEF CallsOK, CodeOK
  <2>4. ASSUME NEW u \in Threads, NEW m \in Names, block'[u][m] # None
        PROVE  m \in given' /\ (block'[u][m] = Null \/ Sound(m, block'[u][m], glad', answered'))
    <3>1. CASE u = t /\ m = held[t].name
      <4>1. block'[u][m] = f
          BY Zenon, <2>3, <3>1
      <4> QED
          BY Zenon, <1>2, <1>4, <2>1, <3>1, <4>1
    <3>2. CASE ~(u = t /\ m = held[t].name)
      <4>1. block'[u][m] = block[u][m]
          BY Zenon, <2>3, <3>2
      <4>2. m \in given /\ (block[u][m] = Null \/ Sound(m, block[u][m], glad, answered))
          BY Zenon, <2>4, <4>1 DEF CallsOK, CodeOK
      <4> QED
          BY Zenon, <2>1, <4>1, <4>2
    <3> QED
        BY Zenon, <3>1, <3>2
  <2> QED
      BY Zenon, <2>2, <2>4 DEF CodeOK
<1>8. UNCHANGED <<trampolines, given, stage, glad, answered>>
    BY Zenon, <1>5 DEF table, drivers
<1> QED
    BY Zenon, <1>6, <1>7, <1>8, Unchanged DEF CallsOK

LEMMA SvcCalls ==
    ASSUME CallsOK, NEW t \in Threads, handle_call_svc(t)
    PROVE  CallsOK'
<1>1. held' = [held EXCEPT ![t] = NoRef] /\ UNCHANGED <<stage, table, given, drivers, block>>
    BY Zenon DEF handle_call_svc
<1>2. HeldOK'
    BY Zenon, <1>1 DEF CallsOK, HeldOK, table
<1>3. UNCHANGED <<trampolines, given, stage, glad, answered, block>>
    BY Zenon, <1>1 DEF table, drivers
<1> QED
    BY Zenon, <1>2, <1>3, Unchanged DEF CallsOK

LEMMA NextCalls ==
    ASSUME TableOK, CallsOK, [Next]_vars
    PROVE  CallsOK'
<1> USE NativesOK
<1>1. CASE UNCHANGED <<stage, table, given, glad, answered, guest>>
    BY Zenon, <1>1, Unchanged DEF table, guest, CallsOK
<1>2. ASSUME NEW n \in LibrarySyms \cup JniSyms
      PROVE  Native(n, "library", None) \in Natives /\ Sound(n, Native(n, "library", None), glad, answered)
    BY Zenon DEF Sound, Names
<1>3. ASSUME NEW n \in Names, NEW by \in {"own", "loader"}
      PROVE  Native(n, by, None) \in Natives
    BY Zenon
<1>4. CASE add_library
  <2>1. NextOf(LibrarySyms) \in LibrarySyms /\ NextOf(LibrarySyms) \in Names \ Created
      BY Zenon, <1>4, NextOfOK DEF add_library, Names
  <2> QED
      BY Zenon, <1>2, <1>4, <2>1, CreateCalls DEF add_library
<1>5. CASE create_extra_gl_trampolines
  <2>1. NextOf(GLSyms) \in GLSyms /\ NextOf(GLSyms) \in Names \ Created
      BY Zenon, <1>5, NextOfOK DEF create_extra_gl_trampolines, Names
  <2>2. Sound(NextOf(GLSyms), Null, glad, answered)
      BY Zenon, <1>5, <2>1 DEF create_extra_gl_trampolines, Sound, deferred_value, CallsOK, StageOK
  <2> QED
      BY Zenon, <1>5, <2>1, <2>2, CreateCalls DEF create_extra_gl_trampolines
<1>6. CASE create_vulkan_trampolines
  <2>1. NextOf(VkSyms) \in VkSyms /\ NextOf(VkSyms) \in Names \ Created
      BY Zenon, <1>6, NextOfOK DEF create_vulkan_trampolines, Names
  <2> QED
      BY Zenon, <1>6, <2>1, CreateCalls DEF create_vulkan_trampolines
<1>7. CASE java_vm_new
  <2>1. NextOf(JniSyms) \in JniSyms /\ NextOf(JniSyms) \in Names \ Created
      BY Zenon, <1>7, NextOfOK DEF java_vm_new, Names
  <2> QED
      BY Zenon, <1>2, <1>7, <2>1, CreateCalls DEF java_vm_new
<1>8. CASE dlopen
  <2>1. /\ stage = "syms_init" /\ stage' = "constructors" /\ given' = LibrarySyms
        /\ UNCHANGED <<trampolines, glad, answered, storage, block, held>>
        /\ Names \ JniSyms \subseteq Created
      BY Zenon, <1>8 DEF dlopen, table, drivers, guest
  <2>2. Created' = Created /\ LibrarySyms \subseteq Created /\ LibrarySyms \subseteq Names
      BY Zenon, <2>1, GuestAssumption DEF Created, Names
  <2>3. BoundOK'
      BY Zenon, <2>1, <2>2, GuestAssumption DEF CallsOK, BoundOK
  <2>4. HeldOK' /\ CodeOK'
      BY Zenon, <2>1 DEF CallsOK, HeldOK, CodeOK, StageOK
  <2>5. StageOK'
      BY Zenon, <2>1, <2>2 DEF StageOK
  <2> QED
      BY Zenon, <2>3, <2>4, <2>5 DEF CallsOK
<1>9. CASE constructors_return
  <2>1. /\ stage = "constructors" /\ stage' = "java_vm_new" /\ held[Main] = NoRef
        /\ UNCHANGED <<trampolines, given, glad, answered, storage, block, held>>
      BY Zenon, <1>9 DEF constructors_return, Returned, table, guest, drivers
  <2>2. HeldOK'
      BY Zenon, <2>1, GuestAssumption DEF CallsOK, HeldOK
  <2>3. StageOK'
      BY Zenon, <2>1 DEF CallsOK, StageOK, Created
  <2> QED
      BY Zenon, <2>1, <2>2, <2>3, Unchanged DEF CallsOK
<1>10. CASE JNI_OnLoad
  <2>1. /\ Created' = Created /\ given' = given \cup JniSyms /\ JniSyms \subseteq Created
        /\ stage = "java_vm_new" /\ stage' = "running"
        /\ UNCHANGED <<trampolines, glad, answered, storage, block, held>>
      BY Zenon, <1>10 DEF JNI_OnLoad, Created, table, guest, drivers
  <2>2. BoundOK'
      BY Zenon, <2>1, GuestAssumption DEF CallsOK, BoundOK, Names
  <2>3. HeldOK' /\ CodeOK'
      BY Zenon, <2>1 DEF CallsOK, HeldOK, CodeOK
  <2>4. StageOK'
      BY Zenon, <2>1 DEF CallsOK, StageOK
  <2> QED
      BY Zenon, <2>2, <2>3, <2>4 DEF CallsOK
<1>11. ASSUME NEW t \in Threads, InGuest(t) PROVE stage # "syms_init"
    BY Zenon, <1>11 DEF InGuest
<1>12. ASSUME NEW t \in Threads, NEW n \in VkSyms, NEW instance \in BOOLEAN, vkGetInstanceProcAddr(t, instance, n)
       PROVE  CallsOK'
  <2>1. n \in Names /\ stage # "syms_init"
      BY Zenon, <1>11, <1>12 DEF vkGetInstanceProcAddr, Names
  <2>2. proc_addr(instance, n) \in Natives
      BY Zenon, <1>3, <2>1 DEF proc_addr
  <2> QED
      BY Zenon, <1>3, <1>12, <2>1, <2>2, BindCalls DEF vkGetInstanceProcAddr
<1>13. ASSUME NEW t \in Threads, NEW n \in VkSyms, NEW d \in Devices, vkGetDeviceProcAddr(t, d, n)
       PROVE  CallsOK'
  <2>1. n \in Names /\ stage # "syms_init"
      BY Zenon, <1>11, <1>13 DEF vkGetDeviceProcAddr, Names
  <2>2. device_proc_addr(d, n) \in Natives
      BY Zenon, <2>1 DEF device_proc_addr
  <2>3. CASE UNCHANGED <<stage, table, given, drivers, guest>>
      BY Zenon, <1>1, <2>3 DEF drivers
  <2>4. CASE Bind(n, IF n \in OwnDevice THEN Native(n, "own", None) ELSE device_proc_addr(d, n))
      BY Zenon, <1>3, <2>1, <2>2, <2>4, BindCalls
  <2> QED
      BY Zenon, <1>13, <2>3, <2>4 DEF vkGetDeviceProcAddr
<1>14. ASSUME NEW t \in Threads, vkCreateInstance(t) PROVE CallsOK'
    BY Zenon, <1>1, <1>14 DEF vkCreateInstance
<1>15. ASSUME NEW t \in Threads, NEW d \in Devices, vkCreateDevice(t, d) PROVE CallsOK'
    BY Zenon, <1>1, <1>15 DEF vkCreateDevice
<1>16. ASSUME NEW t \in Threads, NEW n \in given, NEW use, InGuest(t),
              held' = [held EXCEPT ![t] = [use |-> use, name |-> n, storage |-> storage]],
              UNCHANGED <<stage, table, given, drivers, block, fault>>
       PROVE  CallsOK'
  <2>1. /\ \A u \in Threads \ {t} : held'[u] = held[u]
        /\ held'[t].name = n /\ held'[t].storage = storage /\ DOMAIN held' = Threads
      BY <1>16 DEF CallsOK, HeldOK
  <2>2. HeldOK'
      BY Zenon, <1>16, <2>1 DEF CallsOK, HeldOK, InGuest, table
  <2>3. UNCHANGED <<trampolines, given, glad, answered, storage, stage, block>>
      BY Zenon, <1>16 DEF table, drivers
  <2> QED
      BY Zenon, <2>2, <2>3, Unchanged DEF CallsOK
<1>17. ASSUME NEW t \in Threads, NEW n \in Calls, compile(t, n) PROVE CallsOK'
    BY Zenon, <1>16, <1>17 DEF compile
<1>18. ASSUME NEW t \in Threads, NEW n \in Calls, call_svc(t, n) PROVE CallsOK'
  <2>1. n \in given
    <3>1. n \in Names
        BY Zenon, AsksAssumption
    <3> QED
        BY Zenon, <1>18, <3>1, NoneAssumption DEF call_svc, CallsOK, CodeOK
  <2> QED
      BY Zenon, <1>16, <1>18, <2>1 DEF call_svc
<1>19. CASE UNCHANGED vars
    BY Zenon, <1>1, <1>19 DEF vars, drivers
<1> QED
    BY Zenon, <1>4, <1>5, <1>6, <1>7, <1>8, <1>9, <1>10, <1>12, <1>13, <1>14, <1>15, <1>17, <1>18,
       <1>19, EglCalls, CompileCalls, SvcCalls DEF Next

LEMMA CallsInvariant == Spec => [](TableOK /\ CallsOK)
<1>1. TableOK /\ [Next]_vars => TableOK'
    BY Zenon, NextTable
<1>2. TableOK /\ CallsOK /\ [Next]_vars => CallsOK'
    BY Zenon, NextCalls
<1> QED
    BY <1>1, <1>2, InitTable, InitCalls, PTL DEF Spec

(* Every call through an address that the guest was given runs a function  *)
(* that its name was bound to, for any guest: any lookups at any level, of *)
(* any number of devices, in any threads, whatever glad finds when.        *)
THEOREM CallsReachTheirFunctions == Spec => []CallsReach
BY CallsInvariant, CallsReached, PTL

(* The table moves under references of no thread but those that the        *)
(* library's constructors have started, and under theirs only once         *)
(* java_vm_new runs, for every set of such threads.                        *)
THEOREM EntriesLive == Spec => []ReferencesLive
<1>1. CallsOK => ReferencesLive
    BY Zenon DEF CallsOK, HeldOK, ReferencesLive, Dangling
<1> QED
    BY <1>1, CallsInvariant, PTL
=============================================================================
