---------------------------- MODULE CodeCacheProofs ----------------------------
(***************************************************************************)
(* Compiled code is only entered while it is the block of the place where  *)
(* the guest program is, for any code buffer, return stack buffer and      *)
(* dispatch table: CacheInv is inductive.                                  *)
(***************************************************************************)
EXTENDS CodeCache, TLAPS

(* A registered block lies in the used part of the buffer, and its extent  *)
(* is recorded.                                                            *)
Registered(l) ==
    block_descriptors[l] # Dispatcher =>
        /\ block_descriptors[l] < space
        /\ code[block_descriptors[l]] # None
        /\ code[block_descriptors[l]].loc = l
        /\ \A a \in code[block_descriptors[l]].covers : <<a, l>> \in block_ranges

(* Every reference from code in the used part leads to the registered      *)
(* block or to the dispatcher, and is recorded for patching.               *)
Linked(q) ==
    q < space =>
        /\ code[q] # None
        /\ \A l \in code[q].term.targets :
              /\ Refers(patch_information, l, q, "jz")
              /\ code[q].link[l] \in {Dispatcher, block_descriptors[l]}
        /\ code[q].term.push # None =>
              /\ Refers(patch_information, code[q].term.push, q, "mov_rcx")
              /\ code[q].push \in {Dispatcher, block_descriptors[code[q].term.push]}

PatchesOK ==
    \A r \in patch_information :
        /\ r.at < space
        /\ r.kind = "mov_rcx" => code[r.at].term.push = r.target

CacheOK ==
    /\ \A l \in Locs : Registered(l)
    /\ \A q \in Blocks : Linked(q)
    /\ PatchesOK

Good(h) == h.loc # None => h.ptr \in {Dispatcher, block_descriptors[h.loc]}

Filling(e) == ctl = "lookup" /\ via = "table" /\ e = Hash(pc)

TableOK ==
    \A e \in Entries :
        /\ fast_dispatch_table[e].loc # None => Hash(fast_dispatch_table[e].loc) = e
        /\ Filling(e) => fast_dispatch_table[e].loc \in {None, pc}
        /\ ~Filling(e) => Good(fast_dispatch_table[e])

RsbOK == \A i \in Ring : Good(rsb[i])

CtlOK ==
    /\ ctl = "block" => cur # Dispatcher /\ cur = block_descriptors[goal]
    /\ ctl = "enter" => cur \in {Dispatcher, block_descriptors[pc]}
    /\ ctl # "block" => pc = goal

(* A block that is to go is covered by a recorded request. *)
Awaited(l) ==
    \/ invalidate_entire_cache
    \/ \E a \in invalid_cache_ranges : a \in code[block_descriptors[l]].covers

DoomOK ==
    \A l \in Locs :
        block_descriptors[l] # Dispatcher =>
            /\ block_descriptors[l] \in doomed => Awaited(l)
            /\ block_descriptors[l] \in stale =>
                  ctl = "starting" /\ "CacheInvalidation" \in hr /\ Awaited(l)

CacheInv == TypeOK /\ CacheOK /\ TableOK /\ RsbOK /\ CtlOK /\ DoomOK /\ RequestsKept

CacheType ==
    /\ block_descriptors \in [Locs -> Ptrs]
    /\ code \in [Blocks -> Code \cup {None}]
    /\ space \in 1 .. Slots + 1
    /\ patch_information \subseteq Patches
    /\ block_ranges \subseteq Locs \X Locs

TableType == fast_dispatch_table \in [Entries -> Hint]

RsbType == rsb \in [Ring -> Hint] /\ rsb_ptr \in Ring

RequestType ==
    /\ halt_reason \subseteq Reasons /\ hr \subseteq Reasons
    /\ invalidate_entire_cache \in BOOLEAN /\ invalid_cache_ranges \subseteq Locs

CtlType ==
    /\ ctl \in {"out", "starting", "choose", "lookup", "enter", "block", "called",
                "dispatch", "exiting", "exited"}
    /\ cur \in Ptrs
    /\ via \in {"run", "dispatcher", "table"}
    /\ pc \in Locs /\ goal \in Locs

HistoryType == doomed \subseteq Blocks /\ stale \subseteq Blocks

LEMMA Types ==
  TypeOK <=> CacheType /\ TableType /\ RsbType /\ RequestType /\ CtlType /\ HistoryType
BY Zenon DEF TypeOK, CacheType, TableType, RsbType, RequestType, CtlType, HistoryType

LEMMA Basics ==
  /\ RSBSize \in Nat \ {0} /\ Slots \in Nat \ {0} /\ None \notin Locs /\ None \notin Code
  /\ Dispatcher \in Ptrs /\ Dispatcher \notin Blocks /\ Blocks \subseteq Ptrs
  /\ \A p \in Ptrs : p # Dispatcher => p \in Blocks
  /\ NoHint \in Hint /\ NoHint.loc = None
  /\ \A m \in Terms : m.targets \subseteq Locs /\ m.push \in Locs \cup {None}
  /\ \A m \in Terms : m.kind = "svc" => m.push # None
<1>1. RSBSize \in Nat \ {0} /\ Slots \in Nat \ {0} /\ None \notin Locs /\ None \notin Code
  BY Zenon, CacheAssumption DEF Code, Ptrs
<1>2. /\ Dispatcher \in Ptrs /\ Dispatcher \notin Blocks /\ Blocks \subseteq Ptrs
      /\ \A p \in Ptrs : p # Dispatcher => p \in Blocks
  BY <1>1 DEF Dispatcher, Ptrs, Blocks
<1>3. NoHint \in Hint /\ NoHint.loc = None
  BY Zenon, <1>2 DEF NoHint, Hint
<1>4. /\ \A m \in Terms : m.targets \subseteq Locs /\ m.push \in Locs \cup {None}
      /\ \A m \in Terms : m.kind = "svc" => m.push # None
  BY Zenon, CacheAssumption
<1> QED BY Zenon, <1>1, <1>2, <1>3, <1>4

LEMMA RingSteps == \A i \in Ring : Below(i) \in Ring /\ Above(i) \in Ring
<1> SUFFICES ASSUME NEW i \in Ring PROVE Below(i) \in Ring /\ Above(i) \in Ring  OBVIOUS
<1>1. RSBSize \in Nat \ {0} /\ i \in Int  BY Basics DEF Ring
<1>2. (i - 1) % RSBSize \in 0 .. RSBSize - 1  BY <1>1
<1>3. (i + 1) % RSBSize \in 0 .. RSBSize - 1  BY <1>1
<1> QED BY Zenon, <1>2, <1>3 DEF Below, Above, Ring

LEMMA CacheInit == Init => CacheInv
<1> SUFFICES ASSUME Init PROVE CacheInv  OBVIOUS
<1> USE Basics DEF Init
<1>1. TypeOK
  <2>1. CacheType /\ TableType  BY DEF CacheType, TableType
  <2>2. RsbType  BY DEF RsbType, Ring
  <2>3. RequestType /\ CtlType /\ HistoryType  BY Zenon DEF RequestType, CtlType, HistoryType
  <2> QED BY Zenon, <2>1, <2>2, <2>3, Types
<1>2. CacheOK
  <2>1. ASSUME NEW q \in Blocks PROVE Linked(q)
    BY <2>1 DEF Linked, Blocks
  <2> QED BY Zenon, <2>1 DEF CacheOK, Registered, PatchesOK
<1>3. TableOK /\ RsbOK  BY Zenon DEF TableOK, RsbOK, Good, Filling
<1>4. CtlOK /\ DoomOK /\ RequestsKept  BY Zenon DEF CtlOK, DoomOK, RequestsKept
<1> QED BY Zenon, <1>1, <1>2, <1>3, <1>4 DEF CacheInv

LEMMA CacheKept ==
  ASSUME CacheType, CacheOK, UNCHANGED cache PROVE CacheType' /\ CacheOK'
<1> USE DEF cache
<1>1. CacheType'  BY Zenon DEF CacheType
<1>2. ASSUME NEW l \in Locs PROVE Registered(l)'  BY Zenon DEF CacheOK, Registered
<1>3. ASSUME NEW q \in Blocks PROVE Linked(q)'  BY Zenon DEF CacheOK, Linked, Refers
<1>4. PatchesOK'  BY Zenon DEF CacheOK, PatchesOK
<1> QED BY Zenon, <1>1, <1>2, <1>3, <1>4 DEF CacheOK

LEMMA CacheCleared ==
  ASSUME CacheType, ClearCaches
  PROVE  CacheType' /\ CacheOK' /\ (\A l \in Locs : block_descriptors'[l] = Dispatcher)
<1> USE Basics DEF ClearCaches
<1>1. CacheType'  BY DEF CacheType
<1>2. ASSUME NEW l \in Locs PROVE Registered(l)'  BY Zenon DEF Registered
<1>3. ASSUME NEW q \in Blocks PROVE Linked(q)'  BY DEF Linked, Blocks
<1>4. PatchesOK'  BY Zenon DEF PatchesOK
<1> QED BY Zenon, <1>1, <1>2, <1>3, <1>4 DEF CacheOK

(* What patching changes in a piece of code. *)
LEMMA Patching ==
  ASSUME NEW c \in [Blocks -> Code \cup {None}], NEW patches, NEW targets, NEW ptr \in Ptrs,
         NEW d, d = Patch(c, patches, targets, ptr)
  PROVE  /\ d \in [Blocks -> Code \cup {None}]
         /\ \A q \in Blocks :
              /\ c[q] = None => d[q] = None
              /\ c[q] # None =>
                  /\ d[q] # None
                  /\ d[q].loc = c[q].loc /\ d[q].covers = c[q].covers /\ d[q].term = c[q].term
                  /\ \A l \in Locs : d[q].link[l] =
                        IF l \in targets /\ Refers(patches, l, q, "jz") THEN ptr ELSE c[q].link[l]
                  /\ d[q].push =
                        IF \E l \in targets : Refers(patches, l, q, "mov_rcx") THEN ptr ELSE c[q].push
<1> DEFINE lk(p) == [l \in Locs |-> IF l \in targets /\ Refers(patches, l, p, "jz")
                                   THEN ptr ELSE c[p].link[l]]
           ph(p) == IF \E l \in targets : Refers(patches, l, p, "mov_rcx") THEN ptr ELSE c[p].push
           rec(p) == [loc |-> c[p].loc, covers |-> c[p].covers, term |-> c[p].term,
                      link |-> lk(p), push |-> ph(p)]
<1>1. ASSUME NEW p \in Blocks, c[p] # None
      PROVE  d[p] = rec(p) /\ rec(p) \in Code
  <2>1. c[p] \in Code  BY Zenon, <1>1
  <2>2. c[p].link \in [Locs -> Ptrs]  BY Zenon, <2>1 DEF Code
  <2>3. lk(p) \in [Locs -> Ptrs]  BY Zenon, <2>2
  <2>4. ph(p) \in Ptrs  BY Zenon, <2>1 DEF Code
  <2>5. rec(p) \in Code  BY SMTT(20), <2>1, <2>3, <2>4 DEF Code
  <2>6. d[p] = [c[p] EXCEPT !.link = lk(p), !.push = ph(p)]
    BY Zenon, <1>1 DEF Patch
  <2>7. d[p] = rec(p)  BY ZenonT(30), <2>1, <2>6 DEF Code
  <2> QED BY Zenon, <2>5, <2>7
<1>2. ASSUME NEW p \in Blocks, c[p] = None PROVE d[p] = None
  BY Zenon, <1>2 DEF Patch
<1>3. d \in [Blocks -> Code \cup {None}]
  <2>1. d = [p \in Blocks |-> d[p]]  BY Zenon DEF Patch
  <2>2. \A p \in Blocks : d[p] \in Code \cup {None}  BY Zenon, <1>1, <1>2
  <2> QED BY Zenon, <2>1, <2>2
<1>4. ASSUME NEW q \in Blocks, c[q] # None
      PROVE  /\ d[q] # None
             /\ d[q].loc = c[q].loc /\ d[q].covers = c[q].covers /\ d[q].term = c[q].term
             /\ \A l \in Locs : d[q].link[l] =
                   IF l \in targets /\ Refers(patches, l, q, "jz") THEN ptr ELSE c[q].link[l]
             /\ d[q].push =
                   IF \E l \in targets : Refers(patches, l, q, "mov_rcx") THEN ptr ELSE c[q].push
  <2>1. d[q] = rec(q) /\ d[q] # None  BY <1>1, <1>4, Basics
  <2>2. d[q].link = lk(q) /\ d[q].push = ph(q)  BY <2>1
  <2>3. d[q].loc = c[q].loc /\ d[q].covers = c[q].covers /\ d[q].term = c[q].term  BY <2>1
  <2> QED BY Zenon, <2>1, <2>2, <2>3
<1> QED BY Zenon, <1>2, <1>3, <1>4

(* Invalidation of ranges: blocks go, and with them what refers to them. *)
LEMMA CacheInvalidated ==
  ASSUME CacheType, CacheOK, InvalidateCacheRanges
  PROVE  /\ CacheType' /\ CacheOK'
         /\ \A l \in Locs :
              /\ block_descriptors'[l] = IF l \in Erased THEN Dispatcher ELSE block_descriptors[l]
              /\ block_descriptors'[l] # Dispatcher =>
                   code'[block_descriptors[l]].covers = code[block_descriptors[l]].covers
<1> USE DEF InvalidateCacheRanges
<1>1. /\ block_descriptors \in [Locs -> Ptrs] /\ code \in [Blocks -> Code \cup {None}]
      /\ Dispatcher \in Ptrs /\ space \in 1 .. Slots + 1
  BY Zenon, Basics DEF CacheType
<1>2. /\ code' \in [Blocks -> Code \cup {None}]
      /\ \A q \in Blocks :
           /\ code[q] = None => code'[q] = None
           /\ code[q] # None =>
               /\ code'[q] # None
               /\ code'[q].loc = code[q].loc /\ code'[q].covers = code[q].covers
               /\ code'[q].term = code[q].term
               /\ \A l \in Locs : code'[q].link[l] =
                     IF l \in Erased /\ Refers(patch_information, l, q, "jz") THEN Dispatcher
                     ELSE code[q].link[l]
               /\ code'[q].push =
                     IF \E l \in Erased : Refers(patch_information, l, q, "mov_rcx") THEN Dispatcher
                     ELSE code[q].push
  BY <1>1, Patching
<1>3. \A l \in Locs : block_descriptors'[l] = IF l \in Erased THEN Dispatcher ELSE block_descriptors[l]
  BY Zenon, <1>1
<1>4. CacheType'  BY Zenon, <1>1, <1>2 DEF CacheType
<1>5. ASSUME NEW l \in Locs PROVE Registered(l)'
  <2> SUFFICES ASSUME block_descriptors'[l] # Dispatcher PROVE Registered(l)'
    BY Zenon DEF Registered
  <2>1. block_descriptors'[l] = block_descriptors[l]  BY Zenon, <1>3
  <2>2. block_descriptors[l] \in Blocks  BY Zenon, <1>1, <2>1, Basics
  <2>3. Registered(l)  BY Zenon DEF CacheOK
  <2> QED BY Zenon, <1>2, <2>1, <2>2, <2>3 DEF Registered
<1>6. ASSUME NEW q \in Blocks PROVE Linked(q)'
  <2> SUFFICES ASSUME q < space PROVE Linked(q)'
    BY Zenon DEF Linked
  <2>1. Linked(q) /\ code[q] # None /\ code[q] \in Code  BY <1>1 DEF CacheOK, Linked
  <2>2. code'[q] # None /\ code'[q].term = code[q].term  BY Zenon, <1>2, <2>1
  <2>3. code[q].term.targets \subseteq Locs /\ code[q].term.push \in Locs \cup {None}
    BY Zenon, <2>1, Basics DEF Code
  <2>4. ASSUME NEW l \in code[q].term.targets
        PROVE  Refers(patch_information, l, q, "jz")' /\ code'[q].link[l] \in {Dispatcher, block_descriptors'[l]}
    <3>1. Refers(patch_information, l, q, "jz") /\ code[q].link[l] \in {Dispatcher, block_descriptors[l]}
      BY Zenon, <2>1, <2>4 DEF Linked
    <3>2. l \in Locs  BY Zenon, <2>3, <2>4
    <3> QED BY Zenon, <1>2, <1>3, <2>1, <3>1, <3>2 DEF Refers
  <2>5. ASSUME code[q].term.push # None
        PROVE  /\ Refers(patch_information, code[q].term.push, q, "mov_rcx")'
               /\ code'[q].push \in {Dispatcher, block_descriptors'[code[q].term.push]}
    <3>1. /\ Refers(patch_information, code[q].term.push, q, "mov_rcx")
          /\ code[q].push \in {Dispatcher, block_descriptors[code[q].term.push]}
      BY Zenon, <2>1, <2>5 DEF Linked
    <3>2. code[q].term.push \in Locs  BY Zenon, <2>3, <2>5
    <3>3. CASE code[q].term.push \in Erased
      <4>1. code'[q].push = Dispatcher  BY Zenon, <1>2, <2>1, <3>1, <3>3
      <4>2. Refers(patch_information, code[q].term.push, q, "mov_rcx")'
        BY Zenon, <2>2, <3>1 DEF Refers
      <4> QED BY Zenon, <4>1, <4>2
    <3>4. CASE code[q].term.push \notin Erased
      <4>1. code'[q].push \in {Dispatcher, code[q].push}  BY Zenon, <1>2, <2>1
      <4>2. block_descriptors'[code[q].term.push] = block_descriptors[code[q].term.push]
        BY Zenon, <1>3, <3>2, <3>4
      <4>3. Refers(patch_information, code[q].term.push, q, "mov_rcx")'
        BY Zenon, <2>2, <3>1 DEF Refers
      <4> QED BY Zenon, <3>1, <4>1, <4>2, <4>3
    <3> QED BY Zenon, <3>3, <3>4
  <2> QED BY Zenon, <2>2, <2>4, <2>5 DEF Linked
<1>7. PatchesOK'
  <2> SUFFICES ASSUME NEW r \in patch_information
               PROVE  r.at < space /\ (r.kind = "mov_rcx" => code'[r.at].term.push = r.target)
    BY Zenon DEF PatchesOK
  <2>1. r.at \in Blocks /\ r.at < space /\ (r.kind = "mov_rcx" => code[r.at].term.push = r.target)
    BY Zenon DEF CacheOK, PatchesOK, CacheType, Patches
  <2>2. code[r.at] # None  BY Zenon, <2>1 DEF CacheOK, Linked
  <2> QED BY Zenon, <1>2, <2>1, <2>2
<1>8. ASSUME NEW l \in Locs, block_descriptors'[l] # Dispatcher
      PROVE  code'[block_descriptors[l]].covers = code[block_descriptors[l]].covers
  <2>1. block_descriptors[l] # Dispatcher  BY Zenon, <1>3, <1>8
  <2>2. block_descriptors[l] \in Blocks /\ code[block_descriptors[l]] # None
    BY Zenon, <1>1, <2>1, Basics DEF CacheOK, Registered
  <2> QED BY Zenon, <1>2, <2>2
<1> QED BY Zenon, <1>3, <1>4, <1>5, <1>6, <1>7, <1>8 DEF CacheOK

(* A new block: links to it are patched, its own among them. *)
LEMMA CacheEmitted ==
  ASSUME CacheType, CacheOK, pc \in Locs, NEW term \in Terms, NEW covers \in Extents,
         GetBlock_emits(term, covers)
  PROVE  /\ CacheType' /\ CacheOK'
         /\ space \in Blocks /\ block_descriptors[pc] = Dispatcher
         /\ \A l \in Locs :
              /\ block_descriptors'[l] = IF l = pc THEN space ELSE block_descriptors[l]
              /\ l # pc /\ block_descriptors[l] # Dispatcher =>
                   /\ code'[block_descriptors[l]].covers = code[block_descriptors[l]].covers
                   /\ block_descriptors[l] < space
<1> DEFINE c == [code EXCEPT ![space] = NewCode(term, covers)]
<1>1. /\ block_descriptors \in [Locs -> Ptrs] /\ code \in [Blocks -> Code \cup {None}]
      /\ space \in Blocks /\ space \in Ptrs /\ space' = space + 1 /\ space' \in 1 .. Slots + 1
      /\ block_descriptors[pc] = Dispatcher
  BY Basics DEF CacheType, GetBlock_emits, Blocks, Ptrs
<1>2. /\ term.targets \subseteq Locs /\ term.push \in Locs \cup {None}
      /\ covers \subseteq Locs
  BY Zenon, Basics, CacheAssumption
<1>3. NewCode(term, covers) \in Code /\ NewCode(term, covers) # None
  <2>1. [l \in Locs |-> IF l \in term.targets THEN block_descriptors[l] ELSE Dispatcher] \in [Locs -> Ptrs]
    BY Zenon, <1>1, Basics
  <2>2. (IF term.push = None THEN Dispatcher ELSE block_descriptors[term.push]) \in Ptrs
    BY Zenon, <1>1, <1>2, Basics
  <2>3. NewCode(term, covers) \in Code  BY Zenon, <1>2, <2>1, <2>2 DEF NewCode, Code
  <2>4. None \notin Code  BY Zenon, Basics
  <2> QED BY Zenon, <2>3, <2>4
<1>4. c \in [Blocks -> Code \cup {None}] /\ c[space] = NewCode(term, covers)
      /\ \A q \in Blocks : q # space => c[q] = code[q]
  BY Zenon, <1>1, <1>3
<1>5. code' = Patch(c, patch_information', {pc}, space)
  BY Zenon DEF GetBlock_emits
<1> HIDE DEF c
<1>a. c \in [Blocks -> Code \cup {None}] /\ space \in Ptrs  BY Zenon, <1>1, <1>4
<1>b. c[space] # None /\ c[space].loc = pc /\ c[space].covers = covers /\ c[space].term = term
  <2>1. NewCode(term, covers).loc = pc /\ NewCode(term, covers).covers = covers
        /\ NewCode(term, covers).term = term
    BY Zenon DEF NewCode
  <2> QED BY Zenon, <1>3, <1>4, <2>1
<1>c. c[space].push = IF term.push = None THEN Dispatcher ELSE block_descriptors[term.push]
  <2>1. NewCode(term, covers).push = IF term.push = None THEN Dispatcher ELSE block_descriptors[term.push]
    BY Zenon DEF NewCode
  <2> QED BY Zenon, <1>4, <2>1
<1>6. /\ code' \in [Blocks -> Code \cup {None}]
      /\ \A q \in Blocks :
           /\ c[q] = None => code'[q] = None
           /\ c[q] # None =>
               /\ code'[q] # None
               /\ code'[q].loc = c[q].loc /\ code'[q].covers = c[q].covers /\ code'[q].term = c[q].term
               /\ \A l \in Locs : code'[q].link[l] =
                     IF l \in {pc} /\ Refers(patch_information', l, q, "jz") THEN space
                     ELSE c[q].link[l]
               /\ code'[q].push =
                     IF \E l \in {pc} : Refers(patch_information', l, q, "mov_rcx") THEN space
                     ELSE c[q].push
  BY <1>a, <1>5, Patching
<1>7. \A l \in Locs : block_descriptors'[l] = IF l = pc THEN space ELSE block_descriptors[l]
  BY Zenon, <1>1 DEF GetBlock_emits
<1>8. patch_information' = patch_information \cup NewPatches(term)
  BY Zenon DEF GetBlock_emits
<1>9. NewPatches(term) \subseteq Patches
  BY <1>1, <1>2 DEF NewPatches, Patches
<1>10. CacheType'
  <2>1. block_descriptors' \in [Locs -> Ptrs]  BY Zenon, <1>1 DEF GetBlock_emits
  <2>2. patch_information' \subseteq Patches  BY Zenon, <1>8, <1>9 DEF CacheType
  <2>3. block_ranges' \subseteq Locs \X Locs  BY Zenon, <1>2 DEF GetBlock_emits, CacheType
  <2> QED BY Zenon, <1>1, <1>6, <2>1, <2>2, <2>3 DEF CacheType
<1>11. ASSUME NEW l \in Locs, l # pc, block_descriptors[l] # Dispatcher
       PROVE  /\ block_descriptors[l] \in Blocks /\ block_descriptors[l] < space
              /\ code[block_descriptors[l]] # None
              /\ code'[block_descriptors[l]] # None
              /\ code'[block_descriptors[l]].loc = code[block_descriptors[l]].loc
              /\ code'[block_descriptors[l]].covers = code[block_descriptors[l]].covers
  <2>1. block_descriptors[l] \in Blocks  BY Zenon, <1>1, <1>11, Basics
  <2>2. block_descriptors[l] < space /\ code[block_descriptors[l]] # None
    BY Zenon, <1>11 DEF CacheOK, Registered
  <2>3. block_descriptors[l] # space  BY <1>1, <2>1, <2>2 DEF Blocks
  <2> QED BY Zenon, <1>4, <1>6, <2>1, <2>2, <2>3
<1>12. ASSUME NEW l \in Locs PROVE Registered(l)'
  <2>1. CASE l = pc
    <3>1. block_descriptors'[l] = space  BY Zenon, <1>7, <2>1
    <3>2. code'[space] # None /\ code'[space].loc = pc /\ code'[space].covers = covers
      BY Zenon, <1>1, <1>b, <1>6
    <3>3. \A a \in covers : <<a, pc>> \in block_ranges'  BY Zenon DEF GetBlock_emits
    <3>4. space < space'  BY <1>1 DEF Blocks
    <3> QED BY Zenon, <2>1, <3>1, <3>2, <3>3, <3>4 DEF Registered
  <2>2. CASE l # pc
    <3> SUFFICES ASSUME block_descriptors'[l] # Dispatcher PROVE Registered(l)'
      BY Zenon DEF Registered
    <3>1. block_descriptors'[l] = block_descriptors[l]  BY Zenon, <1>7, <2>2
    <3>2. Registered(l)  BY Zenon DEF CacheOK
    <3>3. block_descriptors[l] < space'  BY <1>1, <1>11, <2>2, <3>1 DEF Blocks
    <3>4. block_ranges \subseteq block_ranges'  BY Zenon DEF GetBlock_emits
    <3> QED BY Zenon, <1>11, <2>2, <3>1, <3>2, <3>3, <3>4 DEF Registered
  <2> QED BY Zenon, <2>1, <2>2
<1>13. ASSUME NEW q \in Blocks, NEW l \in Locs, NEW kind,
              [target |-> l, at |-> q, kind |-> kind] \in NewPatches(term)
       PROVE  q = space /\ (kind = "mov_rcx" => l = term.push)
  BY Zenon, <1>13 DEF NewPatches
<1>14. ASSUME NEW q \in Blocks, q < space PROVE Linked(q)'
  <2>1. q # space /\ Linked(q)  BY <1>1, <1>14 DEF CacheOK, Blocks
  <2>a. code[q] # None  BY Zenon, <1>14, <2>1 DEF Linked
  <2>2. c[q] = code[q] /\ code[q] \in Code  BY Zenon, <1>1, <1>4, <2>1, <2>a
  <2>3. code'[q] # None /\ code'[q].term = code[q].term  BY Zenon, <1>6, <2>a, <2>2
  <2>4. code[q].term.targets \subseteq Locs /\ code[q].term.push \in Locs \cup {None}
    BY Zenon, <2>2, Basics DEF Code
  <2>5. ASSUME NEW l \in code[q].term.targets
        PROVE  Refers(patch_information, l, q, "jz")' /\ code'[q].link[l] \in {Dispatcher, block_descriptors'[l]}
    <3>1. Refers(patch_information, l, q, "jz") /\ code[q].link[l] \in {Dispatcher, block_descriptors[l]}
      BY Zenon, <2>1, <2>5, <1>14 DEF Linked
    <3>2. l \in Locs  BY Zenon, <2>4, <2>5
    <3>3. Refers(patch_information', l, q, "jz")  BY Zenon, <1>8, <3>1 DEF Refers
    <3>4. code'[q].link[l] = IF l = pc THEN space ELSE code[q].link[l]
      BY Zenon, <1>6, <2>a, <2>2, <3>2, <3>3
    <3>5. Refers(patch_information, l, q, "jz")'  BY Zenon, <3>3 DEF Refers
    <3> QED BY Zenon, <1>7, <3>1, <3>2, <3>4, <3>5
  <2>6. ASSUME code[q].term.push # None
        PROVE  /\ Refers(patch_information', code[q].term.push, q, "mov_rcx")
               /\ code'[q].push \in {Dispatcher, block_descriptors'[code[q].term.push]}
    <3>1. /\ Refers(patch_information, code[q].term.push, q, "mov_rcx")
          /\ code[q].push \in {Dispatcher, block_descriptors[code[q].term.push]}
      BY Zenon, <1>14, <2>1, <2>6 DEF Linked
    <3>2. code[q].term.push \in Locs  BY Zenon, <2>4, <2>6
    <3>3. Refers(patch_information', code[q].term.push, q, "mov_rcx")  BY Zenon, <1>8, <3>1 DEF Refers
    <3>4. Refers(patch_information', pc, q, "mov_rcx") => code[q].term.push = pc
      <4>1. ASSUME [target |-> pc, at |-> q, kind |-> "mov_rcx"] \in patch_information
            PROVE  code[q].term.push = pc
        BY Zenon, <4>1 DEF CacheOK, PatchesOK
      <4> QED BY Zenon, <1>8, <1>13, <2>1, <4>1 DEF Refers
    <3>5. code'[q].push = IF code[q].term.push = pc THEN space ELSE code[q].push
      BY Zenon, <1>6, <2>a, <2>2, <3>3, <3>4
    <3> QED BY Zenon, <1>7, <3>1, <3>2, <3>3, <3>5
  <2>7. code[q].term.push # None => Refers(patch_information, code[q].term.push, q, "mov_rcx")'
    BY Zenon, <2>3, <2>6 DEF Refers
  <2> QED BY Zenon, <2>3, <2>5, <2>6, <2>7 DEF Linked
<1>15. ASSUME NEW q \in Blocks, q = space PROVE Linked(q)'
  <2>1. c[space] # None /\ c[space].term = term  BY Zenon, <1>b
  <2>2. code'[space] # None /\ code'[space].term = term  BY Zenon, <1>1, <1>6, <2>1
  <2>3. ASSUME NEW l \in term.targets
        PROVE  Refers(patch_information', l, space, "jz") /\ code'[space].link[l] \in {Dispatcher, block_descriptors'[l]}
    <3>1. l \in Locs  BY Zenon, <1>2, <2>3
    <3>2. Refers(patch_information', l, space, "jz")  BY Zenon, <1>8, <2>3 DEF Refers, NewPatches
    <3>3. c[space].link[l] = block_descriptors[l]  BY <1>4, <2>3, <3>1 DEF NewCode
    <3>4. code'[space].link[l] = IF l = pc THEN space ELSE block_descriptors[l]
      BY Zenon, <1>1, <1>6, <2>1, <3>1, <3>2, <3>3
    <3> QED BY Zenon, <1>7, <3>1, <3>2, <3>4
  <2>4. ASSUME term.push # None
        PROVE  /\ Refers(patch_information', term.push, space, "mov_rcx")
               /\ code'[space].push \in {Dispatcher, block_descriptors'[term.push]}
    <3>1. term.push \in Locs  BY Zenon, <1>2, <2>4
    <3>2. Refers(patch_information', term.push, space, "mov_rcx")
      BY Zenon, <1>8, <2>4 DEF Refers, NewPatches
    <3>3. c[space].push = block_descriptors[term.push]  BY Zenon, <1>c, <2>4
    <3>4. Refers(patch_information', pc, space, "mov_rcx") => term.push = pc
      <4>1. [target |-> pc, at |-> space, kind |-> "mov_rcx"] \notin patch_information
        <5>1. ASSUME [target |-> pc, at |-> space, kind |-> "mov_rcx"] \in patch_information
              PROVE  FALSE
          <6>1. space < space  BY Zenon, <5>1 DEF CacheOK, PatchesOK
          <6> QED BY <1>1, <6>1 DEF Blocks
        <5> QED BY Zenon, <5>1
      <4> QED BY Zenon, <1>1, <1>8, <1>13, <4>1 DEF Refers
    <3>5. code'[space].push = IF term.push = pc THEN space ELSE block_descriptors[term.push]
      BY Zenon, <1>1, <1>6, <2>1, <3>2, <3>3, <3>4
    <3> QED BY Zenon, <1>7, <3>1, <3>2, <3>5
  <2>5. /\ code'[q] # None /\ code'[q].term = term
        /\ \A l \in term.targets : /\ Refers(patch_information', l, q, "jz")
                                   /\ code'[q].link[l] \in {Dispatcher, block_descriptors'[l]}
    BY Zenon, <1>15, <2>2, <2>3
  <2>6. term.push # None => /\ Refers(patch_information', term.push, q, "mov_rcx")
                            /\ code'[q].push \in {Dispatcher, block_descriptors'[term.push]}
    BY Zenon, <1>15, <2>4
  <2>7. \A l \in term.targets : Refers(patch_information, l, q, "jz")'
    BY Zenon, <2>5 DEF Refers
  <2>8. term.push # None => Refers(patch_information, code[q].term.push, q, "mov_rcx")'
    BY Zenon, <2>5, <2>6 DEF Refers
  <2> QED BY Zenon, <2>5, <2>6, <2>7, <2>8 DEF Linked
<1>16. \A q \in Blocks : Linked(q)'
  <2> SUFFICES ASSUME NEW q \in Blocks PROVE Linked(q)'  OBVIOUS
  <2>1. CASE q < space  BY Zenon, <1>14, <2>1
  <2>2. CASE q = space  BY Zenon, <1>15, <2>2
  <2>3. CASE q > space
    <3>1. ~(q < space')  BY <1>1, <2>3 DEF Blocks
    <3> QED BY Zenon, <3>1 DEF Linked
  <2> QED BY <1>1, <2>1, <2>2, <2>3 DEF Blocks
<1>17. PatchesOK'
  <2> SUFFICES ASSUME NEW r \in patch_information'
               PROVE  /\ r.at < space'
                      /\ r.kind = "mov_rcx" => code'[r.at].term.push = r.target
    BY Zenon DEF PatchesOK
  <2>1. CASE r \in patch_information
    <3>1. r.at < space /\ (r.kind = "mov_rcx" => code[r.at].term.push = r.target)
      BY Zenon, <2>1 DEF CacheOK, PatchesOK
    <3>2. r.at \in Blocks  BY Zenon, <2>1 DEF CacheType, Patches
    <3>3. r.at # space /\ r.at < space'  BY <1>1, <3>1, <3>2 DEF Blocks
    <3>4. code[r.at] # None  BY Zenon, <3>1, <3>2 DEF CacheOK, Linked
    <3>5. code'[r.at].term = code[r.at].term  BY Zenon, <1>4, <1>6, <3>2, <3>3, <3>4
    <3> QED BY Zenon, <3>1, <3>3, <3>5
  <2>2. CASE r \in NewPatches(term)
    <3>1. r.at = space /\ (r.kind = "mov_rcx" => term.push = r.target)
      BY <2>2 DEF NewPatches
    <3>2. code'[space].term = term  BY Zenon, <1>1, <1>b, <1>6
    <3>3. space < space'  BY <1>1 DEF Blocks
    <3> QED BY Zenon, <3>1, <3>2, <3>3
  <2> QED BY Zenon, <1>8, <2>1, <2>2
<1>18. CacheOK'  BY Zenon, <1>12, <1>16, <1>17 DEF CacheOK
<1> QED BY Zenon, <1>1, <1>7, <1>10, <1>11, <1>18

(* What PerformRequestedCacheInvalidation leaves: no block that a recorded *)
(* request covers, and nothing that refers to one that is gone.            *)
LEMMA Performed ==
  ASSUME CacheType, TableType, RsbType, RequestType, CacheOK, RsbOK,
         NEW reasons, NEW entire \in BOOLEAN, entire \/ ~invalidate_entire_cache,
         PerformRequestedCacheInvalidation(reasons, entire),
         \A e \in Entries : /\ Good(fast_dispatch_table[e])
                            /\ fast_dispatch_table[e].loc # None => Hash(fast_dispatch_table[e].loc) = e
  PROVE  /\ CacheType' /\ TableType' /\ RsbType' /\ CacheOK' /\ RsbOK'
         /\ \A e \in Entries : /\ Good(fast_dispatch_table[e])'
                               /\ fast_dispatch_table'[e].loc # None => Hash(fast_dispatch_table'[e].loc) = e
         /\ halt_reason' \subseteq Reasons
         /\ invalidate_entire_cache' \in BOOLEAN /\ invalid_cache_ranges' \subseteq Locs
         /\ "CacheInvalidation" \notin reasons =>
              UNCHANGED <<block_descriptors, code, halt_reason, invalidate_entire_cache, invalid_cache_ranges>>
         /\ "CacheInvalidation" \in reasons =>
              /\ ~invalidate_entire_cache' /\ invalid_cache_ranges' = {}
              /\ \A l \in Locs : block_descriptors'[l] # Dispatcher =>
                   block_descriptors'[l] = block_descriptors[l] /\ ~Awaited(l)
<1>1. CASE "CacheInvalidation" \notin reasons
  <2>1. UNCHANGED <<cache, predictions, halt_reason, invalidate_entire_cache, invalid_cache_ranges>>
    BY Zenon, <1>1 DEF PerformRequestedCacheInvalidation
  <2>2. CacheType' /\ CacheOK'  BY Zenon, <2>1, CacheKept
  <2>3. UNCHANGED <<block_descriptors, code, fast_dispatch_table, rsb, rsb_ptr>>
    BY Zenon, <2>1 DEF cache, predictions
  <2>4. TableType' /\ RsbType'  BY Zenon, <2>3 DEF TableType, RsbType
  <2>5. RsbOK'  BY Zenon, <2>3 DEF RsbOK, Good
  <2>6. \A e \in Entries : Good(fast_dispatch_table[e])'  BY Zenon, <2>3 DEF Good
  <2> QED BY Zenon, <1>1, <2>1, <2>2, <2>3, <2>4, <2>5, <2>6 DEF RequestType
<1>2. CASE "CacheInvalidation" \in reasons
  <2>1. /\ halt_reason' = halt_reason \ {"CacheInvalidation"}
        /\ invalidate_entire_cache' = FALSE /\ invalid_cache_ranges' = {}
        /\ \/ entire /\ ResetRSB /\ ClearCaches
           \/ ~entire /\ invalid_cache_ranges # {} /\ ResetRSB /\ InvalidateCacheRanges
           \/ ~entire /\ invalid_cache_ranges = {} /\ UNCHANGED <<cache, predictions>>
    BY Zenon, <1>2 DEF PerformRequestedCacheInvalidation
  <2>2. halt_reason' \subseteq Reasons /\ invalidate_entire_cache' \in BOOLEAN /\ invalid_cache_ranges' \subseteq Locs
    BY Zenon, <2>1 DEF RequestType
  <2>3. ASSUME ResetRSB PROVE RsbType' /\ RsbOK'
    BY Zenon, <2>3, Basics DEF ResetRSB, RsbType, RsbOK, Good
  <2>4. CASE entire /\ ResetRSB /\ ClearCaches
    <3>1. CacheType' /\ CacheOK' /\ (\A l \in Locs : block_descriptors'[l] = Dispatcher)
      BY Zenon, <2>4, CacheCleared
    <3>2. TableType' /\ \A e \in Entries : fast_dispatch_table'[e] = NoHint
      BY Zenon, <2>4, Basics DEF ClearCaches, TableType
    <3>3. \A e \in Entries : Good(fast_dispatch_table[e])'  BY Zenon, <3>2, Basics DEF Good
    <3> QED BY Zenon, <1>2, <2>1, <2>2, <2>3, <2>4, <3>1, <3>2, <3>3, Basics
  <2>5. CASE ~entire /\ invalid_cache_ranges # {} /\ ResetRSB /\ InvalidateCacheRanges
    <3>1. /\ CacheType' /\ CacheOK'
          /\ \A l \in Locs : block_descriptors'[l] = IF l \in Erased THEN Dispatcher ELSE block_descriptors[l]
      BY Zenon, <2>5, CacheInvalidated
    <3>2. \A e \in Entries : fast_dispatch_table'[e] =
            IF \E l \in Erased : Hash(l) = e THEN NoHint ELSE fast_dispatch_table[e]
      BY Zenon, <2>5 DEF InvalidateCacheRanges
    <3>3. TableType'
      BY Zenon, <2>5, Basics DEF InvalidateCacheRanges, TableType
    <3>4. ASSUME NEW e \in Entries
          PROVE  /\ Good(fast_dispatch_table[e])'
                 /\ fast_dispatch_table'[e].loc # None => Hash(fast_dispatch_table'[e].loc) = e
      <4>1. CASE \E l \in Erased : Hash(l) = e
        BY Zenon, <3>2, <4>1, Basics DEF Good
      <4>2. CASE ~ \E l \in Erased : Hash(l) = e
        <5>1. fast_dispatch_table'[e] = fast_dispatch_table[e]  BY Zenon, <3>2, <4>2
        <5>2. fast_dispatch_table[e].loc \in Locs \cup {None}  BY Zenon DEF TableType, Hint
        <5>3. fast_dispatch_table[e].loc # None =>
                block_descriptors'[fast_dispatch_table[e].loc] = block_descriptors[fast_dispatch_table[e].loc]
          BY Zenon, <3>1, <4>2, <5>2
        <5> QED BY Zenon, <5>1, <5>3 DEF Good
      <4> QED BY Zenon, <4>1, <4>2
    <3>5. ASSUME NEW l \in Locs, block_descriptors'[l] # Dispatcher
          PROVE  block_descriptors'[l] = block_descriptors[l] /\ ~Awaited(l)
      <4>1. l \notin Erased /\ block_descriptors'[l] = block_descriptors[l]  BY Zenon, <3>1, <3>5
      <4>2. Registered(l)  BY Zenon DEF CacheOK
      <4>3. ASSUME NEW a \in invalid_cache_ranges, a \in code[block_descriptors[l]].covers PROVE FALSE
        <5>1. <<a, l>> \in block_ranges  BY Zenon, <3>5, <4>1, <4>2, <4>3 DEF Registered
        <5> QED BY Zenon, <3>5, <4>1, <5>1 DEF Erased
      <4> QED BY Zenon, <2>5, <4>1, <4>3 DEF Awaited
    <3> QED BY Zenon, <1>2, <2>1, <2>2, <2>3, <2>5, <3>1, <3>3, <3>4, <3>5
  <2>6. CASE ~entire /\ invalid_cache_ranges = {} /\ UNCHANGED <<cache, predictions>>
    <3>1. CacheType' /\ CacheOK'  BY Zenon, <2>6, CacheKept
    <3>2. UNCHANGED <<block_descriptors, code, fast_dispatch_table, rsb, rsb_ptr>>
      BY Zenon, <2>6 DEF cache, predictions
    <3>3. TableType' /\ RsbType'  BY Zenon, <3>2 DEF TableType, RsbType
    <3>4. RsbOK'  BY Zenon, <3>2 DEF RsbOK, Good
    <3>5. \A e \in Entries : Good(fast_dispatch_table[e])'  BY Zenon, <3>2 DEF Good
    <3>6. \A l \in Locs : ~Awaited(l)  BY Zenon, <2>6 DEF Awaited
    <3> QED BY Zenon, <1>2, <2>1, <2>2, <3>1, <3>2, <3>3, <3>4, <3>5, <3>6
  <2> QED BY Zenon, <2>1, <2>4, <2>5, <2>6
<1> QED BY Zenon, <1>1, <1>2

LEMMA NextTypes ==
  CacheType' /\ TableType' /\ RsbType' /\ RequestType' /\ CtlType' /\ HistoryType' => TypeOK'
BY Zenon DEF TypeOK, CacheType, TableType, RsbType, RequestType, CtlType, HistoryType

(* The cache is as it was: so is what is said of it. *)
LEMMA Unmoved ==
  ASSUME CacheInv, UNCHANGED cache
  PROVE  /\ CacheType' /\ CacheOK'
         /\ UNCHANGED rsb => RsbOK'
         /\ UNCHANGED <<rsb, rsb_ptr>> => RsbType'
         /\ UNCHANGED fast_dispatch_table => TableType'
         /\ (/\ UNCHANGED fast_dispatch_table
             /\ ctl # "lookup" \/ via # "table"
             /\ ctl' # "lookup" \/ via' # "table") => TableOK'
         /\ UNCHANGED <<doomed, stale>> => HistoryType'
         /\ UNCHANGED <<invalidate_entire_cache, invalid_cache_ranges, doomed, stale>>
              /\ ctl # "starting" => DoomOK'
         /\ (/\ UNCHANGED <<invalidate_entire_cache, invalid_cache_ranges>>
             /\ halt_reason \subseteq halt_reason' /\ ctl # "exited") => RequestsKept'
<1> USE DEF CacheInv
<1>1. TypeOK /\ CacheType /\ TableType /\ RsbType /\ HistoryType  BY Zenon, Types
<1>2. UNCHANGED <<block_descriptors, code>>  BY Zenon DEF cache
<1>3. CacheType' /\ CacheOK'  BY Zenon, <1>1, CacheKept
<1>4. UNCHANGED rsb => RsbOK'  BY Zenon, <1>2 DEF RsbOK, Good
<1>5. UNCHANGED <<rsb, rsb_ptr>> => RsbType'  BY Zenon, <1>1 DEF RsbType
<1>6. UNCHANGED fast_dispatch_table => TableType'  BY Zenon, <1>1 DEF TableType
<1>7. ASSUME UNCHANGED fast_dispatch_table, ctl # "lookup" \/ via # "table",
             ctl' # "lookup" \/ via' # "table"
      PROVE  TableOK'
  <2>1. \A e \in Entries : ~Filling(e) /\ ~Filling(e)'  BY Zenon, <1>7 DEF Filling
  <2>2. \A e \in Entries : Good(fast_dispatch_table[e])'  BY Zenon, <1>2, <1>7, <2>1 DEF TableOK, Good
  <2> QED BY Zenon, <1>7, <2>1, <2>2 DEF TableOK
<1>8. UNCHANGED <<doomed, stale>> => HistoryType'  BY Zenon, <1>1 DEF HistoryType
<1>9. UNCHANGED <<invalidate_entire_cache, invalid_cache_ranges, doomed, stale>>
        /\ ctl # "starting" => DoomOK'
  BY <1>2 DEF DoomOK, Awaited
<1>10. (/\ UNCHANGED <<invalidate_entire_cache, invalid_cache_ranges>>
        /\ halt_reason \subseteq halt_reason' /\ ctl # "exited") => RequestsKept'
  BY DEF RequestsKept
<1> QED BY Zenon, <1>3, <1>4, <1>5, <1>6, <1>7, <1>8, <1>9, <1>10

(* The code that a block runs into. *)
LEMMA InBlock ==
  ASSUME CacheInv, ctl = "block"
  PROVE  /\ cur \in Blocks /\ cur < space /\ code[cur] \in Code /\ code[cur].loc = goal
         /\ \A l \in code[cur].term.targets :
              l \in Locs /\ code[cur].link[l] \in {Dispatcher, block_descriptors[l]}
         /\ code[cur].term \in Terms
         /\ code[cur].term.push # None =>
              /\ code[cur].term.push \in Locs /\ code[cur].push \in Ptrs
              /\ code[cur].push \in {Dispatcher, block_descriptors[code[cur].term.push]}
<1> USE DEF CacheInv
<1>1. CacheType /\ CtlType  BY Zenon, Types
<1>2. cur # Dispatcher /\ cur = block_descriptors[goal] /\ goal \in Locs
  BY Zenon, <1>1 DEF CtlOK, CtlType
<1>3. cur \in Blocks  BY Zenon, <1>1, <1>2, Basics DEF CtlType
<1>4. cur < space /\ code[cur] # None /\ code[cur].loc = goal
  BY Zenon, <1>2 DEF CacheOK, Registered
<1>5. code[cur] \in Code  BY Zenon, <1>1, <1>3, <1>4 DEF CacheType
<1>6. /\ \A l \in code[cur].term.targets : code[cur].link[l] \in {Dispatcher, block_descriptors[l]}
      /\ code[cur].term.push # None =>
            code[cur].push \in {Dispatcher, block_descriptors[code[cur].term.push]}
  BY Zenon, <1>3, <1>4 DEF CacheOK, Linked
<1>7. code[cur].term \in Terms /\ code[cur].push \in Ptrs  BY Zenon, <1>5 DEF Code
<1>8. code[cur].term.targets \subseteq Locs /\ code[cur].term.push \in Locs \cup {None}
  BY Zenon, <1>7, Basics
<1> QED BY Zenon, <1>3, <1>4, <1>5, <1>6, <1>7, <1>8

LEMMA Pushed ==
  ASSUME CacheInv, ctl = "block", UNCHANGED cache, PushRSB
  PROVE  RsbType' /\ RsbOK'
<1>1. RsbType /\ RsbOK  BY Zenon, Types DEF CacheInv
<1>2. UNCHANGED block_descriptors  BY Zenon DEF cache
<1>3. CASE code[cur].term.push = None
  <2>1. UNCHANGED <<rsb, rsb_ptr>>  BY Zenon, <1>3 DEF PushRSB
  <2> QED BY Zenon, <2>1, Unmoved
<1>4. CASE code[cur].term.push # None
  <2> DEFINE h == [loc |-> code[cur].term.push, ptr |-> code[cur].push]
  <2>1. h \in Hint /\ h.ptr \in {Dispatcher, block_descriptors[h.loc]}
    BY Zenon, <1>4, InBlock DEF Hint
  <2>2. rsb' = [rsb EXCEPT ![rsb_ptr] = h] /\ rsb_ptr' = Above(rsb_ptr)
    BY Zenon, <1>4 DEF PushRSB
  <2> HIDE DEF h
  <2>3. RsbType'  BY Zenon, <1>1, <2>1, <2>2, RingSteps DEF RsbType
  <2>4. \A i \in Ring : rsb'[i] \in {h, rsb[i]}  BY Zenon, <1>1, <2>2 DEF RsbType
  <2>5. RsbOK'  BY Zenon, <1>1, <1>2, <2>1, <2>4 DEF RsbOK, Good
  <2> QED BY Zenon, <2>3, <2>5
<1> QED BY Zenon, <1>3, <1>4

(* A jump through a hint for the place where the guest goes. *)
LEMMA Jumped ==
  ASSUME CacheInv, UNCHANGED cache, NEW l \in Locs, NEW p \in Ptrs,
         p \in {Dispatcher, block_descriptors[l]}, Jump(p), goal' = l,
         pc' = l \/ p # Dispatcher, pc' \in Locs, UNCHANGED via
  PROVE  CtlType' /\ CtlOK' /\ ctl' # "lookup" /\ ctl' # "exited" /\ ctl' # "starting"
<1>1. CtlType  BY Zenon, Types DEF CacheInv
<1>2. UNCHANGED block_descriptors  BY Zenon DEF cache
<1>3. cur' = p /\ ctl' = IF p = Dispatcher THEN "dispatch" ELSE "block"  BY Zenon DEF Jump
<1>4. CtlType'  BY Zenon, <1>1, <1>3 DEF CtlType
<1>5. CtlOK'  BY Zenon, <1>2, <1>3 DEF CtlOK
<1> QED BY Zenon, <1>3, <1>4, <1>5

LEMMA Dispatched ==
  ASSUME CacheInv, UNCHANGED cache, NEW l \in Locs, ctl # "lookup",
         FastDispatch(l), pc' = l, goal' = l
  PROVE  TableType' /\ TableOK' /\ CtlType' /\ CtlOK'
<1> DEFINE e == Hash(l)
<1>1. TableType /\ TableOK /\ CtlType  BY Zenon, Types DEF CacheInv
<1>2. UNCHANGED block_descriptors  BY Zenon DEF cache
<1>3. e \in Entries  BY Zenon, HashAssumption
<1>4. \A f \in Entries : ~Filling(f) /\ Good(fast_dispatch_table[f])
  BY Zenon, <1>1 DEF Filling, TableOK
<1>5. CASE fast_dispatch_table[e].loc = l /\ Jump(fast_dispatch_table[e].ptr)
           /\ UNCHANGED <<fast_dispatch_table, via>>
  <2>1. /\ fast_dispatch_table[e].ptr \in Ptrs
        /\ fast_dispatch_table[e].ptr \in {Dispatcher, block_descriptors[l]}
    BY Zenon, <1>1, <1>3, <1>4, <1>5, Basics DEF TableType, Hint, Good
  <2>2. CtlType' /\ CtlOK' /\ ctl' # "lookup"  BY Zenon, <1>5, <2>1, Jumped
  <2>3. TableType' /\ TableOK'  BY Zenon, <1>5, <2>2, Unmoved
  <2> QED BY Zenon, <2>2, <2>3
<1>6. CASE /\ fast_dispatch_table' = [fast_dispatch_table EXCEPT ![e].loc = l]
           /\ ctl' = "lookup" /\ via' = "table" /\ cur' = Dispatcher
  <2>1. CtlType' /\ CtlOK'  BY Zenon, <1>6, Basics DEF CtlType, CtlOK
  <2>2. fast_dispatch_table[e] \in Hint  BY Zenon, <1>1, <1>3 DEF TableType
  <2>3. [fast_dispatch_table[e] EXCEPT !.loc = l] \in Hint
        /\ [fast_dispatch_table[e] EXCEPT !.loc = l].loc = l
    BY Zenon, <2>2 DEF Hint
  <2>4. TableType'  BY Zenon, <1>1, <1>6, <2>3 DEF TableType
  <2>5. fast_dispatch_table'[e].loc = l
    BY Zenon, <1>1, <1>3, <1>6, <2>3 DEF TableType
  <2>6. \A f \in Entries : f # e => fast_dispatch_table'[f] = fast_dispatch_table[f]
    BY Zenon, <1>1, <1>6 DEF TableType
  <2>7. \A f \in Entries : Filling(f)' <=> f = e  BY Zenon, <1>6 DEF Filling
  <2>8. ASSUME NEW f \in Entries
        PROVE  /\ fast_dispatch_table'[f].loc # None => Hash(fast_dispatch_table'[f].loc) = f
               /\ Filling(f)' => fast_dispatch_table'[f].loc \in {None, pc'}
               /\ ~Filling(f)' => Good(fast_dispatch_table[f])'
    <3>1. CASE f = e  BY Zenon, <2>5, <2>7, <3>1
    <3>2. CASE f # e
      <4>1. fast_dispatch_table'[f] = fast_dispatch_table[f]  BY Zenon, <2>6, <3>2
      <4>2. Good(fast_dispatch_table[f])'  BY Zenon, <1>2, <1>4, <4>1 DEF Good
      <4> QED BY Zenon, <1>1, <2>7, <3>2, <4>1, <4>2 DEF TableOK
    <3> QED BY Zenon, <3>1, <3>2
  <2>9. TableOK'  BY Zenon, <2>8 DEF TableOK
  <2> QED BY Zenon, <2>1, <2>4, <2>9
<1> QED BY Zenon, <1>5, <1>6 DEF FastDispatch

LEMMA Popped ==
  ASSUME CacheInv, UNCHANGED <<cache, rsb>>, NEW l \in Locs, ctl # "lookup",
         PopRSB(l), pc' = l, goal' = l
  PROVE  TableType' /\ TableOK' /\ RsbType' /\ RsbOK' /\ CtlType' /\ CtlOK'
<1>1. RsbType /\ RsbOK  BY Zenon, Types DEF CacheInv
<1>2. Below(rsb_ptr) \in Ring  BY Zenon, <1>1, RingSteps DEF RsbType
<1>3. RsbType'  BY Zenon, <1>1, <1>2 DEF RsbType, PopRSB
<1>4. RsbOK'  BY Zenon, Unmoved
<1>5. CASE rsb[Below(rsb_ptr)].loc = l /\ Jump(rsb[Below(rsb_ptr)].ptr)
           /\ UNCHANGED <<fast_dispatch_table, via>>
  <2>1. rsb[Below(rsb_ptr)].ptr \in Ptrs /\ rsb[Below(rsb_ptr)].ptr \in {Dispatcher, block_descriptors[l]}
    BY Zenon, <1>1, <1>2, <1>5, Basics DEF RsbType, RsbOK, Hint, Good
  <2>2. CtlType' /\ CtlOK' /\ ctl' # "lookup"  BY Zenon, <1>5, <2>1, Jumped
  <2>3. TableType' /\ TableOK'  BY Zenon, <1>5, <2>2, Unmoved
  <2> QED BY Zenon, <1>3, <1>4, <2>2, <2>3
<1>6. CASE FastDispatch(l)  BY Zenon, <1>3, <1>4, <1>6, Dispatched
<1> QED BY Zenon, <1>5, <1>6 DEF PopRSB

(* Invalidation at the two ends of Run. *)
LEMMA RunInvalidates ==
  ASSUME CacheInv, run_invalidates \/ run_returns PROVE CacheInv'
<1> USE DEF CacheInv, run_invalidates, run_returns
<1>1. CacheType /\ TableType /\ RsbType /\ RequestType /\ CtlType /\ HistoryType  BY Zenon, Types
<1>2. /\ ctl \in {"starting", "exited"} /\ ctl' \in {"choose", "out"} /\ hr' = {}
      /\ UNCHANGED <<cur, via, pc, goal, doomed>> /\ stale' \in {stale, {}}
      /\ PerformRequestedCacheInvalidation(hr, invalidate_entire_cache)
      /\ ctl' = "out" => ctl = "exited" /\ stale' = {}
  OBVIOUS
<1>3. \A e \in Entries : ~Filling(e) /\ ~Filling(e)'  BY Zenon, <1>2 DEF Filling
<1>4. \A e \in Entries : /\ Good(fast_dispatch_table[e])
                         /\ fast_dispatch_table[e].loc # None => Hash(fast_dispatch_table[e].loc) = e
  BY Zenon, <1>3 DEF TableOK
<1>5. invalidate_entire_cache \in BOOLEAN  BY Zenon, <1>1 DEF RequestType
<1>6. /\ CacheType' /\ TableType' /\ RsbType' /\ CacheOK' /\ RsbOK'
      /\ \A e \in Entries : /\ Good(fast_dispatch_table[e])'
                            /\ fast_dispatch_table'[e].loc # None => Hash(fast_dispatch_table'[e].loc) = e
      /\ halt_reason' \subseteq Reasons
      /\ invalidate_entire_cache' \in BOOLEAN /\ invalid_cache_ranges' \subseteq Locs
      /\ "CacheInvalidation" \notin hr =>
           UNCHANGED <<block_descriptors, code, halt_reason, invalidate_entire_cache, invalid_cache_ranges>>
      /\ "CacheInvalidation" \in hr =>
           /\ ~invalidate_entire_cache' /\ invalid_cache_ranges' = {}
           /\ \A l \in Locs : block_descriptors'[l] # Dispatcher =>
                block_descriptors'[l] = block_descriptors[l] /\ ~Awaited(l)
  BY Zenon, <1>1, <1>2, <1>4, <1>5, Performed
<1>7. RequestType' /\ CtlType' /\ HistoryType'
  BY Zenon, <1>1, <1>2, <1>6 DEF RequestType, CtlType, HistoryType
<1>8. TypeOK'  BY Zenon, <1>6, <1>7, NextTypes
<1>9. TableOK'  BY Zenon, <1>3, <1>6 DEF TableOK
<1>10. CtlOK'  BY Zenon, <1>2 DEF CtlOK
<1>11. RequestsKept'  BY Zenon, <1>2, <1>6 DEF RequestsKept
<1>12. DoomOK'
  <2>1. CASE "CacheInvalidation" \in hr
    <3>1. \A l \in Locs : block_descriptors'[l] # Dispatcher =>
            block_descriptors'[l] \notin doomed' /\ block_descriptors'[l] \notin stale'
      BY Zenon, <1>2, <1>6, <2>1 DEF DoomOK
    <3> QED BY Zenon, <3>1 DEF DoomOK
  <2>2. CASE "CacheInvalidation" \notin hr
    <3>1. \A l \in Locs : block_descriptors[l] # Dispatcher => block_descriptors[l] \notin stale
      BY Zenon, <2>2 DEF DoomOK
    <3>2. UNCHANGED <<block_descriptors, code, invalidate_entire_cache, invalid_cache_ranges, doomed>>
      BY Zenon, <1>2, <1>6, <2>2
    <3>3. \A l \in Locs : block_descriptors[l] # Dispatcher => block_descriptors[l] \notin stale'
      BY Zenon, <1>2, <3>1
    <3>4. ASSUME NEW l \in Locs, Awaited(l) PROVE Awaited(l)'  BY Zenon, <3>2, <3>4 DEF Awaited
    <3> QED BY Zenon, <3>2, <3>3, <3>4 DEF DoomOK
  <2> QED BY Zenon, <2>1, <2>2
<1> QED BY Zenon, <1>6, <1>8, <1>9, <1>10, <1>11, <1>12

(* Run's and its code's own steps; the cache and the table stay. *)
LEMMA Entering ==
  ASSUME CacheInv, (\E l \in Locs : SetPC(l)) \/ Run \/ run_chooses \/ run_code \/ dispatcher
  PROVE  CacheInv'
<1> USE DEF CacheInv
<1>1. CacheType /\ TableType /\ RsbType /\ RequestType /\ CtlType /\ HistoryType  BY Zenon, Types
<1>2. /\ UNCHANGED <<cache, fast_dispatch_table, rsb, requests>>
      /\ ctl \notin {"lookup", "exited", "starting"}
      /\ ctl' # "lookup" \/ via' # "table"
  BY Zenon DEF SetPC, Run, run_chooses, run_code, dispatcher, predictions, Jump
<1>3. UNCHANGED <<halt_reason, invalidate_entire_cache, invalid_cache_ranges, doomed>>
  BY Zenon, <1>2 DEF requests
<1>4. CacheType' /\ CacheOK' /\ RsbOK' /\ TableType' /\ TableOK' /\ RequestsKept'
  BY Zenon, <1>2, <1>3, Unmoved
<1>5. UNCHANGED <<block_descriptors, code>>  BY Zenon, <1>2 DEF cache
<1>6. RsbType'
  <2>1. rsb_ptr' \in {rsb_ptr, Below(rsb_ptr)}
    BY Zenon DEF SetPC, Run, run_chooses, run_code, dispatcher, predictions
  <2> QED BY Zenon, <1>1, <1>2, <2>1, RingSteps DEF RsbType
<1>7. RequestType' /\ HistoryType'
  BY Zenon, <1>1, <1>3 DEF RequestType, HistoryType, SetPC, Run, run_chooses, run_code, dispatcher
<1>8. DoomOK'
  <2>1. CASE UNCHANGED stale  BY Zenon, <1>2, <1>3, <2>1, Unmoved
  <2>2. CASE Run
    <3>1. ctl = "out" /\ hr' = halt_reason /\ ctl' = "starting" /\ stale' = doomed  BY Zenon, <2>2 DEF Run
    <3>2. ASSUME NEW l \in Locs, block_descriptors[l] # Dispatcher, block_descriptors[l] \in doomed
          PROVE  Awaited(l) /\ Awaited(l)' /\ "CacheInvalidation" \in halt_reason
      <4>1. Awaited(l)  BY Zenon, <3>2 DEF DoomOK
      <4>2. Awaited(l)'  BY Zenon, <1>3, <1>5, <4>1 DEF Awaited
      <4>3. "CacheInvalidation" \in halt_reason  BY Zenon, <3>1, <4>1 DEF Awaited, RequestsKept
      <4> QED BY Zenon, <4>1, <4>2, <4>3
    <3> QED BY Zenon, <1>3, <1>5, <3>1, <3>2 DEF DoomOK
  <2> QED BY Zenon, <2>1, <2>2 DEF SetPC, run_chooses, run_code, dispatcher
<1>9. CtlType' /\ CtlOK'
  <2>1. ASSUME NEW l \in Locs, SetPC(l) PROVE CtlType' /\ CtlOK'
    BY Zenon, <1>1, <2>1 DEF SetPC, CtlType, CtlOK
  <2>2. CASE Run  BY Zenon, <1>1, <2>2 DEF Run, CtlType, CtlOK
  <2>3. CASE run_chooses
    <3>1. Below(rsb_ptr) \in Ring  BY Zenon, <1>1, RingSteps DEF RsbType
    <3>2. rsb[Below(rsb_ptr)] \in Hint /\ Good(rsb[Below(rsb_ptr)])
      BY Zenon, <1>1, <3>1 DEF RsbType, RsbOK
    <3>3. rsb[Below(rsb_ptr)].ptr \in Ptrs  BY Zenon, <3>2 DEF Hint
    <3>4. rsb[Below(rsb_ptr)].loc = pc => rsb[Below(rsb_ptr)].ptr \in {Dispatcher, block_descriptors[pc]}
      BY Zenon, <1>1, <3>2, Basics DEF Good, CtlType
    <3> QED BY Zenon, <1>1, <1>5, <2>3, <3>3, <3>4 DEF run_chooses, CtlType, CtlOK
  <2>4. CASE run_code
    <3>1. cur \in {Dispatcher, block_descriptors[pc]} /\ pc = goal  BY Zenon, <2>4 DEF run_code, CtlOK
    <3> QED BY Zenon, <1>1, <1>5, <2>4, <3>1 DEF run_code, Jump, CtlType, CtlOK
  <2>5. CASE dispatcher  BY Zenon, <1>1, <2>5, Basics DEF dispatcher, CtlType, CtlOK
  <2> QED BY Zenon, <2>1, <2>2, <2>3, <2>4, <2>5
<1>10. TypeOK'  BY Zenon, <1>1, <1>4, <1>6, <1>7, <1>9, NextTypes
<1> QED BY Zenon, <1>4, <1>8, <1>9, <1>10

(* LookupBlock's result in use: the entry being filled gets its pointer. *)
LEMMA FoundBlock ==
  ASSUME CacheInv, ctl = "lookup", NEW p \in Blocks, Found(p), p = block_descriptors'[pc],
         \A l \in Locs : block_descriptors[l] # Dispatcher => block_descriptors'[l] = block_descriptors[l]
  PROVE  /\ TableType' /\ TableOK' /\ RsbType' /\ RsbOK' /\ CtlType' /\ CtlOK'
         /\ ctl' \notin {"lookup", "starting", "exited"}
         /\ UNCHANGED <<halt_reason, invalidate_entire_cache, invalid_cache_ranges, hr>>
<1> USE DEF CacheInv
<1>1. TableType /\ RsbType /\ CtlType /\ pc = goal /\ pc \in Locs
  BY Zenon, Types DEF CtlOK, CtlType
<1>2. p \in Ptrs /\ p # Dispatcher  BY Zenon, Basics
<1>3. /\ cur' = p /\ ctl' \in {"enter", "block"} /\ via' = "run"
      /\ UNCHANGED <<rsb, rsb_ptr, halt_reason, invalidate_entire_cache, invalid_cache_ranges, hr, pc, goal>>
  BY Zenon, <1>2 DEF Found, Jump
<1>4. CtlType' /\ CtlOK'  BY Zenon, <1>1, <1>2, <1>3 DEF CtlType, CtlOK
<1>5. ASSUME NEW h \in Hint, Good(h)
      PROVE  h.loc # None => h.ptr \in {Dispatcher, block_descriptors'[h.loc]}
  BY Zenon, <1>5 DEF Good, Hint
<1>6. RsbType' /\ RsbOK'
  <2>1. \A i \in Ring : rsb[i] \in Hint /\ Good(rsb[i])  BY Zenon, <1>1 DEF RsbType, RsbOK
  <2>2. \A i \in Ring : Good(rsb[i])'  BY Zenon, <1>3, <1>5, <2>1 DEF Good
  <2> QED BY Zenon, <1>1, <1>3, <2>2 DEF RsbType, RsbOK
<1>7. \A e \in Entries : ~Filling(e)'  BY Zenon, <1>3 DEF Filling
<1>8. TableType' /\ TableOK'
  <2>1. CASE via # "table"
    <3>1. UNCHANGED fast_dispatch_table  BY Zenon, <2>1 DEF Found
    <3>2. \A e \in Entries : fast_dispatch_table[e] \in Hint /\ Good(fast_dispatch_table[e])
      BY Zenon, <1>1, <2>1 DEF TableType, TableOK, Filling
    <3>3. \A e \in Entries : Good(fast_dispatch_table[e])'  BY Zenon, <1>5, <3>1, <3>2 DEF Good
    <3> QED BY Zenon, <1>1, <1>7, <3>1, <3>3 DEF TableType, TableOK
  <2>2. CASE via = "table"
    <3> DEFINE f == Hash(pc)
               h == [loc |-> fast_dispatch_table[f].loc, ptr |-> p]
    <3>1. f \in Entries /\ fast_dispatch_table[f] \in Hint  BY Zenon, <1>1, HashAssumption DEF TableType
    <3>2. fast_dispatch_table' = [fast_dispatch_table EXCEPT ![f].ptr = p]  BY Zenon, <2>2 DEF Found
    <3>3. [fast_dispatch_table[f] EXCEPT !.ptr = p] = h /\ h \in Hint
      BY <1>2, <3>1 DEF Hint
    <3>4. fast_dispatch_table' = [fast_dispatch_table EXCEPT ![f] = h]
      BY Zenon, <1>1, <3>1, <3>2, <3>3 DEF TableType
    <3>5. TableType'  BY Zenon, <1>1, <3>3, <3>4 DEF TableType
    <3>6. h.loc \in {None, pc} /\ h.ptr = p /\ (h.loc # None => Hash(h.loc) = f)
      <4>1. Filling(f)  BY Zenon, <2>2 DEF Filling
      <4>2. fast_dispatch_table[f].loc \in {None, pc}  BY Zenon, <3>1, <4>1 DEF TableOK
      <4> QED BY Zenon, <4>2
    <3> HIDE DEF h, f
    <3>7. fast_dispatch_table'[f] = h /\ \A e \in Entries : e # f => fast_dispatch_table'[e] = fast_dispatch_table[e]
      BY Zenon, <1>1, <3>1, <3>4 DEF TableType
    <3>8. ASSUME NEW e \in Entries
          PROVE  /\ fast_dispatch_table'[e].loc # None => Hash(fast_dispatch_table'[e].loc) = e
                 /\ Good(fast_dispatch_table[e])'
      <4>1. CASE e = f  BY Zenon, <3>6, <3>7, <4>1 DEF Good
      <4>2. CASE e # f
        <5>1. ~Filling(e)  BY Zenon, <4>2 DEF Filling, f
        <5>2. fast_dispatch_table'[e] = fast_dispatch_table[e] /\ fast_dispatch_table[e] \in Hint
          BY Zenon, <1>1, <3>7, <4>2 DEF TableType
        <5>3. /\ Good(fast_dispatch_table[e])
              /\ fast_dispatch_table[e].loc # None => Hash(fast_dispatch_table[e].loc) = e
          BY Zenon, <5>1 DEF TableOK
        <5>4. Good(fast_dispatch_table[e])'  BY Zenon, <1>5, <5>2, <5>3 DEF Good
        <5> QED BY Zenon, <5>2, <5>3, <5>4
      <4> QED BY Zenon, <4>1, <4>2
    <3> QED BY Zenon, <1>7, <3>5, <3>8 DEF TableOK
  <2> QED BY Zenon, <2>1, <2>2
<1> QED BY Zenon, <1>3, <1>4, <1>6, <1>8

LEMMA GetBlock ==
  ASSUME CacheInv,
         \/ GetBlock_hit \/ GetBlock_evacuates
         \/ \E term \in Terms, covers \in Extents : GetBlock_emits(term, covers)
  PROVE  CacheInv'
<1> USE DEF CacheInv
<1>1. CacheType /\ TableType /\ RsbType /\ RequestType /\ CtlType /\ HistoryType  BY Zenon, Types
<1>2. pc \in Locs  BY Zenon, <1>1 DEF CtlType
<1>3. CASE GetBlock_hit
  <2>1. ctl = "lookup" /\ Found(block_descriptors[pc]) /\ UNCHANGED <<cache, doomed, stale>>
        /\ block_descriptors[pc] # Dispatcher
    BY Zenon, <1>3 DEF GetBlock_hit
  <2>2. UNCHANGED block_descriptors  BY Zenon, <2>1 DEF cache
  <2>3. block_descriptors[pc] \in Blocks  BY Zenon, <1>1, <1>2, <2>1, Basics DEF CacheType
  <2>4. /\ TableType' /\ TableOK' /\ RsbType' /\ RsbOK' /\ CtlType' /\ CtlOK'
        /\ UNCHANGED <<halt_reason, invalidate_entire_cache, invalid_cache_ranges, hr>>
    BY Zenon, <2>1, <2>2, <2>3, FoundBlock
  <2>5. CacheType' /\ CacheOK' /\ HistoryType' /\ DoomOK' /\ RequestsKept'
    BY Zenon, <2>1, <2>4, Unmoved
  <2>6. RequestType'  BY Zenon, <1>1, <2>4 DEF RequestType
  <2> QED BY Zenon, <2>4, <2>5, <2>6, NextTypes
<1>4. CASE GetBlock_evacuates
  <2>1. /\ ctl = "lookup" /\ UNCHANGED <<ctl, cur, via, hr, pc, goal, doomed, stale>>
        /\ halt_reason' = halt_reason \ {"CacheInvalidation"}
        /\ invalidate_entire_cache' = FALSE /\ invalid_cache_ranges' = {}
        /\ ResetRSB /\ ClearCaches
    BY Zenon, <1>4 DEF GetBlock_evacuates, PerformRequestedCacheInvalidation
  <2>2. CacheType' /\ CacheOK' /\ (\A l \in Locs : block_descriptors'[l] = Dispatcher)
    BY Zenon, <1>1, <2>1, CacheCleared
  <2>3. RsbType' /\ RsbOK'  BY Zenon, <1>1, <2>1, Basics DEF ResetRSB, RsbType, RsbOK, Good
  <2>4. TableType' /\ \A e \in Entries : fast_dispatch_table'[e] = NoHint
    BY Zenon, <2>1, Basics DEF ClearCaches, TableType
  <2>5. TableOK'
    <3>1. \A e \in Entries : Good(fast_dispatch_table[e])'  BY Zenon, <2>4, Basics DEF Good
    <3> QED BY Zenon, <2>4, <3>1, Basics DEF TableOK
  <2>6. RequestType' /\ CtlType' /\ HistoryType'
    BY Zenon, <1>1, <2>1 DEF RequestType, CtlType, HistoryType
  <2>7. CtlOK' /\ RequestsKept'  BY Zenon, <2>1 DEF CtlOK, RequestsKept
  <2>8. DoomOK'  BY Zenon, <2>2 DEF DoomOK
  <2> QED BY Zenon, <2>2, <2>3, <2>4, <2>5, <2>6, <2>7, <2>8, NextTypes
<1>5. ASSUME NEW term \in Terms, NEW covers \in Extents, GetBlock_emits(term, covers)
      PROVE  CacheInv'
  <2>1. /\ ctl = "lookup" /\ Found(space)
        /\ doomed' = doomed \ {space} /\ stale' = stale \ {space}
    BY Zenon, <1>5 DEF GetBlock_emits
  <2>2. /\ CacheType' /\ CacheOK' /\ space \in Blocks /\ block_descriptors[pc] = Dispatcher
        /\ \A l \in Locs :
             /\ block_descriptors'[l] = IF l = pc THEN space ELSE block_descriptors[l]
             /\ l # pc /\ block_descriptors[l] # Dispatcher =>
                  code'[block_descriptors[l]].covers = code[block_descriptors[l]].covers
    BY Zenon, <1>1, <1>2, <1>5, CacheEmitted
  <2>3. space = block_descriptors'[pc]
        /\ \A l \in Locs : block_descriptors[l] # Dispatcher => block_descriptors'[l] = block_descriptors[l]
    BY Zenon, <1>2, <2>2
  <2>4. /\ TableType' /\ TableOK' /\ RsbType' /\ RsbOK' /\ CtlType' /\ CtlOK'
        /\ ctl' \notin {"lookup", "starting", "exited"}
        /\ UNCHANGED <<halt_reason, invalidate_entire_cache, invalid_cache_ranges, hr>>
    BY Zenon, <2>1, <2>2, <2>3, FoundBlock
  <2>5. RequestType' /\ HistoryType' /\ RequestsKept'
    BY Zenon, <1>1, <2>1, <2>4 DEF RequestType, HistoryType, RequestsKept
  <2>6. DoomOK'
    <3> SUFFICES ASSUME NEW l \in Locs, block_descriptors'[l] # Dispatcher
                 PROVE  /\ block_descriptors'[l] \in doomed' => Awaited(l)'
                        /\ block_descriptors'[l] \notin stale'
      BY Zenon DEF DoomOK
    <3>1. CASE l = pc  BY Zenon, <2>1, <2>2, <3>1
    <3>2. CASE l # pc
      <4>1. block_descriptors'[l] = block_descriptors[l]
            /\ code'[block_descriptors[l]].covers = code[block_descriptors[l]].covers
        BY Zenon, <2>2, <3>2
      <4>2. block_descriptors[l] \notin stale /\ (block_descriptors[l] \in doomed => Awaited(l))
        BY Zenon, <2>1, <4>1 DEF DoomOK
      <4>3. Awaited(l) => Awaited(l)'  BY Zenon, <2>4, <4>1 DEF Awaited
      <4> QED BY Zenon, <2>1, <4>1, <4>2, <4>3
    <3> QED BY Zenon, <3>1, <3>2
  <2> QED BY Zenon, <2>2, <2>4, <2>5, <2>6, NextTypes
<1> QED BY Zenon, <1>3, <1>4, <1>5

(* The ends of blocks. *)
LEMMA Terminals ==
  ASSUME CacheInv,
         \/ \E l \in Locs : \/ EmitTerminal_LinkBlock(l)
                            \/ EmitTerminal_FastDispatchHint(l)
                            \/ EmitTerminal_PopRSBHint(l)
         \/ EmitTerminal_CheckHalt
  PROVE  CacheInv'
<1> USE DEF CacheInv
<1>1. CacheType /\ TableType /\ RsbType /\ RequestType /\ CtlType /\ HistoryType  BY Zenon, Types
<1>2. UNCHANGED <<cache, requests, hr, stale>> /\ ctl \in {"block", "called"}
  BY Zenon DEF EmitTerminal_LinkBlock, EmitTerminal_FastDispatchHint, EmitTerminal_PopRSBHint,
         EmitTerminal_CheckHalt
<1>3. UNCHANGED <<halt_reason, invalidate_entire_cache, invalid_cache_ranges, doomed, stale, hr>>
  BY Zenon, <1>2 DEF requests
<1>4. CacheType' /\ CacheOK' /\ HistoryType' /\ DoomOK' /\ RequestsKept'
  BY Zenon, <1>2, <1>3, Unmoved
<1>5. RequestType'  BY Zenon, <1>1, <1>3 DEF RequestType
<1>6. UNCHANGED block_descriptors  BY Zenon, <1>2 DEF cache
<1> SUFFICES TableType' /\ TableOK' /\ RsbType' /\ RsbOK' /\ CtlType' /\ CtlOK'
  BY Zenon, <1>4, <1>5, NextTypes
<1>7. ASSUME NEW l \in Locs, EmitTerminal_LinkBlock(l)
      PROVE  TableType' /\ TableOK' /\ RsbType' /\ RsbOK' /\ CtlType' /\ CtlOK'
  <2>1. /\ ctl = "block" /\ PushRSB /\ goal' = l /\ UNCHANGED <<fast_dispatch_table, via>>
        /\ l \in code[cur].term.targets
    BY Zenon, <1>7 DEF EmitTerminal_LinkBlock
  <2>2. RsbType' /\ RsbOK'  BY Zenon, <1>2, <2>1, Pushed
  <2>3. code[cur].link[l] \in {Dispatcher, block_descriptors[l]}  BY Zenon, <2>1, InBlock
  <2>4. code[cur].link[l] \in Ptrs  BY Zenon, <1>1, <2>3, Basics DEF CacheType
  <2>5. CtlType' /\ CtlOK' /\ ctl' # "lookup"
    <3>1. CASE code[cur].link[l] # Dispatcher /\ Jump(code[cur].link[l]) /\ UNCHANGED pc
      <4>1. pc' \in Locs  BY Zenon, <1>1, <3>1 DEF CtlType
      <4> QED BY Zenon, <1>2, <2>1, <2>3, <2>4, <3>1, <4>1, Jumped
    <3>2. CASE pc' = l /\ ctl' \in {"dispatch", "exiting"} /\ UNCHANGED cur
      BY Zenon, <1>1, <2>1, <3>2 DEF CtlType, CtlOK
    <3> QED BY Zenon, <1>7, <3>1, <3>2 DEF EmitTerminal_LinkBlock
  <2>6. TableType' /\ TableOK'  BY Zenon, <1>2, <2>1, <2>5, Unmoved
  <2> QED BY Zenon, <2>2, <2>5, <2>6
<1>8. ASSUME NEW l \in Locs, EmitTerminal_FastDispatchHint(l)
      PROVE  TableType' /\ TableOK' /\ RsbType' /\ RsbOK' /\ CtlType' /\ CtlOK'
  <2>1. ctl = "block" /\ PushRSB /\ FastDispatch(l) /\ pc' = l /\ goal' = l
    BY Zenon, <1>8 DEF EmitTerminal_FastDispatchHint
  <2>2. RsbType' /\ RsbOK'  BY Zenon, <1>2, <2>1, Pushed
  <2> QED BY Zenon, <1>2, <2>1, <2>2, Dispatched
<1>9. ASSUME NEW l \in Locs, EmitTerminal_PopRSBHint(l)
      PROVE  TableType' /\ TableOK' /\ RsbType' /\ RsbOK' /\ CtlType' /\ CtlOK'
  <2>1. ctl = "block" /\ PopRSB(l) /\ pc' = l /\ goal' = l /\ UNCHANGED rsb
    BY Zenon, <1>9 DEF EmitTerminal_PopRSBHint
  <2> QED BY Zenon, <1>2, <2>1, Popped
<1>10. CASE EmitTerminal_CheckHalt
  <2>1. ctl = "called" /\ UNCHANGED <<rsb, pc, goal>>  BY Zenon, <1>10 DEF EmitTerminal_CheckHalt
  <2>2. pc = goal /\ pc \in Locs  BY Zenon, <1>1, <2>1 DEF CtlOK, CtlType
  <2>3. CASE ctl' = "exiting" /\ UNCHANGED <<fast_dispatch_table, rsb_ptr, cur, via>>
    <3>1. TableType' /\ TableOK' /\ RsbType' /\ RsbOK'  BY Zenon, <1>2, <2>1, <2>3, Unmoved
    <3>2. CtlType' /\ CtlOK'  BY Zenon, <1>1, <2>1, <2>2, <2>3 DEF CtlType, CtlOK
    <3> QED BY Zenon, <3>1, <3>2
  <2>4. CASE PopRSB(pc)
    <3>1. pc' = pc /\ goal' = pc  BY Zenon, <2>1, <2>2
    <3> QED BY Zenon, <1>2, <2>1, <2>2, <2>4, <3>1, Popped
  <2> QED BY Zenon, <1>10, <2>3, <2>4 DEF EmitTerminal_CheckHalt
<1> QED BY Zenon, <1>7, <1>8, <1>9, <1>10

(* Callbacks, the way out, and requests. *)
LEMMA Calling ==
  ASSUME CacheInv,
         \E reasons \in {{}, {"UserDefined"}} :
            \/ EmitA64CallSupervisor(reasons)
            \/ \E l \in Locs : EmitTerminal_ReturnToDispatch(l, reasons)
  PROVE  CacheInv'
<1> USE DEF CacheInv
<1>1. CacheType /\ TableType /\ RsbType /\ RequestType /\ CtlType /\ HistoryType  BY Zenon, Types
<1>2. /\ ctl = "block" /\ ctl' \in {"called", "dispatch"}
      /\ UNCHANGED <<cache, fast_dispatch_table, invalidate_entire_cache, invalid_cache_ranges,
                     doomed, cur, via, hr, stale>>
      /\ halt_reason \subseteq halt_reason' /\ halt_reason' \subseteq halt_reason \cup {"UserDefined"}
      /\ pc' = goal'
  BY Zenon DEF EmitA64CallSupervisor, EmitTerminal_ReturnToDispatch, predictions
<1>3. CacheType' /\ CacheOK' /\ TableType' /\ TableOK' /\ HistoryType' /\ DoomOK' /\ RequestsKept'
  BY Zenon, <1>2, Unmoved
<1>4. RequestType'  BY Zenon, <1>1, <1>2 DEF RequestType, Reasons
<1>5. RsbType' /\ RsbOK'
  <2>1. CASE PushRSB  BY Zenon, <1>2, <2>1, Pushed
  <2>2. CASE UNCHANGED <<rsb, rsb_ptr>>  BY Zenon, <1>2, <2>2, Unmoved
  <2> QED BY Zenon, <2>1, <2>2 DEF EmitA64CallSupervisor, EmitTerminal_ReturnToDispatch, predictions
<1>6. pc' \in Locs
  <2>1. ASSUME code[cur].term.kind = "svc" PROVE code[cur].term.push \in Locs
    BY Zenon, <1>2, <2>1, InBlock, Basics
  <2> QED BY Zenon, <2>1 DEF EmitA64CallSupervisor, EmitTerminal_ReturnToDispatch
<1>7. CtlType' /\ CtlOK'  BY Zenon, <1>1, <1>2, <1>6 DEF CtlType, CtlOK
<1> QED BY Zenon, <1>3, <1>4, <1>5, <1>7, NextTypes

LEMMA Leaving ==
  ASSUME CacheInv, return_to_caller PROVE CacheInv'
<1> USE DEF CacheInv, return_to_caller
<1>1. CacheType /\ TableType /\ RsbType /\ RequestType /\ CtlType /\ HistoryType  BY Zenon, Types
<1>2. UNCHANGED <<fast_dispatch_table, rsb, rsb_ptr>>  BY Zenon DEF predictions
<1>3. CacheType' /\ CacheOK' /\ TableType' /\ TableOK' /\ RsbType' /\ RsbOK' /\ HistoryType' /\ DoomOK'
  BY Zenon, <1>2, Unmoved
<1>4. RequestType' /\ CtlType'  BY Zenon, <1>1, Basics DEF RequestType, CtlType
<1>5. CtlOK' /\ RequestsKept'  BY Zenon DEF CtlOK, RequestsKept
<1> QED BY Zenon, <1>3, <1>4, <1>5, NextTypes

LEMMA Requesting ==
  ASSUME CacheInv, Request PROVE CacheInv'
<1> USE DEF CacheInv
<1>1. CacheType /\ TableType /\ RsbType /\ RequestType /\ CtlType /\ HistoryType  BY Zenon, Types
<1>2. /\ UNCHANGED <<cache, predictions, ctl, cur, via, hr, pc, goal, stale>>
      /\ halt_reason \subseteq halt_reason' /\ halt_reason' \subseteq Reasons
      /\ invalidate_entire_cache => invalidate_entire_cache'
      /\ invalid_cache_ranges \subseteq invalid_cache_ranges' /\ invalid_cache_ranges' \subseteq Locs
      /\ invalidate_entire_cache' \in BOOLEAN /\ doomed' \subseteq Blocks
  BY Zenon, <1>1 DEF Request, ClearCache, InvalidateCacheRange, HaltExecution, RequestType, HistoryType, Reasons
<1>3. UNCHANGED <<block_descriptors, code, fast_dispatch_table, rsb, rsb_ptr>>
  BY Zenon, <1>2 DEF cache, predictions
<1>4. CacheType' /\ CacheOK' /\ TableType' /\ RsbType' /\ RsbOK'
  BY Zenon, <1>2, <1>3, Unmoved
<1>5. RequestType' /\ CtlType' /\ HistoryType'
  BY Zenon, <1>1, <1>2 DEF RequestType, CtlType, HistoryType
<1>6. TableOK'  BY Zenon, <1>2, <1>3 DEF TableOK, Filling, Good
<1>7. CtlOK'  BY Zenon, <1>2, <1>3 DEF CtlOK
<1>8. RequestsKept'
  BY Zenon, <1>2 DEF RequestsKept, Request, ClearCache, InvalidateCacheRange, HaltExecution
<1>9. ASSUME NEW l \in Locs, block_descriptors[l] # Dispatcher
      PROVE  /\ Awaited(l) => Awaited(l)'
             /\ block_descriptors[l] \in doomed' => block_descriptors[l] \in doomed \/ Awaited(l)'
  <2>1. Awaited(l) => Awaited(l)'  BY Zenon, <1>2, <1>3 DEF Awaited
  <2>2. CASE ClearCache  BY Zenon, <2>1, <2>2 DEF ClearCache, Awaited
  <2>3. ASSUME NEW a \in Locs, InvalidateCacheRange(a)
        PROVE  block_descriptors[l] \in doomed' => block_descriptors[l] \in doomed \/ Awaited(l)'
    <3>1. a \in invalid_cache_ranges'
          /\ doomed' = doomed \cup {p \in Blocks : code[p] # None /\ a \in code[p].covers}
      BY Zenon, <2>3 DEF InvalidateCacheRange
    <3>2. a \in code[block_descriptors[l]].covers => Awaited(l)'
      BY Zenon, <1>3, <3>1 DEF Awaited
    <3> QED BY Zenon, <3>1, <3>2
  <2>4. ASSUME NEW reason, HaltExecution(reason) PROVE doomed' = doomed
    BY Zenon, <2>4 DEF HaltExecution
  <2> QED BY Zenon, <2>1, <2>2, <2>3, <2>4 DEF Request
<1>10. DoomOK'  BY Zenon, <1>2, <1>3, <1>9 DEF DoomOK
<1> QED BY Zenon, <1>4, <1>5, <1>6, <1>7, <1>8, <1>10, NextTypes

LEMMA CacheStep == CacheInv /\ [Next]_vars => CacheInv'
<1> SUFFICES ASSUME CacheInv, [Next]_vars PROVE CacheInv'  OBVIOUS
<1>1. CASE Step  BY Zenon, <1>1, RunInvalidates, Entering, GetBlock, Terminals, Calling, Leaving DEF Step
<1>2. CASE Request  BY Zenon, <1>2, Requesting
<1>3. CASE \E l \in Locs : SetPC(l)  BY Zenon, <1>3, Entering
<1>4. CASE UNCHANGED vars
  <2> USE <1>4 DEF vars, cache, predictions, requests
  <2>1. TypeOK'  BY Zenon DEF CacheInv, TypeOK
  <2>2. CacheType' /\ CacheOK'  BY Zenon, Types, CacheKept DEF CacheInv
  <2>3. TableOK'  BY Zenon DEF CacheInv, TableOK, Filling, Good
  <2>4. RsbOK'  BY Zenon DEF CacheInv, RsbOK, Good
  <2>5. CtlOK' /\ RequestsKept'  BY Zenon DEF CacheInv, CtlOK, RequestsKept
  <2>6. DoomOK'  BY Zenon DEF CacheInv, DoomOK, Awaited
  <2> QED BY Zenon, <2>1, <2>2, <2>3, <2>4, <2>5, <2>6 DEF CacheInv
<1> QED BY Zenon, <1>1, <1>2, <1>3, <1>4 DEF Next

(* Code runs only while it is the registered block of the place where the  *)
(* guest program is, no invalidation request is dropped, and code whose    *)
(* invalidation was requested before Run is not executed by it: for any    *)
(* buffer, return stack buffer, dispatch table and guest program.          *)
THEOREM CodeLive ==
  Spec => [](TypeOK /\ RunsLiveCode /\ PCExact /\ RequestsKept /\ NoStaleCode)
<1>1. CacheInv => TypeOK /\ RunsLiveCode /\ PCExact /\ RequestsKept /\ NoStaleCode
  <2> SUFFICES ASSUME CacheInv PROVE RunsLiveCode /\ PCExact /\ NoStaleCode  BY Zenon DEF CacheInv
  <2>1. RunsLiveCode
    <3>1. ASSUME ctl = "block" PROVE code[cur] # None  BY Zenon, <3>1, InBlock, Basics
    <3> QED BY Zenon, <3>1, InBlock DEF RunsLiveCode, CacheInv, CtlOK
  <2>2. PCExact  BY Zenon DEF CacheInv, CtlOK, PCExact
  <2>3. NoStaleCode
    <3> SUFFICES ASSUME ctl = "block", cur \in stale PROVE FALSE  BY Zenon DEF NoStaleCode
    <3>1. goal \in Locs  BY Zenon DEF CacheInv, TypeOK
    <3> QED BY Zenon, <3>1 DEF CacheInv, CtlOK, DoomOK
  <2> QED BY Zenon, <2>1, <2>2, <2>3
<1> QED BY <1>1, CacheInit, CacheStep, PTL DEF Spec

(* The guest's program counter is the place of the block that runs.        *)
THEOREM PlacesExact == Spec => []PCExact
BY CodeLive, PTL

(* No invalidation request is dropped: one that came while halt reasons    *)
(* were being taken is acted on by the next Run.                           *)
THEOREM NoRequestLost == Spec => []RequestsKept
BY CodeLive, PTL

(* Code whose invalidation was requested before Run is not executed by it. *)
THEOREM InvalidatedCodeRests == Spec => []NoStaleCode
BY CodeLive, PTL
================================================================================
