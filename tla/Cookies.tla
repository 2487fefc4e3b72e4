------------------------------- MODULE Cookies -------------------------------
(***************************************************************************)
(* The cookie store (src/src/main.cpp): a map that the guest adds to, a    *)
(* file that is written anew with every change, and the start that reads   *)
(* it back.                                                                *)
(*                                                                         *)
(* The file is written as "k=v; k=v" and read by splitting at ';' alone:   *)
(* every key but the first comes back with a space more in front, as a     *)
(* cookie of its own.  A key is its name and the number of those spaces.   *)
(* A crash leaves what was written so far, the last entry perhaps cut; an  *)
(* entry without '=' is read as its own value.                             *)
(***************************************************************************)
EXTENDS Naturals, Sequences, SequencesExt

CONSTANTS
    Names, Values, None,
    Junk,               \* what is left of an entry that was cut
    MaxBatch,           \* most cookies of a call of onSetCookie
    MaxSets, MaxStarts  \* bounds on calls of onSetCookie, and on starts

CookieAssumption ==
    /\ None \notin Values /\ Junk \notin Names \cup Values
    /\ {MaxBatch, MaxSets, MaxStarts} \subseteq Nat

VARIABLES
    cookies,            \* the map, as a set of entries
    file, order,        \* the file, and what is still to be written
    at,                 \* "up", "saving" or "down"
    sets, starts,
    last                \* history: the value a name was given last and that was saved

vars == <<cookies, file, order, at, sets, starts, last>>

Entry(n, p, v) == [name |-> n, pad |-> p, value |-> v]

insert_or_assign(map, e) == {d \in map : d.name # e.name \/ d.pad # e.pad} \cup {e}

Init ==
    /\ cookies = {} /\ file = <<>> /\ order = <<>>
    /\ at = "down"
    /\ sets = 0 /\ starts = 0
    /\ last = [n \in Names |-> None]

(* A start reads the file.  *)
Key(i, e) == [e EXCEPT !.pad = IF i = 1 THEN @ ELSE @ + 1]

(* Mutant: the first of two equal keys stays. *)
read_file_emplace ==
    FoldLeft(LAMBDA map, i :
                IF \E d \in map : d.name = file[i].name /\ d.pad = Key(i, file[i]).pad
                THEN map ELSE map \cup {Key(i, file[i])},
             {}, [i \in 1 .. Len(file) |-> i])

read_file ==
    FoldLeft(LAMBDA map, i : insert_or_assign(map, Key(i, file[i])),
             {}, [i \in 1 .. Len(file) |-> i])

(* The file's text, every copy in it, also goes to the guest as it is. *)
start ==
    /\ at = "down" /\ starts < MaxStarts
    /\ starts' = starts + 1
    /\ cookies' = read_file
    /\ at' = "up"
    /\ UNCHANGED <<file, order, sets, last>>

(* The array's cookies go into the map in its order, and the file is       *)
(* truncated; the map's order is any.                                      *)
onSetCookie(arr) ==
    /\ at = "up" /\ sets < MaxSets
    /\ sets' = sets + 1
    /\ cookies' = FoldLeft(insert_or_assign, cookies, arr)
    /\ last' = FoldLeft(LAMBDA l, e : [l EXCEPT ![e.name] = e.value], last, arr)
    /\ file' = <<>>
    /\ order' \in SetToSeqs(cookies')
    /\ at' = "saving"
    /\ UNCHANGED starts

write_cookie ==
    /\ at = "saving" /\ order # <<>>
    /\ file' = Append(file, Head(order))
    /\ order' = Tail(order)
    /\ UNCHANGED <<cookies, at, sets, starts, last>>

close_file ==
    /\ at = "saving" /\ order = <<>>
    /\ at' = "up"
    /\ UNCHANGED <<cookies, file, order, sets, starts, last>>

(* The process ends, between calls. *)
quit ==
    /\ at = "up" /\ at' = "down"
    /\ cookies' = {}
    /\ UNCHANGED <<file, order, sets, starts, last>>

(* The process ends while it writes: the entry at hand is missing, or cut  *)
(* in its value or in its key.  What was saved before is lost.             *)
crash ==
    /\ at = "saving" /\ order # <<>> /\ at' = "down"
    /\ LET e == Head(order) IN
       file' \in {file, Append(file, [e EXCEPT !.value = Junk]),
                  Append(file, Entry(Junk, e.pad, Junk))}
    /\ cookies' = {} /\ order' = <<>>
    /\ last' = [n \in Names |-> None]
    /\ UNCHANGED <<sets, starts>>

Next ==
    \/ start \/ write_cookie \/ close_file \/ quit \/ crash
    \/ \E arr \in SeqOf([name : Names, pad : {0}, value : Values], MaxBatch) :
          arr # <<>> /\ onSetCookie(arr)

Spec == Init /\ [][Next]_vars

(***************************************************************************)
(* Properties.                                                             *)
(***************************************************************************)
(* Types: a start adds at most one space. *)
TypeOK ==
    /\ cookies \cup Range(file) \cup Range(order)
          \subseteq [name : Names \cup {Junk}, pad : 0 .. MaxStarts - 1, value : Values \cup {Junk}]
    /\ at \in {"up", "saving", "down"}
    /\ sets \in 0 .. MaxSets /\ starts \in 0 .. MaxStarts
    /\ last \in [Names -> Values \cup {None}]

(* Copies of a cookie pile up, one with every start, but they never        *)
(* overtake each other: of all entries of a name the one with the fewest   *)
(* spaces has the value that was set last, over any number of starts, in   *)
(* whatever order the map is written, and also for what is set after a     *)
(* crash has cut the file.                                                 *)
MapLatest == at # "down" =>
    \A n \in Names : last[n] # None =>
       \E e \in cookies : /\ e.name = n /\ e.value = last[n]
                          /\ \A d \in cookies : d.name = n => e.pad <= d.pad

(* The text that the next start hands to the guest holds it too: it is the *)
(* last of those with the fewest spaces.                                   *)
FileLatest == at = "down" =>
    \A n \in Names : last[n] # None =>
       \E i \in DOMAIN file :
          /\ file[i].name = n /\ file[i].value = last[n]
          /\ \A j \in DOMAIN file : file[j].name = n =>
                \/ Key(i, file[i]).pad < Key(j, file[j]).pad
                \/ Key(i, file[i]).pad = Key(j, file[j]).pad /\ j <= i

(* The value of a cookie that was set last is told from its older copies   *)
(* by the fewest spaces, in the map and in the file.                       *)
LatestFirst == MapLatest /\ FileLatest
=============================================================================
