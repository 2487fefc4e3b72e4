----------------------------- MODULE MCCodeCache -----------------------------
(***************************************************************************)
(* Instance of CodeCache for TLC.  The guest program is chosen at the      *)
(* start: one of calls and returns, or one of jumps, supervisor calls and  *)
(* exceptions, whose blocks cover both places.                             *)
(***************************************************************************)
EXTENDS CodeCache, TLC

OneEntry(l) == CHOOSE e \in Entries : TRUE

Term(kind, targets, push) == [kind |-> kind, targets |-> targets, push |-> push]

CallingGuest == {Term("link", Locs, r) : r \in Locs}
                   \cup {Term("ret", {}, None), Term("dispatch", {}, None)}
LinkedGuest == {Term("link", Locs, None), Term("stop", {}, None)}
                   \cup {Term("svc", {}, r) : r \in Locs}
AllTerms == CallingGuest \cup LinkedGuest

VARIABLE guest

MCInit == Init /\ guest \in {"calls", "jumps"}

(* A block returns to a place behind it, never to its own. *)
Follows(c) ==
    /\ c.term.push # c.loc
    /\ IF guest = "calls" THEN c.term \in CallingGuest /\ c.covers = {c.loc}
                          ELSE c.term \in LinkedGuest /\ c.covers = Locs

MCNext ==
    /\ Next /\ UNCHANGED guest
    /\ \A p \in DOMAIN code' : code'[p] # None => Follows(code'[p])

MCSpec == MCInit /\ [][MCNext]_<<vars, guest>>

Symmetry == Permutations(Locs)
=============================================================================
