---------------------------- MODULE EventPairing ----------------------------
(***************************************************************************)
(* What the correlation engine promises about the events it accepts, with  *)
(* no buckets, locks, clocks, channels or counters: every accepted event is *)
(* pending until exactly one of four things happens to it.                  *)
(*                                                                          *)
(*   paired      it met the event with its key from the other stream;       *)
(*   aged        it waited too long for that event and became an orphan;    *)
(*   superseded  a later event of the SAME stream took its place;           *)
(*   forgotten   a new session cleared the buffer.                          *)
(*                                                                          *)
(* StreamMatcher is shown to implement this specification.                  *)
(***************************************************************************)
EXTENDS Naturals

CONSTANTS
    Keys,       \* what two events must agree on to be compared
    Stamps      \* what tells apart two events with the same source and key

Sources == {"A", "B"}

Events == [source : Sources, key : Keys, stamp : Stamps]

VARIABLES
    pending,    \* events waiting for their counterpart
    paired,     \* pairs of events already compared, as two-element sets
    aged,       \* events given up as orphans
    superseded, \* events whose place a later event of their stream took
    forgotten   \* events cleared when a session was replaced

pairingVars == <<pending, paired, aged, superseded, forgotten>>

Paired == UNION paired      \* the events of all pairs

Seen == pending \cup Paired \cup aged \cup superseded \cup forgotten

Counterparts(e) == {p \in pending : p.key = e.key /\ p.source # e.source}
SamePlace(e)    == {p \in pending : p.key = e.key /\ p.source = e.source}

Init ==
    /\ pending = {}
    /\ paired = {}
    /\ aged = {}
    /\ superseded = {}
    /\ forgotten = {}

(* A new event meets its pending counterpart, and both leave. *)
Pair(e) ==
    \E p \in Counterparts(e) :
        /\ pending' = pending \ {p}
        /\ paired' = paired \cup {{p, e}}
        /\ UNCHANGED <<aged, superseded, forgotten>>

(* A new event with no counterpart waits, in the place of any event of its *)
(* own stream with the same key.                                           *)
Wait(e) ==
    /\ Counterparts(e) = {}
    /\ pending' = (pending \ SamePlace(e)) \cup {e}
    /\ superseded' = superseded \cup SamePlace(e)
    /\ UNCHANGED <<paired, aged, forgotten>>

Arrive(e) == e \notin Seen /\ (Pair(e) \/ Wait(e))

(* A pending event is given up as an orphan. *)
Age(e) ==
    /\ e \in pending
    /\ pending' = pending \ {e}
    /\ aged' = aged \cup {e}
    /\ UNCHANGED <<paired, superseded, forgotten>>

(* A new session clears everything that is still waiting. *)
Forget ==
    /\ pending' = {}
    /\ forgotten' = forgotten \cup pending
    /\ UNCHANGED <<paired, aged, superseded>>

Next == (\E e \in Events : Arrive(e) \/ Age(e)) \/ Forget

Spec == Init /\ [][Next]_pairingVars

-----------------------------------------------------------------------------

(* Each place holds at most one event, and never both sides of a key: an    *)
(* event that could be compared is compared at once.                        *)
OnePendingPerKey ==
    \A p, q \in pending : p.key = q.key => p = q

(* The four fates and waiting exclude one another: no event is reported     *)
(* twice, and none is reported after it was cleared.                        *)
FatesDisjoint ==
    /\ pending \cap (Paired \cup aged \cup superseded \cup forgotten) = {}
    /\ aged \cap (Paired \cup superseded \cup forgotten) = {}
    /\ superseded \cap (Paired \cup forgotten) = {}
    /\ forgotten \cap Paired = {}

(* A pair joins one event of each stream with the same key, and no event is *)
(* in two pairs.                                                            *)
PairsSound ==
    /\ \A c \in paired : \E a, b \in Events :
            c = {a, b} /\ a.source = "A" /\ b.source = "B" /\ a.key = b.key
    /\ \A c, d \in paired : c \cap d # {} => c = d

=============================================================================
