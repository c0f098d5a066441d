------------------------- MODULE EventPairingProofs -------------------------
(***************************************************************************)
(* What EventPairing promises holds, for every set of keys and stamps. The  *)
(* promises need one another: an arriving event is new, so it is in no pair *)
(* yet, and the counterpart it takes was pending, so it was in none either. *)
(***************************************************************************)
EXTENDS EventPairing, TLAPS

Typed ==
    /\ pending \subseteq Events /\ aged \subseteq Events
    /\ superseded \subseteq Events /\ forgotten \subseteq Events
    /\ paired \subseteq SUBSET Events

Promises == OnePendingPerKey /\ FatesDisjoint /\ PairsSound

IInv == Typed /\ Promises

-----------------------------------------------------------------------------

(* Nothing is promised of no events. *)
LEMMA InitPromises == Init => IInv
  BY DEF Init, IInv, Typed, Promises, OnePendingPerKey, FatesDisjoint, PairsSound, Paired

(* A new event that meets its counterpart leaves the places as they were but *)
(* for the counterpart's, and the pair is one of new members.                *)
LEMMA PairKeepsPromises ==
  ASSUME IInv, NEW e \in Events, e \notin Seen, Pair(e)
  PROVE  IInv'
<1> USE DEF IInv, Promises
<1>1. PICK p \in Counterparts(e) :
        /\ pending' = pending \ {p}
        /\ paired' = paired \cup {{p, e}}
        /\ aged' = aged /\ superseded' = superseded /\ forgotten' = forgotten
  BY DEF Pair
<1>2. p \in pending /\ p \in Events /\ p.key = e.key /\ p.source # e.source
  BY <1>1 DEF Counterparts, Typed
<1>3. e \notin pending /\ e \notin Paired /\ e \notin aged
        /\ e \notin superseded /\ e \notin forgotten
  BY DEF Seen
<1>4. p \notin Paired /\ p \notin aged /\ p \notin superseded /\ p \notin forgotten
  BY <1>2 DEF FatesDisjoint
<1>5. Typed'
  BY <1>1, <1>2 DEF Typed
<1>6. OnePendingPerKey'
  BY <1>1 DEF OnePendingPerKey
<1>7. Paired' = Paired \cup {p, e}
  BY <1>1 DEF Paired
<1>8. FatesDisjoint'
  BY <1>1, <1>2, <1>3, <1>4, <1>7 DEF FatesDisjoint
<1>9. PairsSound'
  <2>1. \E a, b \in Events : {p, e} = {a, b} /\ a.source = "A" /\ b.source = "B" /\ a.key = b.key
    <3>1. p.source \in {"A", "B"} /\ e.source \in {"A", "B"}
      BY <1>2 DEF Events, Sources
    <3>2. CASE p.source = "A"
      BY <3>1, <3>2, <1>2
    <3>3. CASE p.source = "B"
      <4>1. e.source = "A" /\ {p, e} = {e, p}
        BY <3>1, <3>3, <1>2
      <4>2. QED
        BY <4>1, <3>3, <1>2
    <3>4. QED
      BY <3>1, <3>2, <3>3
  <2>2. \A c \in paired : c \cap {p, e} = {}
    BY <1>3, <1>4 DEF Paired
  <2>3. \A c \in paired' : \E a, b \in Events :
            c = {a, b} /\ a.source = "A" /\ b.source = "B" /\ a.key = b.key
    BY <2>1, <1>1 DEF PairsSound
  <2>4. ASSUME NEW c \in paired', NEW d \in paired', c \cap d # {}
        PROVE  c = d
    <3>1. CASE c \in paired /\ d \in paired
      BY <3>1, <2>4 DEF PairsSound
    <3>2. CASE c = {p, e} \/ d = {p, e}
      BY <3>2, <2>2, <2>4, <1>1
    <3>3. QED
      BY <3>1, <3>2, <1>1
  <2>5. QED
    BY <2>3, <2>4 DEF PairsSound
<1>10. QED
  BY <1>5, <1>6, <1>8, <1>9

(* A new event that waits takes the place of at most one event of its own    *)
(* stream, and no event of the other stream shares its key.                  *)
LEMMA WaitKeepsPromises ==
  ASSUME IInv, NEW e \in Events, e \notin Seen, Wait(e)
  PROVE  IInv'
<1> USE DEF IInv, Promises
<1>1. /\ Counterparts(e) = {}
      /\ pending' = (pending \ SamePlace(e)) \cup {e}
      /\ superseded' = superseded \cup SamePlace(e)
      /\ paired' = paired /\ aged' = aged /\ forgotten' = forgotten
  BY DEF Wait
<1>2. SamePlace(e) \subseteq pending
  BY DEF SamePlace
<1>3. e \notin Paired /\ e \notin aged /\ e \notin superseded /\ e \notin forgotten
        /\ e \notin pending
  BY DEF Seen
<1>4. Typed'
  BY <1>1, <1>2 DEF Typed
<1>5. \A p \in pending \ SamePlace(e) : p.key # e.key
  BY <1>1 DEF Counterparts, SamePlace
<1>6. OnePendingPerKey'
  BY <1>1, <1>5 DEF OnePendingPerKey
<1>7. FatesDisjoint'
  BY <1>1, <1>2, <1>3 DEF FatesDisjoint, Paired
<1>8. PairsSound'
  BY <1>1 DEF PairsSound
<1>9. QED
  BY <1>4, <1>6, <1>7, <1>8

LEMMA AgeKeepsPromises ==
  ASSUME IInv, NEW e \in Events, Age(e)
  PROVE  IInv'
<1> USE DEF IInv, Promises, Age
<1>1. Typed'
  BY DEF Typed
<1>2. OnePendingPerKey'
  BY DEF OnePendingPerKey
<1>3. FatesDisjoint'
  BY DEF FatesDisjoint, Paired
<1>4. PairsSound'
  BY DEF PairsSound
<1>5. QED
  BY <1>1, <1>2, <1>3, <1>4

LEMMA ForgetKeepsPromises ==
  ASSUME IInv, Forget
  PROVE  IInv'
<1> USE DEF IInv, Promises, Forget
<1>1. Typed'
  BY DEF Typed
<1>2. OnePendingPerKey'
  BY DEF OnePendingPerKey
<1>3. FatesDisjoint'
  BY DEF FatesDisjoint, Paired
<1>4. PairsSound'
  BY DEF PairsSound
<1>5. QED
  BY <1>1, <1>2, <1>3, <1>4

LEMMA NextKeepsPromises ==
  ASSUME IInv, [Next]_pairingVars
  PROVE  IInv'
<1>1. CASE \E e \in Events : Arrive(e)
  BY <1>1, PairKeepsPromises, WaitKeepsPromises DEF Arrive
<1>2. CASE \E e \in Events : Age(e)
  BY <1>2, AgeKeepsPromises
<1>3. CASE Forget
  BY <1>3, ForgetKeepsPromises
<1>4. CASE UNCHANGED pairingVars
  BY <1>4 DEF pairingVars, IInv, Typed, Promises, OnePendingPerKey, FatesDisjoint, PairsSound, Paired
<1>5. QED
  BY <1>1, <1>2, <1>3, <1>4 DEF Next

(* Whatever arrives, waits, ages or is cleared: a place holds one event and  *)
(* never both sides of a key, no event has two fates, and a pair is one      *)
(* event of each stream that no other pair has.                              *)
THEOREM PromisesKept == Spec => []Promises
<1>1. Init => IInv
  BY InitPromises
<1>2. IInv /\ [Next]_pairingVars => IInv'
  BY NextKeepsPromises
<1>3. IInv => Promises
  BY DEF IInv
<1>4. QED
  BY <1>1, <1>2, <1>3, PTL DEF Spec

=============================================================================
