------------------------ MODULE StreamMatcherProofs ------------------------
(***************************************************************************)
(* Proofs about StreamMatcher for every buffer size, channel capacity, TTL, *)
(* tick interval, number of events and horizon.                             *)
(*                                                                          *)
(* The inductive invariant joins what the properties need of one another:   *)
(* the counter can only be decremented because it counts the buffer, and a  *)
(* send never meets a closed channel because the flag and the channel       *)
(* change together, after the evictor has gone. A second layer, about       *)
(* events that are gone, shows that every step is one of EventPairing, whose *)
(* promises are then the matcher's.                                         *)
(***************************************************************************)
EXTENDS StreamMatcher, FiniteSetTheorems, SequenceTheorems, TLAPS

(* Where Close stands says whether the evictor still runs and whether the    *)
(* flag is set; the flag and the channel always agree.                       *)
CloseOrder ==
    /\ closed = ~resultsOpen
    /\ closed => closePC = "returned"
    /\ closePC \in {"lock", "returned"} => evictorPC = "done"

IInv ==
    TypeOK /\ BufferCounted /\ OneSideWaits /\ ResultsAccounted /\ CloseOrder
        /\ NoSendOnClosed

-----------------------------------------------------------------------------

(* The buffer has finitely many places, so its items can be counted. *)
LEMMA PlacesFinite == IsFiniteSet(Places)
<1> DEFINE T == Sources \X (EventTypes \X Ids)
           f == [p \in Places |-> <<p[1], <<p[2], p[3]>>>>]
<1>1. IsFiniteSet(Sources)
  <2>1. IsFiniteSet({"A"})
    BY FS_Singleton
  <2>2. IsFiniteSet({"A"} \cup {"B"})
    BY <2>1, FS_AddElement
  <2>3. Sources = {"A"} \cup {"B"}
    BY DEF Sources
  <2>4. QED
    BY <2>2, <2>3
<1>2. IsFiniteSet(T)
  BY <1>1, FS_Product, MatcherAssumption
<1>3. f \in Injection(Places, T)
  <2>1. \A p \in Places : /\ p = <<p[1], p[2], p[3]>> /\ p[1] \in Sources
                          /\ p[2] \in EventTypes /\ p[3] \in Ids
    BY DEF Places
  <2>2. f \in [Places -> T]
    BY <2>1
  <2>3. ASSUME NEW p \in Places, NEW q \in Places, f[p] = f[q]
        PROVE  p = q
    <3>1. p[1] = q[1] /\ p[2] = q[2] /\ p[3] = q[3]
      BY <2>3
    <3>2. QED
      BY <3>1, <2>1
  <2>4. QED
    BY <2>2, <2>3 DEF Injection, IsInjective
<1>4. QED
  BY <1>2, <1>3, FS_Injection

LEMMA OccupiedFinite == IsFiniteSet(Occupied) /\ Cardinality(Occupied) \in Nat
  BY PlacesFinite, FS_Subset, FS_CardinalityType DEF Occupied

LEMMA ItemPlaces ==
  ASSUME NEW i \in Items
  PROVE  /\ Place(i) \in Places
         /\ <<opposite(i.source), i.eventType, i.id>> \in Places
         /\ opposite(i.source) # i.source
         /\ i # NoItem
  BY MatcherAssumption DEF Items, Place, Places, opposite, Sources

LEMMA AddOne ==
  ASSUME NEW S, NEW x, IsFiniteSet(S)
  PROVE  Cardinality(S \cup {x}) = Cardinality(S) + (IF x \in S THEN 0 ELSE 1)
<1>1. Cardinality(S) \in Nat
  BY FS_CardinalityType
<1>2. Cardinality(S \cup {x})
        = IF x \in S THEN Cardinality(S) ELSE Cardinality(S) + 1
  BY FS_AddElement
<1>3. QED
  BY <1>1, <1>2

(* Taking the item out of an occupied place leaves the others and keeps the  *)
(* count.                                                                    *)
LEMMA Removal ==
  ASSUME TypeOK, BufferCounted, NEW p \in Occupied, removeLocked(buckets[p])
  PROVE  /\ buckets' = [buckets EXCEPT ![p] = NoItem]
         /\ buckets' \in [Places -> Items \cup {NoItem}]
         /\ Occupied' = Occupied \ {p}
         /\ \A q \in Occupied' : buckets'[q] = buckets[q]
         /\ bufferedItems' \in Nat
         /\ BufferCounted'
<1>1. p \in Places /\ buckets \in [Places -> Items \cup {NoItem}] /\ Place(buckets[p]) = p
  BY DEF TypeOK, Occupied
<1>2. buckets' = [buckets EXCEPT ![p] = NoItem]
  BY <1>1 DEF removeLocked
<1>3. buckets' \in [Places -> Items \cup {NoItem}]
  BY <1>1, <1>2
<1>4. Occupied' = Occupied \ {p}
  BY <1>1, <1>2 DEF Occupied
<1>5. \A q \in Occupied' : buckets'[q] = buckets[q]
  BY <1>1, <1>2, <1>4 DEF Occupied
<1>6. Cardinality(Occupied \ {p}) = Cardinality(Occupied) - 1
      /\ Cardinality(Occupied \ {p}) \in Nat
  BY OccupiedFinite, FS_RemoveElement, FS_CardinalityType
<1>7. bufferedItems' = Cardinality(Occupied')
  BY <1>4, <1>6 DEF removeLocked, BufferCounted
<1>8. QED
  BY <1>2, <1>3, <1>4, <1>5, <1>6, <1>7 DEF BufferCounted

LEMMA LengthsNat == \A q \in Seq(Results) : Len(q) \in Nat
  BY LenProperties

LEMMA OneMore ==
  ASSUME NEW c \in Nat, NEW d \in Nat, NEW l \in Nat, NEW x \in Nat,
         NEW m \in Nat, NEW y \in Nat,
         c = d + l + x, m + y = l + x + 1
  PROVE  c + 1 = d + m + y
  OBVIOUS

(* A publish moves one result into the channel or into the count of drops. *)
LEMMA Publishing ==
  ASSUME TypeOK, NEW r \in Results, tryPublishLocked(r)
  PROVE  /\ results' \in Seq(Results) /\ Len(results') <= ResultCapacity
         /\ droppedCount' \in Nat
         /\ Len(results') + droppedCount' = Len(results) + droppedCount + 1
         /\ offered' \subseteq Results
         /\ resultsOpen' = resultsOpen
         /\ sentOnClosed' = (sentOnClosed \/ ~resultsOpen)
<1>1. /\ results \in Seq(Results) /\ Len(results) \in Nat
      /\ Len(results) <= ResultCapacity /\ droppedCount \in Nat
      /\ ResultCapacity \in Nat
  BY MatcherAssumption, LenProperties DEF TypeOK
<1>2. /\ results' \in Seq(Results) /\ Len(results') <= ResultCapacity
      /\ droppedCount' \in Nat
      /\ Len(results') + droppedCount' = Len(results) + droppedCount + 1
  <2>1. CASE Len(results) < ResultCapacity
    <3>1. results' = Append(results, r) /\ droppedCount' = droppedCount
      BY <2>1 DEF tryPublishLocked
    <3>2. results' \in Seq(Results) /\ Len(results') = Len(results) + 1
      BY <1>1, <3>1, AppendProperties
    <3>3. QED
      BY <1>1, <2>1, <3>1, <3>2
  <2>2. CASE ~(Len(results) < ResultCapacity)
    <3>1. results' = results /\ droppedCount' = droppedCount + 1
      BY <2>2 DEF tryPublishLocked
    <3>2. QED
      BY <1>1, <3>1
  <2>3. QED
    BY <2>1, <2>2
<1>3. offered' \subseteq Results /\ resultsOpen' = resultsOpen
  BY DEF tryPublishLocked, TypeOK
<1>4. sentOnClosed' = (sentOnClosed \/ ~resultsOpen)
  BY DEF tryPublishLocked
<1>5. QED
  BY <1>2, <1>3, <1>4

LEMMA MatchResultTyped ==
  ASSUME NEW x \in Items, NEW y \in Items, NEW t \in Nat
  PROVE  /\ resolveMatch(x, y, t) \in Results
         /\ resolveMatch(x, y, t).kind \in {"MATCH", "MISMATCH"}
  BY DEF resolveMatch, Results, Kinds

LEMMA OrphanTyped ==
  ASSUME NEW x \in Items, NEW t \in Nat
  PROVE  buildOrphan(x, t) \in Results
  BY DEF buildOrphan, Results, Kinds

LEMMA Counting ==
  ASSUME TypeOK, NEW k \in Kinds, recordResultCounters(k)
  PROVE  /\ matchCount' \in Nat /\ mismatchCount' \in Nat /\ orphanCount' \in Nat
         /\ matchCount' + mismatchCount' + orphanCount'
              = matchCount + mismatchCount + orphanCount + 1
  BY DEF TypeOK, Kinds, recordResultCounters

-----------------------------------------------------------------------------
(* The steps that change the buffer, each with everything it disturbs. *)

LEMMA IngestPreserves ==
  ASSUME IInv, NEW s \in Sources, NEW t \in EventTypes, NEW f \in Frames,
         Ingest(s, t, f)
  PROVE  IInv'
<1> DEFINE item == [source |-> s, eventType |-> t,
                    id |-> IdAt[correlationPath][f], raw |-> f,
                    receivedAt |-> now, stamp |-> accepted + 1]
<1> USE DEF IInv
<1>1. /\ ~closed /\ resultsOpen /\ ~sentOnClosed
      /\ IdAt[correlationPath][f] \in Ids
  <2>1. ~closed /\ IdAt[correlationPath][f] # NoId
    BY DEF Ingest, Admits
  <2>2. IdAt[correlationPath][f] \in Ids
    BY <2>1, MatcherAssumption DEF TypeOK
  <2>3. resultsOpen /\ ~sentOnClosed
    BY <2>1 DEF CloseOrder, NoSendOnClosed, TypeOK
  <2>4. QED
    BY <2>1, <2>2, <2>3
<1>2. item \in Items /\ accepted' \in Nat
  BY <1>1 DEF Items, Ingest, TypeOK
<1>3. /\ correlationPath' = correlationPath /\ forgotten' = forgotten
      /\ closed' = closed /\ closePC' = closePC /\ evictorPC' = evictorPC
      /\ evictorTick' = evictorTick /\ tickC' = tickC /\ now' = now
      /\ delivered' = delivered
  BY DEF Ingest, lifecycle, clock
<1>4. CASE IngestMatch(item)
  <2> DEFINE c == Counterpart(item)
             r == resolveMatch(item, c, now)
             p == <<opposite(s), t, item.id>>
  <2>1. p \in Places /\ c = buckets[p] /\ c # NoItem
    BY <1>2, <1>4, ItemPlaces DEF IngestMatch, Counterpart
  <2>2. p \in Occupied /\ c \in Items
    BY <2>1 DEF Occupied, TypeOK
  <2>3. /\ Occupied' = Occupied \ {p} /\ bufferedItems' \in Nat /\ BufferCounted'
        /\ buckets' \in [Places -> Items \cup {NoItem}]
        /\ \A q \in Occupied' : buckets'[q] = buckets[q]
        /\ buckets' = [buckets EXCEPT ![p] = NoItem]
    BY <1>4, <2>1, <2>2, Removal DEF IngestMatch
  <2>4. r \in Results /\ r.kind \in Kinds
    BY <1>2, <2>2, MatchResultTyped DEF TypeOK, Kinds
  <2>5. recordResultCounters(r.kind) /\ tryPublishLocked(r) /\ superseded' = superseded
    BY <1>4 DEF IngestMatch
  <2>6. /\ results' \in Seq(Results) /\ Len(results') <= ResultCapacity
        /\ droppedCount' \in Nat
        /\ Len(results') + droppedCount' = Len(results) + droppedCount + 1
        /\ offered' \subseteq Results
        /\ resultsOpen' = resultsOpen
    BY <2>4, <2>5, Publishing
  <2>7. /\ matchCount' \in Nat /\ mismatchCount' \in Nat /\ orphanCount' \in Nat
        /\ matchCount' + mismatchCount' + orphanCount'
             = matchCount + mismatchCount + orphanCount + 1
    BY <2>4, <2>5, Counting
  <2>8. sentOnClosed' = FALSE
    BY <1>1, <2>5 DEF tryPublishLocked
  <2>9. TypeOK'
    BY <1>2, <1>3, <2>3, <2>5, <2>6, <2>7, <2>8 DEF TypeOK
  <2>10. OneSideWaits'
    BY <2>3 DEF OneSideWaits, Occupied, TypeOK
  <2>11. ResultsAccounted'
    <3>1. /\ Len(results) \in Nat /\ Len(results') \in Nat
          /\ delivered \in Nat /\ droppedCount \in Nat /\ delivered' = delivered
          /\ matchCount \in Nat /\ mismatchCount \in Nat /\ orphanCount \in Nat
      BY <1>3, <2>6, LengthsNat DEF TypeOK
    <3>2. matchCount + mismatchCount + orphanCount
            = delivered + Len(results) + droppedCount
      BY DEF ResultsAccounted
    <3>3. /\ Len(results') + droppedCount' = Len(results) + droppedCount + 1
          /\ droppedCount' \in Nat
      BY <2>6
    <3>4. matchCount' + mismatchCount' + orphanCount'
            = delivered' + Len(results') + droppedCount'
      <4>1. matchCount + mismatchCount + orphanCount \in Nat
        BY <3>1
      <4>2. matchCount + mismatchCount + orphanCount + 1
              = delivered + Len(results') + droppedCount'
        BY <3>1, <3>2, <3>3, <4>1, OneMore
      <4>3. QED
        BY <2>7, <3>1, <4>2
    <3>5. QED
      BY <3>4 DEF ResultsAccounted
  <2>12. CloseOrder' /\ NoSendOnClosed'
    BY <1>3, <2>6, <2>8 DEF CloseOrder, NoSendOnClosed
  <2>13. QED
    BY <2>3, <2>9, <2>10, <2>11, <2>12
<1>5. CASE IngestBuffer(item)
  <2> DEFINE p == Place(item)
  <2>1. p \in Places /\ p = <<s, t, item.id>>
    BY <1>2, ItemPlaces DEF Place
  <2>2. buckets' = [buckets EXCEPT ![p] = item]
    BY <1>5 DEF IngestBuffer
  <2>3. /\ buckets' \in [Places -> Items \cup {NoItem}]
        /\ Occupied' = Occupied \cup {p}
    BY <1>2, <2>1, <2>2, ItemPlaces DEF TypeOK, Occupied
  <2>4. bufferedItems' \in Nat /\ BufferCounted'
    <3>1. bufferedItems' = bufferedItems + (IF p \in Occupied THEN 0 ELSE 1)
      BY <1>5, <2>1 DEF IngestBuffer, InsertCount, Occupied
    <3>2. Cardinality(Occupied \cup {p})
            = Cardinality(Occupied) + (IF p \in Occupied THEN 0 ELSE 1)
      BY OccupiedFinite, AddOne
    <3>3. bufferedItems' = Cardinality(Occupied')
      BY <2>3, <3>1, <3>2 DEF BufferCounted
    <3>4. QED
      BY <3>1, <3>3 DEF BufferCounted, TypeOK
  <2>5. \A q \in Occupied' : Place(buckets'[q]) = q
    BY <2>1, <2>2, <2>3 DEF TypeOK, Occupied
  <2>6. superseded' \subseteq Items
    BY <1>5, <2>1 DEF IngestBuffer, TypeOK
  <2>7. /\ results' = results /\ resultsOpen' = resultsOpen
        /\ droppedCount' = droppedCount /\ offered' = offered
        /\ sentOnClosed' = sentOnClosed /\ matchCount' = matchCount
        /\ mismatchCount' = mismatchCount /\ orphanCount' = orphanCount
    BY <1>5 DEF IngestBuffer, channel
  <2>8. TypeOK'
    BY <1>2, <1>3, <2>3, <2>4, <2>5, <2>6, <2>7 DEF TypeOK
  <2>9. OneSideWaits'
    <3>1. buckets[<<opposite(s), t, item.id>>] = NoItem
      BY <1>5 DEF IngestBuffer, Counterpart
    <3>2. \A q \in Places : <<opposite(q[1]), q[2], q[3]>> = p
                              => q = <<opposite(s), t, item.id>>
      BY <2>1 DEF Places, opposite, Sources
    <3>3. \A q \in Places : <<opposite(q[1]), q[2], q[3]>> \in Places
      BY DEF Places, opposite, Sources
    <3>4. p # <<opposite(s), t, item.id>>
      BY <2>1 DEF opposite, Sources
    <3>5. ASSUME NEW q \in Occupied'
          PROVE  buckets'[<<opposite(q[1]), q[2], q[3]>>] = NoItem
      <4>1. q \in Places
        BY DEF Occupied
      <4>2. CASE q = p
        BY <2>1, <2>2, <3>1, <3>3, <3>4, <4>1, <4>2 DEF TypeOK
      <4>3. CASE q # p
        <5>1. q \in Occupied
          BY <2>3, <4>3
        <5>2. q # <<opposite(s), t, item.id>>
          BY <3>1, <5>1 DEF Occupied
        <5>3. <<opposite(q[1]), q[2], q[3]>> # p
          BY <3>2, <4>1, <5>2
        <5>4. QED
          BY <2>2, <3>3, <4>1, <5>1, <5>3 DEF OneSideWaits, TypeOK
      <4>4. QED
        BY <4>2, <4>3
    <3>6. QED
      BY <3>5 DEF OneSideWaits
  <2>10. ResultsAccounted' /\ CloseOrder' /\ NoSendOnClosed'
    BY <1>3, <2>7 DEF ResultsAccounted, CloseOrder, NoSendOnClosed
  <2>11. QED
    BY <2>4, <2>8, <2>9, <2>10
<1>6. QED
  BY <1>4, <1>5 DEF Ingest

LEMMA EvictItemPreserves ==
  ASSUME IInv, NEW p \in Places, EvictItem(p)
  PROVE  IInv'
<1> USE DEF IInv
<1> DEFINE r == buildOrphan(buckets[p], evictorTick)
<1>1. p \in Occupied /\ buckets[p] \in Items
  BY DEF EvictItem, Occupied, TypeOK
<1>2. /\ correlationPath' = correlationPath /\ forgotten' = forgotten
      /\ superseded' = superseded /\ accepted' = accepted
      /\ closed' = closed /\ closePC' = closePC /\ evictorPC' = evictorPC
      /\ evictorTick' = evictorTick /\ tickC' = tickC /\ now' = now
      /\ delivered' = delivered
  BY DEF EvictItem, lifecycle, clock, history
<1>3. /\ Occupied' = Occupied \ {p} /\ bufferedItems' \in Nat /\ BufferCounted'
      /\ buckets' \in [Places -> Items \cup {NoItem}]
      /\ \A q \in Occupied' : buckets'[q] = buckets[q]
      /\ buckets' = [buckets EXCEPT ![p] = NoItem]
  BY <1>1, Removal DEF EvictItem
<1>4. r \in Results /\ "ORPHAN" \in Kinds
  BY <1>1, OrphanTyped DEF TypeOK, Kinds
<1>5. ~closed /\ resultsOpen /\ ~sentOnClosed
  BY DEF EvictItem, CloseOrder, NoSendOnClosed, TypeOK
<1>6. /\ results' \in Seq(Results) /\ Len(results') <= ResultCapacity
      /\ droppedCount' \in Nat
      /\ Len(results') + droppedCount' = Len(results) + droppedCount + 1
      /\ offered' \subseteq Results
      /\ resultsOpen' = resultsOpen
  BY <1>4, Publishing DEF EvictItem
<1>7. /\ matchCount' \in Nat /\ mismatchCount' \in Nat /\ orphanCount' \in Nat
      /\ matchCount' + mismatchCount' + orphanCount'
           = matchCount + mismatchCount + orphanCount + 1
  BY <1>4, Counting DEF EvictItem
<1>8. sentOnClosed' = FALSE
  BY <1>5 DEF EvictItem, tryPublishLocked
<1>9. TypeOK'
  BY <1>2, <1>3, <1>6, <1>7, <1>8 DEF TypeOK
<1>10. OneSideWaits'
  BY <1>3 DEF OneSideWaits, Occupied, TypeOK
<1>11. ResultsAccounted'
  <2>1. /\ Len(results) \in Nat /\ Len(results') \in Nat
        /\ delivered \in Nat /\ droppedCount \in Nat /\ delivered' = delivered
        /\ matchCount \in Nat /\ mismatchCount \in Nat /\ orphanCount \in Nat
    BY <1>2, <1>6, LengthsNat DEF TypeOK
  <2>2. matchCount + mismatchCount + orphanCount
          = delivered + Len(results) + droppedCount
    BY DEF ResultsAccounted
  <2>3. /\ Len(results') + droppedCount' = Len(results) + droppedCount + 1
        /\ droppedCount' \in Nat
    BY <1>6
  <2>4. matchCount' + mismatchCount' + orphanCount'
          = delivered' + Len(results') + droppedCount'
    <3>1. matchCount + mismatchCount + orphanCount \in Nat
      BY <2>1
    <3>2. matchCount + mismatchCount + orphanCount + 1
            = delivered + Len(results') + droppedCount'
      BY <2>1, <2>2, <2>3, <3>1, OneMore
    <3>3. QED
      BY <1>7, <2>1, <3>2
  <2>5. QED
    BY <2>4 DEF ResultsAccounted
<1>12. CloseOrder' /\ NoSendOnClosed'
  BY <1>2, <1>6, <1>8 DEF CloseOrder, NoSendOnClosed
<1>13. QED
  BY <1>3, <1>9, <1>10, <1>11, <1>12

LEMMA ResetPreserves ==
  ASSUME IInv, NEW path \in Paths, Reset(path)
  PROVE  IInv'
<1> USE DEF IInv
<1>1. Occupied' = {} /\ buckets' \in [Places -> Items \cup {NoItem}]
  BY DEF Reset, Occupied
<1>2. bufferedItems' = 0 /\ BufferCounted'
  BY <1>1, FS_EmptySet DEF Reset, BufferCounted
<1>3. forgotten' \subseteq Items
  BY DEF Reset, Occupied, TypeOK
<1>4. TypeOK'
  BY <1>1, <1>2, <1>3 DEF TypeOK, Reset, channel, lifecycle, clock
<1>5. OneSideWaits'
  BY <1>1 DEF OneSideWaits
<1>6. ResultsAccounted' /\ CloseOrder' /\ NoSendOnClosed'
  BY DEF Reset, channel, lifecycle, ResultsAccounted, CloseOrder, NoSendOnClosed
<1>7. QED
  BY <1>2, <1>4, <1>5, <1>6

(* The steps of the evictor, of Close and of the clock leave the buffer, the *)
(* counters and the channel's contents alone.                                *)
LEMMA ControlPreserves ==
  ASSUME IInv,
         EvictorTick \/ EvictorStop \/ EvictLock \/ EvictUnlock \/ Close \/ Advance
  PROVE  IInv'
<1> USE DEF IInv
<1>1. /\ buckets' = buckets /\ correlationPath' = correlationPath
      /\ bufferedItems' = bufferedItems /\ matchCount' = matchCount
      /\ mismatchCount' = mismatchCount /\ orphanCount' = orphanCount
      /\ results' = results /\ droppedCount' = droppedCount
      /\ offered' = offered /\ sentOnClosed' = sentOnClosed
      /\ superseded' = superseded /\ forgotten' = forgotten
      /\ accepted' = accepted /\ delivered' = delivered
  BY DEF EvictorTick, EvictorStop, EvictLock, EvictUnlock, Close, CloseBegin,
         CloseWait, CloseFinish, Advance, counters, channel, history
<1>2. BufferCounted' /\ OneSideWaits' /\ ResultsAccounted' /\ NoSendOnClosed'
  BY <1>1 DEF BufferCounted, OneSideWaits, ResultsAccounted, NoSendOnClosed, Occupied
<1>3. /\ evictorTick' \in Nat /\ tickC' \in Nat \cup {NoTick} /\ now' \in Nat
      /\ evictorPC' \in {"select", "lock", "sweep", "done"}
      /\ closePC' \in {"idle", "wait", "lock", "returned"}
      /\ closed' \in BOOLEAN /\ resultsOpen' \in BOOLEAN
      /\ CloseOrder'
  <2>1. CASE EvictorTick
    BY <2>1 DEF EvictorTick, TypeOK, CloseOrder, channel
  <2>2. CASE EvictorStop
    BY <2>2 DEF EvictorStop, TypeOK, CloseOrder, channel, clock
  <2>3. CASE EvictLock
    BY <2>3 DEF EvictLock, TypeOK, CloseOrder, channel, clock
  <2>4. CASE EvictUnlock
    BY <2>4 DEF EvictUnlock, TypeOK, CloseOrder, channel, clock
  <2>5. CASE CloseBegin
    BY <2>5 DEF CloseBegin, TypeOK, CloseOrder, channel, clock
  <2>6. CASE CloseWait
    BY <2>6 DEF CloseWait, TypeOK, CloseOrder, channel, clock
  <2>7. CASE CloseFinish
    BY <2>7 DEF CloseFinish, TypeOK, CloseOrder, clock
  <2>8. CASE Advance
    BY <2>8, MatcherAssumption DEF Advance, TypeOK, CloseOrder, channel, lifecycle
  <2>9. QED
    BY <2>1, <2>2, <2>3, <2>4, <2>5, <2>6, <2>7, <2>8 DEF Close
<1>4. TypeOK'
  BY <1>1, <1>3 DEF TypeOK, Occupied
<1>5. QED
  BY <1>2, <1>3, <1>4

LEMMA ReceivePreserves ==
  ASSUME IInv, Receive
  PROVE  IInv'
<1> USE DEF IInv
<1>1. /\ buckets' = buckets /\ correlationPath' = correlationPath
      /\ bufferedItems' = bufferedItems /\ matchCount' = matchCount
      /\ mismatchCount' = mismatchCount /\ orphanCount' = orphanCount
      /\ resultsOpen' = resultsOpen /\ droppedCount' = droppedCount
      /\ offered' = offered /\ sentOnClosed' = sentOnClosed
      /\ closed' = closed /\ closePC' = closePC /\ evictorPC' = evictorPC
      /\ evictorTick' = evictorTick /\ tickC' = tickC /\ now' = now
      /\ superseded' = superseded /\ forgotten' = forgotten
      /\ accepted' = accepted /\ delivered' = delivered + 1
  BY DEF Receive, counters, lifecycle, clock, history
<1>2. /\ results' \in Seq(Results) /\ Len(results') = Len(results) - 1
      /\ Len(results) \in Nat
  BY HeadTailProperties, LengthsNat DEF Receive, TypeOK
<1>3. BufferCounted' /\ OneSideWaits' /\ NoSendOnClosed' /\ CloseOrder'
  BY <1>1 DEF BufferCounted, OneSideWaits, NoSendOnClosed, CloseOrder, Occupied
<1>4. ResultsAccounted'
  <2>1. delivered \in Nat /\ droppedCount \in Nat
    BY DEF TypeOK
  <2>2. QED
    BY <1>1, <1>2, <2>1 DEF ResultsAccounted
<1>5. TypeOK'
  <2>1. Len(results') <= ResultCapacity /\ delivered' \in Nat
    BY <1>1, <1>2, MatcherAssumption DEF TypeOK
  <2>2. QED
    BY <1>1, <1>2, <2>1 DEF TypeOK, Occupied
<1>6. QED
  BY <1>3, <1>4, <1>5

-----------------------------------------------------------------------------

(* The invariant holds when the matcher is constructed. *)
THEOREM InitInvariant == Init => IInv
<1> SUFFICES ASSUME Init PROVE IInv
  OBVIOUS
<1>1. Occupied = {} /\ buckets \in [Places -> Items \cup {NoItem}]
  BY DEF Init, Occupied
<1>2. results \in Seq(Results) /\ Len(results) = 0
  BY EmptySeq DEF Init
<1>3. TypeOK
  <2>1. results \in Seq(Results) /\ Len(results) <= ResultCapacity
    BY <1>2, MatcherAssumption
  <2>2. /\ correlationPath \in Paths
        /\ closePC = "idle" /\ evictorPC = "select" /\ tickC = NoTick
        /\ offered = {} /\ superseded = {} /\ forgotten = {}
        /\ resultsOpen = TRUE /\ closed = FALSE /\ sentOnClosed = FALSE
    BY DEF Init
  <2>3. /\ bufferedItems = 0 /\ matchCount = 0 /\ mismatchCount = 0
        /\ orphanCount = 0 /\ droppedCount = 0 /\ evictorTick = 0 /\ now = 0
        /\ accepted = 0 /\ delivered = 0
    BY DEF Init
  <2>4. QED
    BY <1>1, <2>1, <2>2, <2>3 DEF TypeOK
<1>4. BufferCounted
  BY <1>1, FS_EmptySet DEF Init, BufferCounted
<1>5. OneSideWaits
  BY <1>1 DEF OneSideWaits
<1>6. ResultsAccounted
  BY <1>2 DEF Init, ResultsAccounted
<1>7. CloseOrder /\ NoSendOnClosed
  BY DEF Init, CloseOrder, NoSendOnClosed
<1>8. QED
  BY <1>3, <1>4, <1>5, <1>6, <1>7 DEF IInv

(* Every step of any goroutine keeps it. *)
THEOREM StepInvariant == IInv /\ [Next]_vars => IInv'
<1> SUFFICES ASSUME IInv, [Next]_vars PROVE IInv'
  OBVIOUS
<1>1. ASSUME NEW s \in Sources, NEW t \in EventTypes, NEW f \in Frames, Ingest(s, t, f)
      PROVE  IInv'
  BY <1>1, IngestPreserves
<1>2. ASSUME NEW path \in Paths, Reset(path)
      PROVE  IInv'
  BY <1>2, ResetPreserves
<1>3. ASSUME NEW p \in Places, EvictItem(p)
      PROVE  IInv'
  BY <1>3, EvictItemPreserves
<1>4. CASE EvictorTick \/ EvictorStop \/ EvictLock \/ EvictUnlock \/ Close \/ Advance
  BY <1>4, ControlPreserves
<1>5. CASE Receive
  BY <1>5, ReceivePreserves
<1>6. CASE UNCHANGED vars
  BY <1>6 DEF vars, counters, channel, lifecycle, clock, history, IInv, TypeOK,
              BufferCounted, OneSideWaits, ResultsAccounted, CloseOrder,
              NoSendOnClosed, Occupied
<1>7. QED
  BY <1>1, <1>2, <1>3, <1>4, <1>5, <1>6 DEF Next, Evictor

THEOREM Invariant == Spec => []IInv
  BY InitInvariant, StepInvariant, PTL DEF Spec

(* Type correctness, the capacity of the channel included. *)
THEOREM TypeCorrect == Spec => []TypeOK
  BY Invariant, PTL DEF IInv

(* The bufferedItems counter never drifts from the buffer. *)
THEOREM BufferedItemsExact == Spec => []BufferCounted
  BY Invariant, PTL DEF IInv

(* No comparable pair is ever left waiting. *)
THEOREM NeverBothSides == Spec => []OneSideWaits
  BY Invariant, PTL DEF IInv

(* No result is lost without being counted as dropped. *)
THEOREM NoSilentLoss == Spec => []ResultsAccounted
  BY Invariant, PTL DEF IInv

(* Close cannot make a late Ingest or sweep panic. *)
THEOREM CloseIsSafe == Spec => []NoSendOnClosed
  BY Invariant, PTL DEF IInv

-----------------------------------------------------------------------------
(* What became of every event *)

(* Where the counterpart of an item would wait. *)
Across(item) == <<opposite(item.source), item.eventType, item.id>>

Numbered ==
    /\ accepted <= MaxEvents
    /\ \A y \in Known : y.stamp \in 1..accepted

(* A sweep works with an instant of the past, and so do its orphans. *)
Clocked ==
    /\ now <= Horizon /\ evictorTick <= now
    /\ tickC # NoTick => tickC <= now
    /\ \A r \in offered : r.timestamp <= now

(* While an item waits, no counterpart comes: it would have met it. *)
NoneCame ==
    \A p \in Occupied : \A y \in Known :
        Place(y) = Across(buckets[p]) => y.stamp < buckets[p].stamp

HistoryInv == Numbered /\ Clocked /\ NoneCame /\ NoMissedPair

LEMMA KnownMembers ==
  ASSUME NEW x
  PROVE  x \in Known <=> \/ \E p \in Occupied : x = buckets[p]
                         \/ \E r \in offered : x \in Sides(r)
                         \/ x \in superseded \/ x \in forgotten
<1> DEFINE sides == UNION {Sides(r) : r \in offered}
           items == {buckets[p] : p \in Occupied}
<1>1. x \in sides <=> \E r \in offered : x \in Sides(r)
  OBVIOUS
<1>2. x \in items <=> \E p \in Occupied : x = buckets[p]
  OBVIOUS
<1>3. Known = items \cup sides \cup superseded \cup forgotten
  BY DEF Known
<1> HIDE DEF sides, items
<1>4. x \in Known <=> x \in items \/ x \in sides \/ x \in superseded \/ x \in forgotten
  BY <1>3
<1>5. QED
  BY <1>1, <1>2, <1>4

LEMMA KnownMembersNext ==
  ASSUME NEW x
  PROVE  x \in Known' <=> \/ \E p \in Occupied' : x = buckets'[p]
                          \/ \E r \in offered' : x \in Sides(r)
                          \/ x \in superseded' \/ x \in forgotten'
<1> DEFINE sides == UNION {Sides(r) : r \in offered'}
           items == {buckets'[p] : p \in Occupied'}
<1>1. x \in sides <=> \E r \in offered' : x \in Sides(r)
  OBVIOUS
<1>2. x \in items <=> \E p \in Occupied' : x = buckets'[p]
  OBVIOUS
<1>3. Known' = items \cup sides \cup superseded' \cup forgotten'
  BY DEF Known
<1> HIDE DEF sides, items
<1>4. x \in Known' <=> x \in items \/ x \in sides \/ x \in superseded' \/ x \in forgotten'
  BY <1>3
<1>5. QED
  BY <1>1, <1>2, <1>4

LEMMA KnownTyped ==
  ASSUME TypeOK
  PROVE  Known \subseteq Items /\ \A r \in offered : Sides(r) \subseteq Items
<1>1. \A r \in offered : Sides(r) \subseteq Items
  BY DEF TypeOK, Sides, Results
<1>2. \A p \in Occupied : buckets[p] \in Items
  BY DEF TypeOK, Occupied
<1>3. superseded \subseteq Items /\ forgotten \subseteq Items
  BY DEF TypeOK
<1>4. QED
  BY <1>1, <1>2, <1>3, KnownMembers

LEMMA MatchSides ==
  ASSUME NEW x \in Items, NEW y \in Items, NEW t \in Nat
  PROVE  /\ Sides(resolveMatch(x, y, t)) = {x, y}
         /\ resolveMatch(x, y, t).timestamp = t
<1>1. x # NoItem /\ y # NoItem
  BY MatcherAssumption
<1>2. QED
  BY <1>1 DEF resolveMatch, Sides

LEMMA OrphanSides ==
  ASSUME NEW x \in Items, NEW t \in Nat
  PROVE  /\ Sides(buildOrphan(x, t)) = {x}
         /\ buildOrphan(x, t).timestamp = t /\ buildOrphan(x, t).kind = "ORPHAN"
<1>1. x # NoItem
  BY MatcherAssumption
<1>2. QED
  BY <1>1 DEF buildOrphan, Sides

(* What Ingest does to the items, for the proofs that follow. *)
Arrival(s, t, f) ==
    [source |-> s, eventType |-> t, id |-> IdAt[correlationPath][f], raw |-> f,
     receivedAt |-> now, stamp |-> accepted + 1]

LEMMA ArrivalTyped ==
  ASSUME IInv, NEW s \in Sources, NEW t \in EventTypes, NEW f \in Frames, Ingest(s, t, f)
  PROVE  /\ Arrival(s, t, f) \in Items
         /\ IngestMatch(Arrival(s, t, f)) \/ IngestBuffer(Arrival(s, t, f))
<1>1. IdAt[correlationPath][f] \in Ids
  BY MatcherAssumption DEF Ingest, Admits, IInv, TypeOK
<1>2. Arrival(s, t, f) \in Items
  BY <1>1 DEF Arrival, Items, IInv, TypeOK
<1>3. IngestMatch(Arrival(s, t, f)) \/ IngestBuffer(Arrival(s, t, f))
  BY Zenon DEF Ingest, Arrival
<1>4. QED
  BY <1>2, <1>3

(* An arrival that finds its counterpart: the counterpart's place is emptied *)
(* and one result has both.                                                  *)
LEMMA MatchEffect ==
  ASSUME IInv, NEW item \in Items, IngestMatch(item)
  PROVE  /\ Across(item) \in Occupied /\ Across(item) \in Places
         /\ buckets[Across(item)] \in Items
         /\ Occupied' = Occupied \ {Across(item)}
         /\ \A q \in Occupied' : buckets'[q] = buckets[q]
         /\ offered' = offered \cup {resolveMatch(item, buckets[Across(item)], now)}
         /\ superseded' = superseded
<1> DEFINE p == Across(item)
<1>1. p \in Places /\ Counterpart(item) = buckets[p] /\ buckets[p] # NoItem
  BY ItemPlaces DEF IngestMatch, Counterpart, Across
<1>2. p \in Occupied /\ buckets[p] \in Items
  BY <1>1 DEF Occupied, IInv, TypeOK
<1>3. removeLocked(buckets[p]) /\ superseded' = superseded
  BY <1>1 DEF IngestMatch
<1>4. Occupied' = Occupied \ {p} /\ \A q \in Occupied' : buckets'[q] = buckets[q]
  BY <1>2, <1>3, Removal DEF IInv
<1>5. offered' = offered \cup {resolveMatch(item, buckets[p], now)}
  BY <1>1 DEF IngestMatch, tryPublishLocked
<1>6. QED
  BY <1>1, <1>2, <1>3, <1>4, <1>5

(* One that finds none: it takes its own place, and the place across from it *)
(* is empty.                                                                 *)
LEMMA BufferEffect ==
  ASSUME IInv, NEW item \in Items, IngestBuffer(item)
  PROVE  /\ Place(item) \in Places /\ Across(item) \in Places
         /\ Across(item) \notin Occupied
         /\ Occupied' = Occupied \cup {Place(item)}
         /\ buckets'[Place(item)] = item
         /\ \A q \in Occupied' : q # Place(item) => buckets'[q] = buckets[q]
         /\ offered' = offered
         /\ superseded' = superseded \cup ({buckets[Place(item)]} \ {NoItem})
<1> DEFINE p == Place(item)
<1>1. p \in Places /\ Across(item) \in Places /\ item # NoItem
  BY ItemPlaces DEF Across
<1>2. buckets' = [buckets EXCEPT ![p] = item] /\ buckets \in [Places -> Items \cup {NoItem}]
  BY DEF IngestBuffer, IInv, TypeOK
<1>3. Occupied' = Occupied \cup {p}
  BY <1>1, <1>2 DEF Occupied
<1>4. /\ buckets'[p] = item
      /\ \A q \in Occupied' : q # p => buckets'[q] = buckets[q]
  BY <1>1, <1>2 DEF Occupied
<1>5. Across(item) \notin Occupied
  BY DEF IngestBuffer, Counterpart, Across, Occupied
<1>6. offered' = offered /\ superseded' = superseded \cup ({buckets[p]} \ {NoItem})
  BY DEF IngestBuffer, channel
<1>7. QED
  BY <1>1, <1>3, <1>4, <1>5, <1>6

LEMMA EvictEffect ==
  ASSUME IInv, NEW p \in Places, EvictItem(p)
  PROVE  /\ p \in Occupied /\ buckets[p] \in Items
         /\ buckets[p].receivedAt < evictorTick - TTL
         /\ Occupied' = Occupied \ {p}
         /\ \A q \in Occupied' : buckets'[q] = buckets[q]
         /\ offered' = offered \cup {buildOrphan(buckets[p], evictorTick)}
         /\ UNCHANGED <<superseded, forgotten, accepted, clock, evictorTick>>
<1>1. p \in Occupied /\ buckets[p] \in Items /\ buckets[p].receivedAt < evictorTick - TTL
  BY DEF EvictItem, Occupied, Stale, IInv, TypeOK
<1>2. Occupied' = Occupied \ {p} /\ \A q \in Occupied' : buckets'[q] = buckets[q]
  BY <1>1, Removal DEF EvictItem, IInv
<1>3. offered' = offered \cup {buildOrphan(buckets[p], evictorTick)}
  BY DEF EvictItem, tryPublishLocked
<1>4. UNCHANGED <<superseded, forgotten, accepted, clock, evictorTick>>
  BY DEF EvictItem, history, lifecycle
<1>5. QED
  BY <1>1, <1>2, <1>3, <1>4

(* Only an arrival makes an item known. *)
LEMMA KnownByMatch ==
  ASSUME IInv, NEW item \in Items, IngestMatch(item), UNCHANGED forgotten
  PROVE  Known' \subseteq Known \cup {item}
<1> DEFINE c == buckets[Across(item)]
           r == resolveMatch(item, c, now)
<1>1. /\ Across(item) \in Occupied /\ c \in Items
      /\ Occupied' \subseteq Occupied /\ \A q \in Occupied' : buckets'[q] = buckets[q]
      /\ offered' = offered \cup {r} /\ superseded' = superseded /\ forgotten' = forgotten
  BY MatchEffect
<1>2. Sides(r) = {item, c}
  BY <1>1, MatchSides DEF IInv, TypeOK
<1> HIDE DEF r
<1>3. \A x \in {buckets'[q] : q \in Occupied'} : x \in Known
  BY <1>1 DEF Known
<1>4. \A x \in UNION {Sides(g) : g \in offered'} : x \in Known \cup {item}
  BY <1>1, <1>2 DEF Known
<1>5. QED
  BY <1>1, <1>3, <1>4 DEF Known

LEMMA KnownByBuffer ==
  ASSUME IInv, NEW item \in Items, IngestBuffer(item), UNCHANGED forgotten
  PROVE  Known' \subseteq Known \cup {item}
<1> DEFINE p == Place(item)
<1>1. /\ p \in Places /\ Occupied' = Occupied \cup {p} /\ buckets'[p] = item
      /\ \A q \in Occupied' : q # p => buckets'[q] = buckets[q]
      /\ offered' = offered /\ forgotten' = forgotten
      /\ superseded' = superseded \cup ({buckets[p]} \ {NoItem})
  BY BufferEffect
<1>2. buckets[p] # NoItem => buckets[p] \in Known
  BY <1>1 DEF Occupied, Known
<1>3. ASSUME NEW q \in Occupied' PROVE buckets'[q] \in Known \cup {item}
  <2>1. CASE q = p
    BY <1>1, <2>1
  <2>2. CASE q # p
    <3>1. q \in Occupied /\ buckets'[q] = buckets[q]
      BY <1>1, <2>2
    <3>2. QED
      BY <3>1 DEF Known
  <2>3. QED
    BY <2>1, <2>2
<1>4. ASSUME NEW x \in Known' PROVE x \in Known \cup {item}
  <2>1. CASE \E q \in Occupied' : x = buckets'[q]
    BY <1>3, <2>1
  <2>2. CASE x \in superseded'
    BY <1>1, <1>2, <2>2, KnownMembers
  <2>3. CASE x \in forgotten' \/ \E r \in offered' : x \in Sides(r)
    BY <1>1, <2>3, KnownMembers
  <2>4. QED
    BY <2>1, <2>2, <2>3, KnownMembersNext
<1>5. QED
  BY <1>4

LEMMA KnownByEvict ==
  ASSUME IInv, NEW p \in Places, EvictItem(p)
  PROVE  Known' \subseteq Known
<1> DEFINE r == buildOrphan(buckets[p], evictorTick)
<1>1. /\ p \in Occupied /\ buckets[p] \in Items
      /\ Occupied' \subseteq Occupied /\ \A q \in Occupied' : buckets'[q] = buckets[q]
      /\ offered' = offered \cup {r} /\ superseded' = superseded /\ forgotten' = forgotten
  BY EvictEffect
<1>2. Sides(r) = {buckets[p]}
  BY <1>1, OrphanSides DEF IInv, TypeOK
<1> HIDE DEF r
<1>3. \A x \in {buckets'[q] : q \in Occupied'} : x \in Known
  BY <1>1 DEF Known
<1>4. \A x \in UNION {Sides(g) : g \in offered'} : x \in Known
  BY <1>1, <1>2 DEF Known
<1>5. QED
  BY <1>1, <1>3, <1>4 DEF Known

LEMMA KnownByReset ==
  ASSUME IInv, NEW path \in Paths, Reset(path)
  PROVE  Known' \subseteq Known /\ Occupied' = {}
<1>1. Occupied' = {}
  BY DEF Reset, Occupied
<1>2. /\ offered' = offered /\ superseded' = superseded
      /\ forgotten' = forgotten \cup {buckets[p] : p \in Occupied}
  BY DEF Reset, channel
<1>3. QED
  BY <1>1, <1>2, KnownMembers, KnownMembersNext

LEMMA HistoryInitially == Init => HistoryInv
<1> SUFFICES ASSUME Init PROVE HistoryInv
  OBVIOUS
<1>1. Occupied = {} /\ offered = {} /\ superseded = {} /\ forgotten = {}
  BY DEF Init, Occupied
<1>2. \A x : x \notin Known
  BY <1>1, KnownMembers
<1>3. Numbered /\ NoneCame /\ NoMissedPair
  BY <1>1, <1>2, MatcherAssumption DEF Init, Numbered, NoneCame, NoMissedPair
<1>4. Clocked
  BY <1>1, MatcherAssumption DEF Init, Clocked
<1>5. QED
  BY <1>3, <1>4 DEF HistoryInv

(* Nothing new can be known of an item that has left: what is known then is  *)
(* all that came while it waited, and what comes later is late.              *)
LEMMA StillNotMissed ==
  ASSUME NoMissedPair, offered' = offered, Known' \subseteq Known
  PROVE  NoMissedPair'
<1>1. ASSUME NEW r \in offered, r.kind = "ORPHAN", NEW x \in Sides(r)
      PROVE  /\ r.timestamp > x.receivedAt + TTL
             /\ \A y \in Known : Place(y) = Across(x) /\ y.stamp > x.stamp
                                  => y.receivedAt > x.receivedAt + TTL
  BY <1>1 DEF NoMissedPair, Across
<1>2. QED
  BY <1>1 DEF NoMissedPair, Across

LEMMA HistoryByIngest ==
  ASSUME IInv, HistoryInv, NEW s \in Sources, NEW t \in EventTypes, NEW f \in Frames,
         Ingest(s, t, f)
  PROVE  HistoryInv'
<1> DEFINE item == Arrival(s, t, f)
<1>1. /\ item \in Items /\ item.stamp = accepted + 1 /\ item.receivedAt = now
      /\ IngestMatch(item) \/ IngestBuffer(item)
  BY ArrivalTyped DEF Arrival
<1> HIDE DEF item
<1>2. /\ accepted < MaxEvents /\ accepted' = accepted + 1 /\ UNCHANGED <<now, tickC, evictorTick, forgotten>>
      /\ accepted \in Nat /\ MaxEvents \in Nat /\ now \in Nat /\ TTL \in Nat
  BY MatcherAssumption DEF Ingest, clock, lifecycle, IInv, TypeOK
<1>3. Known' \subseteq Known \cup {item}
  BY <1>1, <1>2, KnownByMatch, KnownByBuffer
<1>4. Numbered'
  BY <1>1, <1>2, <1>3 DEF Numbered, HistoryInv
<1>5. \A y \in Known : y.stamp < item.stamp /\ y.stamp \in Nat
  BY <1>1, <1>2 DEF Numbered, HistoryInv
<1>6. Known \subseteq Items /\ \A r \in offered : Sides(r) \subseteq Items /\ Sides(r) \subseteq Known
  BY KnownTyped, KnownMembers DEF IInv
(* What arrives now comes later than any orphan's time allowed. *)
<1>7. ASSUME NEW r \in offered, r.kind = "ORPHAN", NEW x \in Sides(r)
      PROVE  /\ r.timestamp > x.receivedAt + TTL
             /\ \A y \in Known' : Place(y) = Across(x) /\ y.stamp > x.stamp
                                  => y.receivedAt > x.receivedAt + TTL
  <2>1. r.timestamp > x.receivedAt + TTL /\ r.timestamp <= now
    BY <1>7 DEF HistoryInv, NoMissedPair, Clocked
  <2>2. x.receivedAt \in Nat /\ r.timestamp \in Nat
    BY <1>6, <1>7 DEF Items, IInv, TypeOK, Results
  <2>3. item.receivedAt > x.receivedAt + TTL
    BY <1>1, <1>2, <2>1, <2>2
  <2>4. \A y \in Known : Place(y) = Across(x) /\ y.stamp > x.stamp
                                  => y.receivedAt > x.receivedAt + TTL
    BY <1>7 DEF HistoryInv, NoMissedPair, Across
  <2>5. QED
    BY <1>3, <2>1, <2>3, <2>4
<1>8. CASE IngestMatch(item)
  <2> DEFINE m == resolveMatch(item, buckets[Across(item)], now)
  <2>1. /\ Occupied' \subseteq Occupied /\ \A q \in Occupied' : buckets'[q] = buckets[q]
        /\ Across(item) \in Occupied /\ Occupied' = Occupied \ {Across(item)}
        /\ buckets[Across(item)] \in Items /\ offered' = offered \cup {m}
    BY <1>1, <1>8, MatchEffect
  <2>2. m.kind # "ORPHAN" /\ m.timestamp = now
    BY <1>1, <1>2, <2>1, MatchResultTyped, MatchSides
  <2> HIDE DEF m
  <2>3. Clocked'
    BY <1>2, <2>1, <2>2 DEF HistoryInv, Clocked
  <2>4. NoneCame'
    <3>1. ASSUME NEW q \in Occupied' PROVE Place(item) # Across(buckets[q])
      <4>1. buckets[q] \in Items /\ Place(buckets[q]) = q /\ q # Across(item)
        BY <2>1 DEF IInv, TypeOK, Occupied
      <4>2. QED
        BY <1>1, <4>1 DEF Place, Across, Items, opposite, Sources
    <3>2. QED
      BY <1>3, <2>1, <3>1 DEF HistoryInv, NoneCame
  <2>5. NoMissedPair'
    BY <1>7, <2>1, <2>2 DEF NoMissedPair, Across
  <2>6. QED
    BY <1>4, <2>3, <2>4, <2>5 DEF HistoryInv
<1>9. CASE IngestBuffer(item)
  <2> DEFINE p == Place(item)
  <2>1. /\ p \in Places /\ Across(item) \notin Occupied
        /\ Occupied' = Occupied \cup {p} /\ buckets'[p] = item
        /\ \A q \in Occupied' : q # p => buckets'[q] = buckets[q]
        /\ offered' = offered
    BY <1>1, <1>9, BufferEffect
  <2>2. Clocked'
    BY <1>2, <2>1 DEF HistoryInv, Clocked
  <2>3. NoneCame'
    <3>1. ASSUME NEW q \in Occupied', NEW y \in Known', Place(y) = Across(buckets'[q])
          PROVE  y.stamp < buckets'[q].stamp
      <4>1. CASE q = p
        <5>1. buckets'[q] = item /\ Place(item) # Across(item)
          BY <1>1, <2>1, <4>1, ItemPlaces DEF Place, Across
        <5>2. y \in Known
          BY <1>3, <3>1, <5>1
        <5>3. QED
          BY <1>5, <5>1, <5>2
      <4>2. CASE q # p
        <5>1. q \in Occupied /\ buckets'[q] = buckets[q]
          BY <2>1, <4>2
        <5>2. buckets[q] \in Items /\ Place(buckets[q]) = q /\ q # Across(item)
          BY <2>1, <5>1 DEF IInv, TypeOK, Occupied
        <5>3. Place(item) # Across(buckets[q])
          BY <1>1, <5>2 DEF Place, Across, Items, opposite, Sources
        <5>4. y \in Known
          BY <1>3, <3>1, <5>1, <5>3
        <5>5. QED
          BY <3>1, <5>1, <5>4 DEF HistoryInv, NoneCame
      <4>3. QED
        BY <4>1, <4>2
    <3>2. QED
      BY <3>1 DEF NoneCame
  <2>4. NoMissedPair'
    BY <1>7, <2>1 DEF NoMissedPair, Across
  <2>5. QED
    BY <1>4, <2>2, <2>3, <2>4 DEF HistoryInv
<1>10. QED
  BY <1>1, <1>8, <1>9

(* An item is evicted after its TTL; no counterpart came while it waited. *)
LEMMA HistoryByEvict ==
  ASSUME IInv, HistoryInv, NEW p \in Places, EvictItem(p)
  PROVE  HistoryInv'
<1> DEFINE x == buckets[p]
           r == buildOrphan(x, evictorTick)
<1>1. /\ p \in Occupied /\ x \in Items /\ x.receivedAt < evictorTick - TTL
      /\ Occupied' \subseteq Occupied /\ \A q \in Occupied' : buckets'[q] = buckets[q]
      /\ offered' = offered \cup {r}
      /\ UNCHANGED <<superseded, forgotten, accepted, now, tickC, evictorTick>>
  BY EvictEffect DEF clock
<1>2. /\ evictorTick \in Nat /\ now \in Nat /\ TTL \in Nat /\ x.receivedAt \in Nat
  BY <1>1, MatcherAssumption DEF IInv, TypeOK, Items
<1>3. Sides(r) = {x} /\ r.timestamp = evictorTick
  BY <1>1, <1>2, OrphanSides
<1> HIDE DEF x, r
<1>4. Known' \subseteq Known
  BY KnownByEvict
<1>5. Numbered' /\ Clocked'
  BY <1>1, <1>2, <1>3, <1>4 DEF HistoryInv, Numbered, Clocked
<1>6. NoneCame'
  BY <1>1, <1>4 DEF HistoryInv, NoneCame
<1>7. ASSUME NEW y \in Known' PROVE ~(Place(y) = Across(x) /\ y.stamp > x.stamp)
  <2>1. y \in Known /\ y.stamp \in Nat
    BY <1>4, <1>7, KnownTyped DEF IInv, Items
  <2>2. x.stamp \in Nat /\ (Place(y) = Across(x) => y.stamp < x.stamp)
    BY <1>1, <2>1 DEF HistoryInv, NoneCame, Items, x
  <2>3. QED
    BY <2>1, <2>2
<1>8. ASSUME NEW g \in offered', g.kind = "ORPHAN", NEW z \in Sides(g)
      PROVE  /\ g.timestamp > z.receivedAt + TTL
             /\ \A y \in Known' : Place(y) = Across(z) /\ y.stamp > z.stamp
                                   => y.receivedAt > z.receivedAt + TTL
  <2>1. CASE g \in offered
    BY <1>4, <1>8, <2>1 DEF HistoryInv, NoMissedPair, Across
  <2>2. CASE g = r
    <3>1. z = x /\ g.timestamp = evictorTick
      BY <1>3, <1>8, <2>2
    <3>2. QED
      BY <1>1, <1>2, <1>7, <3>1
  <2>3. QED
    BY <1>1, <1>8, <2>1, <2>2
<1>9. NoMissedPair'
  BY <1>8 DEF NoMissedPair, Across
<1>10. QED
  BY <1>5, <1>6, <1>9 DEF HistoryInv

LEMMA HistoryByRest ==
  ASSUME IInv, HistoryInv,
         \/ \E path \in Paths : Reset(path)
         \/ EvictorTick \/ EvictorStop \/ EvictLock \/ EvictUnlock \/ Close \/ Receive \/ Advance
         \/ UNCHANGED vars
  PROVE  HistoryInv'
<1>1. /\ offered' = offered /\ accepted' = accepted
      /\ Known' \subseteq Known
      /\ Occupied' \subseteq Occupied /\ \A q \in Occupied' : buckets'[q] = buckets[q]
  <2>1. CASE \E path \in Paths : Reset(path)
    BY <2>1, KnownByReset DEF Reset, channel
  <2>2. CASE ~ \E path \in Paths : Reset(path)
    <3>1. UNCHANGED <<buckets, offered, superseded, forgotten, accepted>>
      BY <2>2 DEF EvictorTick, EvictorStop, EvictLock, EvictUnlock, Close, CloseBegin, CloseWait,
                  CloseFinish, Receive, Advance, vars, channel, history
    <3>2. QED
      BY <3>1 DEF Known, Occupied
  <2>3. QED
    BY <2>1, <2>2
<1>2. Clocked'
  <2>1. CASE EvictorTick
    BY <1>1, <2>1 DEF EvictorTick, HistoryInv, Clocked, IInv, TypeOK
  <2>2. CASE Advance
    <3>1. now \in Nat /\ Horizon \in Nat /\ now <= Horizon /\ evictorTick \in Nat
      BY MatcherAssumption DEF HistoryInv, Clocked, IInv, TypeOK
    <3>2. now <= now' /\ now' \in Nat /\ now' <= Horizon
      BY <2>2, <3>1 DEF Advance
    <3>3. tickC' = now' \/ tickC' = tickC
      BY <2>2 DEF Advance
    <3>4. tickC' # NoTick => tickC' <= now'
      BY <3>1, <3>2, <3>3 DEF HistoryInv, Clocked, IInv, TypeOK
    <3>5. evictorTick' = evictorTick
      BY <2>2 DEF Advance, lifecycle
    <3>6. \A r \in offered' : r.timestamp <= now'
      BY <1>1, <3>1, <3>2 DEF HistoryInv, Clocked, IInv, TypeOK, Results
    <3>7. QED
      BY <3>1, <3>2, <3>4, <3>5, <3>6 DEF HistoryInv, Clocked
  <2>3. CASE ~EvictorTick /\ ~Advance
    <3>1. UNCHANGED <<now, tickC, evictorTick>>
      BY <2>3 DEF Reset, EvictorStop, EvictLock, EvictUnlock, Close, CloseBegin, CloseWait,
                  CloseFinish, Receive, vars, lifecycle, clock
    <3>2. QED
      BY <1>1, <3>1 DEF HistoryInv, Clocked
  <2>4. QED
    BY <2>1, <2>2, <2>3
<1>3. Numbered' /\ NoneCame'
  BY <1>1 DEF HistoryInv, Numbered, NoneCame
<1>4. NoMissedPair'
  BY <1>1, StillNotMissed DEF HistoryInv
<1>5. QED
  BY <1>2, <1>3, <1>4 DEF HistoryInv

LEMMA HistoryInductive == IInv /\ HistoryInv /\ [Next]_vars => HistoryInv'
  BY HistoryByIngest, HistoryByEvict, HistoryByRest DEF Next, Evictor

THEOREM HistoryInvariant == Spec => [](IInv /\ HistoryInv)
  BY InitInvariant, StepInvariant, HistoryInitially, HistoryInductive, PTL DEF Spec

(* No event is reported as an orphan before its TTL is over, nor while an    *)
(* event that came in time could have been compared with it.                 *)
THEOREM OrphansMissedNobody == Spec => []NoMissedPair
  BY HistoryInvariant, PTL DEF HistoryInv

-----------------------------------------------------------------------------
(* The refinement of EventPairing, step by step *)

PendingItems == {buckets[p] : p \in Occupied}

Orphans == {r \in offered : r.kind = "ORPHAN"}
Compared == {r \in offered : r.kind # "ORPHAN"}

PairOf(r) == AbstractSet(Sides(r))

LEMMA SeenStamps ==
  ASSUME NEW e, Numbered, e \in Pairing!Seen
  PROVE  e.stamp \in 1..accepted
<1>1. \A x \in Known : Abstract(x).stamp \in 1..accepted
  BY DEF Numbered, Abstract
<1>2. CASE e \in AbstractSet({buckets[p] : p \in Occupied})
  BY <1>1, <1>2, KnownMembers DEF AbstractSet
<1>3. CASE e \in AbstractSet(UNION {Sides(r) : r \in Orphans})
  <2>1. PICK x \in UNION {Sides(r) : r \in Orphans} : e = Abstract(x)
    BY <1>3 DEF AbstractSet
  <2>2. x \in Known
    BY <2>1, KnownMembers DEF Orphans
  <2>3. QED
    BY <1>1, <2>1, <2>2
<1>4. CASE e \in UNION {PairOf(r) : r \in Compared}
  <2>1. PICK r \in Compared : e \in PairOf(r)
    BY <1>4
  <2>2. PICK x \in Sides(r) : e = Abstract(x)
    BY <2>1 DEF PairOf, AbstractSet
  <2>3. x \in Known
    BY <2>1, <2>2, KnownMembers DEF Compared
  <2>4. QED
    BY <1>1, <2>2, <2>3
<1>5. CASE e \in AbstractSet(superseded) \/ e \in AbstractSet(forgotten)
  BY <1>1, <1>5, KnownMembers DEF AbstractSet
<1>6. QED
  BY <1>2, <1>3, <1>4, <1>5 DEF Pairing!Seen, Pairing!Paired, Orphans, Compared, PairOf

LEMMA PairingInitially == Init => Pairing!Init
<1> SUFFICES ASSUME Init PROVE Pairing!Init
  OBVIOUS
<1>1. Occupied = {} /\ offered = {} /\ superseded = {} /\ forgotten = {}
  BY DEF Init, Occupied
<1>2. QED
  BY <1>1 DEF Pairing!Init, AbstractSet

LEMMA AbstractPlaces ==
  ASSUME NEW x \in Items, NEW y \in Items
  PROVE  /\ Abstract(x).key = Abstract(y).key /\ Abstract(x).source = Abstract(y).source
                <=> Place(x) = Place(y)
         /\ Abstract(x).key = Abstract(y).key /\ Abstract(x).source # Abstract(y).source
                <=> Place(x) = Across(y)
  BY DEF Abstract, Place, Across, Items, opposite, Sources

(* The image of the buffer, and how it changes with the buffer. *)
Pending == AbstractSet({buckets[p] : p \in Occupied})

LEMMA PendingMembers ==
  ASSUME NEW e
  PROVE  /\ e \in Pending <=> \E p \in Occupied : e = Abstract(buckets[p])
         /\ e \in Pending' <=> \E p \in Occupied' : e = Abstract(buckets'[p])
  BY DEF Pending, AbstractSet

LEMMA PlacesTyped ==
  ASSUME IInv, NEW p \in Occupied
  PROVE  p \in Places /\ buckets[p] \in Items /\ Place(buckets[p]) = p
  BY DEF IInv, TypeOK, Occupied

LEMMA PendingLosesOne ==
  ASSUME IInv, NEW p \in Occupied, Occupied' = Occupied \ {p},
         \A q \in Occupied' : buckets'[q] = buckets[q]
  PROVE  Pending' = Pending \ {Abstract(buckets[p])} /\ Abstract(buckets[p]) \in Pending
<1>1. ASSUME NEW q \in Occupied, Abstract(buckets[q]) = Abstract(buckets[p]) PROVE q = p
  <2>1. Place(buckets[q]) = Place(buckets[p])
    BY <1>1, PlacesTyped, AbstractPlaces
  <2>2. QED
    BY <2>1, PlacesTyped
<1>2. \A e : e \in Pending' <=> e \in Pending /\ e # Abstract(buckets[p])
  BY <1>1, PendingMembers
<1>3. QED
  BY <1>2, PendingMembers

(* The images of what was offered, replaced and cleared. *)
PairedImage == {AbstractSet(Sides(r)) : r \in {x \in offered : x.kind # "ORPHAN"}}
AgedImage == AbstractSet(UNION {Sides(r) : r \in {x \in offered : x.kind = "ORPHAN"}})
SupersededImage == AbstractSet(superseded)
ForgottenImage == AbstractSet(forgotten)

(* EventPairing's definitions, of the images. *)
LEMMA PairOfImages ==
  ASSUME NEW e, NEW f \in Pending, f.key = e.key, f.source # e.source,
         Pending' = Pending \ {f}, PairedImage' = PairedImage \cup {{f, e}},
         AgedImage' = AgedImage, SupersededImage' = SupersededImage,
         ForgottenImage' = ForgottenImage
  PROVE  Pairing!Pair(e)
<1>1. f \in Pairing!Counterparts(e)
  BY DEF Pairing!Counterparts, Pending
<1>2. /\ Pending' = Pending \ {f} /\ PairedImage' = PairedImage \cup {{f, e}}
      /\ AgedImage' = AgedImage /\ SupersededImage' = SupersededImage
      /\ ForgottenImage' = ForgottenImage
  OBVIOUS
<1>3. QED
  BY <1>1, <1>2, Zenon DEF Pairing!Pair, Pending, PairedImage, AgedImage, SupersededImage, ForgottenImage

LEMMA MatchImplements ==
  ASSUME IInv, NEW item \in Items, IngestMatch(item), UNCHANGED forgotten
  PROVE  Pairing!Pair(Abstract(item))
<1> DEFINE p == Across(item)
           c == buckets[p]
           r == resolveMatch(item, c, now)
           e == Abstract(item)
<1>1. /\ p \in Occupied /\ c \in Items /\ Occupied' = Occupied \ {p}
      /\ \A q \in Occupied' : buckets'[q] = buckets[q]
      /\ offered' = offered \cup {r} /\ superseded' = superseded /\ forgotten' = forgotten
  BY MatchEffect
<1>2. Sides(r) = {item, c} /\ r.kind # "ORPHAN"
  BY <1>1, MatchSides, MatchResultTyped DEF IInv, TypeOK
<1> HIDE DEF r
<1>3. Pending' = Pending \ {Abstract(c)} /\ Abstract(c) \in Pending
  BY <1>1, PendingLosesOne
<1>4. Abstract(c).key = e.key /\ Abstract(c).source # e.source
  BY <1>1, PlacesTyped, AbstractPlaces
<1>5. Compared' = Compared \cup {r} /\ Orphans' = Orphans
  BY <1>1, <1>2 DEF Compared, Orphans
<1>6. PairOf(r) = {Abstract(c), e}
  BY <1>2 DEF PairOf, AbstractSet
<1>7. PairedImage' = PairedImage \cup {{Abstract(c), e}}
  BY <1>5, <1>6 DEF PairedImage, Compared, PairOf
<1>8. /\ AgedImage' = AgedImage /\ SupersededImage' = SupersededImage
      /\ ForgottenImage' = ForgottenImage
  BY <1>1, <1>5 DEF AgedImage, SupersededImage, ForgottenImage, Orphans
<1> HIDE DEF c, e
<1>9. QED
  BY <1>3, <1>4, <1>7, <1>8, PairOfImages DEF e

LEMMA WaitOfImages ==
  ASSUME NEW e, NEW S, \A f : f \in S <=> f \in Pending /\ f.key = e.key /\ f.source = e.source,
         \A f \in Pending : ~(f.key = e.key /\ f.source # e.source),
         Pending' = (Pending \ S) \cup {e}, SupersededImage' = SupersededImage \cup S,
         PairedImage' = PairedImage, AgedImage' = AgedImage, ForgottenImage' = ForgottenImage
  PROVE  Pairing!Wait(e)
<1>1. Pairing!Counterparts(e) = {} /\ Pairing!SamePlace(e) = S
  BY DEF Pairing!Counterparts, Pairing!SamePlace, Pending
<1>2. /\ Pending' = (Pending \ Pairing!SamePlace(e)) \cup {e}
      /\ SupersededImage' = SupersededImage \cup Pairing!SamePlace(e)
      /\ PairedImage' = PairedImage /\ AgedImage' = AgedImage
      /\ ForgottenImage' = ForgottenImage
  BY <1>1
<1> HIDE DEF Pairing!SamePlace, Pairing!Counterparts
<1>3. QED
  BY <1>1, <1>2, Zenon DEF Pairing!Wait, Pending, PairedImage, AgedImage, SupersededImage, ForgottenImage

LEMMA BufferImplements ==
  ASSUME IInv, NEW item \in Items, IngestBuffer(item), UNCHANGED forgotten
  PROVE  Pairing!Wait(Abstract(item))
<1> DEFINE p == Place(item)
           e == Abstract(item)
           S == AbstractSet({buckets[p]} \ {NoItem})
<1>1. /\ p \in Places /\ Across(item) \notin Occupied
      /\ Occupied' = Occupied \cup {p} /\ buckets'[p] = item
      /\ \A q \in Occupied' : q # p => buckets'[q] = buckets[q]
      /\ offered' = offered /\ forgotten' = forgotten
      /\ superseded' = superseded \cup ({buckets[p]} \ {NoItem})
  BY BufferEffect
<1>2. \A f : f \in S <=> p \in Occupied /\ f = Abstract(buckets[p])
  BY <1>1 DEF AbstractSet, Occupied
<1>3. ASSUME NEW f PROVE f \in S <=> f \in Pending /\ f.key = e.key /\ f.source = e.source
  <2>1. ASSUME NEW q \in Occupied
        PROVE  Abstract(buckets[q]).key = e.key /\ Abstract(buckets[q]).source = e.source <=> q = p
    BY PlacesTyped, AbstractPlaces
  <2> HIDE DEF S, p, e
  <2>2. QED
    BY <1>2, <2>1, PendingMembers
<1>4. \A f \in Pending : ~(f.key = e.key /\ f.source # e.source)
  <2>1. ASSUME NEW q \in Occupied
        PROVE  ~(Abstract(buckets[q]).key = e.key /\ Abstract(buckets[q]).source # e.source)
    BY <1>1, PlacesTyped, AbstractPlaces
  <2>2. QED
    BY <2>1, PendingMembers
<1>5. Pending' = (Pending \ S) \cup {e}
  <2>1. ASSUME NEW q \in Occupied, q # p PROVE Abstract(buckets[q]) \notin S
    <3>1. Place(buckets[q]) # p
      BY <2>1, PlacesTyped
    <3>2. ~(Abstract(buckets[q]).key = e.key /\ Abstract(buckets[q]).source = e.source)
      BY <3>1, PlacesTyped, AbstractPlaces
    <3>3. QED
      BY <1>3, <3>2
  <2>2. ASSUME NEW f PROVE f \in Pending' <=> (f \in Pending /\ f \notin S) \/ f = e
    <3>1. f \in Pending' <=> \E q \in Occupied' : f = Abstract(buckets'[q])
      BY PendingMembers
    <3>2. f \in Pending <=> \E q \in Occupied : f = Abstract(buckets[q])
      BY PendingMembers
    <3> HIDE DEF S, p
    <3>3. CASE f \in Pending'
      BY <1>1, <2>1, <3>1, <3>2, <3>3
    <3>4. CASE f = e
      BY <1>1, <3>1, <3>4
    <3>5. CASE f \in Pending /\ f \notin S
      <4>1. PICK q \in Occupied : f = Abstract(buckets[q])
        BY <3>2, <3>5
      <4>2. q # p
        BY <1>2, <3>5, <4>1
      <4>3. q \in Occupied' /\ buckets'[q] = buckets[q]
        BY <1>1, <4>1, <4>2
      <4>4. QED
        BY <3>1, <3>5, <4>1, <4>3
    <3>6. QED
      BY <3>3, <3>4, <3>5
  <2>3. QED
    BY <2>2
<1>6. SupersededImage' = SupersededImage \cup S
  BY <1>1 DEF SupersededImage, AbstractSet
<1>7. PairedImage' = PairedImage /\ AgedImage' = AgedImage /\ ForgottenImage' = ForgottenImage
  BY <1>1 DEF PairedImage, AgedImage, ForgottenImage
<1> HIDE DEF S, e, p
<1>8. QED
  BY <1>3, <1>4, <1>5, <1>6, <1>7, WaitOfImages DEF e

(* An event the matcher accepts is one EventPairing has not seen. *)
LEMMA IngestImplements ==
  ASSUME IInv, HistoryInv, NEW s \in Sources, NEW t \in EventTypes, NEW f \in Frames,
         Ingest(s, t, f)
  PROVE  Pairing!Next
<1>1. PICK x \in Items :
        /\ x.stamp = accepted + 1
        /\ IngestMatch(x) \/ IngestBuffer(x)
  BY ArrivalTyped DEF Arrival
<1>2. accepted < MaxEvents /\ accepted \in Nat /\ MaxEvents \in Nat /\ UNCHANGED forgotten
  BY MatcherAssumption DEF Ingest, IInv, TypeOK
<1> DEFINE e == Abstract(x)
<1>3. e \in Pairing!Events
  <2>1. x \in Items /\ x.stamp = accepted + 1
    BY <1>1
  <2>2. QED
    BY <1>2, <2>1 DEF Abstract, Items, Sources, Pairing!Events, Pairing!Sources
<1>4. e.stamp = accepted + 1
  <2>1. x.stamp = accepted + 1
    BY <1>1
  <2>2. QED
    BY <2>1 DEF Abstract
<1>5. Pairing!Pair(e) \/ Pairing!Wait(e)
  BY <1>1, <1>2, MatchImplements, BufferImplements
<1> HIDE DEF e
<1>6. e \notin Pairing!Seen
  <2>1. e \in Pairing!Seen => e.stamp \in 1..accepted
    BY SeenStamps DEF HistoryInv
  <2>2. QED
    BY <1>2, <1>4, <2>1
<1>7. Pairing!Arrive(e)
  BY <1>5, <1>6 DEF Pairing!Arrive
<1>8. QED
  BY <1>3, <1>7 DEF Pairing!Next

LEMMA AgeOfImages ==
  ASSUME NEW e \in Pending,
         Pending' = Pending \ {e}, AgedImage' = AgedImage \cup {e},
         PairedImage' = PairedImage, SupersededImage' = SupersededImage,
         ForgottenImage' = ForgottenImage
  PROVE  Pairing!Age(e)
<1>1. /\ e \in Pending /\ Pending' = Pending \ {e} /\ AgedImage' = AgedImage \cup {e}
      /\ PairedImage' = PairedImage /\ SupersededImage' = SupersededImage
      /\ ForgottenImage' = ForgottenImage
  OBVIOUS
<1>2. QED
  BY <1>1, Zenon DEF Pairing!Age, Pending, PairedImage, AgedImage, SupersededImage, ForgottenImage

LEMMA EvictImplements ==
  ASSUME IInv, HistoryInv, NEW p \in Places, EvictItem(p)
  PROVE  Pairing!Next
<1> DEFINE x == buckets[p]
           r == buildOrphan(x, evictorTick)
           e == Abstract(x)
<1>1. /\ p \in Occupied /\ x \in Items /\ Occupied' = Occupied \ {p}
      /\ \A q \in Occupied' : buckets'[q] = buckets[q]
      /\ offered' = offered \cup {r}
      /\ UNCHANGED <<superseded, forgotten>>
  BY EvictEffect
<1>2. Sides(r) = {x} /\ r.kind = "ORPHAN"
  BY <1>1, OrphanSides DEF IInv, TypeOK
<1>3. Pending' = Pending \ {e} /\ e \in Pending
  BY <1>1, PendingLosesOne
<1> HIDE DEF r
<1>4. Orphans' = Orphans \cup {r} /\ Compared' = Compared
  BY <1>1, <1>2 DEF Orphans, Compared
<1>5. AgedImage' = AgedImage \cup {e}
  <2> DEFINE before == UNION {Sides(g) : g \in Orphans}
             after == UNION {Sides(g) : g \in Orphans'}
  <2>1. after = before \cup {x}
    BY <1>2, <1>4
  <2>2. AgedImage = AbstractSet(before) /\ AgedImage' = AbstractSet(after)
    BY DEF AgedImage, Orphans
  <2> HIDE DEF before, after
  <2>3. AbstractSet(before \cup {x}) = AbstractSet(before) \cup {Abstract(x)}
    BY DEF AbstractSet
  <2>4. QED
    BY <2>1, <2>2, <2>3
<1>6. PairedImage' = PairedImage
  BY <1>4 DEF PairedImage, Compared
<1>7. SupersededImage' = SupersededImage /\ ForgottenImage' = ForgottenImage
  BY <1>1 DEF SupersededImage, ForgottenImage
<1>8. e \in Pairing!Events
  <2>1. x \in Known
    BY <1>1, KnownMembers
  <2>2. x.stamp \in 1..accepted /\ accepted <= MaxEvents /\ accepted \in Nat /\ MaxEvents \in Nat
    BY <2>1, MatcherAssumption DEF HistoryInv, Numbered, IInv, TypeOK
  <2>3. x.stamp \in 1..MaxEvents
    BY <2>2
  <2> HIDE DEF x
  <2>4. QED
    BY <1>1, <2>3 DEF Abstract, Items, Sources, Pairing!Events, Pairing!Sources
<1> HIDE DEF e
<1>9. Pairing!Age(e)
  BY <1>3, <1>5, <1>6, <1>7, AgeOfImages
<1>10. QED
  BY <1>8, <1>9, Zenon DEF Pairing!Next

LEMMA ForgetOfImages ==
  ASSUME Pending' = {}, ForgottenImage' = ForgottenImage \cup Pending,
         PairedImage' = PairedImage, AgedImage' = AgedImage, SupersededImage' = SupersededImage
  PROVE  Pairing!Forget
<1>1. /\ Pending' = {} /\ ForgottenImage' = ForgottenImage \cup Pending
      /\ PairedImage' = PairedImage /\ AgedImage' = AgedImage
      /\ SupersededImage' = SupersededImage
  OBVIOUS
<1>2. QED
  BY <1>1, Zenon DEF Pairing!Forget, Pending, PairedImage, AgedImage, SupersededImage, ForgottenImage

LEMMA ResetImplements ==
  ASSUME IInv, NEW path \in Paths, Reset(path)
  PROVE  Pairing!Next
<1>1. Occupied' = {}
  BY KnownByReset
<1>2. /\ offered' = offered /\ superseded' = superseded
      /\ forgotten' = forgotten \cup {buckets[p] : p \in Occupied}
  BY DEF Reset, channel
<1>3. Pending' = {}
  BY <1>1, PendingMembers
<1>4. ForgottenImage' = ForgottenImage \cup Pending
  BY <1>2 DEF ForgottenImage, Pending, AbstractSet
<1>5. PairedImage' = PairedImage /\ AgedImage' = AgedImage /\ SupersededImage' = SupersededImage
  BY <1>2 DEF PairedImage, AgedImage, SupersededImage
<1>6. QED
  BY <1>3, <1>4, <1>5, ForgetOfImages DEF Pairing!Next

LEMMA RestStutters ==
  ASSUME \/ EvictorTick \/ EvictorStop \/ EvictLock \/ EvictUnlock \/ Close \/ Receive \/ Advance
         \/ UNCHANGED vars
  PROVE  UNCHANGED Pairing!pairingVars
<1>1. UNCHANGED <<buckets, offered, superseded, forgotten>>
  BY DEF EvictorTick, EvictorStop, EvictLock, EvictUnlock, Close, CloseBegin, CloseWait,
         CloseFinish, Receive, Advance, vars, channel, history
<1>2. Occupied' = Occupied
  BY <1>1 DEF Occupied
<1>3. QED
  BY <1>1, <1>2 DEF Pairing!pairingVars

LEMMA StepImplements ==
    IInv /\ HistoryInv /\ [Next]_vars => [Pairing!Next]_(Pairing!pairingVars)
<1> SUFFICES ASSUME IInv, HistoryInv, [Next]_vars
             PROVE  Pairing!Next \/ UNCHANGED Pairing!pairingVars
  OBVIOUS
<1>1. CASE \E s \in Sources, t \in EventTypes, f \in Frames : Ingest(s, t, f)
  BY <1>1, IngestImplements
<1>2. CASE \E p \in Places : EvictItem(p)
  BY <1>2, EvictImplements
<1>3. CASE \E path \in Paths : Reset(path)
  BY <1>3, ResetImplements
<1>4. CASE \/ EvictorTick \/ EvictorStop \/ EvictLock \/ EvictUnlock \/ Close \/ Receive
           \/ Advance \/ UNCHANGED vars
  BY <1>4, RestStutters
<1>5. QED
  BY <1>1, <1>2, <1>3, <1>4 DEF Next, Evictor

(* Whatever the constants, the matcher with its mutex, channel, sweeps and    *)
(* ticks does to every event only what EventPairing promises.                *)
THEOREM MatcherImplementsPairing == Spec => ImplementsPairing
<1>1. Init => Pairing!Init
  BY PairingInitially
<1>2. IInv /\ HistoryInv /\ [Next]_vars => [Pairing!Next]_(Pairing!pairingVars)
  BY StepImplements
<1>3. QED
  BY <1>1, <1>2, HistoryInvariant, PTL DEF Spec, ImplementsPairing, Pairing!Spec

-----------------------------------------------------------------------------
(* What EventPairing promises, of the matcher's own state *)

Promised == INSTANCE EventPairingProofs WITH
    Keys <- EventTypes \X Ids,
    Stamps <- 1..MaxEvents,
    pending <- AbstractSet({buckets[p] : p \in Occupied}),
    paired <- {AbstractSet(Sides(r)) : r \in {x \in offered : x.kind # "ORPHAN"}},
    aged <- AbstractSet(UNION {Sides(r) : r \in {x \in offered : x.kind = "ORPHAN"}}),
    superseded <- AbstractSet(superseded),
    forgotten <- AbstractSet(forgotten)

LEMMA SameInit == Pairing!Init => Promised!Init
  BY DEF Pairing!Init, Promised!Init

LEMMA SameNext == Pairing!Next => Promised!Next
  BY Zenon DEF Pairing!Next, Pairing!Arrive, Pairing!Pair, Pairing!Wait, Pairing!Age, Pairing!Forget,
     Pairing!Seen, Pairing!Paired, Pairing!Events, Pairing!Sources, Pairing!Counterparts, Pairing!SamePlace,
     Promised!Next, Promised!Arrive, Promised!Pair, Promised!Wait, Promised!Age, Promised!Forget,
     Promised!Seen, Promised!Paired, Promised!Events, Promised!Sources, Promised!Counterparts, Promised!SamePlace

LEMMA SamePromises ==
    Promised!Promises =>
        Pairing!OnePendingPerKey /\ Pairing!FatesDisjoint /\ Pairing!PairsSound
  BY Zenon DEF Promised!Promises, Promised!OnePendingPerKey, Promised!FatesDisjoint,
     Promised!PairsSound, Promised!Paired, Promised!Events, Promised!Sources,
     Pairing!OnePendingPerKey, Pairing!FatesDisjoint, Pairing!PairsSound, Pairing!Paired,
     Pairing!Events, Pairing!Sources

(* Of every event the matcher ever accepted: it has one fate at most, no two  *)
(* that could be compared are waiting, and every comparison is of one event  *)
(* of each stream that is in no other.                                       *)
THEOREM EventsKeepPromises ==
    Spec => [](Pairing!OnePendingPerKey /\ Pairing!FatesDisjoint /\ Pairing!PairsSound)
<1>1. Init => Promised!IInv
  BY PairingInitially, SameInit, Promised!InitPromises
<1>2. IInv /\ HistoryInv /\ Promised!IInv /\ [Next]_vars => Promised!IInv'
  <2> SUFFICES ASSUME IInv, HistoryInv, Promised!IInv, [Next]_vars PROVE Promised!IInv'
    OBVIOUS
  <2>1. Pairing!Next \/ UNCHANGED Pairing!pairingVars
    BY StepImplements
  <2>2. Promised!Next \/ UNCHANGED Promised!pairingVars
    BY <2>1, SameNext DEF Pairing!pairingVars, Promised!pairingVars
  <2>3. QED
    BY <2>2, Promised!NextKeepsPromises
<1>3. Promised!IInv => Promised!Promises
  BY DEF Promised!IInv
<1>4. QED
  BY <1>1, <1>2, <1>3, SamePromises, HistoryInvariant, PTL DEF Spec

=============================================================================
