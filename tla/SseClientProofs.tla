--------------------------- MODULE SseClientProofs ---------------------------
(***************************************************************************)
(* Proofs about SseClient and its parser, for every backoff, alphabet of     *)
(* lines and length of a response body.                                     *)
(*                                                                          *)
(* The parser is given its lines one at a time, and what its frames ought to *)
(* be is said of the whole body: the proof follows the body as it grows by a *)
(* line, so the definitions of StreamParser are restated here with the body  *)
(* as a parameter.                                                          *)
(***************************************************************************)
EXTENDS SseClient, DataProofs

AllValues == {l.value : l \in AllLines}

Frames == [type : AllValues \cup {Message}, data : Seq(AllValues), verdict : Verdicts]

Typed ==
    /\ pc \in {"check", "connect", "reading", "judge", "wait", "returned"}
    /\ backoff \in Nat /\ fruitless \in 0..MaxFruitless

ParserTyped ==
    /\ lines \in Seq(AllLines)
    /\ eventType \in AllValues /\ dataLines \in Seq(AllValues)
    /\ dispatched \in Seq(Frames) /\ receivedAny \in BOOLEAN

BackoffInv ==
    /\ pc \in {"check", "connect", "reading", "judge"} => backoff = BackoffAfter(fruitless)
    /\ pc = "wait" => backoff = IF Productive THEN BackoffInitial ELSE BackoffAfter(fruitless)

-----------------------------------------------------------------------------
(* StreamParser's blocks, of any body *)

AfterLast(before) ==
    IF before = {} THEN 1 ELSE 1 + CHOOSE j \in before : \A k \in before : k <= j

StartIn(body, i) == AfterLast({j \in 1..(i - 1) : body[j] = Blank})

BlockIn(body, i) == SubSeq(body, StartIn(body, i), i - 1)

HasDataIn(body, i) == body[i] = Blank /\ ValuesOf(BlockIn(body, i), "data") # <<>>

EndsIn(body) ==
    Chosen([i \in 1..Len(body) |-> i], {i \in 1..Len(body) : HasDataIn(body, i)})

(* A frame is what the block before a position says it is. *)
IsFrameAt(body, i, frame) ==
    /\ frame.data = ValuesOf(BlockIn(body, i), "data")
    /\ frame.type = LastOr(ValuesOf(BlockIn(body, i), "event"), Message)

FramesOf(body, frames) ==
    /\ Len(frames) = Len(EndsIn(body))
    /\ \A k \in 1..Len(frames) : IsFrameAt(body, EndsIn(body)[k], frames[k])

(* What the parser holds is what the block that has begun says so far. *)
Holds(body, type, data) ==
    /\ data = ValuesOf(BlockIn(body, Len(body) + 1), "data")
    /\ type = LastOr(ValuesOf(BlockIn(body, Len(body) + 1), "event"), Empty)

FrameInv ==
    /\ FramesOf(lines, dispatched)
    /\ pc = "reading" => Holds(lines, eventType, dataLines)

(* The flag that parseStream returns says what the history does, which is    *)
(* what makes the wait of the next round the right one.                      *)
ParserInv == ParserTyped /\ (receivedAny <=> Productive) /\ FrameInv

IInv == Typed /\ ParserInv /\ BackoffInv

-----------------------------------------------------------------------------
(* Blocks of a body that grows by a line *)

LEMMA Greatest ==
  ASSUME NEW n \in Nat, NEW T, T \subseteq 1..n, T # {}
  PROVE  \E j \in T : \A k \in T : k <= j
<1> DEFINE D == {n - k : k \in T}
<1>1. D \subseteq Nat /\ D # {}
  <2>1. \A k \in T : n - k \in Nat
    OBVIOUS
  <2>2. PICK k \in T : TRUE
    OBVIOUS
  <2>3. n - k \in D
    BY <2>2
  <2>4. QED
    BY <2>1, <2>3
<1> HIDE DEF D
<1>2. PICK d \in D : \A e \in D : d <= e
  BY <1>1, LeastMember
<1>3. PICK j \in T : d = n - j
  BY DEF D
<1>4. \A k \in T : n - k \in D
  BY DEF D
<1>5. \A k \in T : k <= j
  BY <1>2, <1>3, <1>4
<1>6. QED
  BY <1>5

LEMMA StartRange ==
  ASSUME NEW body, NEW i \in Nat \ {0}
  PROVE  StartIn(body, i) \in 1..i
<1> DEFINE before == {j \in 1..(i - 1) : body[j] = Blank}
<1>1. CASE before = {}
  BY <1>1 DEF StartIn, AfterLast
<1>2. CASE before # {}
  <2>1. before \subseteq 1..(i - 1) /\ i - 1 \in Nat
    OBVIOUS
  <2> DEFINE last == CHOOSE j \in before : \A k \in before : k <= j
  <2>2. StartIn(body, i) = 1 + last
    BY <1>2 DEF StartIn, AfterLast
  <2> HIDE DEF before
  <2>3. \E j \in before : \A k \in before : k <= j
    BY <1>2, <2>1, Greatest
  <2>4. last \in before
    BY <2>3
  <2> HIDE DEF last
  <2>5. QED
    BY <2>1, <2>2, <2>4
<1>3. QED
  BY <1>1, <1>2

LEMMA BlockType ==
  ASSUME NEW body \in Seq(AllLines), NEW i \in 1..(Len(body) + 1)
  PROVE  BlockIn(body, i) \in Seq(AllLines)
<1>1. StartIn(body, i) \in 1..i /\ Len(body) \in Nat
  BY StartRange, LenProperties
<1>2. \A k \in StartIn(body, i)..(i - 1) : body[k] \in AllLines
  BY <1>1, ElementOfSeq
<1>3. StartIn(body, i) \in Int /\ i - 1 \in Int
  BY <1>1
<1>4. QED
  BY <1>2, <1>3, SubSeqProperties DEF BlockIn

(* Earlier blocks stay what they were. *)
LEMMA StartStays ==
  ASSUME NEW body \in Seq(AllLines), NEW l \in AllLines, NEW i \in 1..(Len(body) + 1)
  PROVE  StartIn(Append(body, l), i) = StartIn(body, i)
<1>1. Len(body) \in Nat /\ \A j \in 1..Len(body) : Append(body, l)[j] = body[j]
  BY LenProperties, AppendProperties
<1>2. {j \in 1..(i - 1) : Append(body, l)[j] = Blank} = {j \in 1..(i - 1) : body[j] = Blank}
  BY <1>1
<1>3. QED
  BY <1>2 DEF StartIn

LEMMA BlockStays ==
  ASSUME NEW body \in Seq(AllLines), NEW l \in AllLines, NEW i \in 1..(Len(body) + 1)
  PROVE  BlockIn(Append(body, l), i) = BlockIn(body, i)
<1> DEFINE longer == Append(body, l)
           s == StartIn(body, i)
<1>1. /\ Len(body) \in Nat /\ \A j \in 1..Len(body) : longer[j] = body[j]
      /\ \A j \in 1..Len(body) : body[j] \in AllLines
  BY LenProperties, AppendProperties, ElementOfSeq
<1>2. s \in 1..i /\ s \in Int /\ i - 1 \in Int /\ StartIn(longer, i) = s
  BY <1>1, StartRange, StartStays
<1> HIDE DEF s, longer
<1>3. /\ \A j \in s..(i - 1) : body[j] \in AllLines
      /\ \A j \in s..(i - 1) : longer[j] \in AllLines
      /\ \A j \in 1..((i - 1) - s + 1) : longer[s + j - 1] = body[s + j - 1]
  BY <1>1, <1>2
<1> DEFINE a == SubSeq(longer, s, i - 1)
           b == SubSeq(body, s, i - 1)
           n == IF s <= i - 1 THEN (i - 1) - s + 1 ELSE 0
<1>4. /\ a \in Seq(AllLines) /\ Len(a) = n
      /\ \A j \in 1..((i - 1) - s + 1) : a[j] = longer[s + j - 1]
  BY <1>2, <1>3, SubSeqProperties
<1>5. /\ b \in Seq(AllLines) /\ Len(b) = n
      /\ \A j \in 1..((i - 1) - s + 1) : b[j] = body[s + j - 1]
  BY <1>2, <1>3, SubSeqProperties
<1>6. n = (i - 1) - s + 1
  BY <1>2
<1> HIDE DEF a, b, n
<1>7. a = b
  BY <1>3, <1>4, <1>5, <1>6, SeqEqual
<1>8. QED
  BY <1>2, <1>7 DEF BlockIn, a, b, longer, s

(* A blank line begins a block; any other adds to the one that has begun. *)
LEMMA StartGrows ==
  ASSUME NEW body \in Seq(AllLines), NEW l \in AllLines
  PROVE  StartIn(Append(body, l), Len(body) + 2) =
             IF l = Blank THEN Len(body) + 2 ELSE StartIn(body, Len(body) + 1)
<1> DEFINE n == Len(body)
           longer == Append(body, l)
           before == {j \in 1..((n + 2) - 1) : longer[j] = Blank}
<1>1. n \in Nat /\ longer[n + 1] = l /\ \A j \in 1..n : longer[j] = body[j]
  BY LenProperties, AppendProperties
<1>2. CASE l = Blank
  <2> DEFINE last == CHOOSE j \in before : \A k \in before : k <= j
  <2>1. n + 1 \in before /\ \A k \in before : k <= n + 1 /\ k \in Int
    BY <1>1, <1>2
  <2>2. StartIn(longer, n + 2) = 1 + last
    BY <2>1 DEF StartIn, AfterLast
  <2> HIDE DEF before
  <2>3. last \in before /\ \A k \in before : k <= last
    BY <2>1
  <2> HIDE DEF last, longer
  <2>4. last = n + 1
    BY <1>1, <2>1, <2>3
  <2>5. QED
    BY <1>1, <1>2, <2>2, <2>4 DEF longer
<1>3. CASE l # Blank
  <2>1. before = {j \in 1..((n + 1) - 1) : body[j] = Blank}
    BY <1>1, <1>3
  <2>2. StartIn(longer, n + 2) = AfterLast(before) /\ StartIn(body, n + 1) = AfterLast(before)
    BY <2>1 DEF StartIn
  <2>3. QED
    BY <1>3, <2>2
<1>4. QED
  BY <1>2, <1>3

LEMMA BlockGrows ==
  ASSUME NEW body \in Seq(AllLines), NEW l \in AllLines
  PROVE  BlockIn(Append(body, l), Len(body) + 2) =
             IF l = Blank THEN <<>> ELSE Append(BlockIn(body, Len(body) + 1), l)
<1> DEFINE n == Len(body)
           longer == Append(body, l)
           s == StartIn(body, n + 1)
<1>1. /\ n \in Nat /\ longer \in Seq(AllLines) /\ Len(longer) = n + 1 /\ longer[n + 1] = l
      /\ \A j \in 1..n : longer[j] = body[j]
  BY LenProperties, AppendProperties
<1>2. CASE l = Blank
  <2>1. StartIn(longer, n + 2) = n + 2
    BY <1>2, StartGrows
  <2>2. SubSeq(longer, n + 2, (n + 2) - 1) = <<>>
    BY <1>1, SubSeqEmpty
  <2>3. QED
    BY <1>2, <2>1, <2>2 DEF BlockIn
<1>3. CASE l # Blank
  <2>1. StartIn(longer, n + 2) = s
    BY <1>3, StartGrows
  <2>2. s \in 1..(n + 1) /\ s \in Int
    BY <1>1, StartRange
  <2> DEFINE old == BlockIn(body, n + 1)
             new == SubSeq(longer, s, (n + 2) - 1)
  <2>3. old \in Seq(AllLines)
    BY <1>1, BlockType
  <2>4. /\ Append(old, l) \in Seq(AllLines) /\ Len(Append(old, l)) = Len(old) + 1
        /\ \A j \in 1..Len(old) : Append(old, l)[j] = old[j]
        /\ Append(old, l)[Len(old) + 1] = l
    BY <2>3, AppendProperties
  <2>5. /\ Len(old) = (n + 1) - s
        /\ \A j \in 1..((n + 1) - s) : old[j] = body[s + j - 1]
    <3>1. old = SubSeq(body, s, n)
      <4>1. (n + 1) - 1 = n
        BY <1>1
      <4>2. QED
        BY <4>1 DEF BlockIn
    <3> HIDE DEF old, s, n
    <3>2. \A j \in s..n : body[j] \in AllLines
      BY <2>2, ElementOfSeq DEF n
    <3>3. /\ Len(SubSeq(body, s, n)) = IF s <= n THEN n - s + 1 ELSE 0
          /\ \A j \in 1..(n - s + 1) : SubSeq(body, s, n)[j] = body[s + j - 1]
      BY <1>1, <2>2, <3>2, SubSeqProperties
    <3>4. QED
      BY <1>1, <2>2, <3>1, <3>3
  <2>6. /\ new \in Seq(AllLines) /\ Len(new) = (n + 2) - s
        /\ \A j \in 1..((n + 2) - s) : new[j] = longer[s + j - 1]
    <3> HIDE DEF s, n, longer
    <3>1. \A j \in s..((n + 2) - 1) : longer[j] \in AllLines
      BY <1>1, <2>2, ElementOfSeq
    <3>2. /\ new \in Seq(AllLines)
          /\ Len(new) = IF s <= (n + 2) - 1 THEN (n + 2) - 1 - s + 1 ELSE 0
          /\ \A j \in 1..((n + 2) - 1 - s + 1) : new[j] = longer[s + j - 1]
      BY <1>1, <2>2, <3>1, SubSeqProperties
    <3>3. QED
      BY <1>1, <2>2, <3>2
  <2>7. BlockIn(longer, n + 2) = new
    BY <2>1 DEF BlockIn
  <2> HIDE DEF old, new, s, n, longer
  <2>8. \A j \in 1..Len(new) : new[j] = Append(old, l)[j]
    <3>1. ASSUME NEW j \in 1..Len(new) PROVE new[j] = Append(old, l)[j]
      <4>1. CASE j = (n + 2) - s
        BY <1>1, <2>2, <2>4, <2>5, <2>6, <4>1
      <4>2. CASE j \in 1..((n + 1) - s)
        <5>1. s + j - 1 \in 1..n
          BY <1>1, <2>2, <4>2
        <5>2. QED
          BY <1>1, <2>2, <2>4, <2>5, <2>6, <4>2, <5>1
      <4>3. j \in 1..((n + 2) - s)
        BY <2>6
      <4>4. j = (n + 2) - s \/ j \in 1..((n + 1) - s)
        BY <1>1, <2>2, <4>3
      <4>5. QED
        BY <4>1, <4>2, <4>4
    <3>2. QED
      BY <3>1
  <2>9. Len(new) = Len(Append(old, l))
    BY <1>1, <2>2, <2>4, <2>5, <2>6
  <2>10. new = Append(old, l)
    BY <2>4, <2>6, <2>8, <2>9, SeqEqual
  <2>11. QED
    BY <1>3, <2>7, <2>10 DEF old, n, longer
<1>4. QED
  BY <1>2, <1>3

-----------------------------------------------------------------------------
(* The values of a block that grows by a line *)

LEMMA ValuesType ==
  ASSUME NEW block \in Seq(AllLines), NEW f
  PROVE  ValuesOf(block, f) \in Seq(AllValues)
<1> DEFINE chosen == Chosen(block, FieldLines(f))
           values == [i \in DOMAIN chosen |-> chosen[i].value]
<1>1. chosen \in Seq(AllLines \cap FieldLines(f))
  BY ChosenType
<1>2. ValuesOf(block, f) = values
  BY DEF ValuesOf
<1> HIDE DEF chosen
<1>3. DOMAIN chosen = 1..Len(chosen) /\ Len(chosen) \in Nat
  BY <1>1, LenProperties
<1>4. \A i \in 1..Len(chosen) : chosen[i] \in AllLines
  BY <1>1, ElementOfSeq
<1>5. \A i \in 1..Len(chosen) : chosen[i].value \in AllValues
  BY <1>4 DEF AllValues
<1>6. values \in [1..Len(chosen) -> AllValues]
  BY <1>3, <1>5
<1> HIDE DEF values
<1>7. values \in Seq(AllValues)
  BY <1>3, <1>6, SeqDef
<1>8. QED
  BY <1>2, <1>7

LEMMA ValuesOfNone ==
  ASSUME NEW f
  PROVE  ValuesOf(<<>>, f) = <<>>
<1>1. Chosen(<<>>, FieldLines(f)) = <<>>
  BY ChosenOfNone
<1>2. QED
  BY <1>1 DEF ValuesOf

LEMMA ValuesGrow ==
  ASSUME NEW block \in Seq(AllLines), NEW l \in AllLines, NEW f
  PROVE  ValuesOf(Append(block, l), f) =
             IF l.field = f THEN Append(ValuesOf(block, f), l.value) ELSE ValuesOf(block, f)
<1> DEFINE old == Chosen(block, FieldLines(f))
           new == Chosen(Append(block, l), FieldLines(f))
           before == ValuesOf(block, f)
           after == ValuesOf(Append(block, l), f)
<1>1. new = IF l \in FieldLines(f) THEN Append(old, l) ELSE old
  BY ChosenAppend
<1>2. l \in FieldLines(f) <=> l.field = f
  BY DEF FieldLines
<1>3. /\ before = [i \in DOMAIN old |-> old[i].value]
      /\ after = [i \in DOMAIN new |-> new[i].value]
  BY DEF ValuesOf
<1>4. Append(block, l) \in Seq(AllLines)
  BY AppendProperties
<1>5. before \in Seq(AllValues) /\ after \in Seq(AllValues)
  BY <1>4, ValuesType
<1>6. old \in Seq(AllLines \cap FieldLines(f))
  BY ChosenType
<1> HIDE DEF old, new, before, after
<1>7. CASE l.field # f
  BY <1>1, <1>2, <1>3, <1>7 DEF before, after
<1>8. CASE l.field = f
  <2>1. new = Append(old, l) /\ l \in AllLines \cap FieldLines(f)
    BY <1>1, <1>2, <1>8
  <2>2. /\ new \in Seq(AllLines \cap FieldLines(f)) /\ Len(new) = Len(old) + 1
        /\ \A i \in 1..Len(old) : new[i] = old[i]
        /\ new[Len(old) + 1] = l
    BY <1>6, <2>1, AppendProperties
  <2>3. /\ DOMAIN old = 1..Len(old) /\ Len(old) \in Nat
        /\ DOMAIN new = 1..Len(new) /\ Len(new) \in Nat
        /\ DOMAIN before = 1..Len(before) /\ Len(before) \in Nat
        /\ DOMAIN after = 1..Len(after) /\ Len(after) \in Nat
    BY <1>5, <1>6, <2>2, LenProperties
  <2>4. DOMAIN before = DOMAIN old /\ DOMAIN after = DOMAIN new
    BY <1>3
  <2>5. Len(before) = Len(old) /\ Len(after) = Len(new)
    <3>1. ASSUME NEW a \in Nat, NEW b \in Nat, 1..a = 1..b PROVE a = b
      <4>1. a \in 1..a <=> a # 0
        OBVIOUS
      <4>2. b \in 1..b <=> b # 0
        OBVIOUS
      <4>3. a \in 1..b <=> a # 0 /\ a <= b
        OBVIOUS
      <4>4. b \in 1..a <=> b # 0 /\ b <= a
        OBVIOUS
      <4>5. QED
        BY <3>1, <4>1, <4>2, <4>3, <4>4
    <3>2. 1..Len(before) = 1..Len(old) /\ 1..Len(after) = 1..Len(new)
      BY <2>3, <2>4
    <3>3. QED
      BY <2>3, <3>1, <3>2
  <2>6. l.value \in AllValues
    BY DEF AllValues
  <2> DEFINE grown == Append(before, l.value)
  <2>7. /\ grown \in Seq(AllValues) /\ Len(grown) = Len(before) + 1
        /\ \A i \in 1..Len(before) : grown[i] = before[i]
        /\ grown[Len(before) + 1] = l.value
    BY <1>5, <2>6, AppendProperties
  <2> HIDE DEF grown
  <2>8. ASSUME NEW i \in 1..Len(after) PROVE after[i] = grown[i]
    <3>1. after[i] = new[i].value
      BY <1>3, <2>3, <2>4
    <3>2. CASE i = Len(old) + 1
      BY <2>2, <2>5, <2>7, <3>1, <3>2
    <3>3. CASE i \in 1..Len(old)
      <4>1. before[i] = old[i].value
        BY <1>3, <2>3, <3>3
      <4>2. QED
        BY <2>2, <2>5, <2>7, <3>1, <3>3, <4>1
    <3>4. i = Len(old) + 1 \/ i \in 1..Len(old)
      BY <2>2, <2>3, <2>5
    <3>5. QED
      BY <3>2, <3>3, <3>4
  <2>9. after = grown
    BY <1>5, <2>2, <2>5, <2>7, <2>8, SeqEqual
  <2>10. QED
    BY <1>8, <2>9 DEF grown, before, after
<1>9. QED
  BY <1>7, <1>8

(* The last event type of a block, with "Empty" for none, decides the type   *)
(* of the frame.                                                             *)
LEMMA LastOrGrows ==
  ASSUME NEW s \in Seq(AllValues), NEW v \in AllValues
  PROVE  LastOr(Append(s, v), Empty) = v
<1>1. Append(s, v) # <<>> /\ Len(Append(s, v)) = Len(s) + 1 /\ Append(s, v)[Len(s) + 1] = v
  BY AppendProperties
<1>2. QED
  BY <1>1 DEF LastOr

LEMMA LastOrMessage ==
  ASSUME NEW s
  PROVE  LastOr(s, Message) = IF LastOr(s, Empty) = Empty THEN Message ELSE LastOr(s, Empty)
  BY DEF LastOr

-----------------------------------------------------------------------------
(* The frames of a body that grows by a line *)

LEMMA EndsType ==
  ASSUME NEW body \in Seq(AllLines)
  PROVE  EndsIn(body) \in Seq(1..Len(body))
<1> DEFINE index == [i \in 1..Len(body) |-> i]
           ends == {i \in 1..Len(body) : HasDataIn(body, i)}
<1>1. index \in Seq(1..Len(body))
  <2>1. Len(body) \in Nat /\ index \in [1..Len(body) -> 1..Len(body)]
    BY LenProperties
  <2>2. QED
    BY <2>1, SeqDef
<1> HIDE DEF index, ends
<1>2. Chosen(index, ends) \in Seq(1..Len(body) \cap ends)
  BY <1>1, ChosenType
<1>3. Chosen(index, ends) \in Seq(1..Len(body))
  BY <1>2, SeqMonotonic
<1>4. QED
  BY <1>3 DEF EndsIn, index, ends

LEMMA HasDataStays ==
  ASSUME NEW body \in Seq(AllLines), NEW l \in AllLines, NEW i \in 1..Len(body)
  PROVE  HasDataIn(Append(body, l), i) <=> HasDataIn(body, i)
<1>1. Len(body) \in Nat /\ i \in 1..(Len(body) + 1)
  BY LenProperties
<1>2. Append(body, l)[i] = body[i] /\ BlockIn(Append(body, l), i) = BlockIn(body, i)
  BY <1>1, AppendProperties, BlockStays
<1>3. QED
  BY <1>2 DEF HasDataIn

LEMMA EndsGrow ==
  ASSUME NEW body \in Seq(AllLines), NEW l \in AllLines
  PROVE  EndsIn(Append(body, l)) =
             IF l = Blank /\ ValuesOf(BlockIn(body, Len(body) + 1), "data") # <<>>
             THEN Append(EndsIn(body), Len(body) + 1)
             ELSE EndsIn(body)
<1> DEFINE n == Len(body)
           longer == Append(body, l)
           index(m) == [i \in 1..m |-> i]
           ends == {i \in 1..n : HasDataIn(body, i)}
           more == {i \in 1..(n + 1) : HasDataIn(longer, i)}
<1>1. n \in Nat /\ longer \in Seq(AllLines) /\ Len(longer) = n + 1 /\ longer[n + 1] = l
  BY LenProperties, AppendProperties
<1>2. HasDataIn(longer, n + 1) <=> l = Blank /\ ValuesOf(BlockIn(body, n + 1), "data") # <<>>
  <2>1. n + 1 \in 1..(n + 1)
    BY <1>1
  <2>2. BlockIn(longer, n + 1) = BlockIn(body, n + 1)
    BY <2>1, BlockStays
  <2>3. QED
    BY <1>1, <2>2 DEF HasDataIn
<1>3. \A i \in 1..n : HasDataIn(longer, i) <=> HasDataIn(body, i)
  BY HasDataStays
<1>4. EndsIn(longer) = Chosen(index(n + 1), more) /\ EndsIn(body) = Chosen(index(n), ends)
  BY <1>1 DEF EndsIn
<1> HIDE DEF n, longer
<1>5. /\ index(n) \in Seq(1..n) /\ index(n) \in Seq(1..(n + 1))
      /\ Len(index(n)) = n /\ index(n + 1) \in Seq(1..(n + 1)) /\ Len(index(n + 1)) = n + 1
  <2>1. /\ index(n) \in [1..n -> 1..n] /\ index(n) \in [1..n -> 1..(n + 1)]
        /\ index(n + 1) \in [1..(n + 1) -> 1..(n + 1)]
        /\ n + 1 \in Nat
    BY <1>1
  <2>2. index(n) \in Seq(1..n) /\ index(n) \in Seq(1..(n + 1)) /\ index(n + 1) \in Seq(1..(n + 1))
    BY <1>1, <2>1, SeqDef
  <2>3. DOMAIN index(n) = 1..n /\ DOMAIN index(n + 1) = 1..(n + 1)
    OBVIOUS
  <2> HIDE DEF index
  <2>4. /\ Len(index(n)) \in Nat /\ DOMAIN index(n) = 1..Len(index(n))
        /\ Len(index(n + 1)) \in Nat /\ DOMAIN index(n + 1) = 1..Len(index(n + 1))
    BY <2>2, LenProperties
  <2>5. QED
    BY <1>1, <2>2, <2>3, <2>4
<1>6. index(n + 1) = Append(index(n), n + 1)
  <2>1. n + 1 \in 1..(n + 1)
    BY <1>1
  <2>2. /\ \A i \in 1..n : index(n)[i] = i
        /\ \A i \in 1..(n + 1) : index(n + 1)[i] = i
    OBVIOUS
  <2> HIDE DEF index
  <2> DEFINE longest == Append(index(n), n + 1)
  <2>3. /\ longest \in Seq(1..(n + 1)) /\ Len(longest) = n + 1
        /\ \A i \in 1..n : longest[i] = index(n)[i]
        /\ longest[n + 1] = n + 1
    BY <1>5, <2>1, AppendProperties
  <2> HIDE DEF longest
  <2>4. \A i \in 1..(n + 1) : i \in 1..n \/ i = n + 1
    BY <1>1
  <2>5. \A i \in 1..(n + 1) : index(n + 1)[i] = longest[i]
    BY <2>2, <2>3, <2>4
  <2>6. index(n + 1) = longest
    BY <1>5, <2>3, <2>5, SeqEqual
  <2>7. QED
    BY <2>6 DEF longest
<1>7. n + 1 \in more <=> HasDataIn(longer, n + 1)
  BY <1>1
<1>8. \A i \in 1..n : i \in more <=> i \in ends
  BY <1>1, <1>3
<1>9. n + 1 \in 1..(n + 1)
  BY <1>1
<1> DEFINE older == index(n)
<1> HIDE DEF more, ends
<1>10. Chosen(index(n + 1), more) =
           IF n + 1 \in more THEN Append(Chosen(older, more), n + 1) ELSE Chosen(older, more)
  <2> DEFINE all == 1..(n + 1)
  <2>1. older \in Seq(all) /\ n + 1 \in all /\ index(n + 1) = Append(older, n + 1)
    BY <1>5, <1>6, <1>9
  <2> HIDE DEF older, index, all
  <2>2. Chosen(Append(older, n + 1), more) =
           IF n + 1 \in more THEN Append(Chosen(older, more), n + 1) ELSE Chosen(older, more)
    BY <2>1, ChosenAppend
  <2>3. QED
    BY <2>1, <2>2
<1>11. Chosen(older, more) = Chosen(older, ends)
  <2> DEFINE all == 1..n
  <2>1. older \in Seq(all) /\ \A i \in all : i \in more <=> i \in ends
    BY <1>5, <1>8
  <2> HIDE DEF older, all
  <2>2. QED
    BY <2>1, ChosenSame
<1>12. EndsIn(longer) = IF HasDataIn(longer, n + 1) THEN Append(EndsIn(body), n + 1) ELSE EndsIn(body)
  BY <1>4, <1>7, <1>10, <1>11
<1>13. QED
  BY <1>2, <1>12 DEF n, longer

(* A line that ends no frame leaves the frames of the body what they were. *)
LEMMA FramesStay ==
  ASSUME NEW body \in Seq(AllLines), NEW l \in AllLines, NEW frames,
         FramesOf(body, frames),
         ~(l = Blank /\ ValuesOf(BlockIn(body, Len(body) + 1), "data") # <<>>)
  PROVE  FramesOf(Append(body, l), frames)
<1>1. EndsIn(Append(body, l)) = EndsIn(body)
  BY EndsGrow
<1>2. EndsIn(body) \in Seq(1..Len(body)) /\ Len(body) \in Nat
  BY EndsType, LenProperties
<1>3. ASSUME NEW k \in 1..Len(frames) PROVE IsFrameAt(Append(body, l), EndsIn(body)[k], frames[k])
  <2>1. EndsIn(body)[k] \in 1..Len(body)
    BY <1>2, ElementOfSeq DEF FramesOf
  <2>2. EndsIn(body)[k] \in 1..(Len(body) + 1)
    BY <1>2, <2>1
  <2>3. BlockIn(Append(body, l), EndsIn(body)[k]) = BlockIn(body, EndsIn(body)[k])
    BY <2>2, BlockStays
  <2>4. QED
    BY <2>3 DEF FramesOf, IsFrameAt
<1>4. QED
  BY <1>1, <1>3 DEF FramesOf

(* A blank line after data adds the frame of its block. *)
LEMMA FramesGrow ==
  ASSUME NEW body \in Seq(AllLines), NEW frames \in Seq(Frames), NEW frame \in Frames,
         FramesOf(body, frames),
         ValuesOf(BlockIn(body, Len(body) + 1), "data") # <<>>,
         IsFrameAt(body, Len(body) + 1, frame)
  PROVE  FramesOf(Append(body, Blank), Append(frames, frame))
<1> DEFINE n == Len(body)
           longer == Append(body, Blank)
           ends == EndsIn(body)
           more == Append(frames, frame)
<1>1. Blank \in AllLines /\ n \in Nat /\ n + 1 \in 1..(n + 1)
  BY LenProperties DEF AllLines, WholeLines
<1>2. EndsIn(longer) = Append(ends, n + 1)
  BY <1>1, EndsGrow
<1>3. ends \in Seq(1..n) /\ ends \in Seq(1..(n + 1))
  <2>1. ends \in Seq(1..n) /\ 1..n \subseteq 1..(n + 1)
    BY <1>1, EndsType
  <2>2. QED
    BY <2>1, SeqMonotonic
<1>4. /\ Len(Append(ends, n + 1)) = Len(ends) + 1 /\ Append(ends, n + 1)[Len(ends) + 1] = n + 1
      /\ \A k \in 1..Len(ends) : Append(ends, n + 1)[k] = ends[k]
  BY <1>1, <1>3, AppendProperties
<1>5. /\ Len(more) = Len(frames) + 1 /\ more[Len(frames) + 1] = frame
      /\ \A k \in 1..Len(frames) : more[k] = frames[k]
  BY AppendProperties
<1>6. /\ Len(frames) = Len(ends) /\ Len(frames) \in Nat
      /\ \A k \in 1..Len(frames) : IsFrameAt(body, ends[k], frames[k])
  BY LenProperties DEF FramesOf
<1>7. ASSUME NEW i \in 1..(n + 1), NEW g
      PROVE  IsFrameAt(longer, i, g) <=> IsFrameAt(body, i, g)
  <2>1. BlockIn(longer, i) = BlockIn(body, i)
    BY <1>1, BlockStays
  <2>2. QED
    BY <2>1 DEF IsFrameAt
<1>8. \A k \in 1..Len(ends) : ends[k] \in 1..(n + 1)
  BY <1>3, ElementOfSeq
<1> HIDE DEF n, longer, ends, more
<1>9. ASSUME NEW k \in 1..Len(more) PROVE IsFrameAt(longer, EndsIn(longer)[k], more[k])
  <2>1. CASE k = Len(frames) + 1
    <3>1. EndsIn(longer)[k] = n + 1 /\ more[k] = frame
      BY <1>2, <1>4, <1>5, <1>6, <2>1
    <3>2. QED
      BY <1>1, <1>7, <3>1 DEF n
  <2>2. CASE k \in 1..Len(frames)
    <3>1. EndsIn(longer)[k] = ends[k] /\ more[k] = frames[k] /\ ends[k] \in 1..(n + 1)
      BY <1>2, <1>4, <1>5, <1>6, <1>8, <2>2
    <3>2. QED
      BY <1>6, <1>7, <2>2, <3>1
  <2>3. k = Len(frames) + 1 \/ k \in 1..Len(frames)
    BY <1>5, <1>6
  <2>4. QED
    BY <2>1, <2>2, <2>3
<1>10. FramesOf(longer, more)
  BY <1>2, <1>4, <1>5, <1>6, <1>9 DEF FramesOf
<1>11. QED
  BY <1>10 DEF longer, more

LEMMA NoBodyNoFrames == FramesOf(<<>>, <<>>) /\ Holds(<<>>, Empty, <<>>)
<1> DEFINE body == <<>>
<1>1. body \in Seq(AllLines) /\ Len(body) = 0
  BY EmptySeq
<1>2. EndsIn(body) = <<>>
  <2>1. [i \in 1..0 |-> i] = <<>>
    OBVIOUS
  <2>2. QED
    BY <1>1, <2>1, ChosenOfNone DEF EndsIn
<1>3. BlockIn(body, 1) = <<>>
  <2>1. StartIn(body, 1) \in 1..1
    BY StartRange
  <2>2. QED
    BY <2>1, SubSeqEmpty DEF BlockIn
<1>4. ValuesOf(BlockIn(body, 1), "data") = <<>> /\ ValuesOf(BlockIn(body, 1), "event") = <<>>
  BY <1>3, ValuesOfNone
<1> HIDE DEF body
<1>5. Holds(body, Empty, <<>>)
  BY <1>1, <1>4 DEF Holds, LastOr
<1>6. FramesOf(body, <<>>)
  BY <1>2 DEF FramesOf
<1>7. QED
  BY <1>5, <1>6 DEF body

-----------------------------------------------------------------------------
(* The parser *)

LEMMA EmptyIsValue == Blank \in AllLines /\ Empty \in AllValues
<1>1. Blank \in AllLines /\ Blank.value = Empty
  BY DEF AllLines, WholeLines, Blank
<1>2. QED
  BY <1>1 DEF AllValues

LEMMA NoFramesInv ==
  ASSUME lines = <<>>, eventType = Empty, dataLines = <<>>, dispatched = <<>>, receivedAny = FALSE
  PROVE  ParserInv
<1>1. ParserTyped
  BY EmptyIsValue, EmptySeq DEF ParserTyped
<1>2. ~Productive
  BY DEF Productive
<1>3. FrameInv
  BY NoBodyNoFrames DEF FrameInv
<1>4. QED
  BY <1>1, <1>2, <1>3 DEF ParserInv

(* The frame that dispatch hands on is what its block says. *)
LEMMA FrameFacts ==
  ASSUME ParserInv, pc = "reading", NEW v \in Verdicts
  PROVE  Frame(v) \in Frames /\ Frame(v).verdict = v /\ IsFrameAt(lines, Len(lines) + 1, Frame(v))
<1>1. /\ eventType \in AllValues /\ dataLines \in Seq(AllValues)
      /\ Holds(lines, eventType, dataLines)
  BY DEF ParserInv, ParserTyped, FrameInv
<1>2. /\ Frame(v).data = dataLines /\ Frame(v).verdict = v
      /\ Frame(v).type = IF eventType = Empty THEN Message ELSE eventType
  BY DEF Frame
<1>3. Frame(v) \in Frames
  BY <1>1 DEF Frame, Frames
<1>4. QED
  BY <1>1, <1>2, <1>3, LastOrMessage DEF IsFrameAt, Holds

(* A frame more is a productive attempt if that frame was ingested, or any   *)
(* before it.                                                                *)
LEMMA ProductiveGrows ==
  ASSUME NEW frames \in Seq(Frames), NEW frame \in Frames
  PROVE  (\E k \in DOMAIN Append(frames, frame) : Append(frames, frame)[k].verdict = "ingested")
             <=> (\E k \in DOMAIN frames : frames[k].verdict = "ingested") \/ frame.verdict = "ingested"
<1> DEFINE more == Append(frames, frame)
           n == Len(frames)
<1>1. /\ more \in Seq(Frames) /\ Len(more) = n + 1 /\ more[n + 1] = frame
      /\ \A k \in 1..n : more[k] = frames[k]
  BY AppendProperties
<1>2. n \in Nat /\ DOMAIN frames = 1..n
  BY LenProperties
<1>3. DOMAIN more = 1..Len(more)
  BY <1>1, LenProperties
<1> HIDE DEF more, n
<1>4. DOMAIN more = 1..(n + 1) /\ \A k \in 1..(n + 1) : k \in 1..n \/ k = n + 1
  BY <1>1, <1>2, <1>3
<1>5. n + 1 \in 1..(n + 1) /\ \A k \in 1..n : k \in 1..(n + 1)
  BY <1>2
<1>6. QED
  BY <1>1, <1>2, <1>4, <1>5 DEF more

(* Every line of the body, torn or not, keeps the parser's invariant. *)
LEMMA LineScanned ==
  ASSUME ParserInv, NEW l \in AllLines, Scan(l, TRUE)
  PROVE  ParserInv'
<1>1. /\ pc = "reading" /\ lines' = Append(lines, l)
      /\ lines \in Seq(AllLines) /\ Len(lines) \in Nat
      /\ FramesOf(lines, dispatched) /\ Holds(lines, eventType, dataLines)
      /\ eventType \in AllValues /\ dataLines \in Seq(AllValues)
      /\ dispatched \in Seq(Frames) /\ receivedAny \in BOOLEAN
      /\ receivedAny <=> Productive
  BY LenProperties DEF ParserInv, ParserTyped, FrameInv, Scan
<1>2. lines' \in Seq(AllLines) /\ Len(lines') = Len(lines) + 1
  BY <1>1, AppendProperties
<1> DEFINE next == Len(lines) + 2
           block == BlockIn(lines, Len(lines) + 1)
<1>3. BlockIn(lines', Len(lines') + 1) = IF l = Blank THEN <<>> ELSE Append(block, l)
  <2>1. Len(lines') + 1 = next
    BY <1>1, <1>2
  <2>2. QED
    BY <1>1, <2>1, BlockGrows
<1>4. block \in Seq(AllLines)
  <2>1. Len(lines) + 1 \in 1..(Len(lines) + 1)
    BY <1>1
  <2>2. QED
    BY <1>1, <2>1, BlockType
<1> HIDE DEF block
(* A blank line leaves an empty frame. *)
<1>5. l = Blank => Holds(lines', Empty, <<>>)
  BY <1>3, ValuesOfNone DEF Holds, LastOr
<1>6. CASE l = Blank /\ dataLines = <<>>
  <2>1. ForgetFrame /\ UNCHANGED <<dispatched, receivedAny>>
    BY <1>6 DEF Scan, BlankLine
  <2>2. FramesOf(lines', dispatched')
    BY <1>1, <1>6, <2>1, FramesStay DEF Holds
  <2>3. Holds(lines', eventType', dataLines')
    BY <1>5, <1>6, <2>1 DEF ForgetFrame
  <2>4. ParserTyped'
    BY <1>1, <1>2, <2>1, EmptyIsValue, EmptySeq DEF ParserTyped, ForgetFrame
  <2>5. receivedAny' <=> Productive'
    BY <1>1, <2>1 DEF Productive
  <2>6. QED
    BY <2>2, <2>3, <2>4, <2>5 DEF ParserInv, FrameInv
<1>7. CASE l = Blank /\ dataLines # <<>>
  <2>1. PICK v \in IngestAnswers :
          /\ dispatched' = Append(dispatched, Frame(v))
          /\ receivedAny' = ReceivedAfter(v)
          /\ IF v = "closed" THEN EndWith("closed") /\ UNCHANGED <<eventType, dataLines>>
                             ELSE ForgetFrame /\ TRUE
    BY <1>7, Zenon DEF Scan, BlankLine
  <2>2. v \in Verdicts
    BY DEF IngestAnswers, Verdicts
  <2>3. Frame(v) \in Frames /\ Frame(v).verdict = v /\ IsFrameAt(lines, Len(lines) + 1, Frame(v))
    BY <1>1, <2>2, FrameFacts
  <2> DEFINE frame == Frame(v)
  <2> HIDE DEF frame
  <2>4. frame \in Frames /\ frame.verdict = v /\ IsFrameAt(lines, Len(lines) + 1, frame)
        /\ dispatched' = Append(dispatched, frame)
    BY <2>1, <2>3 DEF frame
  <2>5. ValuesOf(BlockIn(lines, Len(lines) + 1), "data") # <<>>
    BY <1>1, <1>7 DEF Holds
  <2>6. FramesOf(lines', dispatched')
    BY <1>1, <1>7, <2>4, <2>5, FramesGrow
  <2>7. dispatched' \in Seq(Frames)
    BY <1>1, <2>4, AppendProperties
  <2>8. receivedAny' \in BOOLEAN /\ (receivedAny' <=> Productive')
    <3>1. Productive' <=> Productive \/ v = "ingested"
      BY <1>1, <2>4, ProductiveGrows DEF Productive
    <3>2. receivedAny' = (receivedAny \/ v = "ingested")
      BY <2>1 DEF ReceivedAfter
    <3>3. QED
      BY <1>1, <3>1, <3>2
  <2>9. CASE v = "closed"
    <3>1. pc' = "judge" /\ UNCHANGED <<eventType, dataLines>>
      BY <2>1, <2>9 DEF EndWith
    <3>2. ParserTyped'
      BY <1>1, <1>2, <2>7, <2>8, <3>1 DEF ParserTyped
    <3>3. QED
      BY <2>6, <2>8, <3>1, <3>2 DEF ParserInv, FrameInv
  <2>10. CASE v # "closed"
    <3>1. eventType' = Empty /\ dataLines' = <<>>
      BY <2>1, <2>10 DEF ForgetFrame
    <3>2. ParserTyped'
      BY <1>2, <2>7, <2>8, <3>1, EmptyIsValue, EmptySeq DEF ParserTyped
    <3>3. Holds(lines', eventType', dataLines')
      BY <1>5, <1>7, <3>1
    <3>4. QED
      BY <2>6, <2>8, <3>2, <3>3 DEF ParserInv, FrameInv
  <2>11. QED
    BY <2>9, <2>10
<1>8. CASE l # Blank
  <2>1. /\ eventType' = IF l.field = "event" THEN l.value ELSE eventType
        /\ dataLines' = IF l.field = "data" THEN Append(dataLines, l.value) ELSE dataLines
        /\ UNCHANGED <<dispatched, receivedAny>>
    BY <1>8 DEF Scan, FieldLine
  <2>2. FramesOf(lines', dispatched')
    BY <1>1, <1>8, <2>1, FramesStay
  <2>3. l.value \in AllValues
    BY DEF AllValues
  <2>4. BlockIn(lines', Len(lines') + 1) = Append(block, l)
    BY <1>3, <1>8
  <2>5. dataLines = ValuesOf(block, "data") /\ eventType = LastOr(ValuesOf(block, "event"), Empty)
    BY <1>1 DEF Holds, block
  <2>6. dataLines' = ValuesOf(Append(block, l), "data")
    BY <1>4, <2>1, <2>5, ValuesGrow
  <2>7. eventType' = LastOr(ValuesOf(Append(block, l), "event"), Empty)
    <3>1. ValuesOf(block, "event") \in Seq(AllValues)
      BY <1>4, ValuesType
    <3>2. CASE l.field = "event"
      <4>1. ValuesOf(Append(block, l), "event") = Append(ValuesOf(block, "event"), l.value)
        BY <1>4, <3>2, ValuesGrow
      <4>2. QED
        BY <2>1, <2>3, <3>1, <3>2, <4>1, LastOrGrows
    <3>3. CASE l.field # "event"
      <4>1. ValuesOf(Append(block, l), "event") = ValuesOf(block, "event")
        BY <1>4, <3>3, ValuesGrow
      <4>2. QED
        BY <2>1, <2>5, <3>3, <4>1
    <3>4. QED
      BY <3>2, <3>3
  <2>8. Holds(lines', eventType', dataLines')
    BY <2>4, <2>6, <2>7 DEF Holds
  <2>9. eventType' \in AllValues
    BY <1>1, <2>1, <2>3
  <2>10. dataLines' \in Seq(AllValues)
    BY <1>1, <2>1, <2>3, AppendProperties
  <2>11. ParserTyped'
    BY <1>1, <1>2, <2>1, <2>9, <2>10 DEF ParserTyped
  <2>12. receivedAny' <=> Productive'
    BY <1>1, <2>1 DEF Productive
  <2>13. QED
    BY <2>2, <2>8, <2>11, <2>12 DEF ParserInv, FrameInv
<1>9. QED
  BY <1>6, <1>7, <1>8

-----------------------------------------------------------------------------
(* The client *)

LEMMA BackoffFacts ==
    /\ BackoffAfter(0) = BackoffInitial /\ BackoffInitial \in Nat
    /\ \A n \in Nat : BackoffAfter(n) \in Nat /\ grow(BackoffAfter(n)) = BackoffAfter(n + 1)
    /\ BackoffAfter(MaxFruitless + 1) = BackoffAfter(MaxFruitless)
<1>1. /\ BackoffInitial \in Nat /\ BackoffMax \in Nat /\ BackoffInitial <= BackoffMax
      /\ MaxFruitless \in Nat /\ MaxFruitless + 1 \in Nat
      /\ MaxFruitless <= MaxFruitless + 1 /\ MaxFruitless <= MaxFruitless
  BY ClientAssumption
<1>2. BackoffInitial * Doublings[MaxFruitless] >= BackoffMax
  BY ClientAssumption
<1>3. DelayAfter(BackoffInitial, BackoffMax, MaxFruitless) = BackoffMax
  BY <1>1, <1>2, DelaySaturates
<1>4. DelayAfter(BackoffInitial, BackoffMax, MaxFruitless + 1) = BackoffMax
  BY <1>1, <1>2, DelaySaturates
<1>5. DelayAfter(BackoffInitial, BackoffMax, 0) = BackoffInitial
  BY <1>1, DelayStarts
<1>6. \A n \in Nat : /\ DelayAfter(BackoffInitial, BackoffMax, n) \in Nat
                     /\ AtMost(BackoffMax, DelayAfter(BackoffInitial, BackoffMax, n) * 2)
                           = DelayAfter(BackoffInitial, BackoffMax, n + 1)
  BY <1>1, DelayNat, DelayDoubles
<1>7. QED
  BY <1>1, <1>3, <1>4, <1>5, <1>6 DEF BackoffAfter, grow

LEMMA Initially == Init => IInv
<1> SUFFICES ASSUME Init PROVE IInv
  OBVIOUS
<1>1. ParserInv
  BY NoFramesInv DEF Init, NoFrames
<1>2. Typed
  BY BackoffFacts, ClientAssumption DEF Init, Typed
<1>3. BackoffInv
  BY BackoffFacts DEF Init, BackoffInv
<1>4. QED
  BY <1>1, <1>2, <1>3 DEF IInv

(* A connection starts a body, or fails before it has one. *)
LEMMA Connected ==
  ASSUME FreshFrames
  PROVE  ParserInv'
<1>1. /\ lines' = <<>> /\ eventType' = Empty /\ dataLines' = <<>>
      /\ dispatched' = <<>> /\ receivedAny' = FALSE
  BY DEF FreshFrames
<1>2. ParserTyped'
  BY <1>1, EmptyIsValue, EmptySeq DEF ParserTyped
<1>3. ~Productive'
  BY <1>1 DEF Productive
<1>4. FrameInv'
  BY <1>1, NoBodyNoFrames DEF FrameInv
<1>5. QED
  BY <1>1, <1>2, <1>3, <1>4 DEF ParserInv

(* Outside parseStream, the parser's history stays as it is. *)
LEMMA ParserRests ==
  ASSUME ParserInv, UNCHANGED frameVars, pc' = "reading" => pc = "reading"
  PROVE  ParserInv' /\ (Productive' <=> Productive)
<1>1. UNCHANGED <<lines, eventType, dataLines, dispatched, receivedAny>>
  BY DEF frameVars
<1>2. ParserTyped' /\ (Productive' <=> Productive) /\ (receivedAny' <=> Productive')
  BY <1>1 DEF ParserInv, ParserTyped, Productive
<1>3. FrameInv'
  BY <1>1 DEF ParserInv, FrameInv
<1>4. QED
  BY <1>2, <1>3 DEF ParserInv

LEMMA Inductive == IInv /\ [Next]_vars => IInv'
<1> SUFFICES ASSUME IInv, [Next]_vars PROVE IInv'
  OBVIOUS
<1>1. Typed /\ ParserInv /\ BackoffInv
  BY DEF IInv
<1>2. CASE CheckContext
  <2>1. /\ pc = "check" /\ pc' \in {"returned", "connect"}
        /\ UNCHANGED <<frameVars, backoff, fruitless>>
    BY <1>2 DEF CheckContext
  <2>2. ParserInv'
    BY <1>1, <2>1, ParserRests
  <2>3. Typed' /\ BackoffInv'
    BY <1>1, <2>1 DEF Typed, BackoffInv, BackoffAfter
  <2>4. QED
    BY <2>2, <2>3 DEF IInv
<1>3. CASE JudgeReturns \/ WaitCancelled
  <2>1. pc' = "returned" /\ UNCHANGED <<frameVars, backoff, fruitless>>
    BY <1>3 DEF JudgeReturns, WaitCancelled
  <2>2. ParserInv'
    BY <1>1, <2>1, ParserRests
  <2>3. Typed' /\ BackoffInv'
    BY <1>1, <2>1 DEF Typed, BackoffInv
  <2>4. QED
    BY <2>2, <2>3 DEF IInv
(* The flag decides, and the history agrees with it. *)
<1>4. CASE JudgeRetries
  <2>1. /\ pc = "judge" /\ pc' = "wait" /\ UNCHANGED <<frameVars, fruitless>>
        /\ backoff' = IF receivedAny THEN BackoffInitial ELSE backoff
    BY <1>4 DEF JudgeRetries
  <2>2. ParserInv' /\ (Productive' <=> Productive)
    BY <1>1, <2>1, ParserRests
  <2>3. (receivedAny <=> Productive) /\ backoff = BackoffAfter(fruitless)
    BY <1>1, <2>1 DEF ParserInv, BackoffInv
  <2>4. Typed'
    BY <1>1, <2>1, BackoffFacts DEF Typed
  <2>5. BackoffInv'
    BY <2>1, <2>2, <2>3 DEF BackoffInv, BackoffAfter
  <2>6. QED
    BY <2>2, <2>4, <2>5 DEF IInv
<1>5. CASE WaitOver
  <2>1. /\ pc = "wait" /\ pc' = "check" /\ UNCHANGED frameVars
        /\ backoff' = IF receivedAny THEN backoff ELSE grow(backoff)
        /\ fruitless' = IF Productive THEN 0 ELSE AtMost(MaxFruitless, fruitless + 1)
    BY <1>5 DEF WaitOver
  <2>2. ParserInv'
    BY <1>1, <2>1, ParserRests
  <2>3. /\ receivedAny <=> Productive
        /\ backoff = IF Productive THEN BackoffInitial ELSE BackoffAfter(fruitless)
        /\ fruitless \in 0..MaxFruitless /\ MaxFruitless \in Nat
    BY <1>1, <2>1, ClientAssumption DEF ParserInv, BackoffInv, Typed
  <2>4. fruitless' \in 0..MaxFruitless /\ backoff' = BackoffAfter(fruitless')
    <3>1. CASE Productive
      <4>1. fruitless' = 0 /\ backoff' = BackoffInitial
        BY <2>1, <2>3, <3>1
      <4>2. QED
        BY <2>3, <4>1, BackoffFacts
    <3>2. CASE ~Productive
      <4>1. /\ backoff' = grow(BackoffAfter(fruitless))
            /\ fruitless' = AtMost(MaxFruitless, fruitless + 1)
        BY <2>1, <2>3, <3>2
      <4>2. backoff' = BackoffAfter(fruitless + 1)
        BY <2>3, <4>1, BackoffFacts
      <4>3. CASE fruitless = MaxFruitless
        <5>1. fruitless' = MaxFruitless
          BY <2>3, <4>1, <4>3 DEF AtMost
        <5>2. QED
          BY <2>3, <4>2, <4>3, <5>1, BackoffFacts
      <4>4. CASE fruitless # MaxFruitless
        <5>1. fruitless' = fruitless + 1
          BY <2>3, <4>1, <4>4 DEF AtMost
        <5>2. QED
          BY <2>3, <4>2, <4>4, <5>1
      <4>5. QED
        BY <4>3, <4>4
    <3>3. QED
      BY <3>1, <3>2
  <2>5. fruitless' \in Nat
    BY <2>3, <2>4
  <2>6. backoff' \in Nat
    BY <2>4, <2>5, BackoffFacts
  <2>7. Typed' /\ BackoffInv'
    BY <1>1, <2>1, <2>4, <2>6 DEF Typed, BackoffInv, BackoffAfter
  <2>8. QED
    BY <2>2, <2>7 DEF IInv
<1>6. CASE Connect \/ \E o \in Outcomes : ConnectEnds(o)
  <2>1. /\ pc = "connect" /\ pc' \in {"reading", "judge"} /\ FreshFrames
        /\ UNCHANGED <<backoff, fruitless>>
    BY <1>6 DEF Connect, ConnectEnds, EndWith
  <2>2. ParserInv'
    BY <2>1, Connected
  <2>3. Typed' /\ BackoffInv'
    BY <1>1, <2>1 DEF Typed, BackoffInv, BackoffAfter
  <2>4. QED
    BY <2>2, <2>3 DEF IInv
<1>7. ASSUME NEW l \in AllLines, Scan(l, TRUE), pc' \in {"reading", "judge"},
             UNCHANGED <<backoff, fruitless>>
      PROVE  IInv'
  <2>1. ParserInv'
    BY <1>1, <1>7, LineScanned
  <2>2. pc = "reading"
    BY <1>7 DEF Scan
  <2>3. Typed' /\ BackoffInv'
    BY <1>1, <1>7, <2>2 DEF Typed, BackoffInv, BackoffAfter
  <2>4. QED
    BY <2>1, <2>3 DEF IInv
<1>8. CASE Read
  <2>1. PICK l \in WholeLines : Scan(l, UNCHANGED <<pc, outcome>>)
    BY <1>8 DEF Read, ReadLine
  <2>2. l \in AllLines /\ pc = "reading" /\ UNCHANGED <<backoff, fruitless>>
    BY <1>8, <2>1 DEF AllLines, Read, Scan
  <2>3. Scan(l, TRUE)
    BY <2>1, Zenon DEF Scan, BlankLine
  <2>4. pc' \in {"reading", "judge"}
    BY <2>1, <2>2 DEF Scan, BlankLine, EndWith
  <2>5. QED
    BY <1>7, <2>2, <2>3, <2>4
<1>9. ASSUME NEW o \in Outcomes, ReadEnds(o) PROVE IInv'
  <2>1. UNCHANGED <<backoff, fruitless>>
    BY <1>9 DEF ReadEnds
  <2>2. CASE TornEnd(o)
    <3>1. PICK l \in TornLines : Scan(l, EndWith(o))
      BY <2>2 DEF TornEnd
    <3>2. l \in AllLines
      BY DEF AllLines
    <3>3. Scan(l, TRUE)
      BY <3>1, Zenon DEF Scan, BlankLine
    <3>4. pc' \in {"reading", "judge"}
      BY <3>1 DEF Scan, BlankLine, EndWith
    <3>5. QED
      BY <1>7, <2>1, <3>2, <3>3, <3>4
  <2>3. CASE CleanEnd(o)
    <3>1. pc = "reading" /\ pc' = "judge" /\ UNCHANGED frameVars
      BY <2>3 DEF CleanEnd, EndWith
    <3>2. ParserInv'
      BY <1>1, <3>1, ParserRests
    <3>3. Typed' /\ BackoffInv'
      BY <1>1, <2>1, <3>1 DEF Typed, BackoffInv, BackoffAfter
    <3>4. QED
      BY <3>2, <3>3 DEF IInv
  <2>4. QED
    BY <1>9, <2>2, <2>3 DEF ReadEnds
<1>10. CASE Cancel \/ CloseMatcher \/ UNCHANGED vars
  <2>1. UNCHANGED <<pc, frameVars, backoff, fruitless>>
    BY <1>10 DEF Cancel, CloseMatcher, vars, parserVars
  <2>2. ParserInv' /\ (Productive' <=> Productive)
    BY <1>1, <2>1, ParserRests
  <2>3. Typed' /\ BackoffInv'
    BY <1>1, <2>1, <2>2 DEF Typed, BackoffInv, BackoffAfter
  <2>4. QED
    BY <2>2, <2>3 DEF IInv
<1>11. {"failed", "deadline", "canceled"} \subseteq Outcomes
  BY DEF Outcomes
<1>12. CASE Next
  BY <1>2, <1>3, <1>4, <1>5, <1>6, <1>8, <1>9, <1>10, <1>11, <1>12
     DEF Next, Run, Upstream, AbortRequest
<1>13. QED
  BY <1>10, <1>12

(* The flag, the backoff and the parser's frame are always in step with the  *)
(* history of the connection.                                                *)
THEOREM Invariance == Spec => []IInv
  BY Initially, Inductive, PTL DEF Spec

(* Whatever the constants: before every attempt the worker waits the initial *)
(* backoff, doubled for each attempt since the last that ingested a frame,    *)
(* up to the maximum, and after one that did it waits the initial one.       *)
THEOREM DelaysFollowFailures == Spec => []BackoffFollowsFailures
<1>1. IInv => BackoffFollowsFailures
  BY DEF IInv, BackoffInv, BackoffFollowsFailures
<1>2. QED
  BY <1>1, Invariance, PTL

(* The restated definitions are StreamParser's, of its body. *)
LEMMA SameBlocks ==
    /\ FrameEnds = EndsIn(lines)
    /\ \A i : Block(i) = BlockIn(lines, i)
<1>1. \A i : Block(i) = BlockIn(lines, i)
  BY DEF Block, BlockIn, Start, StartIn, AfterLast
<1>2. \A i : HasData(i) <=> HasDataIn(lines, i)
  BY <1>1 DEF HasData, HasDataIn
<1>3. {i \in 1..Len(lines) : HasData(i)} = {i \in 1..Len(lines) : HasDataIn(lines, i)}
  BY <1>2
<1>4. FrameEnds = EndsIn(lines)
  BY <1>3 DEF FrameEnds, EndsIn
<1>5. QED
  BY <1>1, <1>4

(* Whatever the alphabet and the length of the body, and however often the   *)
(* connection was torn before: the frames handed to the matcher are the      *)
(* blocks of this connection's body, each once and in order.                 *)
THEOREM OnlyWholeFrames == Spec => []FramesAreBlocks
<1>1. ASSUME IInv PROVE FramesAreBlocks
  <2>1. FramesOf(lines, dispatched) /\ dispatched \in Seq(Frames)
    BY <1>1 DEF IInv, ParserInv, ParserTyped, FrameInv
  <2>2. DOMAIN dispatched = 1..Len(dispatched)
    BY <2>1, LenProperties
  <2>3. Len(dispatched) = Len(FrameEnds)
    BY <2>1, SameBlocks DEF FramesOf
  <2>4. ASSUME NEW k \in DOMAIN dispatched
        PROVE  /\ dispatched[k].data = ValuesOf(Block(FrameEnds[k]), "data")
               /\ dispatched[k].type = LastOr(ValuesOf(Block(FrameEnds[k]), "event"), Message)
    <3>1. IsFrameAt(lines, EndsIn(lines)[k], dispatched[k])
      BY <2>1, <2>2 DEF FramesOf
    <3>2. Block(FrameEnds[k]) = BlockIn(lines, EndsIn(lines)[k])
      BY SameBlocks
    <3>3. QED
      BY <3>1, <3>2 DEF IsFrameAt
  <2>5. QED
    BY <2>3, <2>4 DEF FramesAreBlocks
<1>2. QED
  BY <1>1, Invariance, PTL

=============================================================================
