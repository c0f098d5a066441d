----------------------------- MODULE HubProofs -----------------------------
(***************************************************************************)
(* Proofs about Hub for every set of connections, send buffer and number of *)
(* results.                                                                 *)
(*                                                                          *)
(* Four goroutines may close one client's send channel. What keeps them     *)
(* apart is the registry: the mutex makes leaving it and closing the channel *)
(* one step, so a registered client's channel is open, and a client that has *)
(* yet to register has a channel nobody has seen. The counter, changed       *)
(* outside the mutex too, is tied to the registry by what a broadcast still  *)
(* owes it.                                                                 *)
(***************************************************************************)
EXTENDS Hub, FiniteSetTheorems, SequenceTheorems, TLAPS

Unregistered == {"idle", "upgrading", "spawned"}

Typed ==
    /\ published \in 0..MaxResults /\ taken \in 0..published
    /\ matcherClosed \in BOOLEAN /\ ctxDone \in BOOLEAN
    /\ hubPC \in {"select", "uncount", "stopping", "done"}
    /\ toUncount \in Nat /\ hubClosed \in BOOLEAN
    /\ clients \subseteq Clients /\ wsCount \in Int
    /\ pc \in [Clients -> Unregistered \cup {"running", "unwinding", "gone"}]
    /\ send \in [Clients -> Seq(Nat)]
    /\ sendClosed \in [Clients -> BOOLEAN]
    /\ written \in [Clients -> Seq(Nat)]
    /\ readPump \in [Clients -> {"none", "running", "ended"}]
    /\ cancelled \in [Clients -> BOOLEAN]
    /\ panicked \in BOOLEAN

(* A registered client's pump has started and its channel is open; before it *)
(* registers, nothing was sent to it and nobody closed its channel.          *)
Registry ==
    /\ \A c \in clients : pc[c] \in {"running", "unwinding"} /\ ~sendClosed[c]
    /\ \A c \in Clients : pc[c] \in Unregistered
                            => ~sendClosed[c] /\ send[c] = <<>> /\ written[c] = <<>>

(* Run owes the counter something only between a broadcast that dropped      *)
(* clients and its next select, and a hub that is done has no registry.      *)
RunOrder ==
    /\ hubClosed <=> hubPC = "done"
    /\ hubClosed => clients = {}
    /\ toUncount > 0 <=> hubPC = "uncount"

IInv ==
    Typed /\ Registry /\ RunOrder /\ NoHubPanic /\ GapFree /\ ActiveClientsCounted

Consecutive(s) == \A i \in 1..(Len(s) - 1) : s[i + 1] = s[i] + 1

UpTo(s, n) == s # <<>> => s[Len(s)] = n

-----------------------------------------------------------------------------
(* What the pumps and the broadcast do to a stream. *)

(* Writing a result moves it from the channel to the socket, so what the     *)
(* client has been given and has waiting is the same.                        *)
LEMMA MoveOne ==
  ASSUME NEW w \in Seq(Nat), NEW q \in Seq(Nat), q # <<>>
  PROVE  Append(w, Head(q)) \o Tail(q) = w \o q
<1>1. Head(q) \in Nat /\ Tail(q) \in Seq(Nat) /\ Len(Tail(q)) = Len(q) - 1
      /\ \A i \in 1..Len(Tail(q)) : Tail(q)[i] = q[i + 1]
  BY HeadTailProperties
<1>2. Len(w) \in Nat /\ Len(q) \in Nat \ {0}
  BY LenProperties, EmptySeq
<1>3. Head(q) = q[1]
  OBVIOUS
<1> DEFINE l == Append(w, Head(q))
           s == l \o Tail(q)
           t == w \o q
<1>4. /\ l \in Seq(Nat) /\ Len(l) = Len(w) + 1
      /\ \A i \in 1..Len(w) : l[i] = w[i]
      /\ l[Len(w) + 1] = Head(q)
  BY <1>1, AppendProperties
<1>5. /\ s \in Seq(Nat) /\ Len(s) = Len(l) + Len(Tail(q))
      /\ \A i \in 1..(Len(l) + Len(Tail(q))) :
            s[i] = IF i <= Len(l) THEN l[i] ELSE Tail(q)[i - Len(l)]
  BY <1>1, <1>4, ConcatProperties
<1>6. /\ t \in Seq(Nat) /\ Len(t) = Len(w) + Len(q)
      /\ \A i \in 1..(Len(w) + Len(q)) : t[i] = IF i <= Len(w) THEN w[i] ELSE q[i - Len(w)]
  BY ConcatProperties
<1>7. Len(s) = Len(t)
  BY <1>1, <1>2, <1>4, <1>5, <1>6
<1>8. ASSUME NEW i \in 1..Len(s)
      PROVE  s[i] = t[i]
  <2>0. i \in 1..(Len(w) + Len(q)) /\ i \in Nat
    BY <1>1, <1>2, <1>4, <1>5
  <2>1. CASE i <= Len(w)
    BY <1>1, <1>2, <1>4, <1>5, <1>6, <2>0, <2>1
  <2>2. CASE i = Len(w) + 1
    BY <1>1, <1>2, <1>3, <1>4, <1>5, <1>6, <2>0, <2>2
  <2>3. CASE i > Len(w) + 1
    <3>1. s[i] = Tail(q)[i - (Len(w) + 1)]
      BY <1>1, <1>2, <1>4, <1>5, <2>0, <2>3
    <3>2. i - (Len(w) + 1) \in 1..Len(Tail(q))
      BY <1>1, <1>2, <2>0, <2>3
    <3>3. s[i] = q[i - (Len(w) + 1) + 1]
      BY <1>1, <3>1, <3>2
    <3>4. t[i] = q[i - Len(w)]
      BY <1>2, <1>6, <2>0, <2>3
    <3>5. i - (Len(w) + 1) + 1 = i - Len(w)
      BY <1>2, <2>0
    <3>6. QED
      BY <3>3, <3>4, <3>5
  <2>4. QED
    BY <1>2, <2>0, <2>1, <2>2, <2>3
<1>9. QED
  BY <1>5, <1>6, <1>7, <1>8, SeqEqual

LEMMA QueueOne ==
  ASSUME NEW w \in Seq(Nat), NEW q \in Seq(Nat), NEW n \in Nat
  PROVE  w \o Append(q, n) = Append(w \o q, n)
<1>1. Append(q, n) = q \o <<n>> /\ <<n>> \in Seq(Nat)
  BY AppendIsConcat
<1>2. w \o q \in Seq(Nat)
  BY ConcatProperties
<1>3. Append(w \o q, n) = (w \o q) \o <<n>>
  BY <1>2, AppendIsConcat
<1>4. QED
  BY <1>1, <1>3, ConcatAssociative

(* The next result continues a stream that ends with the latest one. *)
LEMMA OneMoreResult ==
  ASSUME NEW s \in Seq(Nat), NEW n \in Nat, Consecutive(s), UpTo(s, n)
  PROVE  Consecutive(Append(s, n + 1)) /\ UpTo(Append(s, n + 1), n + 1)
<1> DEFINE t == Append(s, n + 1)
<1>1. /\ Len(t) = Len(s) + 1 /\ t[Len(s) + 1] = n + 1
      /\ \A i \in 1..Len(s) : t[i] = s[i]
  BY AppendProperties
<1>2. Len(s) \in Nat /\ (s # <<>> <=> Len(s) > 0)
  BY LenProperties, EmptySeq
<1>3. ASSUME NEW i \in 1..(Len(t) - 1)
      PROVE  t[i + 1] = t[i] + 1
  <2>1. CASE i = Len(s)
    BY <1>1, <1>2, <2>1 DEF UpTo
  <2>2. CASE i < Len(s)
    <3>1. i \in 1..Len(s) /\ i + 1 \in 1..Len(s) /\ i \in 1..(Len(s) - 1)
      BY <1>1, <1>2, <2>2
    <3>2. QED
      BY <1>1, <3>1 DEF Consecutive
  <2>3. QED
    BY <1>1, <1>2, <2>1, <2>2
<1>4. QED
  BY <1>1, <1>3 DEF Consecutive, UpTo

(* What a pump that gives up had written is a run of consecutive results too. *)
LEMMA WrittenPart ==
  ASSUME NEW w \in Seq(Nat), NEW q \in Seq(Nat), Consecutive(w \o q)
  PROVE  Consecutive(w)
<1>1. Len(w) \in Nat /\ Len(q) \in Nat
  BY LenProperties
<1>2. Len(w \o q) = Len(w) + Len(q) /\ \A i \in 1..Len(w) : (w \o q)[i] = w[i]
  BY <1>1, ConcatProperties
<1>3. ASSUME NEW i \in 1..(Len(w) - 1)
      PROVE  w[i + 1] = w[i] + 1
  <2>1. i \in 1..Len(w) /\ i + 1 \in 1..Len(w) /\ i \in 1..(Len(w \o q) - 1)
    BY <1>1, <1>2
  <2>2. QED
    BY <1>2, <2>1 DEF Consecutive
<1>4. QED
  BY <1>3 DEF Consecutive

-----------------------------------------------------------------------------
(* One lemma per part of the invariant that a step can disturb. *)

LEMMA StreamTyped ==
  ASSUME Typed, NEW c \in Clients
  PROVE  Stream(c) \in Seq(Nat)
<1>1. send[c] \in Seq(Nat) /\ written[c] \in Seq(Nat)
  BY DEF Typed
<1>2. written[c] \o send[c] \in Seq(Nat)
  BY <1>1, ConcatProperties
<1>3. QED
  BY <1>1, <1>2 DEF Stream

LEMMA RegistryFinite ==
  ASSUME Typed
  PROVE  IsFiniteSet(clients) /\ Cardinality(clients) \in Nat
  BY FS_Subset, FS_CardinalityType, HubAssumption DEF Typed

(* A step that takes no result from the matcher keeps the streams free of    *)
(* gaps when it lets no client in and leaves each client what it had been    *)
(* given, or cuts what was waiting.                                          *)
LEMMA StreamsKept ==
  ASSUME GapFree, taken' = taken,
         \A c \in Clients :
            /\ Stream(c)' = Stream(c) \/ Consecutive(Stream(c)')
            /\ c \in clients' /\ pc'[c] = "running" =>
                  \/ Stream(c)' = <<>>
                  \/ c \in clients /\ pc[c] = "running" /\ Stream(c)' = Stream(c)
  PROVE  GapFree'
<1>1. ASSUME NEW c \in Clients
      PROVE  /\ Consecutive(Stream(c)')
             /\ c \in clients' /\ pc'[c] = "running" => UpTo(Stream(c)', taken')
  <2>1. /\ Consecutive(Stream(c))
        /\ c \in clients /\ pc[c] = "running" => UpTo(Stream(c), taken)
    BY DEF GapFree, Consecutive, UpTo
  <2>2. QED
    BY <2>1 DEF UpTo
<1>2. QED
  BY <1>1 DEF GapFree, Consecutive, UpTo

(* The steps that leave the connections and the registry alone. *)
LEMMA QuietSteps ==
  ASSUME IInv, Publish \/ CloseMatcher \/ StopHub \/ LeaveLoop \/ UNCHANGED vars
  PROVE  IInv'
<1> USE DEF IInv
<1>1. /\ UNCHANGED <<taken, toUncount, hubClosed, clients, wsCount, conn, send,
                     sendClosed, panicked>>
      /\ UNCHANGED hubPC \/ (hubPC = "select" /\ hubPC' = "stopping")
  BY DEF Publish, CloseMatcher, StopHub, LeaveLoop, vars, run, conn
<1>2. Typed'
  <2>1. published' \in 0..MaxResults /\ taken' \in 0..published'
    <3>1. published' = published \/ (published < MaxResults /\ published' = published + 1)
      BY DEF Publish, CloseMatcher, StopHub, LeaveLoop, vars, source
    <3>2. QED
      BY <1>1, <3>1, HubAssumption DEF Typed
  <2>2. matcherClosed' \in BOOLEAN /\ ctxDone' \in BOOLEAN
    BY DEF Typed, Publish, CloseMatcher, StopHub, LeaveLoop, vars, source
  <2>3. QED
    BY <1>1, <2>1, <2>2 DEF Typed, conn
<1>3. Registry'
  BY <1>1 DEF Registry, conn
<1>4. RunOrder'
  BY <1>1 DEF RunOrder, Typed
<1>5. GapFree'
  BY <1>1, StreamsKept DEF Stream, conn, GapFree, Consecutive
<1>6. NoHubPanic' /\ ActiveClientsCounted'
  BY <1>1 DEF NoHubPanic, ActiveClientsCounted
<1>7. QED
  BY <1>2, <1>3, <1>4, <1>5, <1>6

LEMMA BroadcastPreserves ==
  ASSUME IInv, Broadcast
  PROVE  IInv'
<1> USE DEF IInv
<1> DEFINE D == DroppedByBroadcast
<1>1. /\ hubPC = "select" /\ taken < published /\ taken' = taken + 1
      /\ send' = [c \in Clients |-> IF c \in clients /\ ~Full(c)
                                    THEN Append(send[c], taken + 1) ELSE send[c]]
      /\ clients' = clients \ D
      /\ sendClosed' = [c \in Clients |-> sendClosed[c] \/ c \in D]
      /\ panicked' = (panicked \/ \E c \in clients : sendClosed[c])
      /\ toUncount' = Cardinality(D)
      /\ hubPC' = IF D = {} THEN "select" ELSE "uncount"
      /\ UNCHANGED <<source, hubClosed, wsCount, conn>>
  BY DEF Broadcast
<1>2. D \subseteq clients /\ IsFiniteSet(D) /\ Cardinality(D) \in Nat
      /\ (Cardinality(D) > 0 <=> D # {})
  <2>1. D \subseteq clients
    BY DEF DroppedByBroadcast
  <2>2. IsFiniteSet(D) /\ Cardinality(D) \in Nat
    BY <2>1, RegistryFinite, FS_Subset, FS_CardinalityType
  <2>3. QED
    BY <2>1, <2>2, FS_EmptySet
<1>3. taken \in Nat /\ taken' \in Nat
  BY <1>1, HubAssumption DEF Typed
<1>4. Typed'
  <2>1. send' \in [Clients -> Seq(Nat)]
    <3>1. \A c \in Clients : send[c] \in Seq(Nat) /\ Append(send[c], taken + 1) \in Seq(Nat)
      BY <1>3, AppendProperties DEF Typed
    <3>2. QED
      BY <1>1, <3>1
  <2>2. taken' \in 0..published' /\ published' \in 0..MaxResults
    BY <1>1, HubAssumption DEF Typed, source
  <2>3. panicked' \in BOOLEAN /\ sendClosed' \in [Clients -> BOOLEAN]
    BY <1>1 DEF Typed
  <2>4. clients' \subseteq Clients /\ toUncount' \in Nat
        /\ hubPC' \in {"select", "uncount", "stopping", "done"}
    BY <1>1, <1>2 DEF Typed
  <2>5. QED
    BY <1>1, <2>1, <2>2, <2>3, <2>4 DEF Typed, source, conn
<1>5. Registry'
  BY <1>1, <1>2 DEF Registry, Typed, conn, Unregistered
<1>6. RunOrder'
  BY <1>1, <1>2 DEF RunOrder, Typed
<1>7. NoHubPanic'
  BY <1>1 DEF NoHubPanic, Registry
<1>8. GapFree'
  <2>1. ASSUME NEW c \in Clients
        PROVE  /\ Consecutive(Stream(c)')
               /\ c \in clients' /\ pc'[c] = "running" => UpTo(Stream(c)', taken')
    <3>1. /\ Consecutive(Stream(c))
          /\ c \in clients /\ pc[c] = "running" => UpTo(Stream(c), taken)
      BY DEF GapFree, Consecutive, UpTo
    <3>2. pc'[c] = pc[c] /\ written'[c] = written[c]
      BY <1>1 DEF conn
    <3>3. CASE c \in clients' /\ pc[c] = "running"
      <4>1. c \in clients /\ ~Full(c) /\ send'[c] = Append(send[c], taken + 1)
        BY <1>1, <3>3 DEF DroppedByBroadcast
      <4>2. Stream(c) = written[c] \o send[c] /\ Stream(c)' = written[c] \o send'[c]
        BY <3>2, <3>3 DEF Stream
      <4>3. Stream(c)' = Append(Stream(c), taken + 1)
        <5> DEFINE next == taken + 1
        <5>1. written[c] \in Seq(Nat) /\ send[c] \in Seq(Nat) /\ next \in Nat
          BY <1>3 DEF Typed
        <5> HIDE DEF next
        <5>2. written[c] \o Append(send[c], next) = Append(written[c] \o send[c], next)
          BY <5>1, QueueOne
        <5>3. QED
          BY <4>1, <4>2, <5>2 DEF next
      <4>4. QED
        BY <1>1, <1>3, <3>1, <3>3, <4>1, <4>3, StreamTyped, OneMoreResult
    <3>4. CASE c \notin clients' \/ pc[c] # "running"
      <4>1. Stream(c)' = Stream(c)
        BY <1>1, <3>2, <3>4 DEF Stream, DroppedByBroadcast
      <4>2. QED
        BY <3>1, <3>2, <3>4, <4>1
    <3>5. QED
      BY <3>3, <3>4
  <2>2. QED
    BY <2>1 DEF GapFree, Consecutive, UpTo
<1>9. ActiveClientsCounted'
  <2>1. Cardinality(clients \ D) = Cardinality(clients) - Cardinality(D)
    <3>1. clients \cap D = D
      BY <1>2
    <3>2. QED
      BY <3>1, RegistryFinite, FS_Difference
  <2>2. toUncount = 0
    BY <1>1 DEF RunOrder, Typed
  <2>3. QED
    BY <1>1, <1>2, <2>1, <2>2, RegistryFinite DEF ActiveClientsCounted, Typed
<1>10. QED
  BY <1>4, <1>5, <1>6, <1>7, <1>8, <1>9

LEMMA UncountPreserves ==
  ASSUME IInv, Uncount
  PROVE  IInv'
<1> USE DEF IInv
<1>1. /\ hubPC = "uncount" /\ wsCount' = wsCount - 1 /\ toUncount' = toUncount - 1
      /\ hubPC' = IF toUncount = 1 THEN "select" ELSE "uncount"
      /\ UNCHANGED <<source, taken, hubClosed, clients, conn, send, sendClosed, panicked>>
  BY DEF Uncount
<1>2. toUncount \in Nat \ {0}
  BY <1>1 DEF RunOrder, Typed
<1>3. Typed'
  BY <1>1, <1>2 DEF Typed, source, conn
<1>4. Registry' /\ NoHubPanic'
  BY <1>1 DEF Registry, NoHubPanic, conn
<1>5. RunOrder'
  BY <1>1, <1>2 DEF RunOrder
<1>6. GapFree'
  BY <1>1, StreamsKept DEF Stream, conn, GapFree, Consecutive
<1>7. ActiveClientsCounted'
  BY <1>1, <1>2, RegistryFinite DEF ActiveClientsCounted, Typed
<1>8. QED
  BY <1>3, <1>4, <1>5, <1>6, <1>7

LEMMA DrainPreserves ==
  ASSUME IInv, MarkClosedAndDrain
  PROVE  IInv'
<1> USE DEF IInv
<1>1. /\ hubPC = "stopping" /\ hubPC' = "done" /\ hubClosed' = TRUE /\ clients' = {}
      /\ sendClosed' = [c \in Clients |-> sendClosed[c] \/ c \in clients]
      /\ panicked' = (panicked \/ \E c \in clients : sendClosed[c])
      /\ UNCHANGED <<source, taken, toUncount, wsCount, conn, send>>
  BY DEF MarkClosedAndDrain, CloseSends
<1>2. Typed'
  BY <1>1 DEF Typed, source, conn
<1>3. Registry'
  BY <1>1 DEF Registry, Typed, conn, Unregistered
<1>4. RunOrder' /\ ActiveClientsCounted'
  BY <1>1 DEF RunOrder, ActiveClientsCounted
<1>5. NoHubPanic'
  BY <1>1 DEF NoHubPanic, Registry
<1>6. GapFree'
  BY <1>1, StreamsKept DEF Stream, conn, GapFree, Consecutive
<1>7. QED
  BY <1>2, <1>3, <1>4, <1>5, <1>6

(* The steps of a connection that touch neither channel nor registry. *)
LEMMA SettlingSteps ==
  ASSUME IInv, NEW c \in Clients,
         \/ ServeWS(c) \/ Upgrade(c) \/ RequestContextDone(c) \/ ReadEnds(c)
         \/ WriteDropped(c) \/ WriteCancelled(c)
  PROVE  IInv'
<1> USE DEF IInv
<1>1. UNCHANGED <<source, run, clients, wsCount, written, send, sendClosed, panicked>>
  BY DEF ServeWS, Upgrade, RequestContextDone, ReadEnds, WriteDropped, WriteCancelled
<1>2. \E l \in {"idle", "upgrading", "spawned", "running", "unwinding", "gone"} :
         /\ pc' = [pc EXCEPT ![c] = l]
         /\ \/ l = pc[c]
            \/ pc[c] \in Unregistered /\ l \in Unregistered \cup {"gone"}
            \/ pc[c] = "running" /\ l = "unwinding"
  <2>1. CASE ServeWS(c)
    BY <2>1 DEF ServeWS, Goto, Unregistered
  <2>2. CASE Upgrade(c)
    BY <2>2 DEF Upgrade, Goto, Unregistered
  <2>3. CASE RequestContextDone(c) \/ ReadEnds(c)
    <3>1. pc' = pc
      BY <2>3 DEF RequestContextDone, ReadEnds
    <3>2. QED
      BY <3>1 DEF Typed, Unregistered
  <2>4. CASE WriteDropped(c) \/ WriteCancelled(c)
    BY <2>4 DEF WriteDropped, WriteCancelled, Goto
  <2>5. QED
    BY <2>1, <2>2, <2>3, <2>4
<1>3. PICK l \in {"idle", "upgrading", "spawned", "running", "unwinding", "gone"} :
         /\ pc' = [pc EXCEPT ![c] = l]
         /\ \/ l = pc[c]
            \/ pc[c] \in Unregistered /\ l \in Unregistered \cup {"gone"}
            \/ pc[c] = "running" /\ l = "unwinding"
  BY <1>2
<1>4. Typed'
  <2>1. readPump' \in [Clients -> {"none", "running", "ended"}]
        /\ cancelled' \in [Clients -> BOOLEAN]
    BY DEF Typed, ServeWS, Upgrade, RequestContextDone, ReadEnds, WriteDropped,
           WriteCancelled
  <2>2. pc' \in [Clients -> Unregistered \cup {"running", "unwinding", "gone"}]
    BY <1>3 DEF Typed, Unregistered
  <2>3. QED
    BY <1>1, <2>1, <2>2 DEF Typed, source, run
<1>5. Registry'
  BY <1>1, <1>3 DEF Registry, Typed, Unregistered
<1>6. RunOrder' /\ NoHubPanic' /\ ActiveClientsCounted'
  BY <1>1 DEF RunOrder, NoHubPanic, ActiveClientsCounted, run
<1>7. GapFree'
  <2>1. ASSUME NEW d \in Clients
        PROVE  /\ Stream(d)' = Stream(d) \/ Consecutive(Stream(d)')
               /\ d \in clients' /\ pc'[d] = "running" =>
                     d \in clients /\ pc[d] = "running" /\ Stream(d)' = Stream(d)
    <3>1. CASE pc'[d] = pc[d]
      BY <1>1, <3>1 DEF Stream
    <3>2. CASE pc'[d] # pc[d] /\ pc[c] # "running"
      BY <1>1, <1>3, <3>2 DEF Stream, Typed, Unregistered
    <3>3. CASE pc'[d] # pc[d] /\ pc[c] = "running"
      <4>1. d = c /\ pc'[d] = "unwinding"
        BY <1>3, <3>3 DEF Typed, Unregistered
      <4>2. Stream(d) = written[d] \o send[d] /\ Stream(d)' = written[d]
        BY <1>1, <3>3, <4>1 DEF Stream
      <4>3. Consecutive(Stream(d))
        BY DEF GapFree, Consecutive
      <4>4. QED
        BY <4>1, <4>2, <4>3, WrittenPart DEF Typed
    <3>4. QED
      BY <3>1, <3>2, <3>3
  <2>2. QED
    BY <1>1, <2>1, StreamsKept DEF run
<1>8. QED
  BY <1>4, <1>5, <1>6, <1>7

LEMMA RegisterPreserves ==
  ASSUME IInv, NEW c \in Clients, Register(c)
  PROVE  IInv'
<1> USE DEF IInv
<1>1. /\ pc[c] = "spawned" /\ pc' = [pc EXCEPT ![c] = "running"]
      /\ readPump' = [readPump EXCEPT ![c] = "running"]
      /\ UNCHANGED <<source, run, written, cancelled, send>>
  BY DEF Register, Goto
<1>2. /\ c \notin clients /\ ~sendClosed[c] /\ send[c] = <<>> /\ written[c] = <<>>
  BY <1>1 DEF Registry, Unregistered, Typed
<1>3. /\ hubClosed =>
            /\ sendClosed' = [d \in Clients |-> sendClosed[d] \/ d = c]
            /\ clients' = clients /\ wsCount' = wsCount
      /\ ~hubClosed =>
            sendClosed' = sendClosed /\ clients' = clients \cup {c} /\ wsCount' = wsCount + 1
  BY DEF Register, CloseSends
<1>4. NoHubPanic'
  <2>1. panicked' = panicked \/ panicked' = (panicked \/ \E d \in {c} : sendClosed[d])
    BY DEF Register, CloseSends
  <2>2. QED
    BY <1>2, <2>1 DEF NoHubPanic
<1>5. panicked' \in BOOLEAN
  BY DEF Register, CloseSends, Typed
<1>6. clients' \subseteq Clients /\ sendClosed' \in [Clients -> BOOLEAN] /\ wsCount' \in Int
  <2>1. CASE hubClosed
    BY <1>3, <2>1 DEF Typed
  <2>2. CASE ~hubClosed
    BY <1>3, <2>2 DEF Typed
  <2>3. QED
    BY <2>1, <2>2
<1>7. Typed'
  BY <1>1, <1>6, <1>5 DEF Typed, source, run
<1>8. Registry'
  BY <1>1, <1>2, <1>3 DEF Registry, RunOrder, Typed, Unregistered
<1>9. RunOrder'
  BY <1>1, <1>3 DEF RunOrder, run
<1>10. GapFree'
  <2>1. ASSUME NEW d \in Clients
        PROVE  /\ Stream(d)' = Stream(d)
               /\ d \in clients' /\ pc'[d] = "running" =>
                     \/ Stream(d)' = <<>>
                     \/ d \in clients /\ pc[d] = "running" /\ Stream(d)' = Stream(d)
    <3>1. CASE d = c
      <4>1. Stream(c) = <<>>
        BY <1>1, <1>2 DEF Stream
      <4>2. Stream(c)' = <<>> \o <<>>
        BY <1>1, <1>2 DEF Stream, Typed
      <4>3. <<>> \o <<>> = <<>>
        BY EmptySeq, ConcatEmptySeq
      <4>4. QED
        BY <3>1, <4>1, <4>2, <4>3
    <3>2. CASE d # c
      BY <1>1, <1>3, <3>2 DEF Stream, Typed
    <3>3. QED
      BY <3>1, <3>2
  <2>2. QED
    BY <1>1, <2>1, StreamsKept DEF run
<1>11. ActiveClientsCounted'
  <2>1. Cardinality(clients \cup {c}) = Cardinality(clients) + 1
    BY <1>2, RegistryFinite, FS_AddElement
  <2>2. QED
    <3>1. SUFFICES ASSUME ~hubClosed
                   PROVE  wsCount' = Cardinality(clients') + toUncount'
      BY <1>1 DEF ActiveClientsCounted, run
    <3>2. /\ wsCount' = wsCount + 1 /\ clients' = clients \cup {c} /\ toUncount' = toUncount
          /\ wsCount = Cardinality(clients) + toUncount
      BY <1>1, <1>3, <3>1 DEF ActiveClientsCounted, run
    <3>3. QED
      BY <2>1, <3>2, RegistryFinite DEF Typed
<1>12. QED
  BY <1>4, <1>7, <1>8, <1>9, <1>10, <1>11

LEMMA WritePreserves ==
  ASSUME IInv, NEW c \in Clients, WriteResult(c) \/ WriteFails(c)
  PROVE  IInv'
<1> USE DEF IInv
<1>1. /\ pc[c] = "running" /\ send[c] \in Seq(Nat) /\ written[c] \in Seq(Nat)
      /\ UNCHANGED <<source, run, clients, wsCount, readPump, cancelled, sendClosed,
                     panicked>>
  BY DEF WriteResult, WriteFails, Typed
<1>2. /\ \A d \in Clients \ {c} : /\ pc'[d] = pc[d] /\ send'[d] = send[d]
                                  /\ written'[d] = written[d]
      /\ pc'[c] \in {"running", "unwinding"}
      /\ pc' \in [Clients -> Unregistered \cup {"running", "unwinding", "gone"}]
  BY <1>1 DEF WriteResult, WriteFails, Goto, Typed
<1>3. /\ send' \in [Clients -> Seq(Nat)] /\ written' \in [Clients -> Seq(Nat)]
  <2>1. send[c] # <<>> =>
           Head(send[c]) \in Nat /\ Tail(send[c]) \in Seq(Nat)
           /\ Append(written[c], Head(send[c])) \in Seq(Nat)
    BY <1>1, HeadTailProperties, AppendProperties
  <2>2. CASE WriteResult(c)
    BY <2>1, <2>2 DEF WriteResult, Typed
  <2>3. CASE WriteFails(c)
    BY <1>1, <2>1, <2>3 DEF WriteFails, Typed
  <2>4. QED
    BY <2>2, <2>3
<1>4. Typed'
  BY <1>1, <1>2, <1>3 DEF Typed, source, run
<1>5. Registry'
  BY <1>1, <1>2 DEF Registry, Unregistered, Typed
<1>6. RunOrder' /\ NoHubPanic' /\ ActiveClientsCounted'
  BY <1>1 DEF RunOrder, NoHubPanic, ActiveClientsCounted, run
<1>7. GapFree'
  <2>1. \A d \in Clients \ {c} : Stream(d)' = Stream(d)
    BY <1>2 DEF Stream
  <2>2. Stream(c) = written[c] \o send[c]
    BY <1>1 DEF Stream
  <2>3. CASE WriteResult(c)
    <3>1. /\ send[c] # <<>> /\ pc'[c] = "running" /\ send'[c] = Tail(send[c])
          /\ written'[c] = Append(written[c], Head(send[c]))
      BY <1>1, <2>3 DEF WriteResult, Typed
    <3>2. Stream(c)' = Stream(c)
      BY <1>1, <2>2, <3>1, MoveOne DEF Stream
    <3>3. QED
      BY <1>1, <1>2, <2>1, <3>2, StreamsKept DEF run
  <2>4. CASE WriteFails(c)
    <3>1. pc'[c] = "unwinding" /\ written' = written
      BY <2>4 DEF WriteFails, Goto, Typed
    <3>2. Stream(c)' = written[c]
      BY <3>1 DEF Stream
    <3>3. Consecutive(Stream(c)')
      <4>1. Consecutive(written[c] \o send[c])
        BY <2>2 DEF GapFree, Consecutive
      <4>2. QED
        BY <1>1, <3>2, <4>1, WrittenPart
    <3>4. QED
      BY <1>1, <1>2, <2>1, <3>1, <3>3, StreamsKept DEF run
  <2>5. QED
    BY <2>3, <2>4
<1>8. QED
  BY <1>4, <1>5, <1>6, <1>7

LEMMA CleanupPreserves ==
  ASSUME IInv, NEW c \in Clients, Cleanup(c)
  PROVE  IInv'
<1> USE DEF IInv
<1>1. /\ pc[c] = "unwinding" /\ pc' = [pc EXCEPT ![c] = "gone"]
      /\ UNCHANGED <<source, run, written, readPump, cancelled, send>>
  BY DEF Cleanup, Goto
<1>2. /\ c \in clients => sendClosed' = [d \in Clients |-> sendClosed[d] \/ d = c]
                          /\ wsCount' = wsCount - 1
      /\ c \notin clients => sendClosed' = sendClosed /\ wsCount' = wsCount
      /\ clients' = clients \ {c}
  BY DEF Cleanup, CloseSends
<1>3. NoHubPanic'
  BY DEF Cleanup, CloseSends, NoHubPanic, Registry
<1>4. Typed'
  <2>1. panicked' \in BOOLEAN
    BY DEF Cleanup, CloseSends, Typed
  <2>2. CASE c \in clients
    <3>1. sendClosed' \in [Clients -> BOOLEAN]
      BY <1>2, <2>2, Zenon DEF Typed
    <3>2. wsCount' \in Int /\ clients' \subseteq Clients
      BY <1>2, <2>2 DEF Typed
    <3>3. QED
      BY <1>1, <2>1, <3>1, <3>2 DEF Typed, source, run
  <2>3. CASE c \notin clients
    BY <1>1, <1>2, <2>1, <2>3 DEF Typed, source, run
  <2>4. QED
    BY <2>2, <2>3
<1>5. Registry'
  BY <1>1, <1>2 DEF Registry, Typed, Unregistered
<1>6. RunOrder'
  BY <1>1, <1>2 DEF RunOrder, run
<1>7. GapFree'
  <2>1. \A d \in Clients : Stream(d)' = Stream(d)
    BY <1>1 DEF Stream, Typed
  <2>2. QED
    BY <1>1, <1>2, <2>1, StreamsKept DEF run, Typed
<1>8. ActiveClientsCounted'
  <2>1. c \in clients => Cardinality(clients \ {c}) = Cardinality(clients) - 1
    BY RegistryFinite, FS_RemoveElement
  <2>2. QED
    <3>1. SUFFICES ASSUME ~hubClosed
                   PROVE  wsCount' = Cardinality(clients') + toUncount'
      BY <1>1 DEF ActiveClientsCounted, run
    <3>2. wsCount = Cardinality(clients) + toUncount /\ toUncount' = toUncount
      BY <1>1, <3>1 DEF ActiveClientsCounted, run
    <3>3. CASE c \in clients
      BY <1>2, <2>1, <3>2, <3>3, RegistryFinite DEF Typed
    <3>4. CASE c \notin clients
      BY <1>2, <3>2, <3>4
    <3>5. QED
      BY <3>3, <3>4
<1>9. QED
  BY <1>3, <1>4, <1>5, <1>6, <1>7, <1>8

-----------------------------------------------------------------------------

LEMMA Initially == Init => IInv
<1> SUFFICES ASSUME Init
             PROVE  IInv
  OBVIOUS
<1>1. <<>> \in Seq(Nat) /\ Len(<<>>) = 0
  BY EmptySeq
<1>2. Typed
  <2>1. published \in 0..MaxResults /\ taken \in 0..published
    BY HubAssumption DEF Init
  <2>2. /\ matcherClosed \in BOOLEAN /\ ctxDone \in BOOLEAN /\ hubClosed \in BOOLEAN
        /\ panicked \in BOOLEAN
    BY DEF Init
  <2>3. QED
    BY <1>1, <2>1, <2>2 DEF Init, Typed, Unregistered
<1>3. Registry /\ NoHubPanic
  BY DEF Init, Registry, NoHubPanic
<1>4. GapFree
  <2>1. \A c \in Clients : Stream(c) = <<>>
    BY DEF Init, Stream
  <2>2. QED
    BY <1>1, <2>1 DEF GapFree
<1>5. ActiveClientsCounted
  BY FS_EmptySet DEF Init, ActiveClientsCounted
<1>6. RunOrder
  <2>1. hubClosed = FALSE /\ hubPC = "select" /\ toUncount = 0 /\ clients = {}
    BY DEF Init
  <2>2. ~(toUncount > 0)
    BY <2>1
  <2>3. QED
    BY <2>1, <2>2 DEF RunOrder
<1>7. QED
  BY <1>2, <1>3, <1>4, <1>5, <1>6 DEF IInv

LEMMA Inductive == IInv /\ [Next]_vars => IInv'
<1> SUFFICES ASSUME IInv, [Next]_vars
             PROVE  IInv'
  OBVIOUS
<1>1. CASE Process \/ LeaveLoop \/ UNCHANGED vars
  BY <1>1, QuietSteps DEF Process
<1>2. CASE Broadcast
  BY <1>2, BroadcastPreserves
<1>3. CASE Uncount
  BY <1>3, UncountPreserves
<1>4. CASE MarkClosedAndDrain
  BY <1>4, DrainPreserves
<1>5. ASSUME NEW c \in Clients, Connection(c)
      PROVE  IInv'
  <2>1. CASE Register(c)
    BY <2>1, RegisterPreserves
  <2>2. CASE WriteResult(c) \/ WriteFails(c)
    BY <2>2, WritePreserves
  <2>3. CASE Cleanup(c)
    BY <2>3, CleanupPreserves
  <2>4. CASE \/ ServeWS(c) \/ Upgrade(c) \/ RequestContextDone(c) \/ ReadEnds(c)
             \/ WriteDropped(c) \/ WriteCancelled(c)
    BY <2>4, SettlingSteps
  <2>5. QED
    BY <1>5, <2>1, <2>2, <2>3, <2>4 DEF Connection, WritePump
<1>6. QED
  BY <1>1, <1>2, <1>3, <1>4, <1>5 DEF Next, Run

THEOREM Invariance == Spec => []IInv
  BY Initially, Inductive, PTL DEF Spec

(* Every state of the hub is well typed; what a behaviour has taken from the *)
(* matcher never exceeds what was published.                                *)
THEOREM TypeCorrect == Spec => []Typed
  BY Invariance, PTL DEF IInv

(* However drops, cleanups, drains and late registrations interleave, no     *)
(* goroutine sends on a closed channel or closes one twice.                  *)
THEOREM NeverPanics == Spec => []NoHubPanic
  BY Invariance, PTL DEF IInv

(* Whatever the size of a send buffer, a consumer sees consecutive results,  *)
(* and one still registered is waiting for nothing but what comes next.      *)
THEOREM StreamsHaveNoGap == Spec => []GapFree
  BY Invariance, PTL DEF IInv

(* While the hub is open the atomic counter is the registry's size plus the  *)
(* clients a broadcast has dropped and not yet taken off.                    *)
THEOREM CounterTruthful == Spec => []ActiveClientsCounted
  BY Invariance, PTL DEF IInv

=============================================================================
