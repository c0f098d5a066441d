---------------------------- MODULE StreamParser ----------------------------
(***************************************************************************)
(* The SSE frame parser, internal/stream/parser.go: the lines of one        *)
(* response body become frames, each handed to the matcher.                 *)
(*                                                                          *)
(* A line is a record of its field and its value: what distinguishes lines  *)
(* is which case of the scan loop they take. A value is opaque, and a       *)
(* payload is the sequence of its data lines (the code joins them with a    *)
(* newline, which no line contains). Whether the matcher admits a frame     *)
(* depends on its payload, so here it is either answer.                     *)
(*                                                                          *)
(* A body that ends inside a line still yields that line: bufio.Scanner     *)
(* delivers its last token at the end of the input and on a read error.     *)
(***************************************************************************)
EXTENDS Selection

CONSTANTS
    Values,         \* values of data lines
    EventTypes,     \* values of event lines
    Empty,          \* the empty string
    Torn,           \* the value of a line that the end of the body cut short
    Message,        \* the event type of a frame without one
    MaxLines        \* bound: lines of one response body

ASSUME ParserAssumption ==
    /\ {Empty, Torn, Message} \cap (Values \cup EventTypes) = {}
    /\ Empty # Torn /\ Message # Empty /\ Message # Torn
    /\ MaxLines \in Nat

VARIABLES
    pc,             \* of the client that reads: "reading" inside parseStream
    matcherClosed,  \* Ingest answers ErrMatcherClosed
    lines,          \* history: the lines scanned on this connection
    eventType, dataLines,           \* the frame being put together
    dispatched,     \* history: frames handed to Ingest, with its verdict
    receivedAny,    \* a frame was ingested
    outcome         \* how streamOnce ended: "canceled", "deadline",
                    \* "closed" (ErrMatcherClosed) or "failed"

frameVars == <<lines, eventType, dataLines, dispatched, receivedAny>>
parserVars == <<pc, matcherClosed, frameVars, outcome>>

Blank == [field |-> "blank", value |-> Empty]
Skipped == {[field |-> f, value |-> Empty] : f \in {"comment", "other"}}
DataLines == [field : {"data"}, value : Values \cup {Empty}]
EventLines == [field : {"event"}, value : EventTypes \cup {Empty}]
WholeLines == {Blank} \cup Skipped \cup DataLines \cup EventLines

(* A torn line has lost the end of its value or of its field's name, or it   *)
(* is a blank line that lost its newline but not its carriage return.       *)
TornLines == {Blank} \cup Skipped \cup [field : {"data", "event"}, value : {Torn, Empty}]

AllLines == WholeLines \cup TornLines
Outcomes == {"canceled", "deadline", "closed", "failed"}
Verdicts == {"ingested", "refused", "closed"}

-----------------------------------------------------------------------------
(* dispatch: Ingest's answer to a frame *)

IngestAnswers == IF matcherClosed THEN {"closed"} ELSE {"ingested", "refused"}

Frame(verdict) ==
    [type |-> IF eventType = Empty THEN Message ELSE eventType,
     data |-> dataLines, verdict |-> verdict]

(* The next frame would start from what the last one left behind. *)
ForgetDataOnly == dataLines' = <<>> /\ UNCHANGED eventType

ForgetFrame == eventType' = Empty /\ dataLines' = <<>>

EndWith(o) == pc' = "judge" /\ outcome' = o

(* A refused frame would count as received. *)
ReceivedAlways(v) == TRUE

ReceivedAfter(v) == receivedAny \/ v = "ingested"

(* A blank line ends the frame; without data lines it is dropped. A closed  *)
(* matcher ends the connection, whatever else the line had to say.          *)
BlankLine(then) ==
    IF dataLines = <<>>
    THEN ForgetFrame /\ then /\ UNCHANGED <<dispatched, receivedAny>>
    ELSE \E v \in IngestAnswers :
           /\ dispatched' = Append(dispatched, Frame(v))
           /\ receivedAny' = ReceivedAfter(v)
           /\ IF v = "closed" THEN EndWith("closed") /\ UNCHANGED <<eventType, dataLines>>
                              ELSE ForgetFrame /\ then

FieldLine(l) ==
    /\ eventType' = IF l.field = "event" THEN l.value ELSE eventType
    /\ dataLines' = IF l.field = "data" THEN Append(dataLines, l.value) ELSE dataLines
    /\ UNCHANGED <<dispatched, receivedAny>>

(* One pass of the scan loop, followed by "then". *)
Scan(l, then) ==
    /\ pc = "reading" /\ Len(lines) < MaxLines
    /\ lines' = Append(lines, l)
    /\ IF l = Blank THEN BlankLine(then) ELSE FieldLine(l) /\ then
    /\ UNCHANGED matcherClosed

ReadLine == \E l \in WholeLines : Scan(l, UNCHANGED <<pc, outcome>>)

(* The body ends inside a line: Scan returns that line, then FALSE. *)
TornEnd(o) == \E l \in TornLines : Scan(l, EndWith(o))

(* The body ends between lines, fails, or has a line over 1 MiB. *)
CleanEnd(o) ==
    /\ pc = "reading"
    /\ EndWith(o)
    /\ UNCHANGED <<matcherClosed, frameVars>>

-----------------------------------------------------------------------------
(* What the frames of a body are, said of the whole body at once *)

(* Where the block of lines that ends before position i starts: after the    *)
(* last blank line before it.                                                *)
Start(i) ==
    LET before == {j \in 1..(i - 1) : lines[j] = Blank}
    IN  IF before = {} THEN 1 ELSE 1 + CHOOSE j \in before : \A k \in before : k <= j

Block(i) == SubSeq(lines, Start(i), i - 1)

FieldLines(f) == {l \in AllLines : l.field = f}

ValuesOf(block, f) ==
    LET chosen == Chosen(block, FieldLines(f))
    IN  [i \in DOMAIN chosen |-> chosen[i].value]

LastOr(s, d) == IF s = <<>> \/ s[Len(s)] = Empty THEN d ELSE s[Len(s)]

HasData(i) == lines[i] = Blank /\ ValuesOf(Block(i), "data") # <<>>

FrameEnds == Chosen([i \in 1..Len(lines) |-> i], {i \in 1..Len(lines) : HasData(i)})

(* Every blank line with data before it makes one frame, of all the data    *)
(* lines since the previous blank line and of the last event type among     *)
(* them, in the order of the body and with nothing from another connection; *)
(* a frame the body did not finish is never handed on, torn or not.         *)
FramesAreBlocks ==
    /\ Len(dispatched) = Len(FrameEnds)
    /\ \A k \in DOMAIN dispatched :
         /\ dispatched[k].data = ValuesOf(Block(FrameEnds[k]), "data")
         /\ dispatched[k].type = LastOr(ValuesOf(Block(FrameEnds[k]), "event"), Message)

=============================================================================
