---------------------------- MODULE OutputParser ----------------------------
(***************************************************************************)
(* parse_output of boring-controller/src/output_parser.rs, line by line,   *)
(* and the second look for the promise in reconciler.rs:256-269.           *)
(*                                                                         *)
(* A line is the set of markers that occur in it, whether anything is left *)
(* of what follows the first of them, and, where it is the completion      *)
(* promise, what stands around that.                                       *)
(***************************************************************************)
EXTENDS Integers, Sequences, SequencesExt

CONSTANTS
  Lines,            \* the lines a job may print
  MaxLines,         \* bound: how many
  PromiseEdges,     \* what the configured promise may begin and end with
  BaseSequence      \* global_sequence when the output is parsed

\* "dash" is `-`; "mark" is one of * ` _ #.
Edges == {"none", "dash", "mark"}

Markers == <<"EMIT", "MEMORY", "TASK", "HUMAN", "NOTIFY", "SCRATCHPAD">>

Line ==
  [markers : SUBSET Range(Markers), empty : BOOLEAN, promise : {"no"} \cup Edges]

(***************************************************************************)
(* The else-if chain: the first marker of the chain that occurs anywhere   *)
(* in the line decides.                                                    *)
(***************************************************************************)
\* Mutation: the chain is tried from its other end.
MarkerLast(line) == SelectLastInSeq(Markers, LAMBDA m : m \in line.markers)
MarkerOf(line) == SelectInSeq(Markers, LAMBDA m : m \in line.markers)

Is(line, marker) == MarkerOf(line) # 0 /\ Markers[MarkerOf(line)] = marker

VARIABLES
  edge,             \* what the run's promise begins and ends with, see Edges
  input,            \* the lines of stdout
  next,             \* the next one to look at
  seq,              \* the local of that name
  completionFound,  \* so too
  result,           \* ParsedOutput
  published         \* what the reconciler publishes of it, "none" before

vars == <<edge, input, next, seq, completionFound, result, published>>

(***************************************************************************)
(* The parser strips dashes and marks from the line, never from the        *)
(* promise: a promise that begins with one is not found.                   *)
(***************************************************************************)
IsPromise(line) ==
  line.markers = {} /\ line.promise # "no" /\ edge = "none"

\* The second look strips marks only.
LooksLikePromise(line) ==
  /\ line.promise # "no"
  /\ \/ edge = "none" /\ line.promise # "dash"
     \/ edge = "dash" /\ line.promise # "dash"

Lists == {"memories", "tasks", "human", "scratchpad"}

TypeOK ==
  /\ edge \in PromiseEdges
  /\ input \in UNION {[1..n -> Lines] : n \in 0..MaxLines}
  /\ next \in 1..Len(input) + 1
  /\ seq \in BaseSequence..BaseSequence + Len(input)
  /\ completionFound \in BOOLEAN
  /\ DOMAIN result = Lists \cup {"events"}
  /\ published \in {"none", "events", "completion", "default"}

Init ==
  /\ edge \in PromiseEdges
  /\ \E n \in 0..MaxLines : input \in [1..n -> Lines]
  /\ next = 1
  /\ seq = BaseSequence
  /\ completionFound = FALSE
  /\ result = [l \in Lists \cup {"events"} |-> <<>>]
  /\ published = "none"

-----------------------------------------------------------------------------
Here == input[next]

Scanning == next <= Len(input)

\* An entry remembers the line it comes from.
Add(list, entry) == result' = [result EXCEPT ![list] = Append(@, entry)]

Count == seq' = seq + 1

EmitLine ==
  /\ Is(Here, "EMIT")
  /\ IF Here.empty
     THEN UNCHANGED <<result, seq>>
     ELSE Add("events", [line |-> next, seq |-> seq]) /\ Count
  /\ UNCHANGED completionFound

MemoryLine ==
  /\ Is(Here, "MEMORY")
  /\ IF Here.empty THEN UNCHANGED result ELSE Add("memories", [line |-> next])
  /\ UNCHANGED <<seq, completionFound>>

\* The id of a new task is made from the number of the next event.
TaskLine ==
  /\ Is(Here, "TASK")
  /\ IF Here.empty THEN UNCHANGED result ELSE Add("tasks", [line |-> next, id |-> seq])
  /\ UNCHANGED <<seq, completionFound>>

HumanLine ==
  /\ Is(Here, "HUMAN") \/ Is(Here, "NOTIFY")
  /\ Add("human", [line |-> next])
  /\ UNCHANGED <<seq, completionFound>>

ScratchpadLine ==
  /\ Is(Here, "SCRATCHPAD")
  /\ Add("scratchpad", [line |-> next])
  /\ UNCHANGED <<seq, completionFound>>

FirstPromise == ~completionFound /\ IsPromise(Here)

PromiseLine ==
  /\ FirstPromise
  /\ completionFound' = TRUE
  /\ Add("events", [line |-> next, seq |-> seq])
  /\ Count

OtherLine ==
  /\ MarkerOf(Here) = 0
  /\ ~FirstPromise
  /\ UNCHANGED <<result, seq, completionFound>>

Scan ==
  /\ Scanning
  /\ \/ EmitLine \/ MemoryLine \/ TaskLine \/ HumanLine \/ ScratchpadLine
     \/ PromiseLine \/ OtherLine
  /\ next' = next + 1
  /\ UNCHANGED <<edge, input, published>>

\* reconciler.rs:244-297, for a hat that has a default event.
Publish ==
  /\ ~Scanning
  /\ published = "none"
  /\ published' = CASE result.events # <<>> -> "events"
                    [] result.events = <<>> /\ (\E i \in DOMAIN input :
                         LooksLikePromise(input[i])) -> "completion"
                    [] OTHER -> "default"
  /\ UNCHANGED <<edge, input, next, seq, completionFound, result>>

Done == published # "none" /\ UNCHANGED vars

Next == Scan \/ Publish \/ Done

Spec == Init /\ [][Next]_vars

-----------------------------------------------------------------------------
(***************************************************************************)
(* Properties.                                                             *)
(***************************************************************************)
Before(line) == {i \in DOMAIN input : i < line}

\* The numbers of the events are BaseSequence and those after it without a
\* gap, whatever stands between them; the caller relies on it when it adds
\* the number of events to global_sequence (reconciler.rs:242).
NumberedWithoutGaps ==
  /\ \A i \in DOMAIN result.events : result.events[i].seq = BaseSequence + i - 1
  /\ seq = BaseSequence + Len(result.events)

(***************************************************************************)
(* The reference for what makes an event: a line that has the marker and a *)
(* topic, or the first line that is the promise and nothing else.          *)
(***************************************************************************)
IsEvent(i) ==
  \/ "EMIT" \in input[i].markers /\ ~input[i].empty
  \/ IsPromise(input[i]) /\ \A k \in Before(i) : ~IsPromise(input[k])

EventsAreThoseEmitted ==
  published # "none" =>
    /\ {result.events[i].line : i \in DOMAIN result.events} =
         {i \in DOMAIN input : IsEvent(i)}
    /\ \A i, j \in DOMAIN result.events :
         i < j => result.events[i].line < result.events[j].line

\* A job that does nothing but declare completion is not answered with the
\* default event; together the two looks find the bare promise, also one that
\* begins with a dash.
PromiseHeard ==
  published = "default" /\ edge # "mark" =>
    \A i \in DOMAIN input : input[i].promise # "none"
=============================================================================
