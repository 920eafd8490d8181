------------------------------ MODULE SseParser ------------------------------
(***************************************************************************)
(* SseParser::feed, which gets an event stream in pieces that the network   *)
(* chose, and format_sse_event, which makes one.  The parser's state is as  *)
(* in the code; what it should produce is defined from the whole stream, at *)
(* the end of the module.                                                   *)
(*                                                                         *)
(* Bytes are abstract: CR, LF, B (three of them are the byte order mark),   *)
(* and "d", "e", "i" for the fields data, event and id: a line that begins  *)
(* with "d" is a data field whose value is the rest of the line.  A line    *)
(* that begins with anything else is ignored, as comments are.              *)
(***************************************************************************)
EXTENDS Integers, Sequences, SequencesExt

CONSTANTS
  MaxLen,          \* bound on the bytes of a stream
  Limits,          \* values of max_event_bytes_
  CR, LF, B, D, E, I,
  None             \* no event that was formatted

ParserAssumption == MaxLen \in Nat /\ Limits \subseteq Nat

Bytes == {CR, LF, B, D, E, I}
BOM == <<B, B, B>>

VARIABLES
  limit,           \* max_event_bytes_
  stream,          \* the bytes that the server sends
  source,          \* the event it was formatted from, or None
  fed,             \* how many of them were fed
  buffer, atStart, skipLf,             \* buffer_, at_stream_start_, ...
  fields,          \* data_ (as its lines), event_, last_event_id_
  events,          \* events that feed returned so far
  failed           \* feed threw length_error

parser == <<buffer, atStart, skipLf, fields>>
vars == <<limit, stream, source, fed, parser, events, failed>>

(* The decisions of the code; a mutant of one stands before it.             *)
NeverSkips(b, nl) == FALSE                         \* mutant
(* A CR at the very end of the buffer: an LF that follows belongs to it. *)
SkipsNextLf(b, nl) == b[nl] = CR /\ nl = Len(b)

(* The beginning of the stream may still become a byte order mark. *)
MaybeBom(b) == Len(b) < Len(BOM) /\ IsPrefix(b, BOM)

(* The fields after an empty line: last_event_id_ persists. *)
Cleared(f) == [f EXCEPT !.data = <<>>, !.event = <<>>]

(* An empty line ends an event that has data. *)
Dispatches(f) == f.data # <<>>

(* An unfinished line is already too long. *)
RestTooLong(b, from) == Len(b) - from + 1 > limit

(* append_data_lines: the data is split here. *)
SplitsAt(data, i) == data[i] \in {CR, LF}

-----------------------------------------------------------------------------
Line(b, from, nl) == SubSeq(b, from, nl - 1)

DataSize(data) == FoldLeft(LAMBDA n, v : n + Len(v) + 1, 0, data)

(* The limits that process_line enforces on a line. *)
TooLarge(f, line) ==
  LET size == Len(line) - 1 IN
  /\ line # <<>> /\ line[1] = D
  /\ size >= limit \/ DataSize(f.data) > limit - size - 1

(* process_line: the fields, and the events, after a line. *)
ProcessLine(p, line) ==
  LET f == p.fields  value == Tail(line) IN
  CASE line = <<>> ->
         [p EXCEPT !.fields = Cleared(f),
                   !.events = IF Dispatches(f) THEN Append(@, f) ELSE @]
    [] line # <<>> /\ line[1] = D ->
         [p EXCEPT !.fields.data = Append(@, value)]
    [] line # <<>> /\ line[1] = E -> [p EXCEPT !.fields.event = value]
    [] line # <<>> /\ line[1] = I -> [p EXCEPT !.fields.id = value]
    [] OTHER -> p

NewlineFrom(b, from) ==
  LET at == {i \in from..Len(b) : b[i] \in {CR, LF}} IN
  IF at = {} THEN 0 ELSE CHOOSE i \in at : \A j \in at : i <= j

RECURSIVE Consume(_, _, _)
(* The loop over the lines of the buffer b. *)
Consume(p, b, from) ==
  LET nl == NewlineFrom(b, from)  line == Line(b, from, nl)
      next == IF b[nl] = CR /\ nl < Len(b) /\ b[nl + 1] = LF
              THEN nl + 2 ELSE nl + 1 IN
  IF nl = 0
  THEN [p EXCEPT !.buffer = SubSeq(b, from, Len(b)),
                 !.failed = RestTooLong(b, from)]
  ELSE IF nl - from > limit \/ TooLarge(p.fields, line)
       THEN [p EXCEPT !.failed = TRUE]
       ELSE LET q == ProcessLine(p, line) IN
            Consume([q EXCEPT !.skipLf = SkipsNextLf(b, nl)], b, next)

ChunkLimit == IF limit + 1 > 3 THEN limit + 1 ELSE 3

RECURSIVE Feed(_, _)
(* feed: at most ChunkLimit bytes are buffered at a time. *)
Feed(p, bytes) ==
  LET room == ChunkLimit - Len(p.buffer)
      size == IF room < Len(bytes) THEN room ELSE Len(bytes)
      b == p.buffer \o SubSeq(bytes, 1, size)
      rest == SubSeq(bytes, size + 1, Len(bytes))
      c == IF p.skipLf /\ b[1] = LF THEN Tail(b) ELSE b
      q == [p EXCEPT !.skipLf = FALSE] IN
  CASE bytes = <<>> \/ p.failed -> p
    [] bytes # <<>> /\ ~p.failed /\ p.atStart /\ MaybeBom(c) ->
         Feed([q EXCEPT !.buffer = c], rest)
    [] bytes # <<>> /\ ~p.failed /\ ~(p.atStart /\ MaybeBom(c)) ->
         LET d == IF p.atStart /\ IsPrefix(BOM, c) THEN SubSeq(c, 4, Len(c))
                  ELSE c IN
         Feed(Consume([q EXCEPT !.atStart = FALSE], d, 1), rest)

(* One read of the network, of n bytes.  If feed throws, what it had parsed *)
(* is lost with its result.                                                 *)
Read(n) ==
  /\ ~failed /\ fed + n <= Len(stream)
  /\ fed' = fed + n
  /\ LET p == Feed([buffer |-> buffer, atStart |-> atStart, skipLf |-> skipLf,
                    fields |-> fields, events |-> <<>>, failed |-> FALSE],
                   SubSeq(stream, fed + 1, fed + n)) IN
     /\ failed' = p.failed
     /\ buffer' = p.buffer /\ atStart' = p.atStart /\ skipLf' = p.skipLf
     /\ fields' = p.fields
     /\ events' = IF p.failed THEN events ELSE events \o p.events
  /\ UNCHANGED <<limit, stream, source>>

-----------------------------------------------------------------------------
RECURSIVE DataLines(_)
(* append_data_lines, for an event with the given data. *)
DataLines(data) ==
  LET at == {i \in DOMAIN data : SplitsAt(data, i)}
      end == IF at = {} THEN 0 ELSE CHOOSE i \in at : \A j \in at : i <= j
      next == IF data[end] = CR /\ end < Len(data) /\ data[end + 1] = LF
              THEN end + 2 ELSE end + 1 IN
  IF end = 0 THEN <<D>> \o data \o <<LF>>
  ELSE <<D>> \o SubSeq(data, 1, end - 1) \o <<LF>>
         \o DataLines(SubSeq(data, next, Len(data)))

SingleLine(value) == SelectSeq(value, LAMBDA c : c \notin {CR, LF})

(* format_sse_event *)
FormatSseEvent(e) ==
  (IF e.id # <<>> THEN <<I>> \o SingleLine(e.id) \o <<LF>> ELSE <<>>)
    \o DataLines(e.data) \o <<LF>>

-----------------------------------------------------------------------------
Strings(S, n) == UNION {[1..k -> S] : k \in 0..n}
Sources == [data : Strings({CR, LF, I}, MaxLen - 2),
            id : {<<>>, <<D>>, <<CR, D>>}]

Init ==
  /\ limit \in Limits
  /\ \/ source = None
        /\ \/ stream \in Strings(Bytes, MaxLen)
           \/ stream \in {BOM \o s : s \in Strings(Bytes, MaxLen - 2)}
     \/ source \in Sources /\ stream = FormatSseEvent(source)
  /\ fed = 0 /\ buffer = <<>> /\ atStart = TRUE /\ skipLf = FALSE
  /\ fields = [data |-> <<>>, event |-> <<>>, id |-> <<>>]
  /\ events = <<>> /\ failed = FALSE

Next == \E n \in 1..Len(stream) : Read(n)

Spec == Init /\ [][Next]_vars

-----------------------------------------------------------------------------
(* What a stream means, read as a whole: a terminator is an LF, or a CR     *)
(* with the LF that may follow it; lines are what lies between terminators; *)
(* the last line counts only if it is terminated.                           *)
Body(s) == IF IsPrefix(BOM, s) THEN SubSeq(s, 4, Len(s)) ELSE s

LineEnds(s) ==
  {i \in DOMAIN s : s[i] = CR \/ (s[i] = LF /\ (i = 1 \/ s[i - 1] # CR))}

LineStart(s, end) ==
  LET before == {i \in LineEnds(s) : i < end}
      prev == CHOOSE i \in before : \A j \in before : j <= i IN
  IF before = {} THEN 1
  ELSE IF s[prev] = CR /\ s[prev + 1] = LF THEN prev + 2 ELSE prev + 1

LinesOf(s) ==
  [k \in 1..Cardinality(LineEnds(s)) |->
     LET end == CHOOSE i \in LineEnds(s) :
                  Cardinality({j \in LineEnds(s) : j < i}) = k - 1
     IN SubSeq(s, LineStart(s, end), end - 1)]

(* The event that an empty line k dispatches: the data since the previous   *)
(* empty line, the last event field since it, and the last id of all.       *)
Between(ls, k) ==
  {i \in 1..(k - 1) : \A j \in i..(k - 1) : ls[j] # <<>>}

Values(ls, ks, field) ==
  LET hits == {i \in ks : ls[i] # <<>> /\ ls[i][1] = field} IN
  [n \in 1..Cardinality(hits) |->
     Tail(ls[CHOOSE i \in hits : Cardinality({j \in hits : j < i}) = n - 1])]

LastOr(vs) == IF vs = <<>> THEN <<>> ELSE vs[Len(vs)]

EventsOf(s) ==
  LET ls == LinesOf(Body(s))
      ends == {k \in DOMAIN ls :
                 ls[k] = <<>> /\ Values(ls, Between(ls, k), D) # <<>>} IN
  [n \in 1..Cardinality(ends) |->
     LET k == CHOOSE i \in ends : Cardinality({j \in ends : j < i}) = n - 1 IN
     [data |-> Values(ls, Between(ls, k), D),
      event |-> LastOr(Values(ls, Between(ls, k), E)),
      id |-> LastOr(Values(ls, 1..k, I))]]

(* However the network cuts the stream, the events are those of the stream  *)
(* as a whole: a CR LF, or a byte order mark, that is cut in two is not     *)
(* read as something else.                                                  *)
FragmentationIndependent ==
  fed = Len(stream) /\ ~failed => events = EventsOf(stream)

(* An event that was formatted by the server is parsed back as that event,  *)
(* with its data split into lines: no CR or LF in the data or in the id     *)
(* ends the event or begins another field.                                  *)
RoundTrip ==
  source # None /\ fed = Len(stream) /\ ~failed =>
    /\ Len(events) = 1
    /\ events[1].id = SingleLine(source.id)
    /\ FoldLeft(LAMBDA s, v : s \o v, <<>>, events[1].data)
         = SingleLine(source.data)

(* The same bytes, fed one at a time. *)
ByteWise(bytes) ==
  LET step(p, c) ==
        LET q == Feed([p EXCEPT !.events = <<>>], <<c>>) IN
        IF q.failed THEN [p EXCEPT !.failed = TRUE]
        ELSE [q EXCEPT !.events = p.events \o @] IN
  FoldLeft(step,
           [buffer |-> <<>>, atStart |-> TRUE, skipLf |-> FALSE,
            fields |-> [data |-> <<>>, event |-> <<>>, id |-> <<>>],
            events |-> <<>>, failed |-> FALSE],
           bytes)

(* Whether an event is too large does not depend on how the network cuts    *)
(* the stream.  The events that are delivered before it are a beginning of  *)
(* those before it in the stream: the ones that came in one read with it    *)
(* are lost.                                                                *)
LimitIndependent ==
  LET p == ByteWise(SubSeq(stream, 1, fed)) IN
  failed = p.failed /\ IsPrefix(events, p.events)

(* The parser's events, and its refusals, are those of the stream, wherever *)
(* the network cuts it, and those that the server formatted.                *)
ParserExact == FragmentationIndependent /\ RoundTrip /\ LimitIndependent
=============================================================================
