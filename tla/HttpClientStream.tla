--------------------------- MODULE HttpClientStream ---------------------------
(***************************************************************************)
(* HttpClientStream: one HTTP exchange whose request body is written, and   *)
(* whose response body is read, piece by piece.  Each direction is used     *)
(* serially: the next call follows the callback of the one before.  Calls   *)
(* are posted to the stream's strand; cancel() is not, it runs in the       *)
(* thread that calls it.                                                    *)
(*                                                                         *)
(* w is the request direction and r the response direction: op is what is   *)
(* posted or in progress, out how it ended once its handler is queued, and  *)
(* with op "answer" the callback is being called with out.                  *)
(***************************************************************************)
EXTENDS Integers, Sequences

CONSTANTS
  MaxChunks,      \* bound on the pieces of the request body
  MaxParts,       \* bound on the pieces of the response body
  MaxInterim,     \* bound on the 1xx responses
  MaxStarts       \* bound on the calls of async_start

ASSUME StreamAssumption ==
  /\ MaxChunks \in Nat /\ MaxParts \in Nat /\ MaxInterim \in Nat
  /\ MaxStarts \in Nat

Chunked == -1     \* the request has no Content-Length

(* Pieces of a message: its head is 0, its body 1, 2, ... *)
Head0 == 0
End == -1         \* the last chunk of a request
Interim == -2     \* the head of a 1xx response

VARIABLES
  useTls,
  length,         \* pieces that the Content-Length covers, or Chunked
  w, r,
  made,           \* plain_stream or tls_stream exists
  link,           \* its socket: "none", "up" or "closed"
  started, requestFinished,
  parser,         \* response_parser: "none", "head", "body" or "done"
  parts,          \* pieces of the response body the server sends
  interim,        \* 1xx responses so far
  starts,         \* calls of async_start
  restarted,      \* history: one came after a header had been written
  wire, got,      \* history: the pieces that were written on the connection
                  \* of the last start, and those that were read
  cancelled       \* cancel() was called

config == <<useTls, length, parts, starts, restarted>>
conn == <<made, link, started, requestFinished, parser>>
streamVars == <<config, w, r, conn, interim, wire, got, cancelled>>

(* The decisions of the code; a mutant of one stands before it.             *)
WritesOnceFinished == started                      \* mutant
(* write_on_executor and finish_on_executor go on. *)
MayWrite == started /\ ~requestFinished

(* read_on_executor has a response whose body can be read. *)
HasResponse == parser # "none"

(* The response is complete: the answer is done, without reading. *)
AllRead == parser = "done"

DropsFinal == {}                                   \* mutant
(* The response heads that are handed to the callback. *)
FinalHeads == {"final"}

(* started once the header was written. *)
StartedAfter(out) == out = "ok"

SkipsCallback(out) ==                              \* mutant
  [op |-> "idle", out |-> "pending", arg |-> 0]
(* The direction while its callback is called. *)
Answer(out) == [op |-> "answer", out |-> out, arg |-> 0]

-----------------------------------------------------------------------------
Idle == [op |-> "idle", out |-> "pending", arg |-> 0]

(* An operation on a closed socket fails at once; connecting opens it.      *)
Begin(op, arg) ==
  [op |-> op, arg |-> arg,
   out |-> IF link = "closed" /\ op \notin {"resolve", "connect"}
           THEN "error" ELSE "pending"]

Post(op, arg) == [op |-> op, out |-> "pending", arg |-> arg]

AsyncStart == w.op = "idle" /\ w' = Post("start", 0)
AsyncWrite(c) == w.op = "idle" /\ w' = Post("write", c)
AsyncFinish == w.op = "idle" /\ w' = Post("finish", 0)
AsyncReadHead == r.op = "idle" /\ r' = Post("readHead", 0)
AsyncRead == r.op = "idle" /\ r' = Post("readSome", 0)

(* What the network does to an operation in progress. *)
Network(op) ==
  CASE op \in {"resolve", "connect"} -> {"ok", "error"}
    [] op \in {"tls", "header", "body", "end"} ->
         {"error"} \cup IF link = "up" THEN {"ok"} ELSE {}
    [] op = "head" ->
         {"error"} \cup (IF link = "up" THEN {"final"} ELSE {})
           \cup (IF link = "up" /\ interim < MaxInterim THEN {"interim"}
                 ELSE {})
    [] op = "part" -> {"error"} \cup IF link = "up" THEN {"ok"} ELSE {}
    [] OTHER -> {}

(* A direction whose socket is closed: its operation in progress fails. *)
Aborted(d) ==
  IF Network(d.op) # {} /\ d.out = "pending"
  THEN [d EXCEPT !.out = "error"] ELSE d

FinishWrite(how) ==
  /\ w.out = "pending" /\ how \in Network(w.op)
  /\ w' = [w EXCEPT !.out = how]
  /\ link' = IF w.op = "connect" /\ how = "ok" THEN "up" ELSE link
  /\ UNCHANGED <<config, r, made, started, requestFinished, parser, interim,
                 wire, got, cancelled>>

FinishRead(how) ==
  /\ r.out = "pending" /\ how \in Network(r.op)
  /\ r' = [r EXCEPT !.out = how]
  /\ interim' = IF how = "interim" THEN interim + 1 ELSE interim
  /\ UNCHANGED <<config, w, conn, wire, got, cancelled>>

-----------------------------------------------------------------------------
(* start_on_executor: a URL that is no http or https is refused, and so may *)
(* the host name be for TLS; otherwise the name is resolved.                *)
(* Nothing guards it: a second start makes a new stream and serializer,     *)
(* which closes the socket of the first and aborts a read of it (over TLS   *)
(* that read is left with a stream that is gone), and keeps started,        *)
(* request_finished and the parser as they are.                             *)
StartOnExecutor ==
  /\ w.op = "start"
  /\ \/ w' = Answer("error") /\ UNCHANGED <<made, link, wire, r>>
     \/ /\ w' = Begin("resolve", 0) \/ (useTls /\ w' = Answer("error"))
        /\ made' = TRUE /\ link' = "none" /\ wire' = <<>>
        /\ r' = Aborted(r)
  /\ UNCHANGED <<config, started, requestFinished, parser, interim, got,
                 cancelled>>

NextStep(op) ==
  CASE op = "resolve" -> "connect"
    [] op = "connect" -> IF useTls THEN "tls" ELSE "header"
    [] op = "tls" -> "header"

(* The handlers of async_connect, up to async_write_header. *)
Connected ==
  /\ w.op \in {"resolve", "connect", "tls"} /\ w.out # "pending"
  /\ w' = IF w.out = "error" THEN Answer("error")
          ELSE Begin(NextStep(w.op), 0)
  /\ link' = IF w.op = "resolve" /\ w.out = "ok" THEN "none" ELSE link
  /\ UNCHANGED <<config, r, made, started, requestFinished, parser, interim,
                 wire, got, cancelled>>

HeaderWritten ==
  /\ w.op = "header" /\ w.out # "pending"
  /\ started' = StartedAfter(w.out)
  /\ wire' = IF w.out = "ok" THEN Append(wire, Head0) ELSE wire
  /\ w' = Answer(w.out)
  /\ UNCHANGED <<config, r, made, link, requestFinished, parser, interim, got,
                 cancelled>>

WriteOnExecutor ==
  /\ w.op = "write"
  /\ w' = IF MayWrite THEN Begin("body", w.arg) ELSE Answer("error")
  /\ UNCHANGED <<config, r, conn, interim, wire, got, cancelled>>

(* The serializer has nothing left to write: Content-Length is reached. *)
SerializerDone == length # Chunked /\ Len(wire) = length + 1

FinishOnExecutor ==
  /\ w.op = "finish"
  /\ requestFinished' = (requestFinished \/ MayWrite)
  /\ w' = CASE ~MayWrite -> Answer("error")
            [] MayWrite /\ SerializerDone -> Answer("ok")
            [] MayWrite /\ ~SerializerDone -> Begin("end", 0)
  /\ UNCHANGED <<config, r, made, link, started, parser, interim, wire, got,
                 cancelled>>

BodyWritten ==
  /\ w.op \in {"body", "end"} /\ w.out # "pending"
  /\ wire' = IF w.out # "ok" THEN wire
             ELSE Append(wire, IF w.op = "end" THEN End ELSE w.arg)
  /\ w' = Answer(w.out)
  /\ UNCHANGED <<config, r, conn, interim, got, cancelled>>

ReadHeadOnExecutor ==
  /\ r.op = "readHead"
  /\ r' = IF started THEN Begin("head", 0) ELSE Answer("error")
  /\ parser' = IF started THEN "head" ELSE parser
  /\ UNCHANGED <<config, w, made, link, started, requestFinished, interim,
                 wire, got, cancelled>>

(* async_read_head: 1xx responses are read and dropped. *)
HeadRead ==
  /\ r.op = "head" /\ r.out # "pending"
  /\ \/ /\ r.out = "error"
        /\ r' = Answer("error")
        /\ UNCHANGED <<parser, got>>
     \/ /\ r.out \in FinalHeads
        /\ r' = Answer("ok")
        /\ parser' = IF parts = 0 THEN "done" ELSE "body"
        /\ got' = Append(got, IF r.out = "final" THEN Head0 ELSE Interim)
     \/ /\ r.out \in {"final", "interim"} \ FinalHeads
        /\ r' = Begin("head", 0)
        /\ UNCHANGED <<parser, got>>
  /\ UNCHANGED <<config, w, made, link, started, requestFinished, interim,
                 wire, cancelled>>

Part == Len(got)     \* the part of the body that is read next

(* read_on_executor; with n = 0 and done set when the body ended before. *)
ReadOnExecutor ==
  /\ r.op = "readSome"
  /\ \/ /\ ~started \/ ~HasResponse
        /\ r' = Answer("error")
        /\ UNCHANGED got
     \/ /\ started /\ HasResponse /\ AllRead
        /\ r' = Answer("done")
        /\ UNCHANGED got
     \/ /\ started /\ HasResponse /\ ~AllRead
        /\ r' = Begin("part", Part)
        /\ UNCHANGED got
  /\ UNCHANGED <<config, w, conn, interim, wire, cancelled>>

(* async_read_body: the last part may be the one that completes it. *)
PartRead ==
  /\ r.op = "part" /\ r.out # "pending"
  /\ \/ /\ r.out = "error"
        /\ r' = Answer("error")
        /\ UNCHANGED <<parser, got>>
     \/ /\ r.out = "ok"
        /\ got' = Append(got, r.arg)
        /\ \E last \in BOOLEAN :
             /\ last => r.arg = parts
             /\ r' = [Answer(IF last THEN "done" ELSE "ok")
                        EXCEPT !.arg = r.arg]
             /\ parser' = IF r.arg = parts THEN "done" ELSE parser
  /\ UNCHANGED <<config, w, made, link, started, requestFinished, interim,
                 wire, cancelled>>

(* cancel(), in any thread: aborts what is in progress and closes the       *)
(* socket; what is posted, and a completion that is queued, are not reached.*)
Cancel ==
  /\ cancelled' = TRUE
  /\ w' = IF made THEN Aborted(w) ELSE w
  /\ r' = IF made THEN Aborted(r) ELSE r
  /\ link' = IF made THEN "closed" ELSE link
  /\ UNCHANGED <<config, made, started, requestFinished, parser, interim,
                 wire, got>>

-----------------------------------------------------------------------------
StreamInit ==
  /\ useTls \in BOOLEAN /\ length \in {Chunked} \cup 0..MaxChunks
  /\ parts \in 0..MaxParts
  /\ w = Idle /\ r = Idle
  /\ made = FALSE /\ link = "none" /\ started = FALSE
  /\ requestFinished = FALSE /\ parser = "none"
  /\ interim = 0 /\ wire = <<>> /\ got = <<>> /\ cancelled = FALSE
  /\ starts = 0 /\ restarted = FALSE

StreamStrand ==
  \/ StartOnExecutor \/ Connected \/ HeaderWritten \/ WriteOnExecutor
  \/ FinishOnExecutor \/ BodyWritten \/ ReadHeadOnExecutor \/ HeadRead
  \/ ReadOnExecutor \/ PartRead

StreamNetwork ==
  \E how \in {"ok", "error", "final", "interim"} :
    FinishWrite(how) \/ FinishRead(how)

-----------------------------------------------------------------------------
(* An application that makes any call, at any time its direction is idle:   *)
(* also calls that the stream has to refuse, and a start after a start that *)
(* failed, was cancelled or succeeded, of the same URL.  It is restrained   *)
(* in three ways: it writes no more than the Content-Length it announced,   *)
(* it asks for one response head, and for the body only after that.         *)
More == length = Chunked \/ Len(wire) <= length

Call ==
  /\ \/ /\ starts < MaxStarts /\ starts' = starts + 1
        /\ restarted' = (restarted \/ wire # <<>>)
        /\ AsyncStart /\ UNCHANGED r
     \/ /\ UNCHANGED <<starts, restarted>>
        /\ \/ /\ Len(wire) <= MaxChunks /\ More
              /\ AsyncWrite(Len(wire)) /\ UNCHANGED r
           \/ AsyncFinish /\ UNCHANGED r
           \/ parser = "none" /\ AsyncReadHead /\ UNCHANGED w
           \/ parser # "head" /\ AsyncRead /\ UNCHANGED w
  /\ UNCHANGED <<useTls, length, parts, conn, interim, wire, got, cancelled>>

(* The callbacks return. *)
ReturnWrite ==
  /\ w.op = "answer" /\ w' = Idle
  /\ UNCHANGED <<config, r, conn, interim, wire, got, cancelled>>

ReturnRead ==
  /\ r.op = "answer" /\ r' = Idle
  /\ UNCHANGED <<config, w, conn, interim, wire, got, cancelled>>

Init == StreamInit
Next ==
  Call \/ ReturnWrite \/ ReturnRead \/ StreamStrand \/ StreamNetwork \/ Cancel
Spec == Init /\ [][Next]_streamVars

(* The strand runs the handlers of both directions, and the network ends    *)
(* every operation, if only with an error: a peer that stays silent for     *)
(* ever holds an operation for ever.                                        *)
StreamFairness ==
  /\ WF_streamVars(StartOnExecutor \/ Connected \/ HeaderWritten
                   \/ WriteOnExecutor \/ FinishOnExecutor \/ BodyWritten)
  /\ WF_streamVars(ReadHeadOnExecutor \/ HeadRead \/ ReadOnExecutor
                   \/ PartRead)
  /\ WF_streamVars(\E how \in {"ok", "error"} : FinishWrite(how))
  /\ WF_streamVars(\E how \in {"ok", "error", "final"} : FinishRead(how))

FairSpec ==
  /\ Spec /\ StreamFairness
  /\ WF_streamVars(ReturnWrite) /\ WF_streamVars(ReturnRead)

-----------------------------------------------------------------------------
Ops == {"idle", "answer", "start", "resolve", "connect", "tls", "header",
        "write", "body", "finish", "end", "readHead", "head", "readSome",
        "part"}

TypeOK ==
  /\ w.op \in Ops /\ r.op \in Ops
  /\ {w.out, r.out} \subseteq {"pending", "ok", "error", "final", "interim",
                               "done"}
  /\ link \in {"none", "up", "closed"}
  /\ parser \in {"none", "head", "body", "done"}
  /\ {useTls, made, started, requestFinished, cancelled, restarted}
       \subseteq BOOLEAN

(* What was written is one request, or the beginning of one: a header, the  *)
(* body in the order of the calls, and an end after which nothing follows.  *)
(* Calls before the start completed, or after the end, write nothing.       *)
OneRequestOnWire ==
  \A i \in 1..Len(wire) :
    \/ wire[i] = i - 1
    \/ wire[i] = End /\ i > 1 /\ i = Len(wire) /\ requestFinished

(* What was read is one response: its final head and then its parts, each   *)
(* once and no more than the server sent.                                   *)
OneResponseRead ==
  \A i \in 1..Len(got) :
    got[i] = i - 1 /\ i - 1 <= parts

(* One stream is one exchange, one request written and one response read,   *)
(* in whatever order the caller asks and whatever fails, also when a start  *)
(* that failed is tried again.  The one exception is a caller that starts   *)
(* again after a header was written: that writes a second header, while     *)
(* request_finished and the parser are still those of the first exchange.   *)
OneExchange ==
  TypeOK /\ (~restarted => OneRequestOnWire /\ OneResponseRead)

(* Every call is answered by its callback, also those that are refused or   *)
(* cancelled.                                                               *)
CallsAnswered ==
  (w.op # "idle" ~> w.op = "idle") /\ (r.op # "idle" ~> r.op = "idle")
=============================================================================
