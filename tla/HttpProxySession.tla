--------------------------- MODULE HttpProxySession ---------------------------
(***************************************************************************)
(* HttpProxySession: an inbound request stream, an upstream                 *)
(* HttpClientStream and a downstream response stream, pumped one piece at a *)
(* time through two fixed buffers.                                          *)
(*                                                                         *)
(* The upstream stream is that of module HttpClientStream, with the         *)
(* callbacks of the proxy in the place of its application.  The inbound and *)
(* the downstream stream are those of the server's HttpSession: here they   *)
(* are operations that succeed or fail.  `at` is the one operation whose    *)
(* callback the proxy waits for.                                            *)
(***************************************************************************)
EXTENDS HttpClientStream

CONSTANTS
  EndToEnd,       \* header fields that are forwarded
  HopByHop,       \* header fields that the code names
  Connection, TransferEncoding   \* two of them

ASSUME ProxyAssumption ==
  /\ {Connection, TransferEncoding} \subseteq HopByHop
  /\ EndToEnd \cap HopByHop = {}

VARIABLES
  at,             \* the operation in progress, "new" or "over"
  inTotal,        \* pieces of the inbound request body
  inRead,         \* pieces read so far
  last,           \* the `done` that the callback of a read captured
  responseBuffer, \* the part that is being written downstream
  down,           \* history: pieces written downstream
  inCancelled, downCancelled,
  head,           \* the fields of the inbound head
  named,          \* the fields that its Connection field names
  forwarded,      \* the fields sent upstream
  result          \* of complete_: "none", "ok" or "error"

ends == <<inTotal, inRead, down, inCancelled, downCancelled>>
heads == <<head, named, forwarded>>
proxyVars == <<at, ends, last, responseBuffer, heads,
                 result>>
vars == <<streamVars, proxyVars>>

(* The decisions of the code; a mutant of one stands before it.             *)
(* filter_hop_by_hop: drop the named fields and the fixed list; a chunked   *)
(* message stays chunked.                                                   *)
FilterHopByHop(fields, tokens) ==
  (fields \ (tokens \cup HopByHop))
    \cup IF TransferEncoding \in fields THEN {TransferEncoding} ELSE {}

ReadsAhead == "inRead"                             \* mutant: does not wait
(* What pump_request waits for once it gave a piece to the upstream. *)
AfterPiece == "upWrite"

(* What follows a piece of the request. *)
NextRequestOp(done) == IF done THEN "upFinish" ELSE "inRead"

(* What follows a piece of the response. *)
NextResponseOp(done) == IF done THEN "downFinish" ELSE "upRead"

(* finish cancels the other directions. *)
CancelsOthers(failed) == failed

-----------------------------------------------------------------------------
(* cancel(): the three streams. *)
CancelAll ==
  /\ inCancelled' = TRUE /\ downCancelled' = TRUE
  /\ Cancel

(* finish(ec), as the callback of an operation of `w` or `r` or of an outer *)
(* stream; the upstream direction is then idle, there is nothing to abort.  *)
Finish(failed) ==
  /\ at' = "over"
  /\ result' = IF failed THEN "error" ELSE "ok"
  /\ IF CancelsOthers(failed)
     THEN /\ inCancelled' = TRUE /\ downCancelled' = TRUE
          /\ cancelled' = TRUE
          /\ link' = IF made THEN "closed" ELSE link
     ELSE UNCHANGED <<inCancelled, downCancelled, cancelled, link>>
  /\ w' = Idle /\ r' = Idle

Goes(op) == at' = op /\ UNCHANGED <<result, inCancelled, downCancelled,
                                    cancelled, link>>
(* The upstream operation that a step of the pump starts, if it does. *)
Upstream(op, arg) ==
  /\ w' = IF op \in {"start", "write", "finish"} THEN Post(op, arg) ELSE Idle
  /\ r' = IF op \in {"readHead", "readSome"} THEN Post(op, arg) ELSE Idle

Rest == UNCHANGED <<config, made, started, requestFinished, parser, interim,
                    wire, got>>

(* start: the head is filtered, and the upstream is connected. *)
Start ==
  /\ at = "new"
  /\ Goes("upStart") /\ Upstream("start", 0)
  /\ forwarded' = FilterHopByHop(head, named)
  /\ Rest /\ UNCHANGED <<inTotal, inRead, down, last, responseBuffer, head,
                         named>>

(* The upstream is connected. *)
Started ==
  /\ at = "upStart" /\ w.op = "answer"
  /\ IF w.out = "ok" THEN Goes("inRead") /\ Upstream("none", 0)
                     ELSE Finish(TRUE)
  /\ Rest /\ UNCHANGED <<inTotal, inRead, down, last, responseBuffer, heads>>

(* pump_request: a piece of the inbound body, perhaps known to be the last  *)
(* one, or the end of the body.  (A read of nothing is repeated.)           *)
InboundRead ==
  /\ at = "inRead" /\ ~inCancelled
  /\ \/ /\ inRead < inTotal
        /\ inRead' = inRead + 1
        /\ last' \in {FALSE, inRead' = inTotal}
        /\ Goes(AfterPiece) /\ Upstream("write", inRead')
     \/ /\ inRead = inTotal
        /\ Goes("upFinish") /\ Upstream("finish", 0)
        /\ UNCHANGED <<inRead, last>>
  /\ Rest /\ UNCHANGED <<inTotal, down, responseBuffer, heads>>

InboundError ==
  /\ at = "inRead"
  /\ Finish(TRUE)
  /\ Rest /\ UNCHANGED <<inTotal, inRead, down, last, responseBuffer, heads>>

(* The piece was written upstream. *)
UpstreamWritten ==
  /\ at = "upWrite" /\ w.op = "answer"
  /\ IF w.out = "ok"
     THEN /\ Goes(NextRequestOp(last))
          /\ Upstream(IF NextRequestOp(last) = "upFinish" THEN "finish"
                      ELSE "none", 0)
     ELSE Finish(TRUE)
  /\ Rest /\ UNCHANGED <<inTotal, inRead, down, last, responseBuffer, heads>>

(* finish_request, then read_response_head. *)
RequestFinished ==
  /\ at = "upFinish" /\ w.op = "answer"
  /\ IF w.out = "ok" THEN Goes("upHead") /\ Upstream("readHead", 0)
                     ELSE Finish(TRUE)
  /\ Rest /\ UNCHANGED <<inTotal, inRead, down, last, responseBuffer, heads>>

ResponseHead ==
  /\ at = "upHead" /\ r.op = "answer"
  /\ IF r.out = "ok" THEN Goes("downStart") /\ Upstream("none", 0)
                     ELSE Finish(TRUE)
  /\ Rest /\ UNCHANGED <<inTotal, inRead, down, last, responseBuffer, heads>>

(* pump_response: a part was read upstream. *)
ResponsePart ==
  /\ at = "upRead" /\ r.op = "answer"
  /\ last' = (r.out = "done")
  /\ responseBuffer' = IF r.arg > 0 THEN r.arg ELSE responseBuffer
  /\ CASE r.out = "error" -> Finish(TRUE)
       [] r.out # "error" /\ r.arg > 0 ->
            Goes("downWrite") /\ Upstream("none", 0)
       [] r.out # "error" /\ r.arg = 0 ->
            /\ Goes(NextResponseOp(last'))
            /\ Upstream(IF last' THEN "none" ELSE "readSome", 0)
  /\ Rest /\ UNCHANGED <<inTotal, inRead, down, heads>>

(* The downstream response stream finished async_start, async_write_some or *)
(* async_finish.                                                            *)
Downstream ==
  /\ at \in {"downStart", "downWrite", "downFinish"} /\ ~downCancelled
  /\ down' = Append(down, CASE at = "downStart" -> Head0
                            [] at = "downWrite" -> responseBuffer
                            [] at = "downFinish" -> End)
  /\ CASE at = "downStart" -> Goes("upRead") /\ Upstream("readSome", 0)
       [] at = "downWrite" ->
            /\ Goes(NextResponseOp(last))
            /\ Upstream(IF NextResponseOp(last) = "upRead" THEN "readSome"
                        ELSE "none", 0)
       [] at = "downFinish" -> Finish(FALSE)
  /\ Rest /\ UNCHANGED <<inTotal, inRead, last, responseBuffer, heads>>

DownstreamError ==
  /\ at \in {"downStart", "downWrite", "downFinish"}
  /\ Finish(TRUE)
  /\ Rest /\ UNCHANGED <<inTotal, inRead, down, last, responseBuffer, heads>>

(* cancel(), from any thread. *)
ProxyCancel ==
  /\ at \notin {"new", "over"} /\ ~inCancelled
  /\ CancelAll
  /\ UNCHANGED <<at, inTotal, inRead, down, last, responseBuffer, heads,
                 result>>

UpstreamSteps ==
  /\ StreamStrand \/ StreamNetwork
  /\ UNCHANGED proxyVars

-----------------------------------------------------------------------------
ProxyInit ==
  /\ StreamInit
  /\ at = "new"
  /\ inTotal \in IF length = Chunked THEN 0..MaxChunks ELSE {length}
  /\ inRead = 0 /\ last = FALSE /\ responseBuffer = 0
  /\ down = <<>> /\ inCancelled = FALSE /\ downCancelled = FALSE
  /\ named \in SUBSET EndToEnd
  /\ head = EndToEnd \cup
            (HopByHop \ IF length = Chunked THEN {} ELSE {TransferEncoding})
  /\ forwarded = {} /\ result = "none"

Pump ==
  \/ Started \/ InboundRead \/ InboundError
  \/ UpstreamWritten \/ RequestFinished \/ ResponseHead \/ ResponsePart
  \/ Downstream \/ DownstreamError

ProxyNext == Start \/ Pump \/ ProxyCancel \/ UpstreamSteps
ProxySpec == ProxyInit /\ [][ProxyNext]_vars

(* The strands run; the network and the two peers end every operation.      *)
ProxyFairness == StreamFairness /\ WF_vars(Pump)
ProxyFairSpec == ProxySpec /\ ProxyFairness

-----------------------------------------------------------------------------
(* The proxy forwards what it got, in both directions, in order and without *)
(* a gap, also when reads end with and without data.  (The pieces of a      *)
(* message are numbered, and `got` is what was read upstream.)              *)
ForwardedInOrder ==
  at # "new" =>
    /\ \A i \in 1..Len(wire) : wire[i] = i - 1 \/ wire[i] = End
    /\ Len(wire) - 1 <= inRead + 1
    /\ \A i \in 1..Len(down) :
         \/ i <= Len(got) /\ down[i] = got[i]
         \/ i = Len(down) /\ down[i] = End

(* The upstream has the header and every piece of the inbound body, and the *)
(* last chunk when the request has no Content-Length.                       *)
WholeRequest ==
  /\ Len(wire) = inTotal + (IF length = Chunked THEN 2 ELSE 1)
  /\ \A i \in 1..(inTotal + 1) : wire[i] = i - 1
  /\ length = Chunked => wire[inTotal + 2] = End

(* A proxy session that succeeded has written the whole inbound request to  *)
(* the upstream and the whole response downstream, and ended both.          *)
SuccessIsWhole ==
  result = "ok" =>
    /\ WholeRequest /\ requestFinished
    /\ Len(got) = parts + 1 /\ down = Append(got, End)

(* A session that failed has cancelled all three streams: no side is left   *)
(* waiting, and the upstream connection is closed.                          *)
FailureCancelsAll ==
  result = "error" =>
    inCancelled /\ downCancelled /\ cancelled /\ (made => link = "closed")

(* The head sent upstream has no hop-by-hop field and none that Connection  *)
(* names, keeps the others, and stays chunked if it was.                    *)
HeadFiltered ==
  at # "new" =>
    /\ forwarded \cap HopByHop = head \cap {TransferEncoding}
    /\ forwarded \cap EndToEnd = EndToEnd \ named

(* What a proxy session forwards is in order and whole when it succeeded,   *)
(* with a filtered head, and a failure leaves no stream open.               *)
ProxySound ==
  ForwardedInOrder /\ SuccessIsWhole /\ FailureCancelsAll /\ HeadFiltered

(* Every session that was started ends, and calls complete_. *)
ProxyEnds == at # "new" ~> result # "none"
=============================================================================
