--------------------------- MODULE ChunkedStream ---------------------------
(***************************************************************************)
(* What a chunked response promises, without threads, queues or locks: a   *)
(* producer appends chunks and finally ends the stream; the connection      *)
(* receives a growing prefix of them; the response is done when everything *)
(* was delivered after the end, or it fails and nothing is delivered then.  *)
(***************************************************************************)
EXTENDS Integers, Sequences

CONSTANTS Buffers, Final

VARIABLES
  accepted,   \* chunks appended by the producer
  delivered,  \* chunks on the connection
  ended,      \* the producer appended its terminator
  status      \* "open", then "done" or "failed"

svars == <<accepted, delivered, ended, status>>

Init == accepted = <<>> /\ delivered = <<>> /\ ended = FALSE /\ status = "open"

(* A chunk is accepted; a stream that failed takes no data. *)
Accept ==
  /\ ~ended /\ status = "open"
  /\ \E c \in Buffers \cup {Final} : accepted' = Append(accepted, c)
  /\ UNCHANGED <<delivered, ended, status>>

(* The producer ends the stream, also one that failed meanwhile. *)
End ==
  /\ ~ended /\ status # "done"
  /\ accepted' = Append(accepted, Final)
  /\ ended' = TRUE
  /\ UNCHANGED <<delivered, status>>

(* The next chunk in order is delivered; with the last one the response may *)
(* be done.                                                                 *)
Deliver ==
  /\ status = "open"
  /\ Len(delivered) < Len(accepted)
  /\ delivered' = Append(delivered, accepted[Len(delivered) + 1])
  /\ status' \in {"open"} \cup
       (IF ended /\ Len(delivered) + 1 = Len(accepted) THEN {"done"} ELSE {})
  /\ UNCHANGED <<accepted, ended>>

Finish ==
  /\ status = "open" /\ ended /\ delivered = accepted
  /\ status' = "done"
  /\ UNCHANGED <<accepted, delivered, ended>>

Fail ==
  /\ status = "open"
  /\ status' = "failed"
  /\ UNCHANGED <<accepted, delivered, ended>>

Next == Accept \/ End \/ Deliver \/ Finish \/ Fail

Spec == Init /\ [][Next]_svars
=============================================================================
