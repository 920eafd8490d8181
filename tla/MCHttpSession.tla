--------------------------- MODULE MCHttpSession ---------------------------
(* Instances of HttpSession: every route with an empty body, one of the     *)
(* buffered limit and one above it.                                         *)
EXTENDS HttpSession

MCRequests ==
  {r \in [route : Routes, body : {0, 2, 3}, declared : BOOLEAN,
          expect : BOOLEAN, keepAlive : BOOLEAN] :
     r.body = 0 => r.declared /\ ~r.expect}

(* Stream routes only. *)
MCStreamRequests == {r \in MCRequests : r.route = "stream"}
=============================================================================
