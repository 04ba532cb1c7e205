---------------------------- MODULE HttpExchange ----------------------------
(***************************************************************************)
(* What the library promises of one connection: it reads one request,      *)
(* answers it with one response of a length fixed before its first byte,   *)
(* sends the bytes of that response once each and in order, and closes.    *)
(***************************************************************************)
EXTENDS Integers

CONSTANTS Conns,  (* Connection pointers; a closed one may be used again.  *)
          Lengths (* Lengths a response, headers and body, may have.       *)

VARIABLE exchange

Phases == {"closed", "receiving", "responding", "complete", "failed"}
Closed == [phase |-> "closed", total |-> 0, sent |-> 0]

Init == exchange = [c \in Conns |-> Closed]

Become(c, e) == exchange' = [exchange EXCEPT ![c] = e]

Open(c) == /\ exchange[c].phase = "closed"
           /\ Become(c, [exchange[c] EXCEPT !.phase = "receiving"])

Respond(c) ==
  /\ exchange[c].phase = "receiving"
  /\ \E len \in Lengths :
       Become(c, [phase |-> "responding", total |-> len, sent |-> 0])

(* The transport takes n more bytes; the last ones complete the response.  *)
Send(c) ==
  /\ exchange[c].phase = "responding"
  /\ \E n \in 1 .. exchange[c].total - exchange[c].sent :
       LET sent == exchange[c].sent + n IN
       Become(c, [exchange[c] EXCEPT
                    !.sent = sent,
                    !.phase = IF sent = exchange[c].total THEN "complete" ELSE @])

(* The source of the body failed: nothing more is sent.                    *)
Fail(c) == /\ exchange[c].phase = "responding"
           /\ exchange[c].sent > 0
           /\ Become(c, [exchange[c] EXCEPT !.phase = "failed"])

(* Either end closes; a response still on its way is cut off.              *)
Close(c) == /\ exchange[c].phase # "closed"
            /\ Become(c, Closed)

Next == \E c \in Conns : Open(c) \/ Respond(c) \/ Send(c) \/ Fail(c) \/ Close(c)

Spec == Init /\ [][Next]_exchange
=============================================================================
