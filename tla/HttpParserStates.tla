-------------------------- MODULE HttpParserStates --------------------------
(***************************************************************************)
(* The states of HttpParser and the moves between them, as HttpEngine sees *)
(* them from one call of feed to the next.  HttpEngine is built on these   *)
(* moves; HttpParser is checked to make no other.                          *)
(***************************************************************************)

ReadingStates == {"READ_LINE", "READ_HEADERS", "READ_BODY"}
ParserStates == ReadingStates \cup {"DONE", "ERROR"}

(* A parser that is still reading moves forward, completes or rejects; one *)
(* that has ended gives the same verdict again.                            *)
Forward(p) == CASE p = "READ_LINE"    -> ReadingStates
                [] p = "READ_HEADERS" -> {"READ_HEADERS", "READ_BODY"}
                [] p = "READ_BODY"    -> {"READ_BODY"}
                [] OTHER              -> {}
CanComplete(p) == p # "ERROR"
CanReject(p) == p \in {"READ_LINE", "READ_HEADERS", "ERROR"}
=============================================================================
