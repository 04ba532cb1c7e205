----------------------------- MODULE HttpParser -----------------------------
(***************************************************************************)
(* HttpParser (src/http_parser.cpp), one byte at a time: feed hands the    *)
(* bytes of a segment to consume_char until it returns a verdict.          *)
(*                                                                         *)
(* A byte is "cr", "text" (any other byte) or a line feed.  What the text  *)
(* of a line says is abstracted to a property of the line feed that ends   *)
(* it: it is a request line, a header, a Content-Length header, or         *)
(* something parse_request_line and parse_header_line refuse.              *)
(***************************************************************************)
EXTENDS Integers, Sequences, FiniteSets, HttpParserStates

CONSTANTS
  HTTP_LINE_MAX, HTTP_HEADER_MAX_SIZE, HTTP_HEADER_MAX_COUNT, HTTP_BODY_MAX_SIZE,
  RequestMin,  (* Length of the shortest request line.                     *)
  Headers,     (* The headers peers may send, see HeaderType.              *)
  MaxInput     (* Bound: bytes given to one parser.                        *)

(* The lengths of the name and of the value, and the number a value of     *)
(* Content-Length denotes (what strtoul returns).                          *)
HeaderType == [kind: {"header", "length"}, name: Nat \ {0}, value: Nat, number: Nat]

ASSUME ParserAssumption ==
  /\ HTTP_LINE_MAX \in Nat \ {0}
  /\ HTTP_HEADER_MAX_SIZE \in Nat
  /\ HTTP_HEADER_MAX_COUNT \in Nat
  /\ HTTP_BODY_MAX_SIZE \in Nat
  /\ RequestMin \in Nat \ {0}
  /\ Headers \subseteq HeaderType
  /\ MaxInput \in Nat

VARIABLES
  parser,  (* the members of HttpParser                                    *)
  verdict, (* what the last consume_char returned                          *)
  input    (* history: the bytes consumed since reset                      *)

vars == <<parser, verdict, input>>

Request == [kind |-> "request"]
Refused == [kind |-> "refused"]
Lines == Headers \cup {Request, Refused}

LineFeed(line) == <<"lf", line>>
Bytes == {<<"cr">>, <<"text">>} \cup {LineFeed(line) : line \in Lines}
IsText(b) == b[1] = "text"
IsLineFeed(b) == b[1] = "lf"

(* The text of a line is at least as long as what it says.                 *)
SaysAtLeast(line) == CASE line = Request    -> RequestMin
                       [] line \in Headers -> line.name + 1 + line.value
                       [] OTHER            -> 0

ParserType == [state: ParserStates, line_len: 0 .. HTTP_LINE_MAX,
               header_storage_len: 0 .. HTTP_HEADER_MAX_SIZE,
               header_count: 0 .. HTTP_HEADER_MAX_COUNT,
               body_len: 0 .. HTTP_BODY_MAX_SIZE, content_length: Nat]

(* content_length is 0 until a Content-Length is seen, which is all        *)
(* content_length_seen_ adds to content_length_ > 0.                       *)
Fresh == [state |-> "READ_LINE", line_len |-> 0, header_storage_len |-> 0,
          header_count |-> 0, body_len |-> 0, content_length |-> 0]

-----------------------------------------------------------------------------
(* One byte.                                                               *)

Moved(p, v) == parser' = p /\ verdict' = v
(* set_error.  Nothing reads the other members of a rejected parser before *)
(* reset: they stay as they were.                                          *)
Rejects(v) == Moved([parser EXCEPT !.state = "ERROR"], v)
NextLine(p) == [p EXCEPT !.line_len = 0]

SkipReturn == Moved(parser, "NEED_MORE")

(* Mutant: no room is kept for the terminating zero of line_.              *)
AddTextOffByOne ==
  IF parser.line_len > HTTP_LINE_MAX
  THEN Rejects("ERROR")
  ELSE Moved([parser EXCEPT !.line_len = @ + 1], "NEED_MORE")

AddText ==
  IF parser.line_len >= HTTP_LINE_MAX
  THEN Rejects("ERROR")
  ELSE Moved([parser EXCEPT !.line_len = @ + 1], "NEED_MORE")

EndRequestLine(line) ==
  IF line = Request
  THEN Moved(NextLine([parser EXCEPT !.state = "READ_HEADERS"]), "NEED_MORE")
  ELSE Rejects("ERROR")

Stored(h) == h.name + 1 + h.value + 1

(* parse_header_line, for a header it can store.                           *)
WithHeader(h) ==
  [parser EXCEPT !.header_storage_len = @ + Stored(h),
                 !.header_count = @ + 1,
                 !.content_length = IF h.kind = "length" THEN h.number ELSE @]

(* Mutant: the zeros that end a stored name and value are not counted.     *)
EndHeaderLineTight(line) ==
  IF \/ parser.header_count >= HTTP_HEADER_MAX_COUNT
     \/ line \notin Headers
     \/ parser.header_storage_len + line.name + line.value > HTTP_HEADER_MAX_SIZE
  THEN Rejects("ERROR")
  ELSE IF WithHeader(line).content_length > HTTP_BODY_MAX_SIZE
  THEN Rejects("BODY_TOO_LARGE")
  ELSE Moved(NextLine(WithHeader(line)), "NEED_MORE")

EndHeaderLine(line) ==
  IF \/ parser.header_count >= HTTP_HEADER_MAX_COUNT
     \/ line \notin Headers
     \/ parser.header_storage_len + Stored(line) > HTTP_HEADER_MAX_SIZE
  THEN Rejects("ERROR")
  ELSE IF WithHeader(line).content_length > HTTP_BODY_MAX_SIZE
  THEN Rejects("BODY_TOO_LARGE")
  ELSE Moved(NextLine(WithHeader(line)), "NEED_MORE")

FinishHeaders ==
  IF parser.content_length > 0
  THEN Moved([parser EXCEPT !.state = "READ_BODY"], "NEED_MORE")
  ELSE Moved([parser EXCEPT !.state = "DONE", !.body_len = 0], "DONE")

(* Mutants: the body ends one byte late; the parser starts over after it.  *)
AddBodyLate ==
  LET p == [parser EXCEPT !.body_len = @ + 1] IN
  IF parser.body_len >= HTTP_BODY_MAX_SIZE
  THEN Rejects("BODY_TOO_LARGE")
  ELSE IF parser.body_len = p.content_length
  THEN Moved([p EXCEPT !.state = "DONE"], "DONE")
  ELSE Moved(p, "NEED_MORE")

AddBodyPipelined ==
  LET p == [parser EXCEPT !.body_len = @ + 1] IN
  IF p.body_len = p.content_length
  THEN Moved([p EXCEPT !.state = "READ_LINE"], "DONE")
  ELSE Moved(p, "NEED_MORE")

AddBody ==
  LET p == [parser EXCEPT !.body_len = @ + 1] IN
  IF parser.body_len >= HTTP_BODY_MAX_SIZE
  THEN Rejects("BODY_TOO_LARGE")
  ELSE IF p.body_len = p.content_length
  THEN Moved([p EXCEPT !.state = "DONE"], "DONE")
  ELSE Moved(p, "NEED_MORE")

ConsumeLineFeed(line) ==
  \/ parser.state = "READ_LINE" /\ EndRequestLine(line)
  \/ parser.state = "READ_HEADERS" /\ parser.line_len = 0 /\ FinishHeaders
  \/ parser.state = "READ_HEADERS" /\ parser.line_len # 0 /\ EndHeaderLine(line)

ConsumeChar(b) ==
  \/ /\ parser.state \in {"READ_LINE", "READ_HEADERS"}
     /\ \/ b = <<"cr">> /\ SkipReturn
        \/ IsText(b) /\ AddText
        \/ IsLineFeed(b) /\ ConsumeLineFeed(b[2])
  \/ parser.state = "READ_BODY" /\ AddBody

(* A byte a peer can send here: a line says no more than its text holds.   *)
Possible(b) == IsLineFeed(b) /\ parser.state # "READ_BODY"
                 => SaysAtLeast(b[2]) <= parser.line_len

Consume(b) == /\ parser.state \in ReadingStates
              /\ Len(input) < MaxInput
              /\ Possible(b)
              /\ ConsumeChar(b)
              /\ input' = Append(input, b)

(* feed of a later segment, when the verdict was given in an earlier one.  *)
FeedAgain == /\ parser.state \in {"DONE", "ERROR"}
             /\ verdict' = parser.state
             /\ UNCHANGED <<parser, input>>

Reset == /\ parser' = Fresh
         /\ verdict' = "NEED_MORE"
         /\ input' = <<>>

Init == parser = Fresh /\ verdict = "NEED_MORE" /\ input = <<>>

Next == (\E b \in Bytes : Consume(b)) \/ FeedAgain \/ Reset

Spec == Init /\ [][Next]_vars

-----------------------------------------------------------------------------
(* Properties.                                                             *)

(* Each buffer has the size of its range here plus one: what is written    *)
(* to it, terminating zero included, stays inside.                         *)
TypeOK == /\ parser \in ParserType
          /\ verdict \in {"NEED_MORE", "DONE", "ERROR", "BODY_TOO_LARGE"}
          /\ input \in Seq(Bytes)

(* The body that a handler sees is whole: its length is the Content-Length *)
(* the request ended with, which is within the limit, and no byte of it is *)
(* taken before the headers have ended.                                    *)
BodyComplete ==
  /\ parser.state # "ERROR" => parser.content_length <= HTTP_BODY_MAX_SIZE
  /\ parser.state \in {"READ_LINE", "READ_HEADERS"} => parser.body_len = 0
  /\ parser.state = "READ_BODY" => parser.body_len < parser.content_length
  /\ parser.state = "DONE" => parser.body_len = parser.content_length

(* The moves HttpEngine is built on: the parser never goes back, never     *)
(* rejects a body, and keeps its verdict until it is reset.                *)
ParserContract ==
  [][\/ parser' = Fresh
     \/ parser'.state \in Forward(parser.state)
     \/ parser'.state = "DONE" /\ CanComplete(parser.state)
     \/ parser'.state = "ERROR" /\ CanReject(parser.state)]_parser
=============================================================================
