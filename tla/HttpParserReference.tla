------------------------ MODULE HttpParserReference ------------------------
(***************************************************************************)
(* What HttpParser should make of its whole input, said without a state    *)
(* machine: where the head of the request ends, which of its bytes is the  *)
(* first a limit or a malformed line rejects, and how long the body is.    *)
(***************************************************************************)
EXTENDS HttpParser, FiniteSetsExt

LineFeeds(s) == {i \in 1 .. Len(s) : IsLineFeed(s[i])}

(* The bytes of text on the line of position i, up to but without i.       *)
LineStart(s, i) == Max({0} \cup {j \in LineFeeds(s) : j < i})
TextBefore(s, i) == Cardinality({k \in LineStart(s, i) + 1 .. i - 1 : IsText(s[k])})

IsRequestEnd(s, i) == i \in LineFeeds(s) /\ LineStart(s, i) = 0
IsBlank(s, i) == i \in LineFeeds(s) /\ ~IsRequestEnd(s, i) /\ TextBefore(s, i) = 0

(* The head ends with the first blank line after the request line.         *)
Blanks(s) == {i \in 1 .. Len(s) : IsBlank(s, i)}
HeadEnd(s) == IF Blanks(s) = {} THEN Len(s) ELSE Min(Blanks(s))

(* Of the head: the headers that end at position i or before.              *)
HeadersUpTo(s, i) ==
  {j \in LineFeeds(s) : j <= i /\ s[j][2] \in Headers /\ ~IsRequestEnd(s, j)}
StorageUpTo(s, i) == MapThenSumSet(LAMBDA j : Stored(s[j][2]), HeadersUpTo(s, i))

Malformed(s, i) ==
  \/ IsText(s[i]) /\ TextBefore(s, i) >= HTTP_LINE_MAX
  \/ IsRequestEnd(s, i) /\ s[i][2] # Request
  \/ /\ IsLineFeed(s[i]) /\ ~IsRequestEnd(s, i) /\ ~IsBlank(s, i)
     /\ \/ s[i][2] \notin Headers
        \/ Cardinality(HeadersUpTo(s, i)) > HTTP_HEADER_MAX_COUNT
        \/ StorageUpTo(s, i) > HTTP_HEADER_MAX_SIZE
Oversized(s, i) == /\ i \in HeadersUpTo(s, i)
                   /\ s[i][2].kind = "length"
                   /\ s[i][2].number > HTTP_BODY_MAX_SIZE
Faults(s) == LET head == 1 .. HeadEnd(s)
             IN  {i \in head : Malformed(s, i) \/ Oversized(s, i)}

(* The last Content-Length counts.                                         *)
BodyLength(s) ==
  LET lengths == {i \in HeadersUpTo(s, HeadEnd(s)) : s[i][2].kind = "length"}
  IN  IF lengths = {} THEN 0 ELSE s[Max(lengths)][2].number

RequestState(s) ==
  IF Faults(s) # {} THEN "ERROR"
  ELSE IF LineFeeds(s) = {} THEN "READ_LINE"
  ELSE IF Blanks(s) = {} THEN "READ_HEADERS"
  ELSE IF Len(s) - HeadEnd(s) < BodyLength(s) THEN "READ_BODY"
  ELSE "DONE"

(* The parser is where the whole of its input says, whatever the mixture   *)
(* of lengths, counts and carriage returns; and 413 is returned only when  *)
(* the first fault is a Content-Length beyond the limit.                   *)
ParsesAsReference ==
  /\ parser.state = RequestState(input)
  /\ parser.state = "DONE" => parser.body_len = BodyLength(input)
  /\ verdict = "BODY_TOO_LARGE" =>
       Faults(input) # {} /\ ~Malformed(input, Min(Faults(input)))
=============================================================================
