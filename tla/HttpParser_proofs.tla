-------------------------- MODULE HttpParser_proofs --------------------------
(***************************************************************************)
(* Proofs about HttpParser, for every value of its limits and every set of *)
(* headers.                                                                *)
(***************************************************************************)
EXTENDS HttpParserReference, FiniteSetTheorems, SequenceTheorems, TLAPS

(* A request is complete, or can become so, in every parser state.         *)
BodyOK(p) ==
  /\ p.state # "ERROR" => p.content_length <= HTTP_BODY_MAX_SIZE
  /\ p.state \in {"READ_LINE", "READ_HEADERS"} => p.body_len = 0
  /\ p.state = "READ_BODY" => p.body_len < p.content_length
  /\ p.state = "DONE" => p.body_len = p.content_length

Verdicts == {"NEED_MORE", "DONE", "ERROR", "BODY_TOO_LARGE"}

(* What one byte may make of the parser p.                                 *)
GoodMove(p, q, v) ==
  /\ q \in ParserType
  /\ BodyOK(q)
  /\ v \in Verdicts
  /\ \/ q.state \in Forward(p.state)
     \/ q.state = "DONE" /\ CanComplete(p.state)
     \/ q.state = "ERROR" /\ CanReject(p.state)

ParserOK == parser \in ParserType /\ BodyOK(parser)

(* A rejection leaves every count where it was.                            *)
LEMMA RejectsMove ==
  ASSUME ParserOK, CanReject(parser.state), NEW v \in Verdicts, Rejects(v)
  PROVE  GoodMove(parser, parser', verdict')
<1>1. parser' = [parser EXCEPT !.state = "ERROR"] /\ verdict' = v
  BY DEF Rejects, Moved
<1>2. parser' \in ParserType /\ parser'.state = "ERROR"
  BY <1>1 DEF ParserOK, ParserType, ParserStates
<1> QED BY <1>1, <1>2 DEF GoodMove, BodyOK

(* A byte of text is added only where line_ has room for it.               *)
LEMMA AddTextMove ==
  ASSUME ParserOK, parser.state \in {"READ_LINE", "READ_HEADERS"}, AddText
  PROVE  GoodMove(parser, parser', verdict')
<1>1. CASE parser.line_len >= HTTP_LINE_MAX
  BY <1>1, RejectsMove DEF AddText, CanReject, Verdicts
<1>2. CASE ~(parser.line_len >= HTTP_LINE_MAX)
  <2>1. parser' = [parser EXCEPT !.line_len = @ + 1] /\ verdict' = "NEED_MORE"
    BY <1>2 DEF AddText, Moved
  <2>2. parser.line_len + 1 \in 0 .. HTTP_LINE_MAX
    BY <1>2, ParserAssumption DEF ParserOK, ParserType
  <2>3. parser' \in ParserType
    BY <2>1, <2>2 DEF ParserOK, ParserType
  <2>4. /\ parser'.state = parser.state
        /\ parser'.body_len = parser.body_len
        /\ parser'.content_length = parser.content_length
    BY <2>1 DEF ParserOK, ParserType
  <2>5. parser'.state \in Forward(parser.state)
    BY <2>4 DEF Forward, ReadingStates
  <2> QED BY <2>1, <2>3, <2>4, <2>5 DEF ParserOK, GoodMove, BodyOK, Verdicts
<1> QED BY <1>1, <1>2

LEMMA SkipReturnMove ==
  ASSUME ParserOK, parser.state \in {"READ_LINE", "READ_HEADERS"}, SkipReturn
  PROVE  GoodMove(parser, parser', verdict')
<1>1. parser' = parser /\ verdict' = "NEED_MORE"
  BY DEF SkipReturn, Moved
<1>2. parser.state \in Forward(parser.state)
  BY DEF Forward, ReadingStates
<1> QED BY <1>1, <1>2 DEF ParserOK, GoodMove, Verdicts

LEMMA EndRequestLineMove ==
  ASSUME ParserOK, parser.state = "READ_LINE", NEW line, EndRequestLine(line)
  PROVE  GoodMove(parser, parser', verdict')
<1>1. CASE line # Request
  BY <1>1, RejectsMove DEF EndRequestLine, CanReject, Verdicts
<1>2. CASE line = Request
  <2>1. /\ parser' = [parser EXCEPT !.state = "READ_HEADERS", !.line_len = 0]
        /\ verdict' = "NEED_MORE"
    BY <1>2 DEF EndRequestLine, NextLine, Moved
  <2>2. 0 \in 0 .. HTTP_LINE_MAX
    BY ParserAssumption
  <2>3. parser' \in ParserType
    BY <2>1, <2>2 DEF ParserOK, ParserType, ParserStates, ReadingStates
  <2>4. /\ parser'.state = "READ_HEADERS"
        /\ parser'.body_len = parser.body_len
        /\ parser'.content_length = parser.content_length
    BY <2>1 DEF ParserOK, ParserType
  <2>5. parser'.state \in Forward(parser.state)
    BY <2>4 DEF Forward, ReadingStates
  <2> QED BY <2>1, <2>3, <2>4, <2>5 DEF ParserOK, GoodMove, BodyOK, Verdicts
<1> QED BY <1>1, <1>2

(* A header is stored only if the storage and the table have room for it,  *)
(* and a Content-Length beyond the limit ends the request.                 *)
LEMMA EndHeaderLineMove ==
  ASSUME ParserOK, parser.state = "READ_HEADERS", NEW line, EndHeaderLine(line)
  PROVE  GoodMove(parser, parser', verdict')
<1> DEFINE q == WithHeader(line)
           full == \/ parser.header_count >= HTTP_HEADER_MAX_COUNT
                   \/ line \notin Headers
                   \/ parser.header_storage_len + Stored(line) > HTTP_HEADER_MAX_SIZE
           number == IF line.kind = "length" THEN line.number ELSE parser.content_length
<1>1. CASE full
  BY <1>1, RejectsMove DEF EndHeaderLine, CanReject, Verdicts
<1>2. CASE ~full /\ q.content_length > HTTP_BODY_MAX_SIZE
  BY <1>2, RejectsMove DEF EndHeaderLine, CanReject, Verdicts
<1>3. CASE ~full /\ ~(q.content_length > HTTP_BODY_MAX_SIZE)
  <2>1. parser' = NextLine(q) /\ verdict' = "NEED_MORE"
    BY <1>3 DEF EndHeaderLine, Moved
  <2>2. line \in HeaderType
    BY <1>3, ParserAssumption
  <2>3. Stored(line) \in Nat
    BY <2>2 DEF HeaderType, Stored
  <2>4. /\ parser.header_storage_len + Stored(line) \in 0 .. HTTP_HEADER_MAX_SIZE
        /\ parser.header_count + 1 \in 0 .. HTTP_HEADER_MAX_COUNT
        /\ 0 \in 0 .. HTTP_LINE_MAX
    BY <1>3, <2>3, ParserAssumption DEF ParserOK, ParserType
  <2>5. number \in Nat
    BY <2>2 DEF HeaderType, ParserOK, ParserType
  <2>6. q = [parser EXCEPT
               !.header_storage_len = parser.header_storage_len + Stored(line),
               !.header_count = parser.header_count + 1,
               !.content_length = number]
    BY DEF WithHeader
  <2>7. /\ NextLine(q) \in ParserType
        /\ NextLine(q).state = "READ_HEADERS"
        /\ NextLine(q).body_len = parser.body_len
        /\ NextLine(q).content_length = number
        /\ q.content_length = number
    <3> HIDE DEF number, q
    <3> QED BY <2>4, <2>5, <2>6 DEF NextLine, ParserOK, ParserType
  <2>8. number <= HTTP_BODY_MAX_SIZE
    <3> HIDE DEF number, q
    <3> QED BY <1>3, <2>5, <2>7, ParserAssumption
  <2>9. "READ_HEADERS" \in Forward(parser.state)
    BY DEF Forward
  <2> HIDE DEF number, q
  <2> QED BY <2>1, <2>7, <2>8, <2>9 DEF ParserOK, GoodMove, BodyOK, Verdicts
<1> QED BY <1>1, <1>2, <1>3

(* With the headers the body begins, or the request is complete.           *)
LEMMA FinishHeadersMove ==
  ASSUME ParserOK, parser.state = "READ_HEADERS", FinishHeaders
  PROVE  GoodMove(parser, parser', verdict')
<1>0. /\ parser.content_length \in Nat
      /\ parser.body_len = 0
      /\ parser.content_length <= HTTP_BODY_MAX_SIZE
      /\ 0 \in 0 .. HTTP_BODY_MAX_SIZE
  BY ParserAssumption DEF ParserOK, ParserType, BodyOK
<1>1. CASE parser.content_length > 0
  <2>1. parser' = [parser EXCEPT !.state = "READ_BODY"] /\ verdict' = "NEED_MORE"
    BY <1>1 DEF FinishHeaders, Moved
  <2>2. /\ parser' \in ParserType
        /\ parser'.state = "READ_BODY"
        /\ parser'.body_len = parser.body_len
        /\ parser'.content_length = parser.content_length
    BY <2>1 DEF ParserOK, ParserType, ParserStates, ReadingStates
  <2>3. "READ_BODY" \in Forward(parser.state)
    BY DEF Forward
  <2> QED BY <1>0, <1>1, <2>1, <2>2, <2>3 DEF GoodMove, BodyOK, Verdicts
<1>2. CASE ~(parser.content_length > 0)
  <2>1. /\ parser' = [parser EXCEPT !.state = "DONE", !.body_len = 0]
        /\ verdict' = "DONE"
    BY <1>2 DEF FinishHeaders, Moved
  <2>2. /\ parser' \in ParserType
        /\ parser'.state = "DONE"
        /\ parser'.body_len = 0
        /\ parser'.content_length = parser.content_length
    BY <1>0, <2>1 DEF ParserOK, ParserType, ParserStates
  <2>3. parser.content_length = 0
    BY <1>0, <1>2
  <2> QED BY <1>0, <2>1, <2>2, <2>3 DEF GoodMove, BodyOK, Verdicts, CanComplete
<1> QED BY <1>1, <1>2

(* A body is never rejected: its length was checked with its header.       *)
LEMMA AddBodyMove ==
  ASSUME ParserOK, parser.state = "READ_BODY", AddBody
  PROVE  GoodMove(parser, parser', verdict')
<1> DEFINE q == [parser EXCEPT !.body_len = @ + 1]
<1>1. /\ parser.body_len \in Nat
      /\ parser.content_length \in Nat
      /\ parser.body_len < parser.content_length
      /\ parser.content_length <= HTTP_BODY_MAX_SIZE
      /\ HTTP_BODY_MAX_SIZE \in Nat
  BY ParserAssumption DEF ParserOK, ParserType, BodyOK
<1>2. ~(parser.body_len >= HTTP_BODY_MAX_SIZE)
  BY <1>1
<1>3. parser.body_len + 1 \in 0 .. HTTP_BODY_MAX_SIZE
  BY <1>1
<1>4. /\ q \in ParserType
      /\ q.state = "READ_BODY"
      /\ q.body_len = parser.body_len + 1
      /\ q.content_length = parser.content_length
  BY <1>3 DEF ParserOK, ParserType
<1>5. CASE q.body_len = q.content_length
  <2>1. parser' = [q EXCEPT !.state = "DONE"] /\ verdict' = "DONE"
    BY <1>2, <1>5 DEF AddBody, Moved
  <2> HIDE DEF q
  <2>2. /\ parser' \in ParserType
        /\ parser'.state = "DONE"
        /\ parser'.body_len = q.body_len
        /\ parser'.content_length = q.content_length
    BY <1>4, <2>1 DEF ParserType, ParserStates
  <2> QED BY <1>1, <1>4, <1>5, <2>1, <2>2 DEF GoodMove, BodyOK, Verdicts, CanComplete
<1>6. CASE q.body_len # q.content_length
  <2>1. parser' = q /\ verdict' = "NEED_MORE"
    BY <1>2, <1>6 DEF AddBody, Moved
  <2> HIDE DEF q
  <2>2. "READ_BODY" \in Forward(parser.state)
    BY DEF Forward
  <2>3. q.body_len < q.content_length
    BY <1>1, <1>4, <1>6
  <2> QED BY <1>1, <1>4, <2>1, <2>2, <2>3 DEF GoodMove, BodyOK, Verdicts
<1> QED BY <1>5, <1>6

LEMMA ConsumeMove ==
  ASSUME ParserOK, NEW b, ConsumeChar(b)
  PROVE  GoodMove(parser, parser', verdict')
BY AddTextMove, SkipReturnMove, EndRequestLineMove, EndHeaderLineMove,
   FinishHeadersMove, AddBodyMove DEF ConsumeChar, ConsumeLineFeed

-----------------------------------------------------------------------------
(* The inductive invariant: TypeOK, and what the counts are to each other. *)
IInv == TypeOK /\ BodyOK(parser)

LEMMA FreshOK == Fresh \in ParserType /\ BodyOK(Fresh)
<1>1. /\ 0 \in 0 .. HTTP_LINE_MAX
      /\ 0 \in 0 .. HTTP_HEADER_MAX_SIZE
      /\ 0 \in 0 .. HTTP_HEADER_MAX_COUNT
      /\ 0 \in 0 .. HTTP_BODY_MAX_SIZE
      /\ 0 <= HTTP_BODY_MAX_SIZE
  BY ParserAssumption
<1> QED BY <1>1 DEF Fresh, ParserType, ParserStates, ReadingStates, BodyOK

LEMMA InitInv == Init => IInv
BY FreshOK DEF Init, IInv, TypeOK

LEMMA NextInv == IInv /\ [Next]_vars => IInv'
<1> SUFFICES ASSUME IInv, [Next]_vars PROVE IInv'
  OBVIOUS
<1>1. CASE \E b \in Bytes : Consume(b)
  <2>1. PICK b \in Bytes : Consume(b)
    BY <1>1
  <2>2. GoodMove(parser, parser', verdict')
    BY <2>1, ConsumeMove DEF Consume, IInv, TypeOK, ParserOK
  <2>3. input' \in Seq(Bytes)
    BY <2>1 DEF Consume, IInv, TypeOK
  <2> QED BY <2>2, <2>3 DEF GoodMove, Verdicts, IInv, TypeOK
<1>2. CASE FeedAgain
  <2>1. parser' = parser /\ input' = input /\ verdict' \in {"DONE", "ERROR"}
    BY <1>2 DEF FeedAgain
  <2> QED BY <2>1 DEF IInv, TypeOK
<1>3. CASE Reset
  <2>1. parser' = Fresh /\ input' = <<>> /\ verdict' = "NEED_MORE"
    BY <1>3 DEF Reset
  <2> QED BY <2>1, FreshOK DEF IInv, TypeOK
<1>4. CASE UNCHANGED vars
  BY <1>4 DEF vars, IInv, TypeOK
<1> QED BY <1>1, <1>2, <1>3, <1>4 DEF Next

LEMMA Invariance == Spec => []IInv
BY InitInv, NextInv, PTL DEF Spec

(* Whatever bytes arrive, and whatever the limits: no index of the parser  *)
(* leaves the buffer it writes to.                                         *)
THEOREM ParserTypeCorrect == Spec => []TypeOK
<1>1. IInv => TypeOK
  BY DEF IInv
<1> QED BY <1>1, Invariance, PTL

(* A handler sees a whole body, of the announced length and within the     *)
(* limit, in every state that on_data dispatches from.                     *)
THEOREM BodyCorrect == Spec => []BodyComplete
<1>1. IInv => BodyComplete
  BY DEF IInv, BodyOK, BodyComplete
<1> QED BY <1>1, Invariance, PTL

(* The parser makes only the moves HttpEngine expects of it.               *)
THEOREM ContractCorrect == Spec => ParserContract
<1> DEFINE Move == \/ parser' = Fresh
                   \/ parser'.state \in Forward(parser.state)
                   \/ parser'.state = "DONE" /\ CanComplete(parser.state)
                   \/ parser'.state = "ERROR" /\ CanReject(parser.state)
<1>1. IInv /\ [Next]_vars => [Move]_parser
  <2> SUFFICES ASSUME IInv, [Next]_vars PROVE [Move]_parser
    OBVIOUS
  <2>1. CASE \E b \in Bytes : Consume(b)
    <3>1. PICK b \in Bytes : Consume(b)
      BY <2>1
    <3>2. GoodMove(parser, parser', verdict')
      BY <3>1, ConsumeMove DEF Consume, IInv, TypeOK, ParserOK
    <3> QED BY <3>2 DEF GoodMove
  <2>2. CASE FeedAgain \/ UNCHANGED vars
    BY <2>2 DEF FeedAgain, vars
  <2>3. CASE Reset
    BY <2>3 DEF Reset
  <2> QED BY <2>1, <2>2, <2>3 DEF Next
<1>2. Spec => [][Move]_parser
  BY <1>1, Invariance, PTL DEF Spec
<1> QED BY <1>2 DEF ParserContract

-----------------------------------------------------------------------------
(* Lemmas about numbers.  A set of numbers has a least element, so that    *)
(* induction is reasoning about sets.                                      *)

LEMMA MinOfNat ==
  ASSUME NEW S, S \subseteq Nat, S # {}
  PROVE  Min(S) \in S /\ \A k \in S : Min(S) <= k
<1>1. PICK x \in S : \A y \in S : ~ (<<y, x>> \in OpToRel(<, Nat))
  BY WFMin, NatLessThanWellFounded
<1>2. \A y \in S : ~ (y < x)
  BY <1>1 DEF OpToRel
<1>3. \A y \in S : x <= y
  BY <1>2
<1> QED BY <1>3 DEF Min

LEMMA NatSet ==
  ASSUME NEW S, 0 \in S, \A n \in Nat : n \in S => n + 1 \in S
  PROVE  Nat \subseteq S
<1> SUFFICES ASSUME Nat \ S # {}
             PROVE  FALSE
  OBVIOUS
<1> DEFINE m == Min(Nat \ S)
<1>1. m \in Nat \ S /\ \A k \in Nat \ S : m <= k
  BY MinOfNat
<1>2. m # 0 /\ m - 1 \in Nat
  BY <1>1
<1>3. m - 1 \in S
  BY <1>1, <1>2
<1>4. (m - 1) + 1 \in S
  BY <1>2, <1>3
<1> QED BY <1>1, <1>4

LEMMA MinIs ==
  ASSUME NEW S, S \subseteq Nat, NEW m \in S, \A k \in S : m <= k
  PROVE  Min(S) = m
<1>1. Min(S) \in S /\ Min(S) <= m
  BY MinOfNat
<1>2. m <= Min(S) /\ m \in Nat /\ Min(S) \in Nat
  BY <1>1
<1> QED BY ONLY <1>1, <1>2

LEMMA MaxIs ==
  ASSUME NEW S, S \subseteq Nat, NEW m \in S, \A k \in S : k <= m
  PROVE  Max(S) = m
<1> DEFINE x == Max(S)
<1>1. x \in S /\ \A k \in S : x >= k
  BY DEF Max
<1> HIDE DEF x
<1>2. x <= m /\ m <= x
  BY <1>1
<1>3. \A k \in S : k \in Int
  OBVIOUS
<1>4. x = m
  BY <1>1, <1>2, <1>3
<1> QED BY <1>4 DEF x

LEMMA MaxOfNat ==
  ASSUME NEW n \in Nat, NEW S, S \subseteq 0 .. n, S # {}
  PROVE  Max(S) \in S /\ \A k \in S : k <= Max(S)
<1> DEFINE T == {n - j : j \in S}
           t == Min(T)
<1>1. \A j \in S : j \in Int /\ j <= n
  OBVIOUS
<1>2. T # {}
  OBVIOUS
<1>2a. T \subseteq Nat
  BY <1>1
<1>3. t \in T /\ \A k \in T : t <= k
  BY <1>2, <1>2a, MinOfNat
<1>4. PICK j \in S : t = n - j
  BY <1>3
<1>5. \A k \in S : t <= n - k
  BY <1>3
<1> HIDE DEF T, t
<1>6. \A k \in S : k <= j
  <2> TAKE k \in S
  <2>1. k \in Int /\ j \in Int /\ t = n - j /\ t <= n - k
    BY <1>1, <1>4, <1>5
  <2> QED BY ONLY <2>1, n \in Nat
<1>7. Max(S) = j
  BY <1>6, MaxIs, S \subseteq Nat
<1> QED BY <1>6, <1>7

-----------------------------------------------------------------------------
(* StorageUpTo is a sum over a set.  The fold it is written with adds the  *)
(* elements in an order of its own: the sum does not depend on it.         *)

Some(S) == CHOOSE x \in S : TRUE

(* f is what the fold computes for the sets F of positions of s; Totals is *)
(* it for all subsets of D.                                                *)
Sums(s, F, f) ==
  f = [S \in F |-> IF S = {} THEN 0 ELSE Stored(s[Some(S)][2]) + f[S \ {Some(S)}]]
Totals(s, D, f) == Sums(s, SUBSET D, f)

Sized(D, n) == {S \in SUBSET D : Cardinality(S) <= n}

LEMMA StorageUnfolds ==
  ASSUME NEW s, NEW i
  PROVE  StorageUpTo(s, i) =
           (CHOOSE f : Totals(s, HeadersUpTo(s, i), f))[HeadersUpTo(s, i)]
BY Zenon DEF StorageUpTo, MapThenSumSet, MapThenFoldSet, Totals, Sums, Some

LEMMA TakeOne ==
  ASSUME NEW D, IsFiniteSet(D), NEW S \in SUBSET D, NEW x \in S
  PROVE  /\ IsFiniteSet(S) /\ Cardinality(S) \in Nat \ {0}
         /\ S \ {x} \in SUBSET D
         /\ Cardinality(S \ {x}) = Cardinality(S) - 1
<1>1. IsFiniteSet(S)
  BY FS_Subset
<1>2. Cardinality(S) \in Nat /\ Cardinality(S) # 0
  BY <1>1, FS_CardinalityType, FS_EmptySet
<1>3. Cardinality(S \ {x}) = Cardinality(S) - 1
  BY <1>1, FS_RemoveElement
<1> QED BY <1>1, <1>2, <1>3

LEMMA TotalsExist ==
  ASSUME NEW s, NEW D, IsFiniteSet(D)
  PROVE  \E f : Totals(s, D, f)
<1> DEFINE N == {n \in Nat : \E f : Sums(s, Sized(D, n), f)}
           First == [S \in Sized(D, 0) |-> 0]
<1>0. \A S \in SUBSET D : IsFiniteSet(S) /\ Cardinality(S) \in Nat /\ (Cardinality(S) = 0 => S = {})
  BY FS_Subset, FS_CardinalityType, FS_EmptySet
<1>1. 0 \in N
  <2>1. \A S \in Sized(D, 0) : S = {}
    BY <1>0 DEF Sized
  <2>2. Sums(s, Sized(D, 0), First)
    BY <2>1 DEF Totals, Sums
  <2> QED BY <2>2
<1>2. ASSUME NEW n \in Nat, n \in N PROVE n + 1 \in N
  <2>1. PICK f : Sums(s, Sized(D, n), f)
    BY <1>2
  <2> DEFINE g == [S \in Sized(D, n + 1) |->
                     IF S = {} THEN 0 ELSE Stored(s[Some(S)][2]) + f[S \ {Some(S)}]]
  <2>2. \A S \in Sized(D, n) : S \in Sized(D, n + 1) /\ g[S] = f[S]
    <3> TAKE S \in Sized(D, n)
    <3>1. S \in Sized(D, n + 1)
      BY <1>0 DEF Sized
    <3>2. f[S] = IF S = {} THEN 0 ELSE Stored(s[Some(S)][2]) + f[S \ {Some(S)}]
      BY <2>1 DEF Totals, Sums
    <3> QED BY <3>1, <3>2
  <2>3. \A S \in Sized(D, n + 1) : S # {} => S \ {Some(S)} \in Sized(D, n)
    <3> SUFFICES ASSUME NEW S \in Sized(D, n + 1), S # {}
                 PROVE  S \ {Some(S)} \in Sized(D, n)
      OBVIOUS
    <3>1. Some(S) \in S /\ S \in SUBSET D /\ Cardinality(S) <= n + 1
      BY DEF Some, Sized
    <3>2. /\ Cardinality(S) \in Nat
          /\ S \ {Some(S)} \in SUBSET D
          /\ Cardinality(S \ {Some(S)}) = Cardinality(S) - 1
      BY <3>1, TakeOne
    <3> QED BY <3>1, <3>2 DEF Sized
  <2>4. \A S \in Sized(D, n + 1) :
          g[S] = IF S = {} THEN 0 ELSE Stored(s[Some(S)][2]) + g[S \ {Some(S)}]
    BY <2>2, <2>3
  <2>5. Sums(s, Sized(D, n + 1), g)
    <3> HIDE DEF g
    <3>1. g = [S \in Sized(D, n + 1) |-> g[S]]
      BY DEF g
    <3> QED BY <2>4, <3>1 DEF Totals, Sums
  <2> QED BY <2>5
<1>3. Nat \subseteq N
  <2> HIDE DEF N
  <2> QED BY <1>1, <1>2, NatSet
<1>4. Cardinality(D) \in Nat
  BY <1>0
<1>5. Sized(D, Cardinality(D)) = SUBSET D
  BY FS_Subset DEF Sized
<1> QED BY <1>3, <1>4, <1>5 DEF Totals

LEMMA TotalsStep ==
  ASSUME NEW s, NEW D, NEW f, Totals(s, D, f), NEW S \in SUBSET D
  PROVE  f[S] = IF S = {} THEN 0 ELSE Stored(s[Some(S)][2]) + f[S \ {Some(S)}]
BY DEF Totals, Sums

(* The positions D hold things that have a size.                           *)
AllStored(s, D) == \A x \in D : Stored(s[x][2]) \in Nat

LEMMA NotEmpty ==
  ASSUME NEW S, NEW n \in Nat, Cardinality(S) = n + 1
  PROVE  S # {}
<1>1. Cardinality({}) = 0
  BY FS_EmptySet
<1> QED BY <1>1

LEMMA TotalsNat ==
  ASSUME NEW s, NEW D, IsFiniteSet(D), AllStored(s, D), NEW f, Totals(s, D, f)
  PROVE  \A S \in SUBSET D : f[S] \in Nat
<1> DEFINE N == {n \in Nat : \A S \in SUBSET D : Cardinality(S) = n => f[S] \in Nat}
<1>0. \A S \in SUBSET D : IsFiniteSet(S) /\ Cardinality(S) \in Nat /\ (Cardinality(S) = 0 => S = {})
  BY FS_Subset, FS_CardinalityType, FS_EmptySet
<1>1. 0 \in N
  BY <1>0, TotalsStep
<1>2. ASSUME NEW n \in Nat, n \in N PROVE n + 1 \in N
  <2> SUFFICES ASSUME NEW S \in SUBSET D, Cardinality(S) = n + 1 PROVE f[S] \in Nat
    OBVIOUS
  <2> DEFINE x == Some(S)
  <2>1. S # {} /\ x \in S
    BY NotEmpty DEF Some
  <2>2. f[S] = Stored(s[x][2]) + f[S \ {x}]
    BY <2>1, TotalsStep
  <2> HIDE DEF x
  <2>3. S \ {x} \in SUBSET D /\ Cardinality(S \ {x}) = n
    <3>1. S \ {x} \in SUBSET D /\ Cardinality(S \ {x}) = Cardinality(S) - 1
      BY <2>1, TakeOne
    <3> QED BY <3>1
  <2>4. f[S \ {x}] \in Nat
    BY <1>2, <2>3
  <2>5. Stored(s[x][2]) \in Nat
    BY <2>1 DEF AllStored
  <2> QED BY ONLY <2>2, <2>4, <2>5
<1>3. Nat \subseteq N
  <2> HIDE DEF N
  <2> QED BY <1>1, <1>2, NatSet
<1> QED BY <1>0, <1>3

(* Any element may be the one added last.                                  *)
AddedLast(s, e, f, D) == f[D] = Stored(s[e][2]) + f[D \ {e}]

LEMMA TotalsAny ==
  ASSUME NEW s, NEW D, IsFiniteSet(D), AllStored(s, D), NEW f, Totals(s, D, f),
         NEW last \in D
  PROVE  AddedLast(s, last, f, D)
<1> DEFINE Any(S) == \A e \in S : f[S] = Stored(s[e][2]) + f[S \ {e}]
           N == {n \in Nat : \A S \in SUBSET D : Cardinality(S) = n => Any(S)}
<1>0. \A S \in SUBSET D : IsFiniteSet(S) /\ Cardinality(S) \in Nat /\ (Cardinality(S) = 0 => S = {})
  BY FS_Subset, FS_CardinalityType, FS_EmptySet
<1>1. 0 \in N
  <2>1. \A S \in SUBSET D : Cardinality(S) = 0 => S = {}
    BY <1>0
  <2> QED BY <2>1
<1>2. ASSUME NEW n \in Nat, n \in N PROVE n + 1 \in N
  <2> SUFFICES ASSUME NEW S \in SUBSET D, Cardinality(S) = n + 1,
                      NEW e \in S
               PROVE  f[S] = Stored(s[e][2]) + f[S \ {e}]
    OBVIOUS
  <2> DEFINE x == Some(S)
             R == (S \ {x}) \ {e}
  <2>0. \A T \in SUBSET D : Cardinality(T) = n => Any(T)
    BY <1>2
  <2>1. x \in S
    BY DEF Some
  <2>2. f[S] = Stored(s[x][2]) + f[S \ {x}]
    <3>1. f[S] = IF S = {} THEN 0 ELSE Stored(s[x][2]) + f[S \ {x}]
      BY ONLY Totals(s, D, f), S \in SUBSET D DEF Totals, Sums
    <3> QED BY <3>1
  <2> HIDE DEF x, N
  <2>3. \A y \in S : S \ {y} \in SUBSET D /\ Cardinality(S \ {y}) = n
    <3> TAKE y \in S
    <3>1. S \ {y} \in SUBSET D /\ Cardinality(S \ {y}) = Cardinality(S) - 1
      BY TakeOne
    <3> QED BY <3>1
  <2>4. CASE e = x
    BY <2>2, <2>4
  <2>5. CASE e # x
    <3>1. f[S \ {x}] = Stored(s[e][2]) + f[R]
      <4>1. e \in S \ {x}
        BY <2>5
      <4>2. Any(S \ {x})
        BY <2>0, <2>1, <2>3
      <4> QED BY <4>1, <4>2
    <3>2. f[S \ {e}] = Stored(s[x][2]) + f[R]
      <4>1. x \in S \ {e} /\ (S \ {e}) \ {x} = R
        BY <2>1, <2>5
      <4>2. Any(S \ {e})
        BY <2>0, <2>3
      <4> QED BY <4>1, <4>2
    <3>3. f[R] \in Nat
      BY TotalsNat
    <3> HIDE DEF R
    <3>4. Stored(s[e][2]) \in Nat /\ Stored(s[x][2]) \in Nat
      BY <2>1 DEF AllStored
    <3> QED BY ONLY <2>2, <3>1, <3>2, <3>3, <3>4
  <2> QED BY <2>4, <2>5
<1>3. Nat \subseteq N
  <2> HIDE DEF N
  <2> QED BY <1>1, <1>2, NatSet
<1>4. Any(D)
  BY <1>0, <1>3
<1> QED BY <1>4 DEF AddedLast

(* The sum depends on the elements only.                                   *)
LEMMA TotalsAgree ==
  ASSUME NEW s, NEW D, NEW f, Totals(s, D, f),
         NEW t, NEW E, NEW g, Totals(t, E, g),
         IsFiniteSet(D), D \subseteq E, \A x \in D : t[x] = s[x]
  PROVE  g[D] = f[D]
<1> DEFINE N == {n \in Nat : \A S \in SUBSET D : Cardinality(S) = n => g[S] = f[S]}
<1>0. \A S \in SUBSET D : /\ IsFiniteSet(S) /\ Cardinality(S) \in Nat
                          /\ Cardinality(S) = 0 => S = {}
                          /\ S \in SUBSET E
  BY FS_Subset, FS_CardinalityType, FS_EmptySet
<1>f. \A S \in SUBSET D :
        f[S] = IF S = {} THEN 0 ELSE Stored(s[Some(S)][2]) + f[S \ {Some(S)}]
  BY ONLY Totals(s, D, f) DEF Totals, Sums
<1>g. \A S \in SUBSET E :
        g[S] = IF S = {} THEN 0 ELSE Stored(t[Some(S)][2]) + g[S \ {Some(S)}]
  BY ONLY Totals(t, E, g) DEF Totals, Sums
<1>1. 0 \in N
  <2>1. f[{}] = 0 /\ g[{}] = 0
    BY <1>f, <1>g
  <2> QED BY <1>0, <2>1
<1>2. ASSUME NEW n \in Nat, n \in N PROVE n + 1 \in N
  <2> SUFFICES ASSUME NEW S \in SUBSET D, Cardinality(S) = n + 1 PROVE g[S] = f[S]
    OBVIOUS
  <2> DEFINE x == Some(S)
  <2>1. S # {} /\ x \in S
    BY NotEmpty DEF Some
  <2>2. f[S] = Stored(s[x][2]) + f[S \ {x}]
    BY <2>1, <1>f
  <2>3. g[S] = Stored(t[x][2]) + g[S \ {x}]
    BY <1>0, <2>1, <1>g
  <2> HIDE DEF x
  <2>4. S \ {x} \in SUBSET D /\ Cardinality(S \ {x}) = n
    <3>1. S \ {x} \in SUBSET D /\ Cardinality(S \ {x}) = Cardinality(S) - 1
      BY <2>1, TakeOne
    <3> QED BY <3>1
  <2>5. g[S \ {x}] = f[S \ {x}]
    BY <1>2, <2>4
  <2>6. t[x] = s[x]
    BY <2>1
  <2> QED BY <2>2, <2>3, <2>5, <2>6
<1>3. Nat \subseteq N
  <2> HIDE DEF N
  <2> QED BY <1>1, <1>2, NatSet
<1> QED BY <1>0, <1>3

-----------------------------------------------------------------------------
(* Bytes and headers.                                                      *)

(* A byte is one of three kinds.                                           *)
LEMMA ByteKinds ==
  ASSUME NEW b \in Bytes
  PROVE  /\ IsLineFeed(b) => b[2] \in Lines
         /\ ~(IsLineFeed(b) /\ IsText(b))
         /\ IsLineFeed(b) \/ IsText(b) \/ b = <<"cr">>
         /\ b = <<"cr">> => ~IsLineFeed(b) /\ ~IsText(b)
BY DEF Bytes, LineFeed, IsLineFeed, IsText

LEMMA StoredType == \A h \in Headers : Stored(h) \in Nat /\ Stored(h) > 1
<1>1. \A h \in Headers : h \in HeaderType
  BY ParserAssumption
<1> QED BY <1>1 DEF HeaderType, Stored

LEMMA HeadersType ==
  ASSUME NEW s \in Seq(Bytes), NEW i
  PROVE  /\ HeadersUpTo(s, i) \subseteq 1 .. Len(s)
         /\ IsFiniteSet(HeadersUpTo(s, i))
         /\ AllStored(s, HeadersUpTo(s, i))
         /\ Cardinality(HeadersUpTo(s, i)) \in Nat
<1>1. HeadersUpTo(s, i) \subseteq 1 .. Len(s)
  BY DEF HeadersUpTo, LineFeeds
<1>2. IsFiniteSet(HeadersUpTo(s, i))
  BY <1>1, FS_Interval, FS_Subset
<1>3. AllStored(s, HeadersUpTo(s, i))
  BY StoredType DEF HeadersUpTo, AllStored
<1> QED BY <1>1, <1>2, <1>3, FS_CardinalityType

(* The storage of the headers up to a position: a number, 0 if there are   *)
(* none, and the sum of what is stored of each.                            *)
LEMMA StorageIs ==
  ASSUME NEW s \in Seq(Bytes), NEW i
  PROVE  \E f : /\ Totals(s, HeadersUpTo(s, i), f)
                /\ StorageUpTo(s, i) = f[HeadersUpTo(s, i)]
<1> DEFINE f == CHOOSE g : Totals(s, HeadersUpTo(s, i), g)
<1>1. \E g : Totals(s, HeadersUpTo(s, i), g)
  BY HeadersType, TotalsExist
<1>2. Totals(s, HeadersUpTo(s, i), f)
  BY <1>1
<1>3. StorageUpTo(s, i) = f[HeadersUpTo(s, i)]
  BY StorageUnfolds
<1> QED BY <1>2, <1>3

LEMMA StorageType ==
  ASSUME NEW s \in Seq(Bytes), NEW i
  PROVE  /\ StorageUpTo(s, i) \in Nat
         /\ HeadersUpTo(s, i) = {} => StorageUpTo(s, i) = 0
<1> DEFINE D == HeadersUpTo(s, i)
<1>1. PICK f : Totals(s, D, f) /\ StorageUpTo(s, i) = f[D]
  BY StorageIs
<1>2. IsFiniteSet(D) /\ AllStored(s, D)
  BY HeadersType
<1> HIDE DEF D
<1>3. f[D] \in Nat
  BY <1>1, <1>2, TotalsNat
<1>4. D = {} => f[D] = 0
  <2>1. Totals(s, D, f) /\ D \in SUBSET D
    BY <1>1
  <2>2. f[D] = IF D = {} THEN 0 ELSE Stored(s[Some(D)][2]) + f[D \ {Some(D)}]
    BY ONLY <2>1, TotalsStep
  <2> QED BY <2>2
<1> QED BY <1>1, <1>3, <1>4 DEF D

LEMMA StorageSame ==
  ASSUME NEW s \in Seq(Bytes), NEW i, NEW t \in Seq(Bytes), NEW j,
         HeadersUpTo(t, j) = HeadersUpTo(s, i),
         \A x \in HeadersUpTo(s, i) : t[x] = s[x]
  PROVE  StorageUpTo(t, j) = StorageUpTo(s, i)
<1> DEFINE D == HeadersUpTo(s, i)
<1>1. PICK f : Totals(s, D, f) /\ StorageUpTo(s, i) = f[D]
  BY StorageIs
<1>2. PICK g : Totals(t, D, g) /\ StorageUpTo(t, j) = g[D]
  BY StorageIs
<1>3. IsFiniteSet(D) /\ \A x \in D : t[x] = s[x]
  BY HeadersType
<1> HIDE DEF D
<1>4. g[D] = f[D]
  <2>1. /\ Totals(s, D, f) /\ Totals(t, D, g)
        /\ IsFiniteSet(D) /\ D \subseteq D /\ \A x \in D : t[x] = s[x]
    BY <1>1, <1>2, <1>3
  <2> QED BY ONLY <2>1, TotalsAgree
<1> QED BY <1>1, <1>2, <1>4

OneMore(s, i, t, j, e) ==
  StorageUpTo(t, j) = StorageUpTo(s, i) + Stored(t[e][2])

LEMMA StorageMore ==
  ASSUME NEW s \in Seq(Bytes), NEW i, NEW t \in Seq(Bytes), NEW j, NEW e,
         e \notin HeadersUpTo(s, i),
         HeadersUpTo(t, j) = HeadersUpTo(s, i) \cup {e},
         \A x \in HeadersUpTo(s, i) : t[x] = s[x]
  PROVE  OneMore(s, i, t, j, e)
<1> DEFINE D == HeadersUpTo(s, i)
           E == HeadersUpTo(t, j)
<1>1. PICK f : Totals(s, D, f) /\ StorageUpTo(s, i) = f[D]
  BY StorageIs
<1>2. PICK g : Totals(t, E, g) /\ StorageUpTo(t, j) = g[E]
  BY StorageIs
<1>3. IsFiniteSet(D) /\ \A x \in D : t[x] = s[x]
  BY HeadersType
<1>4. IsFiniteSet(E) /\ AllStored(t, E)
  BY HeadersType
<1>5. e \notin D /\ E = D \cup {e}
  OBVIOUS
<1>6. StorageUpTo(s, i) \in Nat
  BY StorageType
<1>7. Stored(t[e][2]) \in Nat
  BY <1>4, <1>5 DEF AllStored
<1> HIDE DEF D, E
<1>8. g[D] = f[D]
  <2>1. /\ Totals(s, D, f) /\ Totals(t, E, g)
        /\ IsFiniteSet(D) /\ D \subseteq E /\ \A x \in D : t[x] = s[x]
    BY <1>1, <1>2, <1>3, <1>5
  <2> QED BY ONLY <2>1, TotalsAgree
<1>9. g[E] = Stored(t[e][2]) + g[E \ {e}]
  <2>1. /\ Totals(t, E, g) /\ IsFiniteSet(E) /\ AllStored(t, E)
        /\ e \in E
    BY <1>2, <1>4, <1>5
  <2>2. AddedLast(t, e, g, E)
    BY ONLY <2>1, TotalsAny
  <2> QED BY <2>2 DEF AddedLast
<1>10. E \ {e} = D
  BY <1>5
<1>11. StorageUpTo(t, j) = Stored(t[e][2]) + StorageUpTo(s, i)
  BY <1>1, <1>2, <1>8, <1>9, <1>10
<1>12. StorageUpTo(t, j) = StorageUpTo(s, i) + Stored(t[e][2])
  BY ONLY <1>6, <1>7, <1>11
<1> QED BY <1>12 DEF OneMore

-----------------------------------------------------------------------------
(* One byte more.  What the definitions of HttpParserReference say of the  *)
(* positions before it stays, and what they say of the last one follows    *)
(* from the input before.                                                  *)

Longer(s, b, t) ==
  /\ s \in Seq(Bytes) /\ b \in Bytes /\ t \in Seq(Bytes)
  /\ Len(t) = Len(s) + 1 /\ t[Len(s) + 1] = b
  /\ \A k \in 1 .. Len(s) : t[k] = s[k]

LEMMA AppendLonger ==
  ASSUME NEW s \in Seq(Bytes), NEW b \in Bytes
  PROVE  Longer(s, b, Append(s, b))
<1>1. /\ Append(s, b) \in Seq(Bytes)
      /\ Len(Append(s, b)) = Len(s) + 1
      /\ Append(s, b)[Len(s) + 1] = b
      /\ \A k \in 1 .. Len(s) : Append(s, b)[k] = s[k]
  BY AppendProperties
<1> QED BY <1>1 DEF Longer

LEMMA FeedsGrow ==
  ASSUME NEW s, NEW b, NEW t, Longer(s, b, t)
  PROVE  /\ LineFeeds(s) \subseteq 1 .. Len(s)
         /\ IsLineFeed(b) => LineFeeds(t) = LineFeeds(s) \cup {Len(s) + 1}
         /\ ~IsLineFeed(b) => LineFeeds(t) = LineFeeds(s)
<1>1. Len(s) \in Nat
  BY DEF Longer
<1>2. 1 .. Len(t) = (1 .. Len(s)) \cup {Len(s) + 1}
  BY <1>1 DEF Longer
<1> QED BY <1>1, <1>2 DEF LineFeeds, Longer

LEMMA StartIs ==
  ASSUME NEW s \in Seq(Bytes), NEW i \in Nat
  PROVE  /\ LineStart(s, i) \in Nat
         /\ LineStart(s, i) = 0 \/ LineStart(s, i) \in LineFeeds(s)
         /\ i > 0 => LineStart(s, i) < i
         /\ \A j \in LineFeeds(s) : j < i => j <= LineStart(s, i)
<1> DEFINE S == {0} \cup {j \in LineFeeds(s) : j < i}
<1>1. Len(s) \in Nat /\ S \subseteq 0 .. Len(s) /\ S # {}
  BY DEF LineFeeds
<1>2. Max(S) \in S /\ \A k \in S : k <= Max(S)
  BY <1>1, MaxOfNat
<1>3. LineStart(s, i) = Max(S)
  BY DEF LineStart
<1>4. Max(S) \in Nat
  BY <1>1, <1>2
<1> QED BY <1>2, <1>3, <1>4

(* A position is on the first line exactly if no line has ended.           *)
LEMMA FirstLine ==
  ASSUME NEW s \in Seq(Bytes)
  PROVE  LineStart(s, Len(s) + 1) = 0 <=> LineFeeds(s) = {}
<1>1. /\ LineStart(s, Len(s) + 1) = 0 \/ LineStart(s, Len(s) + 1) \in LineFeeds(s)
      /\ \A j \in LineFeeds(s) : j < Len(s) + 1 => j <= LineStart(s, Len(s) + 1)
  BY StartIs
<1>2. \A j \in LineFeeds(s) : j \in Nat \ {0} /\ j < Len(s) + 1
  BY DEF LineFeeds
<1> QED BY <1>1, <1>2

LEMMA StartSame ==
  ASSUME NEW s, NEW b, NEW t, Longer(s, b, t), NEW i \in 1 .. Len(s) + 1
  PROVE  LineStart(t, i) = LineStart(s, i)
<1>1. {j \in LineFeeds(t) : j < i} = {j \in LineFeeds(s) : j < i}
  <2>1. ~(Len(s) + 1 < i)
    BY DEF Longer
  <2> QED BY <2>1, FeedsGrow
<1> QED BY <1>1 DEF LineStart

LEMMA StartNext ==
  ASSUME NEW s, NEW b, NEW t, Longer(s, b, t)
  PROVE  LineStart(t, Len(s) + 2) =
           IF IsLineFeed(b) THEN Len(s) + 1 ELSE LineStart(s, Len(s) + 1)
<1>0. Len(s) \in Nat /\ LineFeeds(s) \subseteq 1 .. Len(s)
  BY FeedsGrow DEF Longer
<1>1. CASE IsLineFeed(b)
  <2> DEFINE S == {0} \cup {j \in LineFeeds(t) : j < Len(s) + 2}
  <2>1. LineFeeds(t) = LineFeeds(s) \cup {Len(s) + 1}
    BY <1>1, FeedsGrow
  <2>2. S \subseteq Nat /\ Len(s) + 1 \in S /\ \A k \in S : k <= Len(s) + 1
    BY <1>0, <2>1
  <2>3. Max(S) = Len(s) + 1
    <3> HIDE DEF S
    <3> QED BY <2>2, MaxIs
  <2> QED BY <1>1, <2>3 DEF LineStart
<1>2. CASE ~IsLineFeed(b)
  <2>1. LineFeeds(t) = LineFeeds(s)
    BY <1>2, FeedsGrow
  <2>2. {j \in LineFeeds(t) : j < Len(s) + 2} = {j \in LineFeeds(s) : j < Len(s) + 1}
    BY <1>0, <2>1
  <2> QED BY <1>2, <2>2 DEF LineStart
<1> QED BY <1>1, <1>2

LEMMA TextSame ==
  ASSUME NEW s, NEW b, NEW t, Longer(s, b, t), NEW i \in 1 .. Len(s) + 1
  PROVE  TextBefore(t, i) = TextBefore(s, i)
<1> DEFINE l == LineStart(s, i)
<1>0. s \in Seq(Bytes) /\ Len(s) \in Nat /\ i \in Nat
  BY DEF Longer
<1>1. l \in Nat /\ LineStart(t, i) = l
  BY <1>0, StartIs, StartSame
<1>2. \A k \in l + 1 .. i - 1 : t[k] = s[k]
  <2>1. \A k \in l + 1 .. i - 1 : k \in 1 .. Len(s)
    BY <1>0, <1>1
  <2> QED BY <2>1 DEF Longer
<1>3. {k \in l + 1 .. i - 1 : IsText(t[k])} = {k \in l + 1 .. i - 1 : IsText(s[k])}
  BY <1>2
<1> QED BY <1>1, <1>3 DEF TextBefore

LEMMA TextNext ==
  ASSUME NEW s, NEW b, NEW t, Longer(s, b, t)
  PROVE  /\ TextBefore(s, Len(s) + 1) \in Nat
         /\ IsLineFeed(b) => TextBefore(t, Len(t) + 1) = 0
         /\ IsText(b) => TextBefore(t, Len(t) + 1) = TextBefore(s, Len(s) + 1) + 1
         /\ b = <<"cr">> => TextBefore(t, Len(t) + 1) = TextBefore(s, Len(s) + 1)
<1> DEFINE n == Len(s)
           l == LineStart(s, n + 1)
           S == {k \in l + 1 .. n : IsText(s[k])}
           T == {k \in LineStart(t, n + 2) + 1 .. n + 1 : IsText(t[k])}
<1>0. s \in Seq(Bytes) /\ n \in Nat /\ Len(t) = n + 1 /\ b \in Bytes
  BY DEF Longer
<1>1. l \in Nat /\ l <= n
  BY <1>0, StartIs
<1>2. TextBefore(s, n + 1) = Cardinality(S)
  <2>1. (n + 1) - 1 = n
    BY <1>0
  <2> QED BY <2>1 DEF TextBefore
<1>3. TextBefore(t, Len(t) + 1) = Cardinality(T)
  <2>1. Len(t) + 1 = n + 2 /\ (n + 2) - 1 = n + 1
    BY <1>0
  <2> QED BY <2>1 DEF TextBefore
<1>4. IsFiniteSet(S) /\ Cardinality(S) \in Nat
  <2>1. IsFiniteSet(l + 1 .. n)
    <3>1. l + 1 \in Int /\ n \in Int
      BY <1>0, <1>1
    <3> QED BY ONLY <3>1, FS_Interval
  <2>2. S \in SUBSET (l + 1 .. n)
    OBVIOUS
  <2> QED BY <2>1, <2>2, FS_Subset, FS_CardinalityType
<1>5. CASE IsLineFeed(b)
  <2>1. LineStart(t, n + 2) = n + 1
    BY <1>5, StartNext
  <2>2. T = {}
    BY <1>0, <2>1
  <2> QED BY <1>2, <1>3, <1>4, <1>5, <2>2, <1>0, ByteKinds, FS_EmptySet
<1>6. CASE ~IsLineFeed(b)
  <2>1. LineStart(t, n + 2) = l
    BY <1>6, StartNext
  <2>2. l + 1 .. n + 1 = (l + 1 .. n) \cup {n + 1}
    BY <1>0, <1>1
  <2>3. t[n + 1] = b /\ \A k \in l + 1 .. n : t[k] = s[k]
    BY <1>1 DEF Longer
  <2>4. IsText(b) => T = S \cup {n + 1}
    BY <2>1, <2>2, <2>3
  <2>5. ~IsText(b) => T = S
    BY <2>1, <2>2, <2>3
  <2>6. n + 1 \notin S
    BY <1>0, <1>1
  <2>7. IsText(b) => Cardinality(T) = Cardinality(S) + 1
    BY <1>4, <2>4, <2>6, FS_AddElement
  <2> HIDE DEF S, T
  <2> QED BY <1>0, <1>2, <1>3, <1>4, <1>6, <2>5, <2>7, ByteKinds
<1> QED BY <1>5, <1>6


LEMMA EndSame ==
  ASSUME NEW s, NEW b, NEW t, Longer(s, b, t), NEW i \in 1 .. Len(s)
  PROVE  /\ t[i] = s[i]
         /\ i \in LineFeeds(t) <=> i \in LineFeeds(s)
         /\ IsRequestEnd(t, i) <=> IsRequestEnd(s, i)
         /\ IsBlank(t, i) <=> IsBlank(s, i)
         /\ HeadersUpTo(t, i) = HeadersUpTo(s, i)
<1>0. Len(s) \in Nat
  BY DEF Longer
<1>1. \A j \in 1 .. Len(s) : /\ t[j] = s[j]
                             /\ j \in LineFeeds(t) <=> j \in LineFeeds(s)
                             /\ LineStart(t, j) = LineStart(s, j)
                             /\ TextBefore(t, j) = TextBefore(s, j)
  <2> TAKE j \in 1 .. Len(s)
  <2>1. j \in 1 .. Len(s) + 1 /\ j # Len(s) + 1
    BY <1>0
  <2>2. t[j] = s[j]
    BY DEF Longer
  <2>3. j \in LineFeeds(t) <=> j \in LineFeeds(s)
    BY <2>1, FeedsGrow
  <2>4. LineStart(t, j) = LineStart(s, j)
    BY <2>1, StartSame
  <2>5. TextBefore(t, j) = TextBefore(s, j)
    BY <2>1, TextSame
  <2> QED BY <2>2, <2>3, <2>4, <2>5
<1>2. \A j \in 1 .. Len(s) : IsRequestEnd(t, j) <=> IsRequestEnd(s, j)
  BY <1>1 DEF IsRequestEnd
<1>3. IsBlank(t, i) <=> IsBlank(s, i)
  BY <1>1, <1>2 DEF IsBlank
<1>4. ASSUME NEW j
      PROVE  j \in HeadersUpTo(t, i) <=> j \in HeadersUpTo(s, i)
  <2>1. j \in LineFeeds(t) /\ j <= i => j \in 1 .. Len(s)
    BY <1>0 DEF LineFeeds, Longer
  <2>2. j \in LineFeeds(s) => j \in 1 .. Len(s)
    BY DEF LineFeeds
  <2> QED BY <1>1, <1>2, <2>1, <2>2 DEF HeadersUpTo
<1> QED BY <1>1, <1>2, <1>3, <1>4

LEMMA LineSame ==
  ASSUME NEW s, NEW b, NEW t, Longer(s, b, t), NEW i \in 1 .. Len(s)
  PROVE  /\ Malformed(t, i) <=> Malformed(s, i)
         /\ Oversized(t, i) <=> Oversized(s, i)
<1>0. s \in Seq(Bytes) /\ t \in Seq(Bytes) /\ Len(s) \in Nat
  BY DEF Longer
<1>1. /\ t[i] = s[i]
      /\ IsRequestEnd(t, i) <=> IsRequestEnd(s, i)
      /\ IsBlank(t, i) <=> IsBlank(s, i)
      /\ HeadersUpTo(t, i) = HeadersUpTo(s, i)
  BY EndSame
<1>2. TextBefore(t, i) = TextBefore(s, i)
  BY TextSame
<1>3. StorageUpTo(t, i) = StorageUpTo(s, i)
  <2>1. \A x \in HeadersUpTo(s, i) : t[x] = s[x]
    BY <1>0, HeadersType DEF Longer
  <2> QED BY <1>0, <1>1, <2>1, StorageSame
<1>4. Malformed(t, i) <=> Malformed(s, i)
  BY <1>1, <1>2, <1>3 DEF Malformed
<1>5. Oversized(t, i) <=> Oversized(s, i)
  BY <1>1 DEF Oversized
<1> QED BY <1>4, <1>5

(* What one more byte ends.                                                *)
EndsRequest(s, b) == IsLineFeed(b) /\ LineFeeds(s) = {}
EndsHead(s, b) ==
  IsLineFeed(b) /\ LineFeeds(s) # {} /\ TextBefore(s, Len(s) + 1) = 0
EndsHeader(s, b) ==
  IsLineFeed(b) /\ LineFeeds(s) # {} /\ b[2] \in Headers

LEMMA EndNew ==
  ASSUME NEW s, NEW b, NEW t, Longer(s, b, t)
  PROVE  /\ IsRequestEnd(t, Len(t)) <=> EndsRequest(s, b)
         /\ IsBlank(t, Len(t)) <=> EndsHead(s, b)
         /\ TextBefore(t, Len(t)) = TextBefore(s, Len(s) + 1)
         /\ EndsHeader(s, b) =>
              HeadersUpTo(t, Len(t)) = HeadersUpTo(s, Len(s)) \cup {Len(t)}
         /\ ~EndsHeader(s, b) =>
              HeadersUpTo(t, Len(t)) = HeadersUpTo(s, Len(s))
         /\ Len(t) \notin HeadersUpTo(s, Len(s))
<1> DEFINE n == Len(s)
<1>0. s \in Seq(Bytes) /\ t \in Seq(Bytes) /\ n \in Nat /\ Len(t) = n + 1 /\ t[n + 1] = b
  BY DEF Longer
<1>1. n + 1 \in LineFeeds(t) <=> IsLineFeed(b)
  BY <1>0 DEF LineFeeds
<1>2. LineStart(t, n + 1) = 0 <=> LineFeeds(s) = {}
  <2>1. n + 1 \in 1 .. Len(s) + 1
    BY <1>0
  <2> QED BY <1>0, <2>1, FirstLine, StartSame
<1>3. TextBefore(t, n + 1) = TextBefore(s, n + 1)
  <2>1. n + 1 \in 1 .. Len(s) + 1
    BY <1>0
  <2> QED BY <2>1, TextSame
<1>4. IsRequestEnd(t, n + 1) <=> EndsRequest(s, b)
  BY <1>1, <1>2 DEF IsRequestEnd, EndsRequest
<1>5. IsBlank(t, n + 1) <=> EndsHead(s, b)
  BY <1>1, <1>3, <1>4 DEF IsBlank, EndsRequest, EndsHead
<1>6. n + 1 \in HeadersUpTo(t, n + 1) <=> EndsHeader(s, b)
  BY <1>0, <1>1, <1>4 DEF HeadersUpTo, EndsRequest, EndsHeader
<1>7. ASSUME NEW j, j # n + 1
      PROVE  j \in HeadersUpTo(t, n + 1) <=> j \in HeadersUpTo(s, n)
  <2>1. \A k \in 1 .. n : /\ t[k] = s[k]
                          /\ k \in LineFeeds(t) <=> k \in LineFeeds(s)
                          /\ IsRequestEnd(t, k) <=> IsRequestEnd(s, k)
    BY EndSame
  <2>2. j \in LineFeeds(t) => j \in 1 .. n
    BY <1>0, <1>7 DEF LineFeeds
  <2>3. j \in LineFeeds(s) => j \in 1 .. n
    BY DEF LineFeeds
  <2>4. j \in 1 .. n => j <= n /\ j <= n + 1
    BY <1>0
  <2> QED BY <2>1, <2>2, <2>3, <2>4 DEF HeadersUpTo
<1>8. n + 1 \notin HeadersUpTo(s, n)
  BY <1>0 DEF HeadersUpTo
<1>9. EndsHeader(s, b) => HeadersUpTo(t, n + 1) = HeadersUpTo(s, n) \cup {n + 1}
  BY <1>6, <1>7
<1>10. ~EndsHeader(s, b) => HeadersUpTo(t, n + 1) = HeadersUpTo(s, n)
  BY <1>6, <1>7, <1>8
<1> QED BY <1>0, <1>3, <1>4, <1>5, <1>8, <1>9, <1>10

(* What is stored, and how much.                                           *)
LEMMA StoredNew ==
  ASSUME NEW s, NEW b, NEW t, Longer(s, b, t)
  PROVE  /\ EndsHeader(s, b) =>
              /\ Cardinality(HeadersUpTo(t, Len(t))) = Cardinality(HeadersUpTo(s, Len(s))) + 1
              /\ StorageUpTo(t, Len(t)) = StorageUpTo(s, Len(s)) + Stored(b[2])
         /\ ~EndsHeader(s, b) =>
              /\ Cardinality(HeadersUpTo(t, Len(t))) = Cardinality(HeadersUpTo(s, Len(s)))
              /\ StorageUpTo(t, Len(t)) = StorageUpTo(s, Len(s))
<1> DEFINE H == HeadersUpTo(s, Len(s))
<1>0. s \in Seq(Bytes) /\ t \in Seq(Bytes) /\ t[Len(t)] = b
  BY DEF Longer
<1>1. IsFiniteSet(H) /\ \A x \in H : t[x] = s[x]
  BY <1>0, HeadersType DEF Longer
<1>2. CASE EndsHeader(s, b)
  <2>1. HeadersUpTo(t, Len(t)) = H \cup {Len(t)} /\ Len(t) \notin H
    BY <1>2, EndNew
  <2>2. Cardinality(H \cup {Len(t)}) = Cardinality(H) + 1
    <3> HIDE DEF H
    <3> QED BY <1>1, <2>1, FS_AddElement
  <2>3. StorageUpTo(t, Len(t)) = StorageUpTo(s, Len(s)) + Stored(t[Len(t)][2])
    <3> DEFINE m == Len(s)
               n == Len(t)
    <3>1. /\ s \in Seq(Bytes) /\ t \in Seq(Bytes)
          /\ n \notin HeadersUpTo(s, m)
          /\ HeadersUpTo(t, n) = HeadersUpTo(s, m) \cup {n}
          /\ \A x \in HeadersUpTo(s, m) : t[x] = s[x]
      BY <1>0, <1>1, <2>1
    <3> HIDE DEF m, n
    <3>2. OneMore(s, m, t, n, n)
      BY ONLY <3>1, StorageMore
    <3> QED BY <3>2 DEF OneMore, m, n
  <2> QED BY <1>0, <1>2, <2>1, <2>2, <2>3
<1>3. CASE ~EndsHeader(s, b)
  <2>1. HeadersUpTo(t, Len(t)) = H
    BY <1>3, EndNew
  <2>2. StorageUpTo(t, Len(t)) = StorageUpTo(s, Len(s))
    BY <1>0, <1>1, <2>1, StorageSame
  <2> QED BY <1>3, <2>1, <2>2
<1> QED BY <1>2, <1>3

-----------------------------------------------------------------------------
(* The head of the request, its faults and the length it announces.        *)

LEMMA HeadGrows ==
  ASSUME NEW s, NEW b, NEW t, Longer(s, b, t)
  PROVE  /\ Blanks(s) \subseteq 1 .. Len(s)
         /\ EndsHead(s, b) => Blanks(t) = Blanks(s) \cup {Len(t)}
         /\ ~EndsHead(s, b) => Blanks(t) = Blanks(s)
         /\ Blanks(s) # {} => HeadEnd(t) = HeadEnd(s) /\ HeadEnd(s) \in 1 .. Len(s)
         /\ Blanks(s) = {} => HeadEnd(s) = Len(s) /\ HeadEnd(t) = Len(t)
<1> DEFINE n == Len(s)
<1>0. n \in Nat /\ Len(t) = n + 1
  BY DEF Longer
<1>1. \A i \in 1 .. n : IsBlank(t, i) <=> IsBlank(s, i)
  BY EndSame
<1>2. IsBlank(t, n + 1) <=> EndsHead(s, b)
  BY <1>0, EndNew
<1>3. 1 .. n + 1 = (1 .. n) \cup {n + 1}
  BY <1>0
<1>4. Blanks(s) \subseteq 1 .. n
  BY DEF Blanks
<1>5. EndsHead(s, b) => Blanks(t) = Blanks(s) \cup {n + 1}
  BY <1>0, <1>1, <1>2, <1>3 DEF Blanks
<1>6. ~EndsHead(s, b) => Blanks(t) = Blanks(s)
  BY <1>0, <1>1, <1>2, <1>3 DEF Blanks
<1>7. ASSUME Blanks(s) # {}
      PROVE  HeadEnd(t) = HeadEnd(s) /\ HeadEnd(s) \in 1 .. n
  <2> DEFINE m == Min(Blanks(s))
  <2>1. Blanks(s) \subseteq Nat
    BY <1>4
  <2>2. m \in Blanks(s) /\ \A k \in Blanks(s) : m <= k
    BY <1>7, <2>1, MinOfNat
  <2>3. m \in 1 .. n
    BY <1>4, <2>2
  <2> HIDE DEF m
  <2>4. /\ m \in Blanks(t) /\ Blanks(t) \subseteq Nat
        /\ \A k \in Blanks(t) : m <= k
    <3>1. m <= n + 1
      BY <1>0, <2>3
    <3>2. \A k \in Blanks(t) : k \in Blanks(s) \/ k = n + 1
      BY <1>5, <1>6
    <3> QED BY <1>0, <1>5, <1>6, <2>1, <2>2, <3>1, <3>2
  <2>5. Min(Blanks(t)) = m
    BY <2>4, MinIs
  <2>6. HeadEnd(s) = m /\ HeadEnd(t) = m
    BY <1>7, <2>4, <2>5 DEF HeadEnd, m
  <2> QED BY <2>3, <2>6
<1>8. ASSUME Blanks(s) = {}
      PROVE  HeadEnd(s) = n /\ HeadEnd(t) = n + 1
  <2>1. HeadEnd(s) = n
    BY <1>8 DEF HeadEnd
  <2>2. CASE EndsHead(s, b)
    <3>1. Blanks(t) = {n + 1}
      BY <1>5, <1>8, <2>2
    <3>2. Min({n + 1}) = n + 1
      BY <1>0, MinIs
    <3> QED BY <2>1, <3>1, <3>2 DEF HeadEnd
  <2>3. CASE ~EndsHead(s, b)
    BY <1>0, <1>6, <1>8, <2>1, <2>3 DEF HeadEnd
  <2> QED BY <2>2, <2>3
<1> QED BY <1>0, <1>4, <1>5, <1>6, <1>7, <1>8

LEMMA FaultsGrow ==
  ASSUME NEW s, NEW b, NEW t, Longer(s, b, t)
  PROVE  /\ Faults(s) \subseteq 1 .. Len(s)
         /\ Blanks(s) # {} => Faults(t) = Faults(s)
         /\ Blanks(s) = {} =>
              /\ Malformed(t, Len(t)) \/ Oversized(t, Len(t)) =>
                   Faults(t) = Faults(s) \cup {Len(t)}
              /\ ~(Malformed(t, Len(t)) \/ Oversized(t, Len(t))) =>
                   Faults(t) = Faults(s)
<1> DEFINE n == Len(s)
           Bad(i) == Malformed(s, i) \/ Oversized(s, i)
           BadNow(i) == Malformed(t, i) \/ Oversized(t, i)
<1>0. n \in Nat /\ Len(t) = n + 1
  BY DEF Longer
<1>1. \A i \in 1 .. n : BadNow(i) <=> Bad(i)
  BY LineSame
<1>2. Faults(s) = {i \in 1 .. HeadEnd(s) : Bad(i)} /\ Faults(t) = {i \in 1 .. HeadEnd(t) : BadNow(i)}
  BY DEF Faults
<1>3. HeadEnd(s) \in 0 .. n
  BY <1>0, HeadGrows
<1>4. Blanks(s) # {} => HeadEnd(t) = HeadEnd(s)
  BY HeadGrows
<1>5. Blanks(s) = {} => HeadEnd(s) = n /\ HeadEnd(t) = n + 1
  BY <1>0, HeadGrows
<1>6. 1 .. n + 1 = (1 .. n) \cup {n + 1}
  BY <1>0
<1> HIDE DEF Bad, BadNow
<1>7. Faults(s) \subseteq 1 .. n
  BY <1>0, <1>2, <1>3
<1>8. Blanks(s) # {} => Faults(t) = Faults(s)
  <2>1. \A i \in 1 .. HeadEnd(s) : i \in 1 .. n
    BY <1>0, <1>3
  <2> QED BY <1>1, <1>2, <1>4, <2>1
<1>9. Blanks(s) = {} /\ BadNow(n + 1) => Faults(t) = Faults(s) \cup {n + 1}
  BY <1>1, <1>2, <1>5, <1>6
<1>10. Blanks(s) = {} /\ ~BadNow(n + 1) => Faults(t) = Faults(s)
  BY <1>1, <1>2, <1>5, <1>6
<1> QED BY <1>0, <1>7, <1>8, <1>9, <1>10 DEF BadNow

(* BodyLength, of any part of the input.                                   *)
LengthsIn(s, i) == {j \in HeadersUpTo(s, i) : s[j][2].kind = "length"}
LengthIn(s, i) == IF LengthsIn(s, i) = {} THEN 0 ELSE s[Max(LengthsIn(s, i))][2].number

LEMMA BodyLengthIs ==
  ASSUME NEW s
  PROVE  BodyLength(s) = LengthIn(s, HeadEnd(s))
BY DEF BodyLength, LengthIn, LengthsIn

LEMMA LengthSame ==
  ASSUME NEW s \in Seq(Bytes), NEW i, NEW t, NEW j,
         HeadersUpTo(t, j) = HeadersUpTo(s, i),
         \A x \in HeadersUpTo(s, i) : t[x] = s[x]
  PROVE  LengthIn(t, j) = LengthIn(s, i)
<1>1. LengthsIn(t, j) = LengthsIn(s, i)
  BY DEF LengthsIn
<1>2. CASE LengthsIn(s, i) = {}
  BY <1>1, <1>2 DEF LengthIn
<1>3. CASE LengthsIn(s, i) # {}
  <2>1. LengthsIn(s, i) \subseteq 0 .. Len(s) /\ Len(s) \in Nat
    BY HeadersType DEF LengthsIn
  <2>2. Max(LengthsIn(s, i)) \in LengthsIn(s, i)
    BY <1>3, <2>1, MaxOfNat
  <2>3. t[Max(LengthsIn(s, i))] = s[Max(LengthsIn(s, i))]
    BY <2>2 DEF LengthsIn
  <2> QED BY <1>1, <1>3, <2>3 DEF LengthIn
<1> QED BY <1>2, <1>3

LEMMA LengthNew ==
  ASSUME NEW s, NEW b, NEW t, Longer(s, b, t)
  PROVE  LengthIn(t, Len(t)) =
           IF EndsHeader(s, b) /\ b[2].kind = "length" THEN b[2].number
           ELSE LengthIn(s, Len(s))
<1> DEFINE H == HeadersUpTo(s, Len(s))
           L == LengthsIn(s, Len(s))
           M == LengthsIn(t, Len(t))
<1>0. s \in Seq(Bytes) /\ t \in Seq(Bytes) /\ Len(s) \in Nat /\ Len(t) = Len(s) + 1 /\ t[Len(t)] = b
  BY DEF Longer
<1>1. H \subseteq 1 .. Len(s) /\ \A x \in H : t[x] = s[x]
  BY <1>0, HeadersType DEF Longer
<1>2. CASE EndsHeader(s, b)
  <2>1. HeadersUpTo(t, Len(t)) = H \cup {Len(t)}
    BY <1>2, EndNew
  <2>2. CASE b[2].kind = "length"
    <3>1. M = L \cup {Len(t)}
      BY <1>0, <1>1, <2>1, <2>2 DEF LengthsIn
    <3>2. L \subseteq 1 .. Len(s)
      BY <1>1 DEF LengthsIn
    <3>3. M \subseteq Nat /\ Len(t) \in M /\ \A k \in M : k <= Len(t)
      <4> HIDE DEF L, M
      <4>1. \A k \in L : k \in Nat /\ k <= Len(t)
        BY <1>0, <3>2
      <4>2. Len(t) \in Nat /\ Len(t) <= Len(t)
        BY <1>0
      <4> QED BY <3>1, <4>1, <4>2
    <3>4. Max(M) = Len(t)
      <4> HIDE DEF M
      <4> QED BY <3>3, MaxIs
    <3> QED BY <1>0, <1>2, <2>2, <3>3, <3>4 DEF LengthIn
  <2>3. CASE b[2].kind # "length"
    <3>1. M = L
      BY <1>0, <1>1, <2>1, <2>3 DEF LengthsIn
    <3>2. CASE L = {}
      BY <2>3, <3>1, <3>2 DEF LengthIn
    <3>3. CASE L # {}
      <4>1. L \subseteq 0 .. Len(s)
        BY <1>1 DEF LengthsIn
      <4>2. Max(L) \in L
        <5> HIDE DEF L
        <5> QED BY <1>0, <3>3, <4>1, MaxOfNat
      <4>3. t[Max(L)] = s[Max(L)]
        BY <1>1, <4>2 DEF LengthsIn
      <4> QED BY <2>3, <3>1, <3>3, <4>3 DEF LengthIn
    <3> QED BY <3>2, <3>3
  <2> QED BY <2>2, <2>3
<1>3. CASE ~EndsHeader(s, b)
  <2>1. HeadersUpTo(t, Len(t)) = H
    BY <1>3, EndNew
  <2> QED BY <1>0, <1>1, <1>3, <2>1, LengthSame
<1> QED BY <1>2, <1>3

-----------------------------------------------------------------------------
(* What makes the last byte a fault.                                       *)
EndsText(s, b) ==
  IsLineFeed(b) /\ LineFeeds(s) # {} /\ TextBefore(s, Len(s) + 1) # 0
Unstorable(t, b) == \/ b[2] \notin Headers
                    \/ Cardinality(HeadersUpTo(t, Len(t))) > HTTP_HEADER_MAX_COUNT
                    \/ StorageUpTo(t, Len(t)) > HTTP_HEADER_MAX_SIZE
TooLong(s, b) == /\ EndsHeader(s, b)
                 /\ b[2].kind = "length"
                 /\ b[2].number > HTTP_BODY_MAX_SIZE

LEMMA FaultNew ==
  ASSUME NEW s, NEW b, NEW t, Longer(s, b, t)
  PROVE  /\ Oversized(t, Len(t)) <=> TooLong(s, b)
         /\ IsText(b) =>
              (Malformed(t, Len(t)) <=> TextBefore(s, Len(s) + 1) >= HTTP_LINE_MAX)
         /\ b = <<"cr">> => ~Malformed(t, Len(t))
         /\ EndsRequest(s, b) => (Malformed(t, Len(t)) <=> b[2] # Request)
         /\ EndsHead(s, b) => ~Malformed(t, Len(t))
         /\ EndsText(s, b) => (Malformed(t, Len(t)) <=> Unstorable(t, b))
<1> DEFINE n == Len(t)
<1>0. b \in Bytes /\ t[n] = b /\ n \in Nat /\ n \in 1 .. Len(t) /\ t \in Seq(Bytes)
  BY DEF Longer
<1>1. /\ IsRequestEnd(t, n) <=> EndsRequest(s, b)
      /\ IsBlank(t, n) <=> EndsHead(s, b)
      /\ TextBefore(t, n) = TextBefore(s, Len(s) + 1)
  BY EndNew
<1>2. n \in HeadersUpTo(t, n) <=> EndsHeader(s, b)
  BY EndNew
<1>3. n \in LineFeeds(t) <=> IsLineFeed(b)
  BY <1>0 DEF LineFeeds
<1>4. /\ IsLineFeed(b) => b[2] \in Lines
      /\ ~(IsLineFeed(b) /\ IsText(b))
      /\ b = <<"cr">> => ~IsLineFeed(b) /\ ~IsText(b)
  BY <1>0, ByteKinds
<1>5. Oversized(t, n) <=> TooLong(s, b)
  BY <1>0, <1>2 DEF Oversized, TooLong
<1>6. ASSUME IsText(b)
      PROVE  Malformed(t, n) <=> TextBefore(s, Len(s) + 1) >= HTTP_LINE_MAX
  <2>1. IsText(t[n]) /\ ~IsRequestEnd(t, n) /\ ~IsLineFeed(t[n])
    BY <1>0, <1>1, <1>4, <1>6 DEF EndsRequest
  <2> QED BY <1>1, <2>1 DEF Malformed
<1>7. ASSUME b = <<"cr">> PROVE ~Malformed(t, n)
  <2>1. ~IsText(t[n]) /\ ~IsRequestEnd(t, n) /\ ~IsLineFeed(t[n])
    BY <1>0, <1>1, <1>4, <1>7 DEF EndsRequest
  <2> QED BY <2>1 DEF Malformed
<1>8. ASSUME EndsRequest(s, b) PROVE Malformed(t, n) <=> b[2] # Request
  <2>1. ~IsText(t[n]) /\ IsRequestEnd(t, n)
    BY <1>0, <1>1, <1>4, <1>8 DEF EndsRequest
  <2> QED BY <1>0, <2>1 DEF Malformed
<1>9. ASSUME EndsHead(s, b) PROVE ~Malformed(t, n)
  <2>1. ~IsText(t[n]) /\ ~IsRequestEnd(t, n) /\ IsLineFeed(t[n]) /\ IsBlank(t, n)
    BY <1>0, <1>1, <1>4, <1>9 DEF EndsRequest, EndsHead
  <2> QED BY <2>1 DEF Malformed
<1>10. ASSUME EndsText(s, b) PROVE Malformed(t, n) <=> Unstorable(t, b)
  <2>1. ~IsText(t[n]) /\ ~IsRequestEnd(t, n) /\ IsLineFeed(t[n]) /\ ~IsBlank(t, n)
    BY <1>0, <1>1, <1>4, <1>10 DEF EndsRequest, EndsHead, EndsText
  <2> QED BY <1>0, <2>1 DEF Malformed, Unstorable
<1> QED BY <1>5, <1>6, <1>7, <1>8, <1>9, <1>10

-----------------------------------------------------------------------------
(* The members of the parser are what the definitions of                   *)
(* HttpParserReference say of the input so far.                            *)

InHead(p, s) ==
  /\ Blanks(s) = {} /\ Faults(s) = {}
  /\ p.line_len = TextBefore(s, Len(s) + 1)
  /\ p.header_count = Cardinality(HeadersUpTo(s, Len(s)))
  /\ p.header_storage_len = StorageUpTo(s, Len(s))
  /\ p.content_length = LengthIn(s, Len(s))

AfterHead(p, s) ==
  /\ Blanks(s) # {} /\ Faults(s) = {}
  /\ p.content_length = BodyLength(s)
  /\ p.body_len = Len(s) - HeadEnd(s)

HasRead(p, s) ==
  /\ p.state \in {"READ_LINE", "READ_HEADERS"} => InHead(p, s)
  /\ p.state = "READ_LINE" => LineFeeds(s) = {}
  /\ p.state = "READ_HEADERS" => LineFeeds(s) # {}
  /\ p.state \in {"READ_BODY", "DONE"} => AfterHead(p, s)
  /\ p.state = "ERROR" => Faults(s) # {}

Explained(v, s) ==
  v = "BODY_TOO_LARGE" => Faults(s) # {} /\ ~Malformed(s, Min(Faults(s)))

Agrees(p, v, s) == HasRead(p, s) /\ Explained(v, s)

LEMMA EmptyAgrees == Agrees(Fresh, "NEED_MORE", <<>>)
<1> DEFINE s == <<>>
<1>0. s \in Seq(Bytes) /\ Len(s) = 0
  OBVIOUS
<1>1. LineFeeds(s) = {}
  BY <1>0 DEF LineFeeds
<1>2. Blanks(s) = {}
  BY <1>0 DEF Blanks
<1>3. Faults(s) = {}
  BY <1>0, <1>2 DEF Faults, HeadEnd
<1>4. HeadersUpTo(s, Len(s)) = {}
  BY <1>1 DEF HeadersUpTo
<1>5. TextBefore(s, Len(s) + 1) = 0
  <2>1. LineStart(s, 1) = 0
    <3> HIDE DEF s
    <3>1. LineStart(s, Len(s) + 1) = 0
      BY <1>0, <1>1, FirstLine
    <3> QED BY <1>0, <3>1
  <2>2. {k \in LineStart(s, 1) + 1 .. 1 - 1 : IsText(s[k])} = {}
    BY <2>1
  <2> HIDE DEF s
  <2> QED BY <1>0, <2>2, FS_EmptySet DEF TextBefore
<1>6. Cardinality(HeadersUpTo(s, Len(s))) = 0
  BY <1>4, FS_EmptySet
<1>7. StorageUpTo(s, Len(s)) = 0
  BY <1>0, <1>4, StorageType
<1>8. LengthIn(s, Len(s)) = 0
  BY <1>4 DEF LengthIn, LengthsIn
<1> HIDE DEF s
<1>9. InHead(Fresh, s)
  BY <1>2, <1>3, <1>5, <1>6, <1>7, <1>8 DEF InHead, Fresh
<1> QED BY <1>1, <1>9 DEF Agrees, HasRead, Explained, Fresh, s

(* A rejection: the last byte is the first fault.                          *)
LEMMA RejectsAgrees ==
  ASSUME NEW p \in ParserType, NEW s, NEW b, NEW t, Longer(s, b, t), InHead(p, s),
         NEW v,
         Malformed(t, Len(t)) \/ Oversized(t, Len(t)),
         v = "BODY_TOO_LARGE" => ~Malformed(t, Len(t))
  PROVE  Agrees([p EXCEPT !.state = "ERROR"], v, t)
<1>1. Faults(t) = {Len(t)}
  BY FaultsGrow DEF InHead
<1>2. Min({Len(t)}) = Len(t)
  <2>1. Len(t) \in Nat
    BY DEF Longer
  <2> QED BY <2>1, MinIs
<1>3. [p EXCEPT !.state = "ERROR"].state = "ERROR"
  BY DEF ParserType
<1> QED BY <1>1, <1>2, <1>3 DEF Agrees, HasRead, Explained

(* A byte that is no fault and does not end the head.                      *)
LEMMA StaysInHead ==
  ASSUME NEW s, NEW b, NEW t, Longer(s, b, t), Blanks(s) = {}, Faults(s) = {},
         ~EndsHead(s, b), ~Malformed(t, Len(t)), ~Oversized(t, Len(t))
  PROVE  Blanks(t) = {} /\ Faults(t) = {}
BY HeadGrows, FaultsGrow

(* A byte that ends no line leaves the headers as they were.               *)
LEMMA SameHeaders ==
  ASSUME NEW s, NEW b, NEW t, Longer(s, b, t), ~EndsHeader(s, b)
  PROVE  /\ Cardinality(HeadersUpTo(t, Len(t))) = Cardinality(HeadersUpTo(s, Len(s)))
         /\ StorageUpTo(t, Len(t)) = StorageUpTo(s, Len(s))
         /\ LengthIn(t, Len(t)) = LengthIn(s, Len(s))
BY StoredNew, LengthNew

-----------------------------------------------------------------------------
(* One lemma per byte of consume_char.                                     *)

Took(b) == Longer(input, b, input') /\ HasRead(parser, input)

LEMMA SkipReturnAgrees ==
  ASSUME ParserOK, parser.state \in {"READ_LINE", "READ_HEADERS"},
         NEW b, b = <<"cr">>, Took(b), SkipReturn
  PROVE  Agrees(parser', verdict', input')
<1>0. Longer(input, b, input') /\ InHead(parser, input)
  BY DEF Took, HasRead
<1>1. parser' = parser /\ verdict' = "NEED_MORE"
  BY DEF SkipReturn, Moved
<1>2. ~IsLineFeed(b)
  BY <1>0, ByteKinds DEF Longer
<1>3. ~EndsHead(input, b) /\ ~EndsHeader(input, b) /\ ~TooLong(input, b)
  BY <1>2 DEF EndsHead, EndsHeader, TooLong
<1>4. ~Malformed(input', Len(input')) /\ ~Oversized(input', Len(input'))
  BY <1>0, <1>3, FaultNew
<1>5. Blanks(input') = {} /\ Faults(input') = {}
  BY <1>0, <1>3, <1>4, StaysInHead DEF InHead
<1>6. TextBefore(input', Len(input') + 1) = TextBefore(input, Len(input) + 1)
  BY <1>0, TextNext
<1>7. InHead(parser', input')
  BY <1>0, <1>1, <1>3, <1>5, <1>6, SameHeaders DEF InHead
<1>8. LineFeeds(input') = LineFeeds(input)
  BY <1>0, <1>2, FeedsGrow
<1> QED BY <1>1, <1>7, <1>8 DEF Agrees, HasRead, Explained, Took

LEMMA AddTextAgrees ==
  ASSUME ParserOK, parser.state \in {"READ_LINE", "READ_HEADERS"},
         NEW b, IsText(b), Took(b), AddText
  PROVE  Agrees(parser', verdict', input')
<1>0. Longer(input, b, input') /\ InHead(parser, input) /\ parser \in ParserType
  BY DEF Took, HasRead, ParserOK
<1>1. ~IsLineFeed(b)
  BY <1>0, ByteKinds DEF Longer
<1>2. ~EndsHead(input, b) /\ ~EndsHeader(input, b) /\ ~TooLong(input, b)
  BY <1>1 DEF EndsHead, EndsHeader, TooLong
<1>3. /\ Malformed(input', Len(input')) <=> parser.line_len >= HTTP_LINE_MAX
      /\ ~Oversized(input', Len(input'))
  BY <1>0, <1>2, FaultNew DEF InHead
<1>4. CASE parser.line_len >= HTTP_LINE_MAX
  <2>1. parser' = [parser EXCEPT !.state = "ERROR"] /\ verdict' = "ERROR"
    BY <1>4 DEF AddText, Rejects, Moved
  <2> QED BY <1>0, <1>3, <1>4, <2>1, RejectsAgrees
<1>5. CASE ~(parser.line_len >= HTTP_LINE_MAX)
  <2>1. parser' = [parser EXCEPT !.line_len = @ + 1] /\ verdict' = "NEED_MORE"
    BY <1>5 DEF AddText, Moved
  <2>2. /\ parser'.state = parser.state
        /\ parser'.line_len = parser.line_len + 1
        /\ parser'.header_count = parser.header_count
        /\ parser'.header_storage_len = parser.header_storage_len
        /\ parser'.content_length = parser.content_length
    BY <1>0, <2>1 DEF ParserType
  <2>3. Blanks(input') = {} /\ Faults(input') = {}
    BY <1>0, <1>2, <1>3, <1>5, StaysInHead DEF InHead
  <2>4. TextBefore(input', Len(input') + 1) = TextBefore(input, Len(input) + 1) + 1
    BY <1>0, TextNext
  <2>5. InHead(parser', input')
    BY <1>0, <1>2, <2>2, <2>3, <2>4, SameHeaders DEF InHead
  <2>6. LineFeeds(input') = LineFeeds(input)
    BY <1>0, <1>1, FeedsGrow
  <2> QED BY <2>1, <2>2, <2>5, <2>6 DEF Agrees, HasRead, Explained, Took
<1> QED BY <1>4, <1>5

LEMMA EndRequestLineAgrees ==
  ASSUME ParserOK, parser.state = "READ_LINE",
         NEW b, IsLineFeed(b), Took(b), EndRequestLine(b[2])
  PROVE  Agrees(parser', verdict', input')
<1>0. /\ Longer(input, b, input') /\ InHead(parser, input) /\ parser \in ParserType
      /\ LineFeeds(input) = {}
  BY DEF Took, HasRead, ParserOK
<1>1. /\ EndsRequest(input, b) /\ ~EndsHead(input, b)
      /\ ~EndsHeader(input, b) /\ ~TooLong(input, b)
  BY <1>0 DEF EndsRequest, EndsHead, EndsHeader, TooLong
<1>2. /\ Malformed(input', Len(input')) <=> b[2] # Request
      /\ ~Oversized(input', Len(input'))
  BY <1>0, <1>1, FaultNew
<1>3. CASE b[2] # Request
  <2>1. parser' = [parser EXCEPT !.state = "ERROR"] /\ verdict' = "ERROR"
    BY <1>3 DEF EndRequestLine, Rejects, Moved
  <2> QED BY <1>0, <1>2, <1>3, <2>1, RejectsAgrees
<1>4. CASE b[2] = Request
  <2>1. /\ parser' = [parser EXCEPT !.state = "READ_HEADERS", !.line_len = 0]
        /\ verdict' = "NEED_MORE"
    BY <1>4 DEF EndRequestLine, NextLine, Moved
  <2>2. /\ parser'.state = "READ_HEADERS"
        /\ parser'.line_len = 0
        /\ parser'.header_count = parser.header_count
        /\ parser'.header_storage_len = parser.header_storage_len
        /\ parser'.content_length = parser.content_length
    BY <1>0, <2>1 DEF ParserType
  <2>3. Blanks(input') = {} /\ Faults(input') = {}
    BY <1>0, <1>1, <1>2, <1>4, StaysInHead DEF InHead
  <2>4. TextBefore(input', Len(input') + 1) = 0
    BY <1>0, TextNext
  <2>5. InHead(parser', input')
    BY <1>0, <1>1, <2>2, <2>3, <2>4, SameHeaders DEF InHead
  <2>6. LineFeeds(input') # {}
    BY <1>0, FeedsGrow
  <2> QED BY <2>1, <2>2, <2>5, <2>6 DEF Agrees, HasRead, Explained
<1> QED BY <1>3, <1>4

LEMMA EndHeaderLineAgrees ==
  ASSUME ParserOK, parser.state = "READ_HEADERS", parser.line_len # 0,
         NEW b, IsLineFeed(b), Took(b), EndHeaderLine(b[2])
  PROVE  Agrees(parser', verdict', input')
<1> DEFINE line == b[2]
           full == \/ parser.header_count >= HTTP_HEADER_MAX_COUNT
                   \/ line \notin Headers
                   \/ parser.header_storage_len + Stored(line) > HTTP_HEADER_MAX_SIZE
           number == IF line.kind = "length" THEN line.number ELSE parser.content_length
           q == WithHeader(line)
<1>0. /\ Longer(input, b, input') /\ InHead(parser, input) /\ parser \in ParserType
      /\ LineFeeds(input) # {}
      /\ parser.content_length <= HTTP_BODY_MAX_SIZE
      /\ parser.header_count \in Nat /\ parser.header_storage_len \in Nat
      /\ parser.content_length \in Nat
  BY ParserAssumption DEF Took, HasRead, ParserOK, BodyOK, ParserType
<1>1. EndsText(input, b) /\ ~EndsHead(input, b)
  BY <1>0 DEF EndsText, EndsHead, InHead
<1>2. EndsHeader(input, b) <=> line \in Headers
  BY <1>0 DEF EndsHeader
<1>3. line \in Headers =>
        /\ line \in HeaderType
        /\ Cardinality(HeadersUpTo(input', Len(input'))) = parser.header_count + 1
        /\ StorageUpTo(input', Len(input')) = parser.header_storage_len + Stored(line)
        /\ LengthIn(input', Len(input')) = number
  <2> SUFFICES ASSUME line \in Headers PROVE
        /\ line \in HeaderType
        /\ Cardinality(HeadersUpTo(input', Len(input'))) = parser.header_count + 1
        /\ StorageUpTo(input', Len(input')) = parser.header_storage_len + Stored(line)
        /\ LengthIn(input', Len(input')) = number
    OBVIOUS
  <2>1. line \in HeaderType
    BY ParserAssumption
  <2>2. /\ Cardinality(HeadersUpTo(input', Len(input'))) = parser.header_count + 1
        /\ StorageUpTo(input', Len(input')) = parser.header_storage_len + Stored(line)
    BY <1>0, <1>2, StoredNew DEF InHead
  <2>3. LengthIn(input', Len(input')) = number
    BY <1>0, <1>2, LengthNew DEF InHead
  <2> QED BY <2>1, <2>2, <2>3
<1>4. Malformed(input', Len(input')) <=> full
  <2>1. Malformed(input', Len(input')) <=> Unstorable(input', b)
    BY <1>0, <1>1, FaultNew
  <2>2. CASE line \notin Headers
    BY <2>1, <2>2 DEF Unstorable
  <2>3. CASE line \in Headers
    <3>1. Unstorable(input', b) <=>
            \/ parser.header_count + 1 > HTTP_HEADER_MAX_COUNT
            \/ parser.header_storage_len + Stored(line) > HTTP_HEADER_MAX_SIZE
      BY <1>3, <2>3 DEF Unstorable
    <3>2. parser.header_count + 1 > HTTP_HEADER_MAX_COUNT <=>
            parser.header_count >= HTTP_HEADER_MAX_COUNT
      BY ONLY <1>0, ParserAssumption
    <3> QED BY <2>1, <2>3, <3>1, <3>2
  <2> QED BY <2>2, <2>3
<1>5. /\ q = [parser EXCEPT
                !.header_storage_len = parser.header_storage_len + Stored(line),
                !.header_count = parser.header_count + 1,
                !.content_length = number]
      /\ q.content_length = number
  BY <1>0 DEF WithHeader, ParserType
<1>6. CASE full
  <2>1. parser' = [parser EXCEPT !.state = "ERROR"] /\ verdict' = "ERROR"
    BY <1>6 DEF EndHeaderLine, Rejects, Moved
  <2> HIDE DEF full
  <2> QED BY <1>0, <1>4, <1>6, <2>1, RejectsAgrees
<1>7. CASE ~full /\ number > HTTP_BODY_MAX_SIZE
  <2>1. parser' = [parser EXCEPT !.state = "ERROR"] /\ verdict' = "BODY_TOO_LARGE"
    <3>1. q.content_length > HTTP_BODY_MAX_SIZE
      BY <1>5, <1>7
    <3> HIDE DEF number
    <3> QED BY <1>7, <3>1 DEF EndHeaderLine, Rejects, Moved
  <2>2. TooLong(input, b)
    <3>1. line \in Headers
      BY <1>7
    <3>2. line.kind = "length"
      BY <1>0, <1>7, ParserAssumption
    <3> QED BY <1>2, <1>7, <3>1, <3>2 DEF TooLong
  <2>3. Oversized(input', Len(input')) /\ ~Malformed(input', Len(input'))
    BY <1>0, <1>4, <1>7, <2>2, FaultNew
  <2> HIDE DEF full, number
  <2> QED BY <1>0, <2>1, <2>3, RejectsAgrees
<1>8. CASE ~full /\ ~(number > HTTP_BODY_MAX_SIZE)
  <2>1. parser' = NextLine(q) /\ verdict' = "NEED_MORE"
    <3>1. ~(q.content_length > HTTP_BODY_MAX_SIZE)
      BY <1>5, <1>8
    <3> HIDE DEF number
    <3> QED BY <1>8, <3>1 DEF EndHeaderLine, Moved
  <2>2. /\ parser'.state = "READ_HEADERS"
        /\ parser'.line_len = 0
        /\ parser'.header_count = parser.header_count + 1
        /\ parser'.header_storage_len = parser.header_storage_len + Stored(line)
        /\ parser'.content_length = number
    <3> HIDE DEF q, number
    <3> QED BY <1>0, <1>5, <2>1 DEF NextLine, ParserType
  <2>3. line \in Headers
    BY <1>8
  <2>4. ~Oversized(input', Len(input')) /\ ~Malformed(input', Len(input'))
    <3>1. ~TooLong(input, b)
      BY <1>8 DEF TooLong
    <3> HIDE DEF full, number
    <3> QED BY <1>0, <1>4, <1>8, <3>1, FaultNew
  <2>5. Blanks(input') = {} /\ Faults(input') = {}
    BY <1>0, <1>1, <2>4, StaysInHead DEF InHead
  <2>6. TextBefore(input', Len(input') + 1) = 0
    BY <1>0, TextNext
  <2>7. LineFeeds(input') # {}
    BY <1>0, FeedsGrow
  <2> HIDE DEF full, number, line
  <2>8. InHead(parser', input')
    BY <1>3, <2>2, <2>3, <2>5, <2>6 DEF InHead
  <2> QED BY <2>1, <2>2, <2>7, <2>8 DEF Agrees, HasRead, Explained
<1> QED BY <1>6, <1>7, <1>8

(* A blank line says nothing, so it is no header.                          *)
LEMMA BlankSaysNothing ==
  ASSUME NEW b, IsLineFeed(b), parser.state = "READ_HEADERS",
         parser.line_len = 0, Possible(b)
  PROVE  b[2] \notin Headers
<1> SUFFICES ASSUME b[2] \in Headers PROVE FALSE
  OBVIOUS
<1>1. b[2] \in HeaderType
  BY ParserAssumption
<1>2. b[2] # Request
  BY <1>1 DEF HeaderType, Request
<1>3. SaysAtLeast(b[2]) = b[2].name + 1 + b[2].value
  BY <1>2 DEF SaysAtLeast
<1>4. b[2].name \in Nat /\ b[2].value \in Nat
  BY <1>1 DEF HeaderType
<1>5. SaysAtLeast(b[2]) <= 0
  BY DEF Possible
<1> QED BY <1>3, <1>4, <1>5

LEMMA FinishHeadersAgrees ==
  ASSUME ParserOK, parser.state = "READ_HEADERS", parser.line_len = 0,
         NEW b, IsLineFeed(b), Possible(b), Took(b), FinishHeaders
  PROVE  Agrees(parser', verdict', input')
<1>0. /\ Longer(input, b, input') /\ InHead(parser, input) /\ parser \in ParserType
      /\ LineFeeds(input) # {}
      /\ parser.body_len = 0
  BY DEF Took, HasRead, ParserOK, BodyOK
<1>1. b[2] \notin Headers
  BY BlankSaysNothing
<1>2. EndsHead(input, b) /\ ~EndsHeader(input, b) /\ ~TooLong(input, b)
  BY <1>0, <1>1 DEF EndsHead, EndsHeader, TooLong, InHead
<1>3. ~Malformed(input', Len(input')) /\ ~Oversized(input', Len(input'))
  BY <1>0, <1>2, FaultNew
<1>4. Faults(input') = {}
  BY <1>0, <1>3, FaultsGrow DEF InHead
<1>5. Blanks(input') # {} /\ HeadEnd(input') = Len(input')
  BY <1>0, <1>2, HeadGrows DEF InHead
<1>6. BodyLength(input') = parser.content_length
  BY <1>0, <1>2, <1>5, SameHeaders, BodyLengthIs DEF InHead
<1>7. Len(input') - HeadEnd(input') = 0
  BY <1>0, <1>5 DEF Longer
<1>8. /\ parser'.state \in {"READ_BODY", "DONE"}
      /\ parser'.content_length = parser.content_length
      /\ parser'.body_len = 0
      /\ verdict' # "BODY_TOO_LARGE"
  BY <1>0 DEF FinishHeaders, Moved, ParserType
<1>9. AfterHead(parser', input')
  BY <1>4, <1>5, <1>6, <1>7, <1>8 DEF AfterHead
<1> QED BY <1>8, <1>9 DEF Agrees, HasRead, Explained

LEMMA AddBodyAgrees ==
  ASSUME ParserOK, parser.state = "READ_BODY", NEW b, Took(b), AddBody
  PROVE  Agrees(parser', verdict', input')
<1>0. /\ Longer(input, b, input') /\ AfterHead(parser, input) /\ parser \in ParserType
      /\ parser.body_len \in Nat /\ parser.content_length \in Nat
      /\ parser.body_len < parser.content_length
      /\ parser.content_length <= HTTP_BODY_MAX_SIZE
      /\ HTTP_BODY_MAX_SIZE \in Nat
  BY ParserAssumption DEF Took, HasRead, ParserOK, ParserType, BodyOK
<1>1. ~(parser.body_len >= HTTP_BODY_MAX_SIZE)
  BY ONLY <1>0
<1>2. Blanks(input) # {} /\ Faults(input) = {}
  BY <1>0 DEF AfterHead
<1>3. /\ HeadEnd(input') = HeadEnd(input) /\ HeadEnd(input) \in 1 .. Len(input)
      /\ Blanks(input') # {} /\ Faults(input') = {}
  BY <1>0, <1>2, HeadGrows, FaultsGrow
<1>4. BodyLength(input') = BodyLength(input)
  <2> DEFINE i == HeadEnd(input)
  <2>1. /\ input \in Seq(Bytes)
        /\ HeadersUpTo(input', i) = HeadersUpTo(input, i)
        /\ \A x \in HeadersUpTo(input, i) : input'[x] = input[x]
    BY <1>0, <1>3, EndSame, HeadersType DEF Longer
  <2> HIDE DEF i
  <2>2. LengthIn(input', i) = LengthIn(input, i)
    BY <2>1, LengthSame
  <2> QED BY <1>3, <2>2, BodyLengthIs DEF i
<1>5. /\ parser'.state \in {"READ_BODY", "DONE"}
      /\ parser'.content_length = parser.content_length
      /\ parser'.body_len = parser.body_len + 1
      /\ verdict' # "BODY_TOO_LARGE"
  BY <1>0, <1>1 DEF AddBody, Moved, ParserType
<1>6. Len(input') - HeadEnd(input') = (Len(input) - HeadEnd(input)) + 1
  BY <1>0, <1>3 DEF Longer
<1>7. AfterHead(parser', input')
  BY <1>0, <1>3, <1>4, <1>5, <1>6 DEF AfterHead
<1> QED BY <1>5, <1>7 DEF Agrees, HasRead, Explained

LEMMA ConsumeAgrees ==
  ASSUME ParserOK, HasRead(parser, input), input \in Seq(Bytes),
         NEW b \in Bytes, Consume(b)
  PROVE  Agrees(parser', verdict', input')
<1>1. Took(b)
  BY AppendLonger DEF Took, Consume
<1>2. Possible(b) /\ ConsumeChar(b)
  BY DEF Consume
<1>3. CASE /\ parser.state \in {"READ_LINE", "READ_HEADERS"}
           /\ b = <<"cr">> /\ SkipReturn
  BY <1>1, <1>3, SkipReturnAgrees
<1>4. CASE /\ parser.state \in {"READ_LINE", "READ_HEADERS"}
           /\ IsText(b) /\ AddText
  BY <1>1, <1>4, AddTextAgrees
<1>5. CASE IsLineFeed(b) /\ ConsumeLineFeed(b[2])
  BY <1>1, <1>2, <1>5, EndRequestLineAgrees, FinishHeadersAgrees,
     EndHeaderLineAgrees DEF ConsumeLineFeed
<1>6. CASE parser.state = "READ_BODY" /\ AddBody
  BY <1>1, <1>6, AddBodyAgrees
<1> QED BY <1>2, <1>3, <1>4, <1>5, <1>6 DEF ConsumeChar

-----------------------------------------------------------------------------
(* The inductive invariant of the comparison.                              *)
ReadInv == IInv /\ Agrees(parser, verdict, input)

LEMMA ReadInvariance == Spec => []ReadInv
<1>1. Init => ReadInv
  BY InitInv, EmptyAgrees DEF Init, ReadInv
<1>2. ReadInv /\ [Next]_vars => ReadInv'
  <2> SUFFICES ASSUME ReadInv, [Next]_vars PROVE Agrees(parser, verdict, input)'
    BY NextInv DEF ReadInv
  <2>0. ParserOK /\ HasRead(parser, input) /\ input \in Seq(Bytes)
    BY DEF ReadInv, IInv, TypeOK, ParserOK, Agrees
  <2>1. CASE \E b \in Bytes : Consume(b)
    <3>1. Agrees(parser', verdict', input')
      BY <2>0, <2>1, ConsumeAgrees
    <3> QED BY <3>1 DEF Agrees, HasRead, Explained, InHead, AfterHead
  <2>2. CASE FeedAgain
    <3>1. parser' = parser /\ input' = input /\ verdict' # "BODY_TOO_LARGE"
      BY <2>2 DEF FeedAgain
    <3> QED BY <3>1 DEF ReadInv, Agrees, Explained
  <2>3. CASE Reset
    <3>1. parser' = Fresh /\ input' = <<>> /\ verdict' = "NEED_MORE"
      BY <2>3 DEF Reset
    <3> QED BY <3>1, EmptyAgrees
  <2>4. CASE UNCHANGED vars
    <3>1. parser' = parser /\ input' = input /\ verdict' = verdict
      BY <2>4 DEF vars
    <3> QED BY <3>1 DEF ReadInv
  <2> QED BY <2>1, <2>2, <2>3, <2>4 DEF Next
<1> QED BY <1>1, <1>2, PTL DEF Spec

(* Whatever arrives, consume_char ends where a reading of the whole input  *)
(* ends: its state, the length of the body it hands on, and the reason of  *)
(* a 413 are those of HttpParserReference.                                 *)
THEOREM ParsesCorrect == Spec => []ParsesAsReference
<1>1. ReadInv => ParsesAsReference
  <2> SUFFICES ASSUME ReadInv PROVE ParsesAsReference
    OBVIOUS
  <2>0. /\ HasRead(parser, input) /\ Explained(verdict, input)
        /\ BodyOK(parser) /\ parser \in ParserType /\ input \in Seq(Bytes)
    BY DEF ReadInv, IInv, TypeOK, Agrees
  <2>1. parser.state \in {"READ_LINE", "READ_HEADERS", "READ_BODY", "DONE", "ERROR"}
    BY <2>0 DEF ParserType, ParserStates, ReadingStates
  <2>2. Blanks(input) # {} => LineFeeds(input) # {}
    BY DEF Blanks, IsBlank
  <2>3. parser.state = "ERROR" => RequestState(input) = "ERROR"
    <3> HAVE parser.state = "ERROR"
    <3>1. Faults(input) # {}
      BY <2>0 DEF HasRead
    <3> QED BY <3>1 DEF RequestState
  <2>4. parser.state = "READ_LINE" => RequestState(input) = "READ_LINE"
    <3> HAVE parser.state = "READ_LINE"
    <3>1. Faults(input) = {} /\ LineFeeds(input) = {}
      BY <2>0 DEF HasRead, InHead
    <3> QED BY <3>1 DEF RequestState
  <2>5. parser.state = "READ_HEADERS" => RequestState(input) = "READ_HEADERS"
    <3> HAVE parser.state = "READ_HEADERS"
    <3>1. Faults(input) = {} /\ LineFeeds(input) # {} /\ Blanks(input) = {}
      BY <2>0 DEF HasRead, InHead
    <3> QED BY <3>1 DEF RequestState
  <2>6. parser.state = "READ_BODY" => RequestState(input) = "READ_BODY"
    <3> HAVE parser.state = "READ_BODY"
    <3>1. AfterHead(parser, input) /\ parser.body_len < parser.content_length
      BY <2>0 DEF HasRead, BodyOK
    <3> QED BY <2>2, <3>1 DEF AfterHead, RequestState
  <2>7. parser.state = "DONE" =>
          RequestState(input) = "DONE" /\ parser.body_len = BodyLength(input)
    <3> HAVE parser.state = "DONE"
    <3>1. AfterHead(parser, input) /\ parser.body_len = parser.content_length
      BY <2>0 DEF HasRead, BodyOK
    <3>2. parser.content_length \in Nat
      BY <2>0 DEF ParserType
    <3>3. ~(Len(input) - HeadEnd(input) < BodyLength(input))
      <4>1. ~(parser.content_length < parser.content_length)
        BY <3>2
      <4> QED BY <3>1, <4>1 DEF AfterHead
    <3> QED BY <2>2, <3>1, <3>3 DEF AfterHead, RequestState
  <2> QED BY <2>0, <2>1, <2>3, <2>4, <2>5, <2>6, <2>7 DEF ParsesAsReference, Explained
<1> QED BY <1>1, ReadInvariance, PTL
=============================================================================
