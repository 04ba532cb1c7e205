------------------------ MODULE HttpResponse_proofs ------------------------
(***************************************************************************)
(* What is proved of HttpResponse: for any words, limits and lengths, what *)
(* a handler sets is what is in the table, what was sent stays, and the    *)
(* header block is written exactly if it fits.                             *)
(***************************************************************************)
EXTENDS HttpResponse, FiniteSetTheorems, SequenceTheorems, TLAPS

-----------------------------------------------------------------------------
(* Lemmas about minima, maxima and counting.                               *)

LEMMA MinOfNat ==
  ASSUME NEW S, S \subseteq Nat, S # {}
  PROVE  Min(S) \in S /\ \A k \in S : Min(S) <= k
  <1>1. PICK x \in S : \A y \in S : ~ (<<y, x>> \in OpToRel(<, Nat))
    BY WFMin, NatLessThanWellFounded
  <1>2. \A y \in S : ~ (y < x)  BY <1>1 DEF OpToRel
  <1>3. \A y \in S : x <= y  BY <1>2
  <1> QED  BY <1>3 DEF Min

LEMMA MaxIs ==
  ASSUME NEW S, S \subseteq Nat, NEW m \in S, \A k \in S : k <= m
  PROVE  Max(S) = m
  <1> DEFINE x == Max(S)
  <1>1. x \in S /\ \A k \in S : x >= k  BY DEF Max
  <1> HIDE DEF x
  <1>2. x <= m /\ m <= x  BY <1>1
  <1>3. \A k \in S : k \in Int  OBVIOUS
  <1>4. x = m  BY <1>1, <1>2, <1>3
  <1> QED  BY <1>4 DEF x

LEMMA NatSet ==
  ASSUME NEW S, 0 \in S, \A n \in Nat : n \in S => n + 1 \in S
  PROVE  Nat \subseteq S
  <1> SUFFICES ASSUME Nat \ S # {}
               PROVE  FALSE
    OBVIOUS
  <1> DEFINE m == Min(Nat \ S)
  <1>1. m \in Nat \ S /\ \A k \in Nat \ S : m <= k  BY MinOfNat
  <1>2. m # 0 /\ m - 1 \in Nat  BY <1>1
  <1>3. m - 1 \in S  BY <1>1, <1>2
  <1>4. (m - 1) + 1 \in S  BY <1>2, <1>3
  <1> QED  BY <1>1, <1>4

(* What find_header finds: the first of the headers, if there is any.      *)
Found(name) == {j \in 1 .. Len(res.headers) : http_str_case_equal(res.headers[j].name, name)}

LEMMA FindHeader ==
  ASSUME NEW S, res.headers \in Seq(S), NEW name
  PROVE  /\ find_header(name) \in 0 .. Len(res.headers)
         /\ find_header(name) = 0 =>
              \A j \in 1 .. Len(res.headers) : ~http_str_case_equal(res.headers[j].name, name)
         /\ find_header(name) # 0 =>
              http_str_case_equal(res.headers[find_header(name)].name, name)
  <1> DEFINE F == Found(name)
             n == Len(res.headers)
  <1>1. find_header(name) = IF F # {} THEN Min(F) ELSE 0
    BY DEF find_header, SelectInSeq, Found
  <1>2. /\ F \subseteq 1 .. n /\ n \in Nat
        /\ \A j \in 1 .. n : j \in F <=> http_str_case_equal(res.headers[j].name, name)
    BY DEF Found
  <1> HIDE DEF F, n
  <1>3. CASE F = {}  BY <1>1, <1>2, <1>3 DEF n
  <1>4. CASE F # {}
    <2>1. F \subseteq Nat  BY <1>2
    <2>2. Min(F) \in F  BY <1>4, <2>1, MinOfNat
    <2> DEFINE m == Min(F)
    <2>3. find_header(name) = m /\ m \in F  BY <1>1, <1>4, <2>2
    <2> HIDE DEF m
    <2>4. m \in 1 .. n /\ http_str_case_equal(res.headers[m].name, name)
      BY <1>2, <2>3
    <2>5. m \in 0 .. n /\ m # 0  BY <1>2, <2>4
    <2> QED  BY <2>3, <2>4, <2>5 DEF n
  <1> QED  BY <1>3, <1>4

-----------------------------------------------------------------------------
(* The type invariant.                                                     *)

Header == [name: {n \in Names : ~n.long}, value: 0 .. HTTP_RESP_HEADER_VALUE_MAX]
SetCall == [name: Names, value: ValueLens]

Response == [status: Nat, sent: BOOLEAN, headers: Seq(Header),
             content_type: 0 .. HTTP_RESP_HEADER_VALUE_MAX,
             kind: Kinds, body_len: BodyLens \cup {0}, null: BOOLEAN]

TypeInv ==
  /\ res \in Response
  /\ Len(res.headers) <= HTTP_RESP_HEADER_MAX
  /\ calls \in Seq(SetCall)
  /\ err \in {"OK", "INVALID_ARG", "HEADER_FULL", "ALREADY_SENT"}

LEMMA CutsFit ==
  /\ \A v \in Nat : CutValue(v) \in 0 .. HTTP_RESP_HEADER_VALUE_MAX
  /\ \A n \in Names : /\ CutName(n) \in {m \in Names : ~m.long}
                      /\ CutName(n).word = n.word
  <1>1. \A v \in Nat : CutValue(v) \in 0 .. HTTP_RESP_HEADER_VALUE_MAX
    BY ResponseAssumption DEF CutValue, MinOf
  <1>2. ASSUME NEW n \in Names
        PROVE  /\ CutName(n) \in {m \in Names : ~m.long}
               /\ CutName(n).word = n.word
    <2>1. n \in [word: Words, capital: BOOLEAN, long: BOOLEAN]  BY DEF Names
    <2>2. CutName(n) \in [word: Words, capital: BOOLEAN, long: {FALSE}]
      BY <2>1 DEF CutName
    <2>3. CutName(n).long = FALSE /\ CutName(n).word = n.word
      BY <2>1 DEF CutName
    <2>4. CutName(n) \in [word: Words, capital: BOOLEAN, long: BOOLEAN]
      BY <2>2
    <2> HIDE DEF CutName
    <2> QED  BY <2>3, <2>4 DEF Names
  <1> QED  BY <1>1, <1>2

(* A call of finalize_descriptor, with what the actions give it.           *)
Finalized(kind, len, null, type, status) ==
  /\ kind \in Kinds /\ len \in BodyLens \cup {0} /\ null \in BOOLEAN
  /\ type \in Nat /\ status \in Nat
  /\ kind = "NONE" => len = 0
  /\ finalize_descriptor(kind, len, null, type, status)

(* The steps, seen from the table: it changes in set_header only.          *)
SetStep(name, value) == /\ SetHeader(name, value) /\ err' = "OK"
                        /\ name \in Names /\ value \in ValueLens

LEMMA Steps ==
  ASSUME TypeInv, ResponseNext
  PROVE  \/ SetStatus(404)
         \/ \E name \in Names, value \in ValueLens : SetStep(name, value)
         \/ UNCHANGED <<res, calls>> /\ err' \in {"INVALID_ARG", "HEADER_FULL", "ALREADY_SENT"}
         \/ \E kind, len, null, type, status : Finalized(kind, len, null, type, status)
  <1>1. CASE SetStatus(404)  BY <1>1
  <1>2. CASE End(204)
    <2>1. Finalized("NONE", 0, TRUE, 0, 204)
      BY <1>2 DEF End, Finalized, Kinds
    <2> QED  BY <2>1
  <1>3. ASSUME NEW name \in Names \cup {NoName}, NEW value \in ValueLens, SetHeader(name, value)
        PROVE  \/ \E n \in Names, v \in ValueLens : SetStep(n, v)
               \/ UNCHANGED <<res, calls>> /\ err' \in {"INVALID_ARG", "HEADER_FULL", "ALREADY_SENT"}
    <2>1. err' = SetHeaderErr(name)  BY <1>3 DEF SetHeader
    <2>2. CASE err' = "OK"
      <3>1. name # NoName  BY <2>1, <2>2 DEF SetHeaderErr
      <3> QED  BY <1>3, <2>2, <3>1 DEF SetStep
    <2>3. CASE err' # "OK"
      <3>1. UNCHANGED <<res, calls>>  BY <1>3, <2>3 DEF SetHeader
      <3> QED  BY <2>1, <2>3, <3>1 DEF SetHeaderErr
    <2> QED  BY <2>2, <2>3
  <1>4. ASSUME NEW kind \in Kinds \ {"NONE"}, NEW len \in BodyLens, NEW null \in BOOLEAN,
               NEW type \in ValueLens, Send(kind, len, null, type)
        PROVE  Finalized(kind, len, null, type, res.status)
    BY <1>4, ResponseAssumption DEF Send, Finalized, TypeInv, Response
  <1>5. ASSUME NEW kind \in {"RAM", "PROGMEM"}, NEW len \in BodyLens, NEW null \in BOOLEAN,
               NEW type \in ValueLens, SendText(kind, len, null, type)
        PROVE  \/ UNCHANGED <<res, calls>> /\ err' \in {"INVALID_ARG", "HEADER_FULL", "ALREADY_SENT"}
               \/ Finalized(kind, len, FALSE, type, res.status)
    BY <1>5, ResponseAssumption DEF SendText, Send, Finalized, TypeInv, Response, Kinds
  <1> QED  BY <1>1, <1>2, <1>3, <1>4, <1>5 DEF ResponseNext

LEMMA StatusStep ==
  ASSUME TypeInv, SetStatus(404)
  PROVE  /\ res' \in Response /\ UNCHANGED <<err, calls>>
         /\ res'.headers = res.headers /\ res'.content_type = res.content_type
         /\ res.sent => res' = res
         /\ ~res.sent => ~res'.sent
  <1>1. res \in Response /\ UNCHANGED <<err, calls>>  BY DEF TypeInv, SetStatus
  <1>2. CASE res.sent
    <2>1. res' = res  BY <1>2 DEF SetStatus, WithStatus
    <2> QED  BY <1>1, <1>2, <2>1
  <1>3. CASE ~res.sent
    <2>1. res' = [res EXCEPT !.status = 404]  BY <1>3 DEF SetStatus, WithStatus
    <2>2. 404 \in Nat  OBVIOUS
    <2> QED  BY <1>1, <1>3, <2>1, <2>2 DEF Response
  <1> QED  BY <1>2, <1>3

LEMMA FinalStep ==
  ASSUME TypeInv,
         NEW kind, NEW len, NEW null, NEW type, NEW status,
         Finalized(kind, len, null, type, status)
  PROVE  /\ res' \in Response /\ UNCHANGED calls
         /\ res'.headers = res.headers
         /\ err' \in {"OK", "INVALID_ARG", "ALREADY_SENT"}
         /\ res.sent => res' = res
         /\ res' = res \/ /\ res'.kind = kind /\ res'.body_len = len /\ res'.null = null
                          /\ null => len = 0
  <1>1. CutValue(type) \in 0 .. HTTP_RESP_HEADER_VALUE_MAX
    BY CutsFit DEF Finalized
  <1>2. err' = FinalizeErr(len, null) /\ UNCHANGED calls
    BY DEF Finalized, finalize_descriptor
  <1>3. err' \in {"OK", "INVALID_ARG", "ALREADY_SENT"}  BY <1>2 DEF FinalizeErr
  <1>4. CASE err' # "OK"
    <2>1. res' = res  BY <1>4 DEF Finalized, finalize_descriptor
    <2> QED  BY <1>2, <1>3, <2>1 DEF TypeInv
  <1>5. CASE err' = "OK"
    <2>1. ~res.sent /\ (null => len = 0)  BY <1>2, <1>5 DEF FinalizeErr
    <2>2. res' = [res EXCEPT !.sent = TRUE, !.kind = kind, !.body_len = len,
                             !.null = null, !.content_type = CutValue(type),
                             !.status = status]
      BY <1>5 DEF Finalized, finalize_descriptor
    <2>3. res \in Response  BY DEF TypeInv
    <2>4. res' \in Response  BY <1>1, <2>2, <2>3 DEF Response, Finalized
    <2>5. /\ res'.headers = res.headers
          /\ res'.kind = kind /\ res'.body_len = len /\ res'.null = null
      BY <2>2, <2>3 DEF Response
    <2> QED  BY <1>2, <1>3, <2>1, <2>4, <2>5
  <1> QED  BY <1>4, <1>5

(* What set_header does to the table.                                      *)
Stored(name, value) == [name |-> CutName(name), value |-> CutValue(value)]

(* How set_header changes the headers h into g: it adds one at the end or  *)
(* replaces the one it found.                                              *)
Entered(h, g, name, value) ==
  \/ /\ \A j \in 1 .. Len(h) : ~http_str_case_equal(h[j].name, name)
     /\ Len(g) = Len(h) + 1
     /\ \A j \in 1 .. Len(h) : g[j] = h[j]
     /\ g[Len(h) + 1] = Stored(name, value)
  \/ \E at \in 1 .. Len(h) :
       /\ http_str_case_equal(h[at].name, name)
       /\ Len(g) = Len(h)
       /\ \A j \in 1 .. Len(h) : j # at => g[j] = h[j]
       /\ g[at] = Stored(name, value)

(* How it makes the calls c into d.                                        *)
Longer(c, d, name, value) ==
  /\ Len(d) = Len(c) + 1
  /\ \A k \in 1 .. Len(c) : d[k] = c[k]
  /\ d[Len(c) + 1] = [name |-> name, value |-> value]

LEMMA SetHeaderStep ==
  ASSUME TypeInv, NEW name, NEW value, SetStep(name, value)
  PROVE  LET h == res.headers
             new == Stored(name, value)
         IN  /\ res' \in Response /\ ~res.sent /\ ~res'.sent
             /\ res'.content_type = res.content_type
             /\ Len(res'.headers) <= HTTP_RESP_HEADER_MAX
             /\ new \in Header /\ new.name.word = name.word /\ new.name.long = FALSE
             /\ calls' \in Seq(SetCall) /\ Longer(calls, calls', name, value)
             /\ Entered(h, res'.headers, name, value)
  <1> DEFINE h == res.headers
             new == Stored(name, value)
             at == find_header(name)
             call == [name |-> name, value |-> value]
  <1>1. res \in Response /\ h \in Seq(Header) /\ Len(h) \in Nat
    BY DEF TypeInv, Response
  <1>2. name \in Names /\ value \in ValueLens /\ value \in Nat
    BY ResponseAssumption DEF SetStep
  <1>3. /\ new \in Header /\ new.name.word = name.word /\ new.name.long = FALSE
    BY <1>2, CutsFit DEF Stored, Header
  <1>4. ~res.sent /\ (at = 0 => ~TableFull)
    BY DEF SetStep, SetHeader, SetHeaderErr
  <1>5. /\ res' = [res EXCEPT !.headers = IF at = 0 THEN Append(h, new)
                                          ELSE [h EXCEPT ![at] = new]]
        /\ calls' = Append(calls, call)
    BY DEF SetStep, SetHeader, Stored
  <1>6. call \in SetCall  BY <1>2 DEF SetCall
  <1>7. /\ calls' \in Seq(SetCall) /\ Len(calls') = Len(calls) + 1
        /\ \A k \in 1 .. Len(calls) : calls'[k] = calls[k]
        /\ calls'[Len(calls) + 1] = call
    <2> HIDE DEF call
    <2> QED  BY <1>5, <1>6, AppendProperties DEF TypeInv
  <1>8. /\ at \in 0 .. Len(h)
        /\ at = 0 => \A j \in 1 .. Len(h) : ~http_str_case_equal(h[j].name, name)
        /\ at # 0 => http_str_case_equal(h[at].name, name)
    BY <1>1, FindHeader
  <1> HIDE DEF new, at, call
  <1>9. CASE at = 0
    <2>1. res' = [res EXCEPT !.headers = Append(h, new)]  BY <1>5, <1>9
    <2>2. /\ Append(h, new) \in Seq(Header)
          /\ Len(Append(h, new)) = Len(h) + 1
          /\ \A j \in 1 .. Len(h) : Append(h, new)[j] = h[j]
          /\ Append(h, new)[Len(h) + 1] = new
      BY <1>1, <1>3, AppendProperties
    <2>3. /\ res' \in Response /\ res'.headers = Append(h, new)
          /\ res'.sent = res.sent /\ res'.content_type = res.content_type
      BY <1>1, <2>1, <2>2 DEF Response
    <2>4. Len(h) + 1 <= HTTP_RESP_HEADER_MAX
      BY <1>1, <1>4, <1>9, ResponseAssumption DEF TableFull
    <2> QED  BY <1>3, <1>4, <1>6, <1>7, <1>8, <1>9, <2>2, <2>3, <2>4 DEF new, call, Entered, Longer
  <1>10. CASE at # 0
    <2>1. res' = [res EXCEPT !.headers = [h EXCEPT ![at] = new]]  BY <1>5, <1>10
    <2>2. at \in 1 .. Len(h)  BY <1>1, <1>8, <1>10
    <2>3. /\ [h EXCEPT ![at] = new] \in Seq(Header)
          /\ Len([h EXCEPT ![at] = new]) = Len(h)
          /\ \A j \in 1 .. Len(h) : [h EXCEPT ![at] = new][j] = IF j = at THEN new ELSE h[j]
      BY <1>1, <1>3, <2>2, ExceptSeq
    <2>4. /\ res' \in Response /\ res'.headers = [h EXCEPT ![at] = new]
          /\ res'.sent = res.sent /\ res'.content_type = res.content_type
      BY <1>1, <2>1, <2>3 DEF Response
    <2>5. Len(h) <= HTTP_RESP_HEADER_MAX  BY DEF TypeInv
    <2> QED  BY <1>3, <1>4, <1>6, <1>7, <1>8, <1>10, <2>2, <2>3, <2>4, <2>5 DEF new, call, Entered, Longer
  <1> QED  BY <1>9, <1>10

-----------------------------------------------------------------------------
(* The type invariant holds, what was sent stays, and a body has a source. *)

LEMMA InitType == ResponseInit => TypeInv
  <1> SUFFICES ASSUME ResponseInit PROVE TypeInv
    OBVIOUS
  <1>1. <<>> \in Seq(Header) /\ Len(<<>>) = 0 /\ <<>> \in Seq(SetCall)
    BY EmptySeq
  <1>2. HTTP_RESP_HEADER_MAX \in Nat /\ HTTP_RESP_HEADER_VALUE_MAX \in Nat
    BY ResponseAssumption
  <1>3. res \in Response  BY <1>1, <1>2 DEF ResponseInit, Response, Kinds
  <1> QED  BY <1>1, <1>2, <1>3 DEF ResponseInit, TypeInv

LEMMA NextType == TypeInv /\ [ResponseNext]_response_vars => TypeInv'
  <1> SUFFICES ASSUME TypeInv, [ResponseNext]_response_vars PROVE TypeInv'
    OBVIOUS
  <1>1. CASE UNCHANGED response_vars  BY <1>1 DEF TypeInv, response_vars
  <1>2. CASE SetStatus(404)  BY <1>2, StatusStep DEF TypeInv
  <1>3. ASSUME NEW name \in Names, NEW value \in ValueLens, SetStep(name, value)
        PROVE  TypeInv'
    <2>1. err' = "OK"  BY <1>3 DEF SetStep
    <2> QED  BY <1>3, <2>1, SetHeaderStep DEF TypeInv
  <1>4. CASE UNCHANGED <<res, calls>> /\ err' \in {"INVALID_ARG", "HEADER_FULL", "ALREADY_SENT"}
    BY <1>4 DEF TypeInv
  <1>5. ASSUME NEW kind, NEW len, NEW null, NEW type, NEW status,
               Finalized(kind, len, null, type, status)
        PROVE  TypeInv'
    BY <1>5, FinalStep DEF TypeInv
  <1>6. CASE ResponseNext  BY <1>2, <1>3, <1>4, <1>5, <1>6, Steps
  <1> QED  BY <1>1, <1>6

LEMMA TypeHolds == ResponseSpec => []TypeInv
  <1> QED  BY InitType, NextType, PTL DEF ResponseSpec

(* The response and what the calls return have their types.                *)
THEOREM TypeCorrect == ResponseSpec => []ResponseTypeOK
  <1>1. TypeInv => ResponseTypeOK
    <2> SUFFICES ASSUME TypeInv PROVE ResponseTypeOK
      OBVIOUS
    <2>1. \A i \in DOMAIN res.headers : res.headers[i] \in Header
      BY DEF TypeInv, Response
    <2>2. \A i \in DOMAIN res.headers :
            res.headers[i] \in [name: Names, value: 0 .. HTTP_RESP_HEADER_VALUE_MAX]
      BY <2>1 DEF Header
    <2> QED  BY <2>2 DEF TypeInv, ResponseTypeOK, Response
  <1> QED  BY <1>1, TypeHolds, PTL

(* No call changes a response that was sent.                               *)
THEOREM FinalCorrect == ResponseSpec => SentIsFinal
  <1>1. ASSUME TypeInv, [ResponseNext]_response_vars
        PROVE  [res.sent => res' = res]_response_vars
    <2>1. CASE UNCHANGED response_vars  BY <2>1 DEF response_vars
    <2>2. CASE SetStatus(404)  BY <1>1, <2>2, StatusStep
    <2>3. ASSUME NEW name \in Names, NEW value \in ValueLens, SetStep(name, value)
          PROVE  ~res.sent
      BY <1>1, <2>3, SetHeaderStep
    <2>4. ASSUME NEW kind, NEW len, NEW null, NEW type, NEW status,
                 Finalized(kind, len, null, type, status)
          PROVE  res.sent => res' = res
      BY <1>1, <2>4, FinalStep
    <2>5. CASE ResponseNext  BY <1>1, <2>2, <2>3, <2>4, <2>5, Steps
    <2> QED  BY <1>1, <2>1, <2>5
  <1> QED  BY <1>1, TypeHolds, PTL DEF ResponseSpec, SentIsFinal

BodyInv == res.body_len # 0 => res.kind # "NONE" /\ ~res.null

(* A response that announces a body has something to stream it from.       *)
THEOREM BodyCorrect == ResponseSpec => []BodyHasSource
  <1>1. ResponseInit => BodyInv  BY DEF ResponseInit, BodyInv
  <1>2. ASSUME TypeInv, BodyInv, [ResponseNext]_response_vars PROVE BodyInv'
    <2>1. CASE UNCHANGED response_vars  BY <1>2, <2>1 DEF response_vars, BodyInv
    <2>2. CASE SetStatus(404)
      <3>1. res \in Response  BY <1>2 DEF TypeInv
      <3>2. res' = res \/ res' = [res EXCEPT !.status = 404]
        BY <2>2 DEF SetStatus, WithStatus
      <3> QED  BY <1>2, <3>1, <3>2 DEF Response, BodyInv
    <2>3. ASSUME NEW name \in Names, NEW value \in ValueLens, SetStep(name, value)
          PROVE  BodyInv'
      <3>1. res \in Response  BY <1>2 DEF TypeInv
      <3>2. PICK h : res' = [res EXCEPT !.headers = h]
        BY <2>3 DEF SetStep, SetHeader
      <3> QED  BY <1>2, <3>1, <3>2 DEF Response, BodyInv
    <2>4. ASSUME NEW kind, NEW len, NEW null, NEW type, NEW status,
                 Finalized(kind, len, null, type, status)
          PROVE  BodyInv'
      <3>1. kind = "NONE" => len = 0  BY <2>4 DEF Finalized
      <3> QED  BY <1>2, <2>4, <3>1, FinalStep DEF BodyInv
    <2>5. CASE UNCHANGED <<res, calls>>  BY <1>2, <2>5 DEF BodyInv
    <2>6. CASE ResponseNext  BY <1>2, <2>2, <2>3, <2>4, <2>5, <2>6, Steps
    <2> QED  BY <1>2, <2>1, <2>6
  <1>3. TypeInv /\ BodyInv => BodyHasSource
    BY ResponseAssumption DEF TypeInv, Response, BodyInv, BodyHasSource
  <1> QED  BY <1>1, <1>2, <1>3, TypeHolds, PTL DEF ResponseSpec

-----------------------------------------------------------------------------
(* The calls a sequence c of them stands for.  These are the operators of  *)
(* HeadersAsSet, said of any sequence.                                     *)

WordOf(c, k) == c[k].name.word
SameOf(c, k) == {j \in DOMAIN c : WordOf(c, j) = WordOf(c, k)}
LastOf(c, k) == Max(SameOf(c, k))
FirstsOf(c) == {k \in DOMAIN c : \A j \in 1 .. k - 1 : WordOf(c, j) # WordOf(c, k)}
FirstsTo(c, k) == {j \in FirstsOf(c) : j <= k}
StoredOf(c, k) == Stored(c[k].name, c[k].value)

LEMMA Longest ==
  ASSUME NEW n \in Nat, NEW S \in SUBSET (1 .. n), S # {}
  PROVE  Max(S) \in S /\ \A k \in S : k <= Max(S)
  <1> DEFINE T == {n - j : j \in S}
             t == Min(T)
             m == n - t
  <1>1. \A j \in S : j \in Int /\ j <= n  OBVIOUS
  <1>2. T \subseteq Nat  BY <1>1
  <1>3. T # {}  OBVIOUS
  <1>4. t \in T /\ \A k \in T : t <= k  BY <1>2, <1>3, MinOfNat
  <1>5. PICK j \in S : t = n - j  BY <1>4
  <1>6. \A k \in S : t <= n - k  BY <1>4
  <1> HIDE DEF T, t
  <1>7. \A k \in S : k <= j
    <2> TAKE k \in S
    <2>1. k \in Int /\ j \in Int /\ t = n - j /\ t <= n - k  BY <1>1, <1>5, <1>6
    <2> QED  BY ONLY <2>1, n \in Nat
  <1>8. Max(S) = j  BY <1>7, MaxIs, S \subseteq Nat
  <1> QED  BY <1>7, <1>8

LEMMA SameIs ==
  ASSUME TypeInv,
         NEW j \in DOMAIN calls, NEW k \in DOMAIN calls
  PROVE  SameName(j, k) <=> WordOf(calls, j) = WordOf(calls, k)
  <1>0. calls[j] \in SetCall /\ calls[k] \in SetCall
    BY DEF TypeInv
  <1>1. calls[j].name \in Names /\ calls[k].name \in Names
    BY <1>0 DEF SetCall
  <1>2. /\ CutName(calls[j].name).word = calls[j].name.word
        /\ CutName(calls[k].name).word = calls[k].name.word
        /\ CutName(calls[j].name) \in {m \in Names : ~m.long}
        /\ CutName(calls[k].name) \in {m \in Names : ~m.long}
    BY <1>1, CutsFit
  <1>3. /\ CutName(calls[j].name).long \in BOOLEAN /\ ~CutName(calls[j].name).long
        /\ CutName(calls[k].name).long \in BOOLEAN /\ ~CutName(calls[k].name).long
    BY <1>2 DEF Names
  <1> QED  BY <1>2, <1>3 DEF SameName, http_str_case_equal, WordOf

(* The operators of HeadersAsSet are those, of the calls.                  *)
LEMMA OfCalls ==
  ASSUME TypeInv
  PROVE  /\ FirstUses = FirstsOf(calls)
         /\ \A k \in DOMAIN calls :
              /\ Rank(k) = Cardinality(FirstsTo(calls, k))
              /\ LastUse(k) = LastOf(calls, k)
              /\ StoredBy(k) = StoredOf(calls, k)
  <1>1. calls \in Seq(SetCall) /\ Len(calls) \in Nat /\ DOMAIN calls = 1 .. Len(calls)
    BY DEF TypeInv
  <1>2. \A k \in DOMAIN calls : \A j \in 1 .. k - 1 :
          SameName(j, k) <=> WordOf(calls, j) = WordOf(calls, k)
    <2> TAKE k \in DOMAIN calls
    <2> TAKE j \in 1 .. k - 1
    <2>1. j \in DOMAIN calls  BY <1>1
    <2> QED  BY <2>1, SameIs
  <1>3. FirstUses = FirstsOf(calls)  BY <1>2 DEF FirstUses, FirstsOf
  <1>4. ASSUME NEW k \in DOMAIN calls
        PROVE  /\ Rank(k) = Cardinality(FirstsTo(calls, k))
               /\ LastUse(k) = LastOf(calls, k)
               /\ StoredBy(k) = StoredOf(calls, k)
    <2>1. {j \in DOMAIN calls : SameName(j, k)} = SameOf(calls, k)
      BY SameIs DEF SameOf
    <2>2. LastUse(k) = LastOf(calls, k)  BY <2>1 DEF LastUse, LastOf
    <2>3. Rank(k) = Cardinality(FirstsTo(calls, k))  BY <1>3 DEF Rank, FirstsTo
    <2> QED  BY <2>2, <2>3 DEF StoredBy, StoredOf, Stored
  <1> QED  BY <1>3, <1>4

LEMMA LastIs ==
  ASSUME NEW c \in Seq(SetCall), NEW k \in 1 .. Len(c)
  PROVE  /\ LastOf(c, k) \in 1 .. Len(c) /\ WordOf(c, LastOf(c, k)) = WordOf(c, k)
         /\ \A j \in 1 .. Len(c) : WordOf(c, j) = WordOf(c, k) => j <= LastOf(c, k)
  <1> DEFINE S == SameOf(c, k)
             n == Len(c)
  <1>1. /\ n \in Nat /\ S \subseteq 1 .. n /\ S # {}
        /\ \A j \in 1 .. n : j \in S <=> WordOf(c, j) = WordOf(c, k)
    BY DEF SameOf
  <1>2. Max(S) \in S /\ \A j \in S : j <= Max(S)
    <2> HIDE DEF S, n
    <2> QED  BY <1>1, Longest
  <1> HIDE DEF S
  <1>3. LastOf(c, k) = Max(S)  BY DEF LastOf, S
  <1> QED  BY <1>1, <1>2, <1>3

(* Every call uses a word that has a first use, and only one.              *)
LEMMA FirstIs ==
  ASSUME NEW c \in Seq(SetCall)
  PROVE  /\ \A k \in 1 .. Len(c) : \E j \in FirstsOf(c) : WordOf(c, j) = WordOf(c, k)
         /\ \A j, k \in FirstsOf(c) : WordOf(c, j) = WordOf(c, k) => j = k
         /\ FirstsOf(c) \subseteq 1 .. Len(c)
         /\ IsFiniteSet(FirstsOf(c))
         /\ \A k : IsFiniteSet(FirstsTo(c, k))
  <1>1. DOMAIN c = 1 .. Len(c) /\ Len(c) \in Nat  OBVIOUS
  <1>2. ASSUME NEW k \in 1 .. Len(c)
        PROVE  \E j \in FirstsOf(c) : WordOf(c, j) = WordOf(c, k)
    <2> DEFINE S == SameOf(c, k)
               m == Min(S)
    <2>1. S \subseteq Nat /\ S # {} /\ S \subseteq 1 .. Len(c)  BY <1>1 DEF SameOf
    <2>2. m \in S /\ \A j \in S : m <= j
      <3> HIDE DEF S
      <3> QED  BY <2>1, MinOfNat
    <2>3. \A j \in 1 .. Len(c) : j \in S <=> WordOf(c, j) = WordOf(c, k)
      BY <1>1 DEF SameOf
    <2> HIDE DEF S, m
    <2>4. ASSUME NEW j \in 1 .. m - 1 PROVE WordOf(c, j) # WordOf(c, m)
      <3>1. m \in 1 .. Len(c)  BY <2>1, <2>2
      <3>2. j \in 1 .. Len(c) /\ ~(m <= j)  BY <1>1, <3>1
      <3> QED  BY <2>2, <2>3, <3>1, <3>2
    <2> QED  BY <1>1, <2>1, <2>2, <2>3, <2>4 DEF FirstsOf
  <1>3. ASSUME NEW j \in FirstsOf(c), NEW k \in FirstsOf(c), WordOf(c, j) = WordOf(c, k)
        PROVE  j = k
    <2>1. /\ j \in 1 .. Len(c) /\ \A i \in 1 .. j - 1 : WordOf(c, i) # WordOf(c, j)
          /\ k \in 1 .. Len(c) /\ \A i \in 1 .. k - 1 : WordOf(c, i) # WordOf(c, k)
      BY <1>1 DEF FirstsOf
    <2>2. j \notin 1 .. k - 1 /\ k \notin 1 .. j - 1  BY <1>3, <2>1
    <2>3. j \in Int /\ k \in Int /\ 1 <= j /\ 1 <= k  BY <1>1, <2>1
    <2> QED  BY <2>2, <2>3
  <1>4. FirstsOf(c) \subseteq 1 .. Len(c)  BY <1>1 DEF FirstsOf
  <1>5. IsFiniteSet(1 .. Len(c))  BY <1>1, FS_Interval
  <1>6. IsFiniteSet(FirstsOf(c))  BY <1>4, <1>5, FS_Subset
  <1>7. \A k : FirstsTo(c, k) \subseteq FirstsOf(c)  BY DEF FirstsTo
  <1> QED  BY <1>2, <1>3, <1>4, <1>6, <1>7, FS_Subset

-----------------------------------------------------------------------------
(* One more call.                                                          *)

LEMMA CallStep ==
  ASSUME NEW c \in Seq(SetCall), NEW d \in Seq(SetCall), NEW name, NEW value,
         Longer(c, d, name, value)
  PROVE  LET n == Len(c) IN
         /\ \A k \in 1 .. n : WordOf(d, k) = WordOf(c, k)
         /\ \A k \in 1 .. n : StoredOf(d, k) = StoredOf(c, k)
         /\ WordOf(d, n + 1) = name.word /\ StoredOf(d, n + 1) = Stored(name, value)
         /\ \A k \in 1 .. n : LastOf(d, k) = IF WordOf(c, k) = name.word THEN n + 1
                                             ELSE LastOf(c, k)
         /\ LastOf(d, n + 1) = n + 1
         /\ FirstsOf(d) = FirstsOf(c) \cup
              IF \E k \in 1 .. n : WordOf(c, k) = name.word THEN {} ELSE {n + 1}
  <1> DEFINE n == Len(c)
             w == name.word
  <1>1. /\ n \in Nat /\ DOMAIN c = 1 .. n /\ DOMAIN d = 1 .. n + 1
        /\ 1 .. n + 1 = 1 .. n \cup {n + 1}
    BY DEF Longer
  <1>2. \A k \in 1 .. n : WordOf(d, k) = WordOf(c, k) /\ StoredOf(d, k) = StoredOf(c, k)
    BY DEF Longer, WordOf, StoredOf
  <1>3. WordOf(d, n + 1) = w /\ StoredOf(d, n + 1) = Stored(name, value)
    BY DEF Longer, WordOf, StoredOf
  <1>4. ASSUME NEW k \in 1 .. n + 1, WordOf(d, k) = w PROVE LastOf(d, k) = n + 1
    <2>1. /\ SameOf(d, k) \subseteq 1 .. n + 1
          /\ n + 1 \in SameOf(d, k)
      BY <1>1, <1>3, <1>4 DEF SameOf
    <2>2. SameOf(d, k) \subseteq Nat /\ \A j \in SameOf(d, k) : j <= n + 1
      BY <1>1, <2>1
    <2> QED  BY <2>1, <2>2, MaxIs DEF LastOf
  <1>5. ASSUME NEW k \in 1 .. n, WordOf(c, k) # w PROVE LastOf(d, k) = LastOf(c, k)
    <2>1. \A j \in 1 .. n : WordOf(d, j) = WordOf(d, k) <=> WordOf(c, j) = WordOf(c, k)
      BY <1>2
    <2>2. WordOf(d, n + 1) # WordOf(d, k)  BY <1>2, <1>3, <1>5
    <2>3. SameOf(d, k) = SameOf(c, k)  BY <1>1, <2>1, <2>2 DEF SameOf
    <2> QED  BY <2>3 DEF LastOf
  <1>6. \A k \in 1 .. n : LastOf(d, k) = IF WordOf(c, k) = w THEN n + 1 ELSE LastOf(c, k)
    BY <1>1, <1>2, <1>4, <1>5
  <1>7. LastOf(d, n + 1) = n + 1  BY <1>1, <1>3, <1>4
  <1>8. ASSUME NEW k \in 1 .. n PROVE k \in FirstsOf(d) <=> k \in FirstsOf(c)
    <2>1. \A j \in 1 .. k - 1 : j \in 1 .. n  BY <1>1
    <2>2. \A j \in 1 .. k - 1 : WordOf(d, j) # WordOf(d, k) <=> WordOf(c, j) # WordOf(c, k)
      BY <1>2, <2>1
    <2> QED  BY <1>1, <2>2 DEF FirstsOf
  <1>9. n + 1 \in FirstsOf(d) <=> ~ \E k \in 1 .. n : WordOf(c, k) = w
    <2>1. 1 .. (n + 1) - 1 = 1 .. n  BY <1>1
    <2>2. n + 1 \in FirstsOf(d) <=> \A j \in 1 .. n : WordOf(d, j) # WordOf(d, n + 1)
      BY <1>1, <2>1 DEF FirstsOf
    <2> QED  BY <1>2, <1>3, <2>2
  <1>10. FirstsOf(d) \subseteq 1 .. n + 1 /\ FirstsOf(c) \subseteq 1 .. n
    BY <1>1 DEF FirstsOf
  <1> HIDE DEF n, w
  <1>11. FirstsOf(d) = FirstsOf(c) \cup IF \E k \in 1 .. n : WordOf(c, k) = w THEN {} ELSE {n + 1}
    <2>1. n + 1 \notin FirstsOf(c)  BY <1>1, <1>10
    <2> QED  BY <1>1, <1>8, <1>9, <1>10, <2>1
  <1> QED  BY <1>2, <1>3, <1>6, <1>7, <1>11 DEF n, w

(* Ranks count the first uses up to a call.                                *)
LEMMA RankStep ==
  ASSUME NEW c \in Seq(SetCall), NEW d \in Seq(SetCall), NEW name, NEW value,
         Longer(c, d, name, value)
  PROVE  LET n == Len(c) IN
         /\ \A k \in 1 .. n : FirstsTo(d, k) = FirstsTo(c, k)
         /\ FirstsTo(d, n + 1) = FirstsOf(d)
         /\ (~ \E k \in 1 .. n : WordOf(c, k) = name.word) =>
              Cardinality(FirstsOf(d)) = Cardinality(FirstsOf(c)) + 1
  <1> DEFINE n == Len(c)
  <1>1. n \in Nat /\ FirstsOf(c) \subseteq 1 .. n /\ IsFiniteSet(FirstsOf(c))
    BY FirstIs
  <1>2. FirstsOf(d) = FirstsOf(c) \cup
          IF \E k \in 1 .. n : WordOf(c, k) = name.word THEN {} ELSE {n + 1}
    BY CallStep
  <1> HIDE DEF n
  <1>3. ASSUME NEW k \in 1 .. n PROVE FirstsTo(d, k) = FirstsTo(c, k)
    <2>1. ~(n + 1 <= k)  BY <1>1
    <2> QED  BY <1>2, <2>1 DEF FirstsTo
  <1>4. \A j \in FirstsOf(d) : j <= n + 1  BY <1>1, <1>2
  <1>5. FirstsTo(d, n + 1) = FirstsOf(d)  BY <1>4 DEF FirstsTo
  <1>6. n + 1 \notin FirstsOf(c)  BY <1>1
  <1>7. ASSUME ~ \E k \in 1 .. n : WordOf(c, k) = name.word
        PROVE  Cardinality(FirstsOf(d)) = Cardinality(FirstsOf(c)) + 1
    BY <1>1, <1>2, <1>6, <1>7, FS_AddElement
  <1> QED  BY <1>3, <1>5, <1>7 DEF n

-----------------------------------------------------------------------------
(* What the table keeps of the calls.                                      *)

Kept(h, c) ==
  \A k \in 1 .. Len(c) : \E i \in 1 .. Len(h) : h[i] = StoredOf(c, LastOf(c, k))

AllShort(c) == \A k \in 1 .. Len(c) : ~c[k].name.long
RankOf(c, k) == Cardinality(FirstsTo(c, k))
Ordered(h, c) ==
  /\ Len(h) = Cardinality(FirstsOf(c))
  /\ \A k \in FirstsOf(c) : /\ RankOf(c, k) \in 1 .. Len(h)
                            /\ h[RankOf(c, k)] = StoredOf(c, LastOf(c, k))
  /\ \A i \in 1 .. Len(h) : \E k \in FirstsOf(c) : RankOf(c, k) = i

(* The headers and the calls that name the type of the content.            *)
TypesIn(h) == {i \in 1 .. Len(h) : h[i].name.word = ContentType}
TypesOf(c) == {k \in 1 .. Len(c) : WordOf(c, k) = ContentType}
TypeKept(h, c) ==
  /\ \A i, j \in TypesIn(h) : i = j
  /\ TypesIn(h) = {} <=> TypesOf(c) = {}
  /\ \A i \in TypesIn(h) : h[i].value = CutValue(c[Max(TypesOf(c))].value)

LEMMA StoredIs ==
  ASSUME NEW c \in Seq(SetCall), NEW k \in 1 .. Len(c)
  PROVE  /\ StoredOf(c, k).name.word = WordOf(c, k)
         /\ StoredOf(c, k).name.long = FALSE
         /\ StoredOf(c, k).value = CutValue(c[k].value)
         /\ StoredOf(c, k) \in Header
         /\ c[k].name \in Names
         /\ c[k].name.long \in BOOLEAN
         /\ WordOf(c, k) = ContentType => c[k].name.long = FALSE
  <1>1. c[k] \in SetCall  OBVIOUS
  <1>2. c[k].name \in Names /\ c[k].value \in Nat
    BY <1>1, ResponseAssumption DEF SetCall
  <1>3. /\ CutName(c[k].name) \in {m \in Names : ~m.long}
        /\ CutName(c[k].name).word = c[k].name.word
        /\ CutValue(c[k].value) \in 0 .. HTTP_RESP_HEADER_VALUE_MAX
    BY <1>2, CutsFit
  <1>4. /\ CutName(c[k].name).long = FALSE
        /\ c[k].name.long \in BOOLEAN
        /\ c[k].name.word = ContentType => c[k].name.long = FALSE
    BY <1>2, <1>3 DEF Names
  <1>5. /\ StoredOf(c, k).name = CutName(c[k].name)
        /\ StoredOf(c, k).value = CutValue(c[k].value)
    BY DEF StoredOf, Stored
  <1>6. StoredOf(c, k) \in Header
    <2> HIDE DEF CutName, CutValue
    <2> QED  BY <1>3 DEF StoredOf, Stored, Header
  <1> QED  BY <1>2, <1>3, <1>4, <1>5, <1>6 DEF WordOf

(* A name is found where the table has its word, unless it is long.        *)
LEMMA MatchIs ==
  ASSUME NEW h \in Seq(Header), NEW j \in 1 .. Len(h), NEW name \in Names
  PROVE  /\ http_str_case_equal(h[j].name, name) <=>
              h[j].name.word = name.word /\ name.long = FALSE
         /\ h[j].name.long = FALSE
         /\ name.word = ContentType => name.long = FALSE
  <1>1. h[j] \in Header  OBVIOUS
  <1>2. h[j].name \in Names /\ ~h[j].name.long  BY <1>1 DEF Header
  <1>3. /\ h[j].name.long = FALSE /\ name.long \in BOOLEAN
        /\ name.word = ContentType => name.long = FALSE
    BY <1>2 DEF Names
  <1> QED  BY <1>3 DEF http_str_case_equal

LEMMA KeptStep ==
  ASSUME NEW c \in Seq(SetCall), NEW d \in Seq(SetCall),
         NEW h \in Seq(Header), NEW g \in Seq(Header),
         NEW name \in Names, NEW value,
         Longer(c, d, name, value), Entered(h, g, name, value), Kept(h, c)
  PROVE  Kept(g, d)
  <1> DEFINE n == Len(c)
             w == name.word
             new == Stored(name, value)
  <1>1. /\ n \in Nat /\ Len(d) = n + 1 /\ Len(h) \in Nat
    BY DEF Longer
  <1>2. \E i \in 1 .. Len(g) : g[i] = new
    BY <1>1 DEF Entered
  <1>3. ASSUME NEW k \in 1 .. n, WordOf(c, k) # w
        PROVE  \E i \in 1 .. Len(g) : g[i] = StoredOf(c, LastOf(c, k))
    <2>1. PICK i \in 1 .. Len(h) : h[i] = StoredOf(c, LastOf(c, k))  BY DEF Kept
    <2>2. LastOf(c, k) \in 1 .. n /\ WordOf(c, LastOf(c, k)) = WordOf(c, k)  BY LastIs
    <2>3. h[i].name.word # w  BY <1>3, <2>1, <2>2, StoredIs
    <2>4. ~http_str_case_equal(h[i].name, name)  BY <2>3, MatchIs
    <2> HIDE DEF n, w, new
    <2>5. i \in 1 .. Len(g) /\ g[i] = h[i]  BY <1>1, <2>4 DEF Entered
    <2> QED  BY <2>1, <2>5
  <1>4. ASSUME NEW k \in 1 .. n + 1
        PROVE  \E i \in 1 .. Len(g) : g[i] = StoredOf(d, LastOf(d, k))
    <2>1. CASE k = n + 1 \/ (k \in 1 .. n /\ WordOf(c, k) = w)
      <3>1. LastOf(d, k) = n + 1  BY <2>1, CallStep
      <3>2. StoredOf(d, n + 1) = new  BY CallStep
      <3> QED  BY <1>2, <3>1, <3>2
    <2>2. CASE k \in 1 .. n /\ WordOf(c, k) # w
      <3>1. LastOf(d, k) = LastOf(c, k)  BY <2>2, CallStep
      <3>2. LastOf(c, k) \in 1 .. n  BY <2>2, LastIs
      <3>3. StoredOf(d, LastOf(c, k)) = StoredOf(c, LastOf(c, k))  BY <3>2, CallStep
      <3> QED  BY <1>3, <2>2, <3>1, <3>3
    <2>3. k \in 1 .. n \/ k = n + 1  BY <1>1
    <2> QED  BY <2>1, <2>2, <2>3
  <1> QED  BY <1>1, <1>4 DEF Kept

LEMMA OrderedStep ==
  ASSUME NEW c \in Seq(SetCall), NEW d \in Seq(SetCall),
         NEW h \in Seq(Header), NEW g \in Seq(Header),
         NEW name \in Names, NEW value,
         Longer(c, d, name, value), Entered(h, g, name, value),
         Ordered(h, c), name.long = FALSE
  PROVE  Ordered(g, d)
  <1> DEFINE n == Len(c)
             w == name.word
             new == Stored(name, value)
             F == FirstsOf(c)
  <1>1. n \in Nat /\ F \subseteq 1 .. n /\ Len(h) \in Nat  BY FirstIs
  <1>2. /\ \A k \in 1 .. n : RankOf(d, k) = RankOf(c, k)
        /\ RankOf(d, n + 1) = Cardinality(FirstsOf(d))
    BY RankStep DEF RankOf
  <1>3. /\ Len(h) = Cardinality(F)
        /\ \A k \in F : /\ RankOf(c, k) \in 1 .. Len(h)
                        /\ h[RankOf(c, k)] = StoredOf(c, LastOf(c, k))
        /\ \A i \in 1 .. Len(h) : \E k \in F : RankOf(c, k) = i
    BY DEF Ordered
  <1>4. ASSUME NEW k \in F PROVE h[RankOf(c, k)].name.word = WordOf(c, k)
    <2>1. k \in 1 .. n  BY <1>1
    <2>2. LastOf(c, k) \in 1 .. n /\ WordOf(c, LastOf(c, k)) = WordOf(c, k)
      BY <2>1, LastIs
    <2> QED  BY <1>3, <2>2, StoredIs
  <1>5. \A j \in 1 .. Len(h) : http_str_case_equal(h[j].name, name) <=> h[j].name.word = w
    BY MatchIs
  <1>6. ASSUME NEW k \in F
        PROVE  /\ LastOf(d, k) = IF WordOf(c, k) = w THEN n + 1 ELSE LastOf(c, k)
               /\ StoredOf(d, LastOf(d, k)) = IF WordOf(c, k) = w THEN new
                                              ELSE h[RankOf(c, k)]
               /\ RankOf(d, k) = RankOf(c, k)
    <2>1. k \in 1 .. n  BY <1>1
    <2>2. LastOf(d, k) = IF WordOf(c, k) = w THEN n + 1 ELSE LastOf(c, k)
      BY <2>1, CallStep
    <2>3. LastOf(c, k) \in 1 .. n  BY <2>1, LastIs
    <2>4. StoredOf(d, LastOf(c, k)) = StoredOf(c, LastOf(c, k))  BY <2>3, CallStep
    <2>5. StoredOf(d, n + 1) = new  BY CallStep
    <2> QED  BY <1>2, <1>3, <2>1, <2>2, <2>4, <2>5
  <1>7. CASE \A j \in 1 .. Len(h) : h[j].name.word # w
    <2>1. /\ Len(g) = Len(h) + 1
          /\ \A j \in 1 .. Len(h) : g[j] = h[j]
          /\ g[Len(h) + 1] = new
      BY <1>5, <1>7 DEF Entered
    <2>2. \A k \in F : WordOf(c, k) # w  BY <1>3, <1>4, <1>7
    <2>3. ~ \E k \in 1 .. n : WordOf(c, k) = w  BY <2>2, FirstIs
    <2>4. FirstsOf(d) = F \cup {n + 1}  BY <2>3, CallStep
    <2>5. Cardinality(FirstsOf(d)) = Len(h) + 1  BY <1>3, <2>3, RankStep
    <2>6. StoredOf(d, LastOf(d, n + 1)) = new  BY CallStep
    <2> HIDE DEF F, n, w, new
    <2>7. ASSUME NEW k \in FirstsOf(d)
          PROVE  /\ RankOf(d, k) \in 1 .. Len(g)
                 /\ g[RankOf(d, k)] = StoredOf(d, LastOf(d, k))
      <3>1. CASE k = n + 1  BY <1>1, <1>2, <2>1, <2>5, <2>6, <3>1
      <3>2. CASE k \in F
        <4>1. RankOf(d, k) = RankOf(c, k) /\ RankOf(c, k) \in 1 .. Len(h)
          BY <1>3, <1>6, <3>2
        <4>2. StoredOf(d, LastOf(d, k)) = h[RankOf(c, k)]  BY <1>6, <2>2, <3>2
        <4>3. RankOf(c, k) \in 1 .. Len(g)  BY <1>1, <2>1, <4>1
        <4> QED  BY <2>1, <4>1, <4>2, <4>3
      <3> QED  BY <2>4, <3>1, <3>2
    <2>8. ASSUME NEW i \in 1 .. Len(g) PROVE \E k \in FirstsOf(d) : RankOf(d, k) = i
      <3>1. CASE i = Len(h) + 1  BY <1>2, <2>4, <2>5, <3>1
      <3>2. CASE i \in 1 .. Len(h)
        <4>1. PICK k \in F : RankOf(c, k) = i  BY <1>3, <3>2
        <4> QED  BY <1>6, <2>4, <4>1
      <3> QED  BY <1>1, <2>1, <3>1, <3>2
    <2> QED  BY <2>1, <2>5, <2>7, <2>8 DEF Ordered
  <1>8. CASE \E j \in 1 .. Len(h) : h[j].name.word = w
    <2>1. PICK at \in 1 .. Len(h) :
            /\ h[at].name.word = w
            /\ Len(g) = Len(h)
            /\ \A j \in 1 .. Len(h) : j # at => g[j] = h[j]
            /\ g[at] = new
      BY <1>5, <1>8 DEF Entered
    <2>2. PICK a \in F : RankOf(c, a) = at  BY <1>3, <2>1
    <2>3. WordOf(c, a) = w  BY <1>4, <2>1, <2>2
    <2>4. FirstsOf(d) = F
      <3>1. \E k \in 1 .. n : WordOf(c, k) = w  BY <1>1, <2>3
      <3>2. FirstsOf(d) = F \cup IF \E k \in 1 .. n : WordOf(c, k) = w THEN {} ELSE {n + 1}
        BY CallStep
      <3> HIDE DEF F, n, w
      <3>3. F \cup {} = F  OBVIOUS
      <3> QED  BY <3>1, <3>2, <3>3
    <2>5. ASSUME NEW k \in F
          PROVE  /\ RankOf(d, k) \in 1 .. Len(g)
                 /\ g[RankOf(d, k)] = StoredOf(d, LastOf(d, k))
      <3>1. RankOf(d, k) = RankOf(c, k) /\ RankOf(c, k) \in 1 .. Len(h)
        BY <1>3, <1>6
      <3>2. CASE WordOf(c, k) = w
        <4>1. k = a  BY <2>3, <3>2, FirstIs
        <4> QED  BY <1>6, <2>1, <2>2, <2>3, <3>1, <4>1
      <3>3. CASE WordOf(c, k) # w
        <4>1. RankOf(c, k) # at  BY <1>4, <2>1, <3>3
        <4> QED  BY <1>6, <2>1, <3>1, <3>3, <4>1
      <3> QED  BY <3>2, <3>3
    <2>6. ASSUME NEW i \in 1 .. Len(g) PROVE \E k \in F : RankOf(d, k) = i
      <3>1. PICK k \in F : RankOf(c, k) = i  BY <1>3, <2>1
      <3> QED  BY <1>6, <3>1
    <2> QED  BY <1>3, <2>1, <2>4, <2>5, <2>6 DEF Ordered
  <1> QED  BY <1>7, <1>8

LEMMA TypeStep ==
  ASSUME NEW c \in Seq(SetCall), NEW d \in Seq(SetCall),
         NEW h \in Seq(Header), NEW g \in Seq(Header),
         NEW name \in Names, NEW value,
         Longer(c, d, name, value), Entered(h, g, name, value), TypeKept(h, c)
  PROVE  TypeKept(g, d)
  <1> DEFINE n == Len(c)
             w == name.word
             new == Stored(name, value)
  <1>1. n \in Nat /\ Len(d) = n + 1 /\ Len(h) \in Nat /\ n + 1 \in 1 .. Len(d)
    BY DEF Longer
  <1>2. /\ WordOf(d, n + 1) = w /\ StoredOf(d, n + 1) = new
        /\ \A k \in 1 .. n : WordOf(d, k) = WordOf(c, k)
    BY CallStep
  <1>3. new.name.word = w /\ new.value = CutValue(d[n + 1].value)
    BY <1>1, <1>2, StoredIs
  <1>4. \A j \in 1 .. Len(h) : http_str_case_equal(h[j].name, name) => h[j].name.word = w
    BY MatchIs
  <1>5. \/ /\ \A j \in 1 .. Len(h) : ~http_str_case_equal(h[j].name, name)
           /\ Len(g) = Len(h) + 1
           /\ \A j \in 1 .. Len(h) : g[j] = h[j]
           /\ g[Len(h) + 1] = new
        \/ \E at \in 1 .. Len(h) :
             /\ http_str_case_equal(h[at].name, name)
             /\ Len(g) = Len(h)
             /\ \A j \in 1 .. Len(h) : j # at => g[j] = h[j]
             /\ g[at] = new
    BY DEF Entered
  <1>6. TypesOf(d) = TypesOf(c) \cup IF w = ContentType THEN {n + 1} ELSE {}
    <2>1. 1 .. Len(d) = 1 .. n \cup {n + 1} /\ n + 1 \notin 1 .. n  BY <1>1
    <2>2. \A k \in 1 .. n : k \in TypesOf(d) <=> k \in TypesOf(c)
      BY <1>2, <2>1 DEF TypesOf
    <2>3. n + 1 \in TypesOf(d) <=> w = ContentType  BY <1>1, <1>2 DEF TypesOf
    <2>4. TypesOf(d) \subseteq 1 .. n \cup {n + 1} /\ TypesOf(c) \subseteq 1 .. n
      BY <2>1 DEF TypesOf
    <2> HIDE DEF n, w
    <2> QED  BY <2>1, <2>2, <2>3, <2>4
  <1>7. /\ \A i, j \in TypesIn(h) : i = j
        /\ TypesIn(h) = {} <=> TypesOf(c) = {}
        /\ \A i \in TypesIn(h) : h[i].value = CutValue(c[Max(TypesOf(c))].value)
    BY DEF TypeKept
  <1>8. CASE w # ContentType
    <2>1. TypesOf(d) = TypesOf(c)
      <3> HIDE DEF n, w
      <3>1. TypesOf(c) \cup {} = TypesOf(c)  OBVIOUS
      <3> QED  BY <1>6, <1>8, <3>1
    <2>2. \A j \in 1 .. Len(h) : j \in TypesIn(g) <=> j \in TypesIn(h)
      <3> HIDE DEF n, w, new
      <3> QED  BY <1>1, <1>3, <1>4, <1>5, <1>8 DEF TypesIn
    <2>3. TypesIn(g) \subseteq 1 .. Len(h)
      <3> HIDE DEF n, w, new
      <3> QED  BY <1>1, <1>3, <1>5, <1>8 DEF TypesIn
    <2>4. TypesIn(g) = TypesIn(h)
      <3>1. TypesIn(h) \subseteq 1 .. Len(h)  BY DEF TypesIn
      <3> QED  BY <2>2, <2>3, <3>1
    <2>5. ASSUME NEW i \in TypesIn(h) PROVE g[i] = h[i]
      <3>1. i \in 1 .. Len(h) /\ h[i].name.word = ContentType  BY DEF TypesIn
      <3> HIDE DEF n, w, new
      <3> QED  BY <1>4, <1>5, <1>8, <3>1
    <2>6. ASSUME NEW i \in TypesIn(h) PROVE d[Max(TypesOf(c))] = c[Max(TypesOf(c))]
      <3>1. TypesOf(c) # {} /\ TypesOf(c) \in SUBSET (1 .. n)  BY <1>7 DEF TypesOf
      <3>2. Max(TypesOf(c)) \in 1 .. n  BY <1>1, <3>1, Longest
      <3> QED  BY <3>2 DEF Longer
    <2> QED  BY <1>7, <2>1, <2>4, <2>5, <2>6 DEF TypeKept
  <1>9. CASE w = ContentType
    <2>1. n + 1 \in TypesOf(d) /\ TypesOf(d) # {}  BY <1>6, <1>9
    <2>2. Max(TypesOf(d)) = n + 1
      <3>1. TypesOf(d) \subseteq 1 .. n + 1  BY <1>1 DEF TypesOf
      <3>2. TypesOf(d) \subseteq Nat /\ \A k \in TypesOf(d) : k <= n + 1  BY <1>1, <3>1
      <3> QED  BY <2>1, <3>2, MaxIs
    <2>3. \A j \in 1 .. Len(h) : http_str_case_equal(h[j].name, name) <=> j \in TypesIn(h)
      BY <1>9, MatchIs DEF TypesIn
    <2>4. TypesIn(h) \subseteq 1 .. Len(h)  BY DEF TypesIn
    <2>5. \E at \in TypesIn(g) : g[at] = new /\ TypesIn(g) = {at}
      <3> HIDE DEF n, w, new
      <3>1. CASE TypesIn(h) = {}
        <4>1. /\ Len(g) = Len(h) + 1
              /\ \A j \in 1 .. Len(h) : g[j] = h[j]
              /\ g[Len(h) + 1] = new
          BY <1>5, <2>3, <3>1
        <4>2. \A j \in 1 .. Len(h) : j \notin TypesIn(g)
          BY <1>1, <3>1, <4>1 DEF TypesIn
        <4>3. Len(h) + 1 \in TypesIn(g)  BY <1>1, <1>3, <1>9, <4>1 DEF TypesIn
        <4>4. TypesIn(g) \subseteq 1 .. Len(h) \cup {Len(h) + 1}
          BY <1>1, <4>1 DEF TypesIn
        <4> QED  BY <4>1, <4>2, <4>3, <4>4
      <3>2. CASE TypesIn(h) # {}
        <4>1. PICK at \in 1 .. Len(h) :
                /\ http_str_case_equal(h[at].name, name)
                /\ Len(g) = Len(h)
                /\ \A j \in 1 .. Len(h) : j # at => g[j] = h[j]
                /\ g[at] = new
          BY <1>5, <2>3, <2>4, <3>2
        <4>2. TypesIn(h) = {at}  BY <1>7, <2>3, <4>1
        <4>3. at \in TypesIn(g)  BY <1>3, <1>9, <4>1 DEF TypesIn
        <4>4. \A j \in 1 .. Len(h) : j # at => j \notin TypesIn(g)
          BY <4>1, <4>2 DEF TypesIn
        <4>5. TypesIn(g) \subseteq 1 .. Len(h)  BY <4>1 DEF TypesIn
        <4> QED  BY <4>1, <4>3, <4>4, <4>5
      <3> QED  BY <3>1, <3>2
    <2> HIDE DEF n, w, new
    <2> QED  BY <1>3, <2>1, <2>2, <2>5 DEF TypeKept
  <1> QED  BY <1>8, <1>9

-----------------------------------------------------------------------------
(* The table, as an invariant of the state.                                *)

TableInv ==
  /\ Kept(res.headers, calls)
  /\ AllShort(calls) => Ordered(res.headers, calls)
  /\ TypeKept(res.headers, calls)

LEMMA InitTable == ResponseInit => TableInv
  <1> SUFFICES ASSUME ResponseInit PROVE TableInv
    OBVIOUS
  <1>1. res.headers = <<>> /\ calls = <<>> /\ Len(<<>>) = 0  BY DEF ResponseInit
  <1>2. 1 .. 0 = {}  OBVIOUS
  <1>3. FirstsOf(<<>>) = {}  BY DEF FirstsOf
  <1>4. Cardinality({}) = 0  BY FS_EmptySet
  <1>5. TypesIn(<<>>) = {} /\ TypesOf(<<>>) = {}  BY <1>1, <1>2 DEF TypesIn, TypesOf
  <1> QED  BY <1>1, <1>2, <1>3, <1>4, <1>5 DEF TableInv, Kept, Ordered, TypeKept

LEMMA NextTable ==
  ASSUME TypeInv, TableInv, [ResponseNext]_response_vars
  PROVE  TableInv'
  <1>1. ASSUME res'.headers = res.headers, calls' = calls PROVE TableInv'
    BY <1>1 DEF TableInv
  <1>2. CASE UNCHANGED response_vars  BY <1>1, <1>2 DEF response_vars
  <1>3. CASE SetStatus(404)  BY <1>1, <1>3, StatusStep
  <1>4. ASSUME NEW kind, NEW len, NEW null, NEW type, NEW status,
               Finalized(kind, len, null, type, status)
        PROVE  TableInv'
    BY <1>1, <1>4, FinalStep
  <1>5. CASE UNCHANGED <<res, calls>>  BY <1>1, <1>5
  <1>6. ASSUME NEW name \in Names, NEW value \in ValueLens, SetStep(name, value)
        PROVE  TableInv'
    <2> DEFINE h == res.headers
               g == res'.headers
               c == calls
               d == calls'
    <2>1. h \in Seq(Header) /\ c \in Seq(SetCall)  BY DEF TypeInv, Response
    <2>2. res' \in Response /\ d \in Seq(SetCall)  BY <1>6, SetHeaderStep
    <2>3. g \in Seq(Header)  BY <2>2 DEF Response
    <2>4. Longer(c, d, name, value)  BY <1>6, SetHeaderStep
    <2>5. Entered(h, g, name, value)  BY <1>6, SetHeaderStep
    <2>6. /\ Kept(h, c) /\ TypeKept(h, c)
          /\ AllShort(c) => Ordered(h, c)
      BY DEF TableInv
    <2> HIDE DEF h, g, c, d
    <2>7. Kept(g, d)  BY <2>1, <2>2, <2>3, <2>4, <2>5, <2>6, KeptStep
    <2>8. TypeKept(g, d)  BY <2>1, <2>2, <2>3, <2>4, <2>5, <2>6, TypeStep
    <2>9. ASSUME AllShort(d) PROVE Ordered(g, d)
      <3>1. Len(c) \in Nat /\ Len(d) = Len(c) + 1  BY <2>1, <2>4 DEF Longer
      <3>2. ~d[Len(c) + 1].name.long  BY <2>9, <3>1 DEF AllShort
      <3>3. ~name.long  BY <2>4, <3>2 DEF Longer
      <3>4. name.long = FALSE  BY <3>3 DEF Names
      <3>5. AllShort(c)  BY <2>4, <2>9, <3>1 DEF AllShort, Longer
      <3> QED  BY <2>1, <2>2, <2>3, <2>4, <2>5, <2>6, <3>4, <3>5, OrderedStep
    <2> QED  BY <2>7, <2>8, <2>9 DEF TableInv, h, g, c, d
  <1>7. CASE ResponseNext  BY <1>3, <1>4, <1>5, <1>6, <1>7, Steps
  <1> QED  BY <1>2, <1>7

LEMMA TableHolds == ResponseSpec => [](TypeInv /\ TableInv)
  <1>1. TypeInv /\ TableInv /\ [ResponseNext]_response_vars => TableInv'
    BY NextTable
  <1> QED  BY <1>1, InitTable, TypeHolds, PTL DEF ResponseSpec

(* Each name a handler sets is in the table with the last value set for    *)
(* it, and, if no name is cut, once and in the order of the first uses.    *)
THEOREM HeadersCorrect == ResponseSpec => []HeadersAsSet
  <1>1. ASSUME TypeInv, TableInv PROVE HeadersAsSet
    <2> DEFINE h == res.headers
    <2>1. /\ h \in Seq(Header) /\ DOMAIN h = 1 .. Len(h) /\ Len(h) <= HTTP_RESP_HEADER_MAX
          /\ calls \in Seq(SetCall) /\ DOMAIN calls = 1 .. Len(calls)
      BY <1>1 DEF TypeInv, Response
    <2>2. /\ FirstUses = FirstsOf(calls)
          /\ \A k \in DOMAIN calls :
               /\ Rank(k) = RankOf(calls, k)
               /\ LastUse(k) = LastOf(calls, k)
               /\ StoredBy(LastUse(k)) = StoredOf(calls, LastOf(calls, k))
      <3>1. \A k \in DOMAIN calls : LastOf(calls, k) \in DOMAIN calls  BY <2>1, LastIs
      <3> QED  BY <1>1, <3>1, OfCalls DEF RankOf
    <2>3. Kept(h, calls) /\ (AllShort(calls) => Ordered(h, calls))
      BY <1>1 DEF TableInv
    <2>4. FirstsOf(calls) \subseteq DOMAIN calls  BY <2>1, FirstIs
    <2>5. ASSUME \A k \in DOMAIN calls : ~calls[k].name.long
          PROVE  /\ Len(h) = Cardinality(FirstUses)
                 /\ \A k \in FirstUses : h[Rank(k)] = StoredBy(LastUse(k))
      <3>1. Ordered(h, calls)  BY <2>1, <2>3, <2>5 DEF AllShort
      <3> QED  BY <2>2, <2>4, <3>1 DEF Ordered
    <2>6. \A k \in DOMAIN calls : StoredBy(LastUse(k)) \in ToSet(h)
      BY <2>1, <2>2, <2>3 DEF Kept, ToSet
    <2> QED  BY <2>1, <2>5, <2>6 DEF HeadersAsSet
  <1> QED  BY <1>1, TableHolds, PTL

-----------------------------------------------------------------------------
(* The lines of the block.                                                 *)

TypeLine == [name |-> [NoName EXCEPT !.word = ContentType, !.capital = TRUE],
             value |-> res.content_type]

LEMMA LinesAre ==
  ASSUME TypeInv
  PROVE  LET h == res.headers
             lines == HeaderLines(res)
         IN  /\ HasContentType(res) <=> TypesIn(h) # {}
             /\ TypeLine.name.word = ContentType /\ TypeLine.name.long = FALSE
             /\ \/ /\ TypesIn(h) # {} \/ res.content_type = 0
                   /\ lines = h
                \/ /\ TypesIn(h) = {} /\ res.content_type # 0
                   /\ Len(lines) = Len(h) + 1 /\ DOMAIN lines = 1 .. Len(h) + 1
                   /\ \A i \in 1 .. Len(h) : lines[i] = h[i]
                   /\ lines[Len(h) + 1] = TypeLine
             /\ lines \in Seq([name: {[NoName EXCEPT !.word = ContentType, !.capital = TRUE]}
                                     \cup {n \in Names : ~n.long},
                               value: Nat])
  <1> DEFINE h == res.headers
             ct == [CutName(NoName) EXCEPT !.word = ContentType]
             cut == [NoName EXCEPT !.word = ContentType, !.capital = TRUE]
             T == [name: {cut} \cup {n \in Names : ~n.long}, value: Nat]
  <1>1. /\ h \in Seq(Header) /\ DOMAIN h = 1 .. Len(h) /\ Len(h) \in Nat
        /\ res.content_type \in 0 .. HTTP_RESP_HEADER_VALUE_MAX
        /\ HTTP_RESP_HEADER_VALUE_MAX \in Nat
    BY ResponseAssumption DEF TypeInv, Response
  <1>2. ct.word = ContentType /\ ct.long = FALSE  BY DEF CutName, NoName
  <1>3. TypeLine.name = cut /\ TypeLine.value = res.content_type  BY DEF TypeLine
  <1>4. cut.word = ContentType /\ cut.long = FALSE  BY DEF NoName
  <1>5. TypeLine \in T
    <2> HIDE DEF cut
    <2> QED  BY <1>1 DEF TypeLine, cut
  <1> HIDE DEF ct, cut
  <1>6. \A i \in 1 .. Len(h) : h[i].name.long = FALSE
    <2> TAKE i \in 1 .. Len(h)
    <2>1. h[i] \in Header  BY <1>1
    <2>2. h[i].name \in Names /\ ~h[i].name.long  BY <2>1 DEF Header
    <2> QED  BY <2>2 DEF Names
  <1>7. HasContentType(res) <=> TypesIn(h) # {}
    <2>1. HasContentType(res) <=> \E i \in 1 .. Len(h) : http_str_case_equal(h[i].name, ct)
      BY <1>1 DEF HasContentType, ct
    <2>2. \A i \in 1 .. Len(h) : http_str_case_equal(h[i].name, ct) <=> h[i].name.word = ContentType
      BY <1>2, <1>6 DEF http_str_case_equal
    <2> QED  BY <2>1, <2>2 DEF TypesIn
  <1>8. HeaderLines(res) = h \o IF HasContentType(res) \/ res.content_type = 0 THEN <<>>
                                ELSE <<TypeLine>>
    BY DEF HeaderLines, TypeLine
  <1>9. h \in Seq(T)
    <2>1. \A i \in 1 .. Len(h) : h[i] \in T
      <3> TAKE i \in 1 .. Len(h)
      <3>1. h[i] \in Header  BY <1>1
      <3>2. 0 .. HTTP_RESP_HEADER_VALUE_MAX \subseteq Nat  BY <1>1
      <3> QED  BY <3>1, <3>2 DEF Header
    <2> HIDE DEF T, h
    <2> QED  BY <1>1, <2>1
  <1> HIDE DEF T, h
  <1>10. CASE TypesIn(h) # {} \/ res.content_type = 0
    <2>1. HeaderLines(res) = h \o <<>>  BY <1>7, <1>8, <1>10
    <2>2. HeaderLines(res) = h  BY <1>1, <2>1, ConcatEmptySeq
    <2> QED  BY <1>3, <1>4, <1>7, <1>9, <1>10, <2>2 DEF h, T, cut
  <1>11. CASE TypesIn(h) = {} /\ res.content_type # 0
    <2>1. HeaderLines(res) = h \o <<TypeLine>>  BY <1>7, <1>8, <1>11
    <2> DEFINE one == <<TypeLine>>
    <2>2. one \in Seq(T) /\ Len(one) = 1 /\ one[1] = TypeLine  BY <1>5
    <2> HIDE DEF one
    <2>3. /\ h \o one \in Seq(T)
          /\ Len(h \o one) = Len(h) + Len(one)
          /\ \A i \in 1 .. Len(h) + Len(one) :
               (h \o one)[i] = IF i <= Len(h) THEN h[i] ELSE one[i - Len(h)]
      BY <1>9, <2>2, ConcatProperties
    <2> DEFINE lines == h \o one
    <2>4. HeaderLines(res) = lines  BY <2>1 DEF one
    <2>5. /\ Len(lines) = Len(h) + 1 /\ lines \in Seq(T)
          /\ \A i \in 1 .. Len(h) + 1 :
               lines[i] = IF i <= Len(h) THEN h[i] ELSE one[i - Len(h)]
      BY <2>2, <2>3
    <2> HIDE DEF lines
    <2>6. DOMAIN lines = 1 .. Len(h) + 1  BY <2>5
    <2>7. \A i \in 1 .. Len(h) : lines[i] = h[i]  BY <1>1, <2>5
    <2>8. lines[Len(h) + 1] = TypeLine
      <3>1. Len(h) + 1 \in 1 .. Len(h) + 1 /\ ~(Len(h) + 1 <= Len(h))
            /\ (Len(h) + 1) - Len(h) = 1
        BY <1>1
      <3> QED  BY <2>2, <2>5, <3>1
    <2> QED  BY <1>3, <1>4, <1>7, <1>11, <2>4, <2>5, <2>6, <2>7, <2>8 DEF h, T, cut
  <1> QED  BY <1>10, <1>11

(* A block has one Content-Type at most: the last the handler set, if it   *)
(* set any, and otherwise the one of the send function.                    *)
THEOREM TypeOnceCorrect == ResponseSpec => []OneContentType
  <1>1. ASSUME TypeInv, TableInv PROVE OneContentType
    <2> DEFINE h == res.headers
               lines == HeaderLines(res)
    <2>1. /\ h \in Seq(Header) /\ DOMAIN h = 1 .. Len(h) /\ Len(h) \in Nat
          /\ calls \in Seq(SetCall) /\ DOMAIN calls = 1 .. Len(calls)
      BY <1>1 DEF TypeInv, Response
    <2>2. TypeKept(h, calls)  BY <1>1 DEF TableInv
    <2>3. CalledTypes = TypesOf(calls)  BY <2>1 DEF CalledTypes, TypesOf, WordOf
    <2>4. \A i \in 1 .. Len(h) : ~h[i].name.long
      <3> TAKE i \in 1 .. Len(h)
      <3>1. h[i] \in Header  BY <2>1
      <3> QED  BY <3>1 DEF Header
    <2>5. TypeLines = {i \in DOMAIN lines : lines[i].name.word = ContentType /\ ~lines[i].name.long}
      BY DEF TypeLines
    <2>6. CASE lines = h /\ (TypesIn(h) # {} \/ res.content_type = 0)
      <3> HIDE DEF h
      <3>1. TypeLines = TypesIn(h)  BY <2>1, <2>4, <2>5, <2>6 DEF TypesIn
      <3> QED  BY <2>2, <2>3, <2>6, <3>1 DEF OneContentType, TypeKept, TypesIn
    <2>7. CASE /\ TypesIn(h) = {} /\ res.content_type # 0
               /\ Len(lines) = Len(h) + 1 /\ DOMAIN lines = 1 .. Len(h) + 1
               /\ \A i \in 1 .. Len(h) : lines[i] = h[i]
               /\ lines[Len(h) + 1] = TypeLine
      <3>0. TypeLine.name.word = ContentType /\ ~TypeLine.name.long
        BY <1>1, LinesAre
      <3> HIDE DEF h, lines
      <3>1. \A i \in 1 .. Len(h) : i \notin TypeLines  BY <2>5, <2>7 DEF TypesIn
      <3>2. Len(h) + 1 \in TypeLines  BY <2>1, <2>5, <2>7, <3>0
      <3>3. TypeLines \subseteq 1 .. Len(h) \cup {Len(h) + 1}
        <4>1. 1 .. Len(h) + 1 = 1 .. Len(h) \cup {Len(h) + 1}  BY <2>1
        <4> QED  BY <2>5, <2>7, <4>1
      <3>4. TypeLines = {Len(h) + 1}  BY <3>1, <3>2, <3>3
      <3>5. CalledTypes = {}  BY <2>2, <2>3, <2>7 DEF TypeKept
      <3> QED  BY <2>7, <3>4, <3>5 DEF OneContentType
    <2> QED  BY <1>1, <2>6, <2>7, LinesAre
  <1> QED  BY <1>1, TableHolds, PTL

-----------------------------------------------------------------------------
(* Folding the lengths of the lines.  FoldLeft goes through the subsets of *)
(* the indices, taking the greatest index off: these are its functions.    *)

Sums(D, L, f) ==
  f = [s \in D |-> IF s = {} THEN 0 ELSE LET x == Max(s) IN f[s \ {x}] + L[x]]
Writes(D, L, f) ==
  f = [s \in D |-> IF s = {} THEN 0 ELSE LET x == Max(s) IN WriteLine(f[s \ {x}], L[x])]

LEMMA Prefix ==
  ASSUME NEW m \in Nat
  PROVE  /\ 1 .. m + 1 # {} /\ Max(1 .. m + 1) = m + 1
         /\ (1 .. m + 1) \ {m + 1} = 1 .. m
         /\ \A s \in SUBSET (1 .. m + 1) :
              /\ m + 1 \in s => s # {} /\ Max(s) = m + 1 /\ s \ {m + 1} \in SUBSET (1 .. m)
              /\ m + 1 \notin s => s \in SUBSET (1 .. m)
         /\ \A s \in SUBSET (1 .. m) : /\ s \in SUBSET (1 .. m + 1) /\ m + 1 \notin s
                                       /\ s \ {Max(s)} \in SUBSET (1 .. m)
  <1>1. 1 .. m + 1 = 1 .. m \cup {m + 1} /\ m + 1 \notin 1 .. m  OBVIOUS
  <1>2. ASSUME NEW s \in SUBSET (1 .. m + 1), m + 1 \in s PROVE Max(s) = m + 1
    <2>1. s \subseteq Nat /\ \A k \in s : k <= m + 1  OBVIOUS
    <2> QED  BY <1>2, <2>1, MaxIs
  <1>3. Max(1 .. m + 1) = m + 1  BY <1>1, <1>2
  <1> QED  BY <1>1, <1>2, <1>3

LEMMA SumsExist ==
  ASSUME NEW L, NEW n \in Nat
  PROVE  \E f : Sums(SUBSET (1 .. n), L, f)
  <1> DEFINE S == {m \in Nat : \E f : Sums(SUBSET (1 .. m), L, f)}
  <1>1. 0 \in S
    <2> DEFINE f == [s \in SUBSET (1 .. 0) |-> 0]
    <2>1. \A s \in SUBSET (1 .. 0) : s = {}  OBVIOUS
    <2>2. Sums(SUBSET (1 .. 0), L, f)  BY <2>1 DEF Sums
    <2> QED  BY <2>2
  <1>2. ASSUME NEW m \in Nat, m \in S PROVE m + 1 \in S
    <2>1. PICK f : Sums(SUBSET (1 .. m), L, f)  BY <1>2
    <2> DEFINE g == [s \in SUBSET (1 .. m + 1) |->
                       IF m + 1 \in s THEN f[s \ {m + 1}] + L[m + 1] ELSE f[s]]
    <2>2. \A s \in SUBSET (1 .. m) : g[s] = f[s]  BY Prefix
    <2>3. ASSUME NEW s \in SUBSET (1 .. m + 1)
          PROVE  g[s] = IF s = {} THEN 0 ELSE LET x == Max(s) IN g[s \ {x}] + L[x]
      <3>1. CASE m + 1 \in s
        <4>1. /\ s # {} /\ Max(s) = m + 1 /\ s \ {m + 1} \in SUBSET (1 .. m)
          BY <3>1, Prefix
        <4>2. g[s] = f[s \ {m + 1}] + L[m + 1]  BY <3>1
        <4>3. g[s \ {m + 1}] = f[s \ {m + 1}]  BY <2>2, <4>1
        <4> HIDE DEF g
        <4> QED  BY <4>1, <4>2, <4>3
      <3>2. CASE m + 1 \notin s
        <4>1. s \in SUBSET (1 .. m) /\ s \ {Max(s)} \in SUBSET (1 .. m)
          BY <3>2, Prefix
        <4>2. f[s] = IF s = {} THEN 0 ELSE LET x == Max(s) IN f[s \ {x}] + L[x]
          BY <2>1, <4>1 DEF Sums
        <4>3. g[s] = f[s] /\ g[s \ {Max(s)}] = f[s \ {Max(s)}]  BY <2>2, <4>1
        <4> HIDE DEF g
        <4> QED  BY <4>2, <4>3
      <3> QED  BY <3>1, <3>2
    <2>4. Sums(SUBSET (1 .. m + 1), L, g)
      <3>1. g = [s \in SUBSET (1 .. m + 1) |-> g[s]]  OBVIOUS
      <3> HIDE DEF g
      <3> QED  BY <2>3, <3>1 DEF Sums
    <2> QED  BY <2>4
  <1> HIDE DEF S
  <1>3. Nat \subseteq S  BY <1>1, <1>2, NatSet
  <1> QED  BY <1>3 DEF S

LEMMA SumIs ==
  ASSUME NEW L, NEW n \in Nat, DOMAIN L = 1 .. n
  PROVE  \E f : Sums(SUBSET (1 .. n), L, f) /\ FoldLeft(+, 0, L) = f[1 .. n]
  <1> DEFINE D == SUBSET (1 .. n)
             f == CHOOSE f : Sums(D, L, f)
  <1>1. Sums(D, L, f)  BY SumsExist
  <1>2. FoldLeft(+, 0, L) = f[1 .. n]
    BY Zenon DEF FoldLeft, MapThenFoldSet, Sums
  <1> QED  BY <1>1, <1>2

LEMMA WritesExist ==
  ASSUME NEW L, NEW n \in Nat
  PROVE  \E f : Writes(SUBSET (1 .. n), L, f)
  <1> DEFINE S == {m \in Nat : \E f : Writes(SUBSET (1 .. m), L, f)}
  <1>1. 0 \in S
    <2> DEFINE f == [s \in SUBSET (1 .. 0) |-> 0]
    <2>1. \A s \in SUBSET (1 .. 0) : s = {}  OBVIOUS
    <2>2. Writes(SUBSET (1 .. 0), L, f)  BY <2>1 DEF Writes
    <2> QED  BY <2>2
  <1>2. ASSUME NEW m \in Nat, m \in S PROVE m + 1 \in S
    <2>1. PICK f : Writes(SUBSET (1 .. m), L, f)  BY <1>2
    <2> DEFINE g == [s \in SUBSET (1 .. m + 1) |->
                       IF m + 1 \in s THEN WriteLine(f[s \ {m + 1}], L[m + 1]) ELSE f[s]]
    <2>2. \A s \in SUBSET (1 .. m) : g[s] = f[s]  BY Prefix
    <2>3. ASSUME NEW s \in SUBSET (1 .. m + 1)
          PROVE  g[s] = IF s = {} THEN 0 ELSE LET x == Max(s) IN WriteLine(g[s \ {x}], L[x])
      <3>1. CASE m + 1 \in s
        <4>1. /\ s # {} /\ Max(s) = m + 1 /\ s \ {m + 1} \in SUBSET (1 .. m)
          BY <3>1, Prefix
        <4>2. g[s] = WriteLine(f[s \ {m + 1}], L[m + 1])  BY <3>1
        <4>3. g[s \ {m + 1}] = f[s \ {m + 1}]  BY <2>2, <4>1
        <4> HIDE DEF g
        <4> QED  BY <4>1, <4>2, <4>3
      <3>2. CASE m + 1 \notin s
        <4>1. s \in SUBSET (1 .. m) /\ s \ {Max(s)} \in SUBSET (1 .. m)
          BY <3>2, Prefix
        <4>2. f[s] = IF s = {} THEN 0 ELSE LET x == Max(s) IN WriteLine(f[s \ {x}], L[x])
          BY <2>1, <4>1 DEF Writes
        <4>3. g[s] = f[s] /\ g[s \ {Max(s)}] = f[s \ {Max(s)}]  BY <2>2, <4>1
        <4> HIDE DEF g
        <4> QED  BY <4>2, <4>3
      <3> QED  BY <3>1, <3>2
    <2>4. Writes(SUBSET (1 .. m + 1), L, g)
      <3>1. g = [s \in SUBSET (1 .. m + 1) |-> g[s]]  OBVIOUS
      <3> HIDE DEF g
      <3> QED  BY <2>3, <3>1 DEF Writes
    <2> QED  BY <2>4
  <1> HIDE DEF S
  <1>3. Nat \subseteq S  BY <1>1, <1>2, NatSet
  <1> QED  BY <1>3 DEF S

LEMMA WriteIs ==
  ASSUME NEW L, NEW n \in Nat, DOMAIN L = 1 .. n
  PROVE  \E f : Writes(SUBSET (1 .. n), L, f) /\ FoldLeft(WriteLine, 0, L) = f[1 .. n]
  <1> DEFINE D == SUBSET (1 .. n)
             f == CHOOSE f : Writes(D, L, f)
  <1>1. Writes(D, L, f)  BY WritesExist
  <1>2. FoldLeft(WriteLine, 0, L) = f[1 .. n]
    BY Zenon DEF FoldLeft, MapThenFoldSet, Writes
  <1> QED  BY <1>1, <1>2

-----------------------------------------------------------------------------
(* The block is written exactly if it leaves room for the zero.            *)

LEMMA LensAre ==
  ASSUME TypeInv
  PROVE  LET L == LineLens(res) IN
         /\ Len(L) \in Nat \ {0} /\ DOMAIN L = 1 .. Len(L)
         /\ \A i \in 1 .. Len(L) : L[i] \in Nat
         /\ L[1] > 0
  <1> DEFINE h == HeaderLines(res)
             M == [i \in DOMAIN h |-> NameLen + h[i].value]
             a == <<StatusLen>>
             b == <<TailLen>>
             N == {[NoName EXCEPT !.word = ContentType, !.capital = TRUE]}
                    \cup {n \in Names : ~n.long}
  <1>1. h \in Seq([name: N, value: Nat])
    BY LinesAre
  <1> HIDE DEF N
  <1>2. DOMAIN h = 1 .. Len(h) /\ Len(h) \in Nat /\ \A i \in 1 .. Len(h) : h[i].value \in Nat
    <2> HIDE DEF h
    <2>1. DOMAIN h = 1 .. Len(h) /\ Len(h) \in Nat  BY <1>1
    <2>2. \A i \in 1 .. Len(h) : h[i].value \in Nat
      <3> TAKE i \in 1 .. Len(h)
      <3> DEFINE R == [name: N, value: Nat]
      <3>1. h \in Seq(R)  BY <1>1
      <3> HIDE DEF R
      <3>2. h[i] \in R  BY <3>1
      <3> USE DEF R
      <3> QED  BY <3>2
    <2> QED  BY <2>1, <2>2
  <1>3. NameLen \in Nat /\ StatusLen \in Nat /\ StatusLen > 0 /\ TailLen \in Nat
    BY ResponseAssumption
  <1>4. M \in Seq(Nat)
    <2> HIDE DEF h
    <2> QED  BY <1>2, <1>3
  <1>5. LineLens(res) = a \o M \o b  BY DEF LineLens
  <1>6. /\ a \in Seq(Nat) /\ Len(a) = 1 /\ a[1] = StatusLen
        /\ b \in Seq(Nat)
    BY <1>3
  <1> HIDE DEF M, a, b
  <1>7. /\ a \o M \in Seq(Nat) /\ Len(a \o M) = Len(a) + Len(M)
        /\ \A i \in 1 .. Len(a) + Len(M) :
             (a \o M)[i] = IF i <= Len(a) THEN a[i] ELSE M[i - Len(a)]
    BY <1>4, <1>6, ConcatProperties
  <1> DEFINE p == a \o M
  <1>8. p \in Seq(Nat) /\ Len(p) \in Nat \ {0} /\ p[1] = StatusLen
    BY <1>4, <1>6, <1>7
  <1>9. LineLens(res) = p \o b  BY <1>5
  <1> HIDE DEF p
  <1>10. /\ p \o b \in Seq(Nat) /\ Len(p \o b) = Len(p) + Len(b)
         /\ \A i \in 1 .. Len(p) + Len(b) : (p \o b)[i] = IF i <= Len(p) THEN p[i] ELSE b[i - Len(p)]
    BY <1>6, <1>8, ConcatProperties
  <1>11. Len(b) \in Nat  BY <1>6
  <1> DEFINE L == p \o b
  <1>12. L \in Seq(Nat) /\ Len(L) \in Nat \ {0} /\ L[1] = StatusLen
    BY <1>8, <1>10, <1>11
  <1> HIDE DEF L
  <1>13. LineLens(res) = L  BY <1>9 DEF L
  <1> QED  BY <1>3, <1>12, <1>13

(* The prefixes: what is written so far is the sum so far, if it fits.     *)
LEMMA WritesAreSums ==
  ASSUME TxSize \in Nat,
         NEW L, NEW n \in Nat \ {0}, \A i \in 1 .. n : L[i] \in Nat, L[1] > 0,
         NEW f, NEW g, Sums(SUBSET (1 .. n), L, f), Writes(SUBSET (1 .. n), L, g)
  PROVE  /\ f[1 .. n] \in Nat
         /\ g[1 .. n] = IF f[1 .. n] < TxSize THEN f[1 .. n] ELSE Failed
  <1> DEFINE Fits(m) == /\ f[1 .. m] \in Nat
                        /\ g[1 .. m] = IF f[1 .. m] < TxSize THEN f[1 .. m] ELSE Failed
             S == {m \in Nat : m + 1 <= n => Fits(m + 1)}
  <1>1. ASSUME NEW m \in Nat, NEW k \in 1 .. n, k = m + 1
        PROVE  f[1 .. k] = f[1 .. m] + L[k] /\ g[1 .. k] = WriteLine(g[1 .. m], L[k])
    <2>1. 1 .. k \in SUBSET (1 .. n)  OBVIOUS
    <2>2. /\ f[1 .. k] = IF 1 .. k = {} THEN 0
                         ELSE LET x == Max(1 .. k) IN f[(1 .. k) \ {x}] + L[x]
          /\ g[1 .. k] = IF 1 .. k = {} THEN 0
                         ELSE LET x == Max(1 .. k) IN WriteLine(g[(1 .. k) \ {x}], L[x])
      BY <2>1 DEF Sums, Writes
    <2>3. 1 .. k # {} /\ Max(1 .. k) = k /\ (1 .. k) \ {k} = 1 .. m
      BY <1>1, Prefix
    <2> QED  BY <2>2, <2>3
  <1>2. f[1 .. 0] = 0 /\ g[1 .. 0] = 0
    <2>1. 1 .. 0 = {} /\ {} \in SUBSET (1 .. n)  OBVIOUS
    <2>2. f[{}] = 0 /\ g[{}] = 0  BY <2>1 DEF Sums, Writes
    <2> QED  BY <2>1, <2>2
  <1>3. 0 \in S
    <2>1. 0 \in Nat /\ 1 \in 1 .. n /\ 1 = 0 + 1 /\ L[1] \in Nat  OBVIOUS
    <2> DEFINE x == f[1 .. 1]
               y == g[1 .. 1]
    <2>2. x = f[1 .. 0] + L[1] /\ y = WriteLine(g[1 .. 0], L[1])  BY <1>1, <2>1
    <2>3. x = L[1] /\ y = WriteLine(0, L[1])  BY <1>2, <2>1, <2>2
    <2> HIDE DEF x, y
    <2>4. x \in Nat /\ y = IF x < TxSize THEN x ELSE Failed
      BY <2>1, <2>3 DEF WriteLine, Failed
    <2>5. Fits(1)  BY <2>4 DEF x, y
    <2> HIDE DEF Fits
    <2>6. Fits(0 + 1)  BY <2>1, <2>5
    <2> QED  BY <2>6
  <1>4. ASSUME NEW m \in Nat, m \in S PROVE m + 1 \in S
    <2> SUFFICES ASSUME (m + 1) + 1 <= n PROVE Fits((m + 1) + 1)
      OBVIOUS
    <2>1. m + 1 \in Nat /\ m + 1 <= n /\ (m + 1) + 1 \in 1 .. n  OBVIOUS
    <2>2. Fits(m + 1)  BY <1>4, <2>1
    <2> DEFINE x == f[1 .. m + 1]
               y == g[1 .. m + 1]
               u == f[1 .. (m + 1) + 1]
               v == g[1 .. (m + 1) + 1]
               k == L[(m + 1) + 1]
    <2>3. u = x + k /\ v = WriteLine(y, k)  BY <1>1, <2>1
    <2>4. k \in Nat /\ x \in Nat /\ y = IF x < TxSize THEN x ELSE Failed
      BY <2>1, <2>2
    <2> HIDE DEF x, y, u, v, k
    <2>5. u \in Nat /\ v = IF u < TxSize THEN u ELSE Failed
      BY <2>3, <2>4 DEF WriteLine, Failed
    <2> QED  BY <2>5 DEF u, v
  <1> HIDE DEF S
  <1>5. Nat \subseteq S  BY <1>3, <1>4, NatSet
  <1>6. n - 1 \in S /\ (n - 1) + 1 = n  BY <1>5
  <1>7. Fits((n - 1) + 1)
    <2> HIDE DEF Fits
    <2> QED  BY <1>6 DEF S
  <1> QED  BY <1>6, <1>7

(* The checks of encode_headers, one for each line, refuse the blocks that *)
(* leave no room for a terminating zero, and no others; the length they    *)
(* return is that of the block.                                            *)
THEOREM EncodesCorrect == ResponseSpec => []EncodesWhatFits
  <1>1. ASSUME TypeInv PROVE EncodesWhatFits
    <2> DEFINE L == LineLens(res)
               n == Len(L)
    <2>1. /\ n \in Nat \ {0} /\ DOMAIN L = 1 .. n
          /\ \A i \in 1 .. n : L[i] \in Nat
          /\ L[1] > 0
      BY <1>1, LensAre
    <2>2. encode_headers(res) = FoldLeft(WriteLine, 0, L)  BY DEF encode_headers
    <2> HIDE DEF L, n
    <2>3. PICK f : Sums(SUBSET (1 .. n), L, f) /\ FoldLeft(+, 0, L) = f[1 .. n]
      BY <2>1, SumIs
    <2>4. PICK g : Writes(SUBSET (1 .. n), L, g) /\ FoldLeft(WriteLine, 0, L) = g[1 .. n]
      BY <2>1, WriteIs
    <2>5. TxSize \in Nat  BY ResponseAssumption
    <2>6. g[1 .. n] = IF f[1 .. n] < TxSize THEN f[1 .. n] ELSE Failed
      BY <2>1, <2>3, <2>4, <2>5, WritesAreSums
    <2>7. FoldLeft(WriteLine, 0, L) = IF FoldLeft(+, 0, L) < TxSize THEN FoldLeft(+, 0, L) ELSE Failed
      BY <2>3, <2>4, <2>6
    <2> QED  BY <2>2, <2>7 DEF EncodesWhatFits, L
  <1> QED  BY <1>1, TypeHolds, PTL
=============================================================================
