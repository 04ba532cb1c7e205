---------------------------- MODULE HttpResponse ----------------------------
(***************************************************************************)
(* The response a handler builds (http_response.cpp), and the header block *)
(* the engine makes of it (HttpEngine::encode_headers).                    *)
(*                                                                         *)
(* A header name is a word, written with capitals or not, and long if it   *)
(* does not fit header_names_[]: a long name is stored as the word that is *)
(* left of it, which is another name.  A value, and a content type, is its *)
(* length; 0 is the empty one.  A line of the block is as long as its      *)
(* value and NameLen more characters.                                      *)
(***************************************************************************)
EXTENDS Integers, SequencesExt

CONSTANTS
  Words,                       (* Names of headers, in small letters.      *)
  ContentType,                 (* One of them.                             *)
  LongNames,                   (* Do handlers use names beyond the limit?  *)
  HTTP_RESP_HEADER_MAX,
  HTTP_RESP_HEADER_VALUE_MAX,
  ValueLens, BodyLens,         (* Lengths of values and bodies.            *)
  TxSize,                      (* HTTP_RESPONSE_BUFFER_SIZE.               *)
  NameLen, StatusLen, TailLen, (* Lengths of what each block contains: see *)
                               (* above; status line; Content-Length and   *)
                               (* Connection lines with the blank one.     *)
  MaxCalls                     (* Bound: headers accepted by set_header.   *)

ASSUME ResponseAssumption ==
  /\ ContentType \in Words
  /\ LongNames \in BOOLEAN
  /\ {HTTP_RESP_HEADER_MAX, HTTP_RESP_HEADER_VALUE_MAX, TxSize, MaxCalls} \subseteq Nat
  /\ ValueLens \cup BodyLens \subseteq Nat
  /\ {NameLen, StatusLen, TailLen} \subseteq Nat \ {0}

VARIABLES
  res,    (* the HttpResponse                                              *)
  err,    (* what the last call returned                                   *)
  calls   (* history: the headers set_header accepted                      *)

response_vars == <<res, err, calls>>

Names == {n \in [word: Words, capital: BOOLEAN, long: BOOLEAN] :
            n.long => LongNames /\ n.word # ContentType}
NoName == [word |-> "", capital |-> FALSE, long |-> FALSE]
Kinds == {"NONE", "RAM", "PROGMEM", "CALLBACK"}

MinOf(a, b) == IF a < b THEN a ELSE b
CutName(n) == [n EXCEPT !.long = FALSE]
CutValue(v) == MinOf(v, HTTP_RESP_HEADER_VALUE_MAX)

http_str_case_equal(a, b) == a.word = b.word /\ a.long = b.long

-----------------------------------------------------------------------------
(* Headers and status.                                                     *)

(* Mutant: the status of a response that was sent may change.              *)
StatusAnyTime(status) == [res EXCEPT !.status = status]
WithStatus(status) == IF res.sent THEN res ELSE [res EXCEPT !.status = status]

SetStatus(status) == res' = WithStatus(status) /\ UNCHANGED <<err, calls>>

(* Mutant: the letters of names are compared as they are.                  *)
find_header_exact(name) == SelectInSeq(res.headers, LAMBDA h : h.name = name)

(* The index of the header a name is found under; 0 if none.               *)
find_header(name) ==
  SelectInSeq(res.headers, LAMBDA h : http_str_case_equal(h.name, name))

TableFull == Len(res.headers) >= HTTP_RESP_HEADER_MAX

SetHeaderErr(name) ==
  IF res.sent THEN "ALREADY_SENT"
  ELSE IF name = NoName THEN "INVALID_ARG"
  ELSE IF find_header(name) = 0 /\ TableFull THEN "HEADER_FULL"
  ELSE "OK"

(* set_header; set_content_type is set_header("Content-Type", value).      *)
SetHeader(name, value) ==
  LET stored == [name |-> CutName(name), value |-> CutValue(value)]
      at == find_header(name)
  IN /\ Len(calls) < MaxCalls
     /\ err' = SetHeaderErr(name)
     /\ IF err' # "OK" THEN UNCHANGED <<res, calls>>
        ELSE /\ res' = [res EXCEPT !.headers = IF at = 0 THEN Append(@, stored)
                                               ELSE [@ EXCEPT ![at] = stored]]
             /\ calls' = Append(calls, [name |-> name, value |-> value])

-----------------------------------------------------------------------------
(* Sending.                                                                *)

(* Mutant: a null source is accepted for any body.                         *)
FinalizeErrTrusting(len, null) == IF res.sent THEN "ALREADY_SENT" ELSE "OK"

FinalizeErr(len, null) == IF res.sent THEN "ALREADY_SENT"
                          ELSE IF null /\ len # 0 THEN "INVALID_ARG" ELSE "OK"

finalize_descriptor(kind, len, null, type, status) ==
  /\ err' = FinalizeErr(len, null)
  /\ res' = IF err' # "OK" THEN res
            ELSE [res EXCEPT !.sent = TRUE, !.kind = kind, !.body_len = len,
                             !.null = null, !.content_type = CutValue(type),
                             !.status = status]
  /\ UNCHANGED calls

(* send(data), send_progmem and send_stream take any type; send_json and   *)
(* send_html bring one, and read a null text as an empty body.             *)
Send(kind, len, null, type) == finalize_descriptor(kind, len, null, type, res.status)

(* send(text) and send_html_progmem look at their pointer first of all.    *)
SendText(kind, len, null, type) ==
  IF null THEN err' = "INVALID_ARG" /\ UNCHANGED <<res, calls>>
          ELSE Send(kind, len, FALSE, type)

End(status) == finalize_descriptor("NONE", 0, TRUE, 0, status)

-----------------------------------------------------------------------------
(* encode_headers: each line is written only if it leaves room for the     *)
(* terminating zero; the result is the length of the block, or Failed.     *)

Failed == -1

(* Mutant: only a Content-Type in its usual capitals is recognised.        *)
HasContentTypeExact(r) ==
  \E i \in DOMAIN r.headers :
    r.headers[i].name = [CutName(NoName) EXCEPT !.word = ContentType, !.capital = TRUE]

HasContentType(r) ==
  \E i \in DOMAIN r.headers :
    http_str_case_equal(r.headers[i].name, [CutName(NoName) EXCEPT !.word = ContentType])

(* The header lines between the status line and Content-Length.            *)
HeaderLines(r) ==
  r.headers \o IF HasContentType(r) \/ r.content_type = 0 THEN <<>>
               ELSE <<[name |-> [NoName EXCEPT !.word = ContentType, !.capital = TRUE],
                       value |-> r.content_type]>>

LineLens(r) ==
  <<StatusLen>> \o [i \in DOMAIN HeaderLines(r) |-> NameLen + HeaderLines(r)[i].value]
                \o <<TailLen>>

(* Mutant: a line may fill tx to its last byte.                            *)
WriteLineFull(n, len) == IF n = Failed \/ len > TxSize - n THEN Failed ELSE n + len
WriteLine(n, len) == IF n = Failed \/ len >= TxSize - n THEN Failed ELSE n + len

encode_headers(r) == FoldLeft(WriteLine, 0, LineLens(r))

-----------------------------------------------------------------------------
ResponseInit ==
  /\ res = [status |-> 200, sent |-> FALSE, headers |-> <<>>, content_type |-> 0,
            kind |-> "NONE", body_len |-> 0, null |-> TRUE]
  /\ err = "OK"
  /\ calls = <<>>

ResponseNext ==
  \/ SetStatus(404) \/ End(204)
  \/ \E name \in Names \cup {NoName}, value \in ValueLens : SetHeader(name, value)
  \/ \E len \in BodyLens, null \in BOOLEAN, type \in ValueLens :
       \/ \E kind \in Kinds \ {"NONE"} : Send(kind, len, null, type)
       \/ \E kind \in {"RAM", "PROGMEM"} : SendText(kind, len, null, type)

ResponseSpec == ResponseInit /\ [][ResponseNext]_response_vars

-----------------------------------------------------------------------------
(* Properties.                                                             *)

ResponseTypeOK ==
  /\ res.status \in Nat /\ res.sent \in BOOLEAN
  /\ Len(res.headers) <= HTTP_RESP_HEADER_MAX
  /\ \A i \in DOMAIN res.headers :
       res.headers[i] \in [name: Names, value: 0 .. HTTP_RESP_HEADER_VALUE_MAX]
  /\ res.content_type \in 0 .. HTTP_RESP_HEADER_VALUE_MAX
  /\ res.kind \in Kinds /\ res.body_len \in BodyLens \cup {0} /\ res.null \in BOOLEAN
  /\ err \in {"OK", "INVALID_ARG", "HEADER_FULL", "ALREADY_SENT"}

(* What the handler set is what is sent: each name once, whatever its      *)
(* capitals, in the order of its first use and with its last value.  Long  *)
(* names are stored cut, never found again, and add an entry each time;    *)
(* even so the last value set under a stored name is never lost.  The      *)
(* table is never fuller than its arrays.                                  *)
SameName(j, k) == http_str_case_equal(CutName(calls[j].name), CutName(calls[k].name))
FirstUses == {k \in DOMAIN calls : \A j \in 1 .. k - 1 : ~SameName(j, k)}
Rank(k) == Cardinality({j \in FirstUses : j <= k})
LastUse(k) == Max({j \in DOMAIN calls : SameName(j, k)})
StoredBy(k) == [name |-> CutName(calls[k].name), value |-> CutValue(calls[k].value)]
HeadersAsSet ==
  /\ Len(res.headers) <= HTTP_RESP_HEADER_MAX
  /\ (\A k \in DOMAIN calls : ~calls[k].name.long) =>
       /\ Len(res.headers) = Cardinality(FirstUses)
       /\ \A k \in FirstUses : res.headers[Rank(k)] = StoredBy(LastUse(k))
  /\ \A k \in DOMAIN calls : StoredBy(LastUse(k)) \in ToSet(res.headers)

(* Once sent, a response is final: no later call changes the status, the   *)
(* headers or the body of which the engine has announced the length.       *)
SentIsFinal == [][res.sent => res' = res]_response_vars

(* What the engine streams exists: a body that is not empty has a source   *)
(* (HttpEngine reads it without asking again).                             *)
BodyHasSource == res.sent /\ res.body_len > 0 => res.kind # "NONE" /\ ~res.null

(* The piecewise checks of encode_headers refuse exactly the blocks that   *)
(* leave no room for a terminating zero, and get the length right.         *)
EncodesWhatFits ==
  LET total == FoldLeft(+, 0, LineLens(res))
  IN encode_headers(res) = IF total < TxSize THEN total ELSE Failed

(* A block has at most one Content-Type: the handler's own, if it set one, *)
(* in whatever capitals, and otherwise the one of the send function.       *)
TypeLines == {i \in DOMAIN HeaderLines(res) : HeaderLines(res)[i].name.word = ContentType
                                               /\ ~HeaderLines(res)[i].name.long}
CalledTypes == {i \in DOMAIN calls : calls[i].name.word = ContentType}
OneContentType ==
  /\ \A i, j \in TypeLines : i = j
  /\ TypeLines = {} <=> CalledTypes = {} /\ res.content_type = 0
  /\ \A i \in TypeLines : CalledTypes # {} =>
       HeaderLines(res)[i].value = CutValue(calls[Max(CalledTypes)].value)
==============================================================================
