---------------------------- MODULE HttpRequest ----------------------------
(***************************************************************************)
(* param() and form_param() of http_request.cpp, and http_url_decode.cpp,  *)
(* which they end in: one call, from any query or body, a step for each    *)
(* pair that is looked at and for each character that is decoded.          *)
(*                                                                         *)
(* Texts are sequences of the characters the code tells apart: those of    *)
(* the syntax, the NUL a body may contain, hexadecimal digits and others.  *)
(***************************************************************************)
EXTENDS Integers, SequencesExt

CONSTANTS
  Digits, Letters,  (* Hexadecimal digits; letters that are none.          *)
  ParamNames,       (* Names looked for.                                   *)
  OutLens,          (* Sizes of the caller's buffer.                       *)
  MaxText           (* Bound: length of the query or the body.             *)

ASSUME RequestAssumption == OutLens \subseteq Nat /\ MaxText \in Nat

TextChars == Digits \cup Letters \cup {"+", "%", "=", "&", "NUL"}
Texts == BoundedSeq(TextChars, MaxText)
(* The values of the request's Content-Type headers, in order.             *)
ContentTypes == {<<>>, <<"form">>, <<"form", "other">>, <<"other", "form">>}

(* A query is a C string; a body has any bytes.                            *)
Calls ==
  [function: {"param"}, text: {t \in Texts : ~Contains(t, "NUL")},
   content_types: {<<>>}, name: ParamNames, out_len: OutLens]
  \cup
  [function: {"form_param"}, text: Texts,
   content_types: ContentTypes, name: ParamNames, out_len: OutLens]

VARIABLES
  call,     (* the function called and its arguments                       *)
  pc,       (* "start", the loop it is in, or "done"                       *)
  pos,      (* position in the text                                        *)
  val_end,  (* end of the value found: the position after its last         *)
  out,      (* what was written to the buffer, a byte to an element        *)
  result    (* what the call returned                                      *)

request_vars == <<call, pc, pos, val_end, out, result>>

text == call.text
Return(value) == pc' = "done" /\ result' = value

-----------------------------------------------------------------------------
(* header: the first of several headers of a name.                         *)
HasFormType == call.content_types # <<>> /\ Head(call.content_types) = "form"

Start ==
  /\ pc = "start"
  /\ IF \/ call.out_len = 0
        \/ call.function = "form_param" /\ (~HasFormType \/ text = <<>>)
     THEN Return(FALSE)
     ELSE pc' = "pair" /\ UNCHANGED result
  /\ UNCHANGED <<call, pos, val_end, out>>

-----------------------------------------------------------------------------
(* find_urlencoded_param: one pair.                                        *)

(* Where a scan from p that stops at any of the characters of stops ends.  *)
Scan(p, stops) == Min({Len(text) + 1} \cup {k \in p .. Len(text) : text[k] \in stops})

KeyEnd == Scan(pos, {"=", "&", "NUL"})
HasValue == KeyEnd <= Len(text) /\ text[KeyEnd] = "="
ValueStart == IF HasValue THEN KeyEnd + 1 ELSE KeyEnd
ValueEnd == IF HasValue THEN Scan(KeyEnd + 1, {"&", "NUL"}) ELSE KeyEnd

(* Mutant: a key that begins with the name will do.                        *)
IsNamedPrefix == IsPrefix(call.name, SubSeq(text, pos, KeyEnd - 1))
IsNamed == SubSeq(text, pos, KeyEnd - 1) = call.name

(* Mutant: the scan goes on at the separator, not behind it.               *)
NextPairStuck == ValueEnd
NextPair == ValueEnd + 1

Pair ==
  /\ pc = "pair"
  /\ IF IsNamed
     THEN /\ pc' = "decode"
          /\ pos' = ValueStart
          /\ val_end' = ValueEnd
          /\ UNCHANGED result
     ELSE /\ UNCHANGED val_end
          /\ IF ValueEnd > Len(text) \/ text[ValueEnd] = "NUL"
             THEN Return(FALSE) /\ UNCHANGED pos
             ELSE pos' = NextPair /\ UNCHANGED <<pc, result>>
  /\ UNCHANGED <<call, out>>

-----------------------------------------------------------------------------
(* http_url_decode: one character or escape.                               *)

Write(byte, width) == /\ out' = Append(out, byte)
                      /\ pos' = pos + width
                      /\ UNCHANGED <<pc, result>>
Fail == Return(FALSE) /\ UNCHANGED <<out, pos>>

(* Mutant: the buffer is filled to its last byte.                          *)
BufferFullLate == Len(out) >= call.out_len
BufferFull == Len(out) + 1 >= call.out_len
HasHexValue(c) == c \in Digits
(* The value holds no NUL: the scan has stopped there.                     *)
IsEscape == pos + 2 < val_end /\ \A k \in {1, 2} : HasHexValue(text[pos + k])

Decode ==
  /\ pc = "decode"
  /\ IF pos >= val_end THEN Return(TRUE) /\ UNCHANGED <<out, pos>>
     ELSE IF BufferFull THEN Fail
     ELSE IF text[pos] = "+" THEN Write(<<" ">>, 1)
     ELSE IF text[pos] # "%" THEN Write(<<text[pos]>>, 1)
     ELSE IF IsEscape THEN Write(<<text[pos + 1], text[pos + 2]>>, 3)
     ELSE Fail
  /\ UNCHANGED <<call, val_end>>

-----------------------------------------------------------------------------
RequestInit ==
  /\ call \in Calls
  /\ pc = "start"
  /\ pos = 1
  /\ val_end = 0
  /\ out = <<>>
  /\ result = FALSE

RequestNext == Start \/ Pair \/ Decode

RequestSpec == RequestInit /\ [][RequestNext]_request_vars /\ WF_request_vars(RequestNext)

-----------------------------------------------------------------------------
(* What a parameter is, without loops or buffers.                          *)

(* The text up to its NUL, cut at each "&".                                *)
Line == SubSeq(text, 1, Scan(1, {"NUL"}) - 1)
PairStarts == {1} \cup {k + 1 : k \in {k \in DOMAIN Line : Line[k] = "&"}}
PairAt(s) == SubSeq(Line, s, Min({Len(Line) + 1} \cup
                                 {k \in s .. Len(Line) : Line[k] = "&"}) - 1)
Equals(p) == Min({Len(p) + 1} \cup {k \in DOMAIN p : p[k] = "="})
Key(p) == SubSeq(p, 1, Equals(p) - 1)
Value(p) == SubSeq(p, Equals(p) + 1, Len(p))
Named == {s \in PairStarts : Key(PairAt(s)) = call.name}

(* The positions in v at which a byte of the result begins.                *)
Begins(v) ==
  LET b[k \in DOMAIN v] == \/ k = 1
                           \/ k > 1 /\ b[k - 1] /\ v[k - 1] # "%"
                           \/ k > 3 /\ b[k - 3] /\ v[k - 3] = "%"
  IN {k \in DOMAIN v : b[k]}
ByteAt(v, k) == CASE v[k] = "+" -> <<" ">>
                  [] v[k] = "%" -> SubSeq(v, k + 1, Min({k + 2, Len(v)}))
                  [] OTHER -> <<v[k]>>
WellFormed(v) == \A k \in Begins(v) :
                   v[k] = "%" => Len(ByteAt(v, k)) = 2 /\ ToSet(ByteAt(v, k)) \subseteq Digits
(* The n-th of a set of positions.                                         *)
Nth(S, n) == CHOOSE k \in S : Cardinality({j \in S : j < k}) + 1 = n
Bytes(v) == [n \in 1 .. Cardinality(Begins(v)) |-> ByteAt(v, Nth(Begins(v), n))]

(* docs/functions.md:66,69: the call finds the first pair of that name, in *)
(* a body only if the request says it is a form, and decodes its value, if *)
(* that is well formed and fits with its terminating zero; nothing else is *)
(* written, and no later pair of the name makes up for a bad one.          *)
Readable == call.function = "param" \/ (HasFormType /\ text # <<>>)
FindsAndDecodes ==
  pc = "done" =>
    LET value == Value(PairAt(Min(Named)))
        found == Readable /\ Named # {} /\ WellFormed(value)
                   /\ Len(Bytes(value)) < call.out_len
    IN result = found /\ (result => out = Bytes(value))

(* There is always room for the terminating zero: at no moment is the last *)
(* byte of the caller's buffer written.                                    *)
RoomForZero == out # <<>> => Len(out) < call.out_len

(* Every call returns.                                                     *)
Returns == <>(pc = "done")
=============================================================================
