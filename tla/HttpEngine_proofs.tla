-------------------------- MODULE HttpEngine_proofs --------------------------
(***************************************************************************)
(* Proofs about HttpEngine, for every size of the table and of tx, every   *)
(* set of connections and files and every length of headers and bodies.    *)
(***************************************************************************)
EXTENDS HttpEngine, TLAPS

-----------------------------------------------------------------------------
(* What each operation makes of the record of one slot.                    *)

(* A response that is started is at the beginning of its stream.           *)
LEMMA StartResponseStream ==
  ASSUME NEW r \in SlotType, NEW hdr \in Nat \ {0}, Encodable(hdr),
         NEW src \in Sources, NEW len \in Nat
  PROVE  /\ StartResponse(r, hdr, src, len) \in SlotType
         /\ StreamInv(StartResponse(r, hdr, src, len))
<1>1. StartResponse(r, hdr, src, len) \in SlotType
  <2>1. hdr \in 0 .. TxSize
    BY ConstantsAssumption DEF Encodable
  <2> QED BY <2>1 DEF StartResponse, SlotType, SendPhases
<1>2. StreamInv(StartResponse(r, hdr, src, len))
  BY DEF StartResponse, SlotType, StreamInv, IdleInv, HeadersInv, BodyInv,
         DoneInv, ErrorInv
<1> QED BY <1>1, <1>2

(* The same for a response from a file.                                    *)
LEMMA StartStaticStream ==
  ASSUME NEW r \in SlotType, NEW hdr \in Nat \ {0}, Encodable(hdr),
         NEW len \in Nat, NEW h \in Handles
  PROVE  /\ StartStaticResponse(r, hdr, len, h) \in SlotType
         /\ StreamInv(StartStaticResponse(r, hdr, len, h))
<1>1. StartStaticResponse(r, hdr, len, h) \in SlotType
  <2>1. hdr \in 0 .. TxSize
    BY ConstantsAssumption DEF Encodable
  <2> QED BY <2>1
          DEF StartStaticResponse, StartResponse, SlotType, SendPhases, Sources
<1>2. StreamInv(StartStaticResponse(r, hdr, len, h))
  BY DEF StartStaticResponse, StartResponse, SlotType, StreamInv, IdleInv,
         HeadersInv, BodyInv, DoneInv, ErrorInv
<1> QED BY <1>1, <1>2

(* Filling the empty buffer of a slot keeps its place in the stream.       *)
LEMMA FilledStream ==
  ASSUME NEW r \in SlotType, StreamInv(r), NeedsBody(r), NEW got \in Reads(r)
  PROVE  /\ Filled(r, got) \in SlotType
         /\ StreamInv(Filled(r, got))
<1>1. /\ r.send_phase = "BODY"
      /\ r.tx_len = 0
      /\ r.body_sent < r.body_len
  BY DEF StreamInv, HeadersInv, BodyInv, NeedsBody
<1>2. TxSize \in Nat \ {0}
  BY ConstantsAssumption, ErrorFitsAssumption
<1>3. /\ Chunk(r) \in Nat \ {0}
      /\ Chunk(r) <= TxSize
      /\ r.body_sent + Chunk(r) <= r.body_len
  BY <1>1, <1>2 DEF Chunk, MinOf, SlotType
<1>4. CASE got \in 1 .. Chunk(r)
  <2>1. Filled(r, got) = Loaded(r, got)
    BY <1>3, <1>4 DEF Filled
  <2>2. got \in Nat \ {0} /\ got <= Chunk(r)
    BY <1>3, <1>4
  <2>3. ReadOffset(r) \in Nat
    BY DEF ReadOffset, SlotType
  <2>4. Loaded(r, got) \in SlotType
    <3>1. /\ r.hdr_len + ReadOffset(r) \in Nat
          /\ r.file_pos + got \in Nat
          /\ got \in 0 .. TxSize
          /\ r.file_pos \in Nat
      BY <1>2, <1>3, <2>2, <2>3 DEF SlotType
    <3> DEFINE pos == IF r.body_src = "NONE" THEN r.file_pos + got
                                             ELSE r.file_pos
    <3>2. pos \in Nat
      BY <3>1
    <3>3. Loaded(r, got) = [r EXCEPT !.send_phase = "BODY", !.tx_len = got,
                                     !.tx_pos = r.hdr_len + ReadOffset(r),
                                     !.file_pos = pos]
      BY DEF Loaded
    <3> HIDE DEF pos
    <3> QED BY <3>1, <3>2, <3>3 DEF SlotType, SendPhases
  <2>5. StreamInv(Loaded(r, got))
    BY <1>1, <1>2, <1>3, <2>2, <2>3
    DEF Loaded, ReadOffset, SlotType, StreamInv, IdleInv, HeadersInv, BodyInv,
        DoneInv, ErrorInv
  <2> QED BY <2>1, <2>4, <2>5
<1>5. CASE got \notin 1 .. Chunk(r)
  <2>1. Filled(r, got) = ReadFailed(r)
    BY <1>3, <1>5 DEF Filled
  <2>2. ReadFailed(r) \in SlotType
    BY DEF ReadFailed, SlotType, SendPhases
  <2>3. StreamInv(ReadFailed(r))
    BY <1>1 DEF ReadFailed, SlotType, StreamInv, IdleInv, HeadersInv, BodyInv,
                DoneInv, ErrorInv
  <2> QED BY <2>1, <2>2, <2>3
<1> QED BY <1>4, <1>5

(* So does a send the transport accepts in part ...                        *)
LEMMA PartlySentStream ==
  ASSUME NEW r \in SlotType, StreamInv(r), NEW n \in 1 .. r.tx_len, n < r.tx_len
  PROVE  /\ PartlySent(r, n) \in SlotType
         /\ StreamInv(PartlySent(r, n))
<1>1. n \in Nat \ {0} /\ r.tx_len \in Nat /\ r.tx_len - n \in Nat \ {0}
  BY ConstantsAssumption DEF SlotType
<1>2. PartlySent(r, n) \in SlotType
  <2>1. r.tx_len - n \in 0 .. TxSize /\ r.tx_pos + n \in Nat /\ r.wire + n \in Nat
    BY <1>1, ConstantsAssumption DEF SlotType
  <2> QED BY <2>1 DEF PartlySent, SlotType
<1> DEFINE q == PartlySent(r, n)
<1>3. /\ q.tx_len = r.tx_len - n
      /\ q.tx_pos = r.tx_pos + n
      /\ q.wire = r.wire + n
      /\ q.split = IF r.send_phase = "BODY" THEN TRUE ELSE r.split
      /\ q.send_phase = r.send_phase
      /\ q.hdr_len = r.hdr_len
      /\ q.body_len = r.body_len
      /\ q.body_sent = r.body_sent
      /\ q.file_pos = r.file_pos
  BY DEF PartlySent, SlotType
<1>4. /\ r.wire \in Nat
      /\ r.hdr_len \in Nat
      /\ r.body_len \in Nat
      /\ r.body_sent \in Nat
      /\ r.send_phase \in SendPhases
      /\ r.split \in BOOLEAN
      /\ TxSize \in Nat
  BY ConstantsAssumption DEF SlotType
<1> HIDE DEF q
<1>5. IdleInv(q) /\ ErrorInv(q)
  BY <1>1, <1>3 DEF StreamInv, IdleInv, ErrorInv
<1>6. HeadersInv(q)
  BY <1>1, <1>3, <1>4 DEF StreamInv, HeadersInv
<1>7. BodyInv(q)
  BY <1>1, <1>3, <1>4 DEF StreamInv, BodyInv
<1>8. DoneInv(q)
  BY <1>1, <1>3, <1>4 DEF StreamInv, DoneInv
<1> QED BY <1>2, <1>5, <1>6, <1>7, <1>8 DEF StreamInv, q

(* ... and one it accepts to the end of the buffer.                        *)
LEMMA AllSentStream ==
  ASSUME NEW r \in SlotType, StreamInv(r), r.tx_len > 0
  PROVE  /\ AllSent(r) \in SlotType
         /\ StreamInv(AllSent(r))
<1>1. /\ r.wire \in Nat
      /\ r.tx_pos \in Nat
      /\ r.tx_len \in Nat \ {0}
      /\ r.hdr_len \in Nat
      /\ r.body_len \in Nat
      /\ r.body_sent \in Nat
      /\ r.send_phase \in SendPhases
      /\ r.static_handle \in Handles \cup {NoHandle}
      /\ r.split \in BOOLEAN
      /\ TxSize \in Nat
  BY ConstantsAssumption DEF SlotType
<1> DEFINE sent == BodySentAfter(r)
           phase == IF r.send_phase \notin {"HEADERS", "BODY"} THEN r.send_phase
                    ELSE IF sent >= r.body_len THEN "DONE" ELSE "BODY"
           handle == IF BodyFinished(r) THEN NoHandle ELSE r.static_handle
           q == AllSent(r)
<1>2. sent \in Nat
  BY <1>1 DEF BodySentAfter
<1>3. q = [r EXCEPT !.tx_len = 0, !.tx_pos = r.tx_pos + r.tx_len,
                    !.wire = r.wire + r.tx_len, !.body_sent = sent,
                    !.send_phase = phase, !.static_handle = handle]
  BY DEF AllSent
<1>4. phase \in SendPhases
  BY <1>1 DEF SendPhases
<1>5. handle \in Handles \cup {NoHandle}
  BY <1>1
<1>6. /\ r.tx_pos + r.tx_len \in Nat
      /\ r.wire + r.tx_len \in Nat
      /\ 0 \in 0 .. TxSize
  BY <1>1
<1>7. /\ q.tx_len = 0
      /\ q.wire = r.wire + r.tx_len
      /\ q.split = r.split
      /\ q.send_phase = phase
      /\ q.hdr_len = r.hdr_len
      /\ q.body_len = r.body_len
      /\ q.body_sent = sent
      /\ q.body_src = r.body_src
      /\ q.file_pos = r.file_pos
  <2> HIDE DEF sent, phase, handle, q
  <2> QED BY <1>3 DEF SlotType
<1>8. q \in SlotType
  <2> HIDE DEF sent, phase, handle, q
  <2> QED BY <1>2, <1>3, <1>4, <1>5, <1>6 DEF SlotType
<1>. SUFFICES StreamInv(q)
  BY <1>8
<1> HIDE DEF q
<1>9. CASE r.send_phase = "HEADERS"
  <2>1. sent = 0 /\ phase = IF r.body_len = 0 THEN "DONE" ELSE "BODY"
    BY <1>1, <1>9 DEF BodySentAfter, StreamInv, HeadersInv
  <2> HIDE DEF sent, phase
  <2> QED BY <1>1, <1>7, <1>9, <2>1
          DEF StreamInv, IdleInv, HeadersInv, BodyInv, DoneInv, ErrorInv
<1>10. CASE r.send_phase = "BODY"
  <2>1. /\ sent = r.body_sent + r.tx_len
        /\ sent <= r.body_len
        /\ phase = IF sent = r.body_len THEN "DONE" ELSE "BODY"
    BY <1>1, <1>10 DEF BodySentAfter, StreamInv, BodyInv
  <2> HIDE DEF sent, phase
  <2> QED BY <1>1, <1>7, <1>10, <2>1
          DEF StreamInv, IdleInv, HeadersInv, BodyInv, DoneInv, ErrorInv
<1>11. CASE r.send_phase = "DONE"
  <2>1. phase = "DONE"
    BY <1>11
  <2> HIDE DEF sent, phase
  <2> QED BY <1>1, <1>7, <1>11, <2>1
          DEF StreamInv, IdleInv, HeadersInv, BodyInv, DoneInv, ErrorInv
<1>12. CASE r.send_phase \in {"IDLE", "ERROR"}
  BY <1>1, <1>12 DEF StreamInv, IdleInv, ErrorInv
<1> QED BY <1>1, <1>9, <1>10, <1>11, <1>12 DEF SendPhases

-----------------------------------------------------------------------------
(* Types and streams, one lemma for each operation of the engine.          *)

(* Init and Next keep the types and the stream of every slot.              *)
StreamsOK == TypeOK /\ StreamsInvariant

(* An operation touches one slot: the others stay as they were.            *)
LEMMA OneSlotStream ==
  ASSUME StreamsOK, NEW s \in Slots, NEW r \in SlotType, StreamInv(r),
         slots' = [slots EXCEPT ![s] = r],
         open_handles' \in SUBSET Handles, orphaned' \in SUBSET Handles
  PROVE  StreamsOK'
<1>1. slots' \in [Slots -> SlotType]
  BY DEF StreamsOK, TypeOK
<1>2. \A t \in Slots : StreamInv(slots'[t])
  BY DEF StreamsOK, TypeOK, StreamsInvariant
<1> QED BY <1>1, <1>2 DEF StreamsOK, TypeOK, StreamsInvariant, StreamInv, IdleInv,
                          HeadersInv, BodyInv, DoneInv, ErrorInv

(* A blank slot has nothing to send, and neither has one just allocated.   *)
LEMMA EmptyStream == EmptySlot \in SlotType /\ StreamInv(EmptySlot)
<1>1. 0 \in 0 .. TxSize
  BY ConstantsAssumption
<1>2. EmptySlot \in SlotType
  BY <1>1 DEF EmptySlot, SlotType, ParserStates, ReadingStates, SendPhases, Sources
<1>3. EmptySlot.send_phase = "IDLE" /\ EmptySlot.tx_len = 0
  BY DEF EmptySlot
<1> QED BY <1>2, <1>3 DEF StreamInv, IdleInv, HeadersInv, BodyInv, DoneInv, ErrorInv

LEMMA BlankStream ==
  ASSUME NEW u \in BOOLEAN, NEW c \in Conns \cup {NoConn}
  PROVE  LET r == [EmptySlot EXCEPT !.used = u, !.conn = c]
         IN  r \in SlotType /\ StreamInv(r)
<1> DEFINE r == [EmptySlot EXCEPT !.used = u, !.conn = c]
<1>1. r \in SlotType
  BY EmptyStream DEF SlotType
<1>2. r.send_phase = "IDLE" /\ r.tx_len = 0
  BY DEF EmptySlot
<1>3. StreamInv(r)
  <2> HIDE DEF r
  <2> QED BY <1>2 DEF StreamInv, IdleInv, HeadersInv, BodyInv, DoneInv, ErrorInv
<1> QED BY <1>1, <1>3

LEMMA InitStream == Init => StreamsOK
BY EmptyStream DEF Init, StreamsOK, TypeOK, StreamsInvariant

LEMMA AllocStream ==
  ASSUME StreamsOK, NEW s \in Slots, NEW c \in Conns, AllocSlot(s, c)
  PROVE  StreamsOK'
<1> DEFINE r == [EmptySlot EXCEPT !.used = TRUE, !.conn = c]
<1>1. r \in SlotType /\ StreamInv(r)
  BY BlankStream
<1>2. slots' = [slots EXCEPT ![s] = r]
  BY DEF AllocSlot
<1>3. open_handles' \in SUBSET Handles /\ orphaned' \in SUBSET Handles
  BY DEF AllocSlot, StreamsOK, TypeOK
<1> HIDE DEF r
<1> QED BY <1>1, <1>2, <1>3, OneSlotStream

LEMMA ReleaseStream ==
  ASSUME StreamsOK, NEW s \in Slots, ReleaseSlot(s)
  PROVE  StreamsOK'
<1>1. open_handles' \in SUBSET Handles /\ orphaned' \in SUBSET Handles
  BY DEF ReleaseSlot, StreamsOK, TypeOK
<1> QED BY <1>1, EmptyStream, OneSlotStream DEF ReleaseSlot

LEMMA ResetStream == ASSUME StreamsOK, Reset PROVE StreamsOK'
<1>1. HeldHandles \subseteq Handles
  BY DEF HeldHandles, StreamsOK, TypeOK, SlotType
<1>2. open_handles' \in SUBSET Handles /\ orphaned' \in SUBSET Handles
  BY <1>1 DEF Reset, StreamsOK, TypeOK
<1>3. slots' \in [Slots -> SlotType] /\ \A t \in Slots : StreamInv(slots'[t])
  BY EmptyStream DEF Reset
<1> QED BY <1>2, <1>3 DEF StreamsOK, TypeOK, StreamsInvariant, StreamInv, IdleInv,
                          HeadersInv, BodyInv, DoneInv, ErrorInv

(* Whatever the parser state of the record, its answer is well placed.     *)
LEMMA ErrorStream ==
  ASSUME NEW r \in SlotType
  PROVE  SendError(r) \in SlotType /\ StreamInv(SendError(r))
<1>1. /\ ErrHeaderLen \in Nat \ {0}
      /\ Encodable(ErrHeaderLen)
      /\ ErrBodyLen \in Nat
      /\ "MEMORY" \in Sources
  BY ErrorFitsAssumption DEF Sources, Encodable
<1> QED BY <1>1, StartResponseStream DEF SendError

LEMMA AnswerStream ==
  ASSUME StreamsOK, NEW s \in Slots, NEW r \in SlotType, StreamInv(r), Answer(s, r)
  PROVE  StreamsOK'
<1>1. open_handles' \in SUBSET Handles /\ orphaned' \in SUBSET Handles
  BY DEF Answer, StreamsOK, TypeOK
<1> QED BY <1>1, OneSlotStream DEF Answer

LEMMA DispatchStream ==
  ASSUME StreamsOK, NEW s \in Slots, NEW r \in SlotType, Dispatch(s, r)
  PROVE  StreamsOK'
<1>1. CASE AnswerError(s, r)
  BY <1>1, ErrorStream, AnswerStream DEF AnswerError
<1>2. CASE AnswerFromHandler(s, r)
  <2>1. PICK hdr \in HeaderLens, len \in BodyLens, src \in {"MEMORY", "READER"} :
          /\ Encodable(hdr)
          /\ Answer(s, StartResponse(r, hdr, IF len = 0 THEN "NONE" ELSE src, len))
    BY <1>2 DEF AnswerFromHandler
  <2> DEFINE from == IF len = 0 THEN "NONE" ELSE src
  <2>2. hdr \in Nat \ {0} /\ len \in Nat /\ from \in Sources
    BY ConstantsAssumption DEF Sources
  <2>3. Answer(s, StartResponse(r, hdr, from, len))
    BY <2>1
  <2> HIDE DEF from
  <2> QED BY <2>1, <2>2, <2>3, StartResponseStream, AnswerStream
<1>3. CASE AnswerFromFile(s, r)
  <2>1. PICK hdr \in HeaderLens, len \in BodyLens, h \in Handles \ open_handles :
          /\ Encodable(hdr)
          /\ slots' = [slots EXCEPT ![s] = StartStaticResponse(r, hdr, len, h)]
          /\ open_handles' = (open_handles \ {slots[s].static_handle}) \cup {h}
          /\ UNCHANGED orphaned
    BY <1>3 DEF AnswerFromFile
  <2>2. hdr \in Nat \ {0} /\ len \in Nat
    BY ConstantsAssumption
  <2>3. open_handles' \in SUBSET Handles /\ orphaned' \in SUBSET Handles
    BY <2>1 DEF StreamsOK, TypeOK
  <2> QED BY <2>1, <2>2, <2>3, StartStaticStream, OneSlotStream
<1> QED BY <1>1, <1>2, <1>3 DEF Dispatch

LEMMA OnDataStream ==
  ASSUME StreamsOK, NEW s \in Slots, OnData(s)
  PROVE  StreamsOK'
<1>1. slots[s] \in SlotType /\ StreamInv(slots[s])
  BY DEF StreamsOK, TypeOK, StreamsInvariant
<1>2. ASSUME NEW q \in ParserStates
      PROVE  [slots[s] EXCEPT !.parser = q] \in SlotType
  BY <1>1 DEF SlotType
<1>3. CASE OnDataMore(s)
  <2>1. PICK q \in Forward(slots[s].parser) : slots' = [slots EXCEPT ![s].parser = q]
    BY <1>3 DEF OnDataMore
  <2>2. q \in ParserStates
    BY <1>1 DEF Forward, ParserStates, ReadingStates, SlotType
  <2> DEFINE r == [slots[s] EXCEPT !.parser = q]
  <2>3. r \in SlotType
    BY <1>2, <2>2
  <2>4. StreamInv(r)
    BY <1>1 DEF StreamInv, IdleInv, HeadersInv, BodyInv, DoneInv, ErrorInv, SlotType
  <2>5. slots' = [slots EXCEPT ![s] = r]
    BY <2>1 DEF StreamsOK, TypeOK
  <2>6. open_handles' \in SUBSET Handles /\ orphaned' \in SUBSET Handles
    BY <1>3 DEF OnDataMore, StreamsOK, TypeOK
  <2> HIDE DEF r
  <2> QED BY <2>3, <2>4, <2>5, <2>6, OneSlotStream
<1>4. CASE OnDataRejected(s)
  <2>1. [slots[s] EXCEPT !.parser = "ERROR"] \in SlotType
    BY <1>2 DEF ParserStates
  <2> QED BY <1>4, <2>1, ErrorStream, AnswerStream DEF OnDataRejected, AnswerError
<1>5. CASE OnDataComplete(s)
  <2>1. [slots[s] EXCEPT !.parser = "DONE"] \in SlotType
    BY <1>2 DEF ParserStates
  <2> QED BY <1>5, <2>1, DispatchStream DEF OnDataComplete
<1> QED BY <1>3, <1>4, <1>5 DEF OnData

LEMMA OnDrainStream ==
  ASSUME StreamsOK, NEW s \in Slots, OnDrain(s)
  PROVE  StreamsOK'
<1>1. slots[s] \in SlotType /\ StreamInv(slots[s])
  BY DEF StreamsOK, TypeOK, StreamsInvariant
<1>2. CASE NeedsBody(slots[s])
  <2>1. PICK got \in Reads(slots[s]) :
          slots' = [slots EXCEPT ![s] = Filled(slots[s], got)]
    BY <1>2 DEF OnDrain, FillNextTx
  <2>2. /\ open_handles' \in {open_handles, open_handles \ {slots[s].static_handle}}
        /\ orphaned' = orphaned
    BY <1>2 DEF OnDrain, FillNextTx
  <2>3. open_handles' \in SUBSET Handles /\ orphaned' \in SUBSET Handles
    BY <2>2 DEF StreamsOK, TypeOK
  <2> QED BY <1>1, <1>2, <2>1, <2>3, FilledStream, OneSlotStream
<1>3. CASE ~NeedsBody(slots[s])
  <2>1. UNCHANGED vars
    BY <1>3 DEF OnDrain, FillNextTx
  <2> QED BY <2>1 DEF vars, StreamsOK, TypeOK, StreamsInvariant, StreamInv, IdleInv,
                      HeadersInv, BodyInv, DoneInv, ErrorInv
<1> QED BY <1>2, <1>3

LEMMA OnBytesSentStream ==
  ASSUME StreamsOK, NEW s \in Slots, NEW n \in 1 .. slots[s].tx_len,
         OnBytesSent(s, n)
  PROVE  StreamsOK'
<1>1. slots[s] \in SlotType /\ StreamInv(slots[s])
  BY DEF StreamsOK, TypeOK, StreamsInvariant
<1>2. slots[s].tx_len \in Nat /\ n \in Nat /\ 1 <= n /\ n <= slots[s].tx_len
  BY <1>1 DEF SlotType
<1>3. open_handles' \in SUBSET Handles /\ orphaned' \in SUBSET Handles
  BY DEF OnBytesSent, StreamsOK, TypeOK
<1>4. CASE n >= slots[s].tx_len
  <2>1. slots' = [slots EXCEPT ![s] = AllSent(slots[s])]
    BY <1>4 DEF OnBytesSent
  <2>2. slots[s].tx_len > 0
    BY <1>2
  <2> QED BY <1>1, <1>3, <2>1, <2>2, AllSentStream, OneSlotStream
<1>5. CASE n < slots[s].tx_len
  <2>1. slots' = [slots EXCEPT ![s] = PartlySent(slots[s], n)]
    <3>1. ~(n >= slots[s].tx_len)
      BY <1>2, <1>5
    <3> QED BY <3>1 DEF OnBytesSent
  <2> QED BY <1>1, <1>3, <1>5, <2>1, PartlySentStream, OneSlotStream
<1> QED BY <1>2, <1>4, <1>5

LEMMA NextStream == StreamsOK /\ [Next]_vars => StreamsOK'
<1> SUFFICES ASSUME StreamsOK, [Next]_vars PROVE StreamsOK'
  OBVIOUS
<1>1. ASSUME NEW s \in Slots, NEW c \in Conns, AllocSlot(s, c) PROVE StreamsOK'
  BY <1>1, AllocStream
<1>2. ASSUME NEW s \in Slots, OnData(s) PROVE StreamsOK'
  BY <1>2, OnDataStream
<1>3. ASSUME NEW s \in Slots, OnDrain(s) PROVE StreamsOK'
  BY <1>3, OnDrainStream
<1>4. ASSUME NEW s \in Slots, NEW n \in 1 .. slots[s].tx_len, OnBytesSent(s, n)
      PROVE  StreamsOK'
  BY <1>4, OnBytesSentStream
<1>5. ASSUME NEW s \in Slots, ReleaseSlot(s) PROVE StreamsOK'
  BY <1>5, ReleaseStream
<1>6. CASE Reset
  BY <1>6, ResetStream
<1>7. CASE UNCHANGED vars
  BY <1>7 DEF vars, StreamsOK, TypeOK, StreamsInvariant, StreamInv, IdleInv,
              HeadersInv, BodyInv, DoneInv, ErrorInv
<1> QED BY <1>1, <1>2, <1>3, <1>4, <1>5, <1>6, <1>7 DEF Next, SlotOperation

LEMMA StreamsAlways == Spec => []StreamsOK
<1> QED BY InitStream, NextStream, PTL DEF Spec

(* Every slot keeps values of the types of struct HttpClientSlot: no       *)
(* length of a slot becomes negative, however the calls are mixed.         *)
THEOREM TypeCorrect == Spec => []TypeOK
<1>1. StreamsOK => TypeOK
  BY DEF StreamsOK
<1> QED BY <1>1, StreamsAlways, PTL

(* Every slot is where its send phase says it is.                          *)
THEOREM StreamsCorrect == Spec => []StreamsInvariant
<1>1. StreamsOK => StreamsInvariant
  BY DEF StreamsOK
<1> QED BY <1>1, StreamsAlways, PTL

(* fill_next_tx never subtracts more than body_len and never asks for more *)
(* than tx holds.                                                          *)
THEOREM RemainingCorrect == Spec => []RemainingNeverUnderflows
<1>1. StreamsOK => RemainingNeverUnderflows
  BY DEF StreamsOK, StreamsInvariant, StreamInv, BodyInv, RemainingNeverUnderflows
<1> QED BY <1>1, StreamsAlways, PTL

(* What a slot offers the transport continues what the transport has.      *)
THEOREM OrderCorrect == Spec => []StreamInOrder
<1>1. ASSUME StreamsOK, NEW s \in Slots, slots[s].tx_len > 0, ~slots[s].split
      PROVE  slots[s].tx_pos = slots[s].wire
  <2>1. slots[s].send_phase \in SendPhases /\ StreamInv(slots[s])
    BY <1>1 DEF StreamsOK, TypeOK, SlotType, StreamsInvariant
  <2> QED BY <1>1, <2>1 DEF SendPhases, StreamInv, IdleInv, HeadersInv, BodyInv,
                            DoneInv, ErrorInv
<1>2. StreamsOK => StreamInOrder
  BY <1>1 DEF StreamInOrder
<1> QED BY <1>2, StreamsAlways, PTL

(* A slot is ready to close only after the announced number of bytes.      *)
THEOREM LengthCorrect == Spec => []ClosesAtAnnouncedLength
<1>1. ASSUME StreamsOK, NEW s \in Slots, ReadyToClose(slots[s])
      PROVE  LET total == slots[s].hdr_len + slots[s].body_len
             IN  /\ slots[s].wire >= total
                 /\ slots[s].wire = total <=> ~slots[s].split
  <2>1. /\ slots[s].wire \in Nat
        /\ slots[s].hdr_len \in Nat
        /\ slots[s].body_len \in Nat
        /\ slots[s].tx_len = 0
        /\ DoneInv(slots[s])
        /\ slots[s].send_phase = "DONE"
    BY <1>1 DEF StreamsOK, TypeOK, SlotType, StreamsInvariant, StreamInv, ReadyToClose
  <2>2. CASE slots[s].split
    BY <2>1, <2>2 DEF DoneInv
  <2>3. CASE ~slots[s].split
    BY <2>1, <2>3 DEF DoneInv
  <2> QED BY <2>2, <2>3
<1>2. StreamsOK => ClosesAtAnnouncedLength
  BY <1>1 DEF ClosesAtAnnouncedLength
<1> QED BY <1>2, StreamsAlways, PTL

-----------------------------------------------------------------------------
(* Files: who owns each open handle.                                       *)

FilesOK == TypeOK /\ HandlesAccounted

(* The slot keeps the handle it had, and the backend sees no call.         *)
LEMMA FileKept ==
  ASSUME FilesOK, NEW s \in Slots, NEW r,
         slots' = [slots EXCEPT ![s] = r],
         r.static_handle = slots[s].static_handle,
         r.static_handle # NoHandle => r.used,
         open_handles' = open_handles, orphaned' = orphaned
  PROVE  HandlesAccounted'
<1>1. \A t \in Slots : slots'[t].static_handle = slots[t].static_handle
  BY DEF FilesOK, TypeOK
<1>2. \A t \in Slots : slots'[t].static_handle # NoHandle => slots'[t].used
  BY DEF FilesOK, TypeOK, HandlesAccounted
<1>3. HeldHandles' = HeldHandles
  BY <1>1 DEF HeldHandles
<1> QED BY <1>1, <1>2, <1>3 DEF FilesOK, HandlesAccounted

(* The slot gives its handle up, if it has one, and the backend closes it. *)
LEMMA FileClosed ==
  ASSUME FilesOK, NEW s \in Slots, NEW r,
         slots' = [slots EXCEPT ![s] = r],
         r.static_handle = NoHandle,
         open_handles' = open_handles \ {slots[s].static_handle},
         orphaned' = orphaned
  PROVE  HandlesAccounted'
<1>1. \A t \in Slots : slots'[t] = IF t = s THEN r ELSE slots[t]
  BY DEF FilesOK, TypeOK
<1>2. HeldHandles' = HeldHandles \ {slots[s].static_handle}
  BY <1>1 DEF HeldHandles, FilesOK, HandlesAccounted
<1>3. slots[s].static_handle \notin orphaned
  <2>1. orphaned \subseteq Handles
    BY DEF FilesOK, TypeOK
  <2>2. CASE slots[s].static_handle = NoHandle
    BY <2>1, <2>2, ConstantsAssumption
  <2>3. CASE slots[s].static_handle # NoHandle
    BY <2>3 DEF HeldHandles, FilesOK, HandlesAccounted
  <2> QED BY <2>2, <2>3
<1>4. open_handles' = HeldHandles' \cup orphaned'
  BY <1>2, <1>3 DEF FilesOK, HandlesAccounted
<1>5. HeldHandles' \cap orphaned' = {}
  BY <1>2 DEF FilesOK, HandlesAccounted
<1>6. \A t \in Slots : slots'[t].static_handle # NoHandle => slots'[t].used
  BY <1>1 DEF FilesOK, HandlesAccounted
<1>7. \A t, u \in Slots : slots'[t].static_handle = slots'[u].static_handle =>
                            t = u \/ slots'[t].static_handle = NoHandle
  BY <1>1 DEF FilesOK, HandlesAccounted
<1> QED BY <1>4, <1>5, <1>6, <1>7 DEF HandlesAccounted

(* The slot gets a newly opened handle in the place of the one it had.     *)
LEMMA FileOpened ==
  ASSUME FilesOK, NEW s \in Slots, NEW r,
         NEW h \in Handles \ open_handles,
         slots' = [slots EXCEPT ![s] = r],
         r.static_handle = h, r.used,
         open_handles' = (open_handles \ {slots[s].static_handle}) \cup {h},
         orphaned' = orphaned
  PROVE  HandlesAccounted'
<1>1. \A t \in Slots : slots'[t] = IF t = s THEN r ELSE slots[t]
  BY DEF FilesOK, TypeOK
<1>2. h # NoHandle /\ h \notin HeldHandles /\ h \notin orphaned
  BY ConstantsAssumption DEF FilesOK, HandlesAccounted
<1>3. HeldHandles' = (HeldHandles \ {slots[s].static_handle}) \cup {h}
  BY <1>1, <1>2 DEF HeldHandles, FilesOK, HandlesAccounted
<1>4. slots[s].static_handle \notin orphaned
  <2>1. orphaned \subseteq Handles
    BY DEF FilesOK, TypeOK
  <2>2. CASE slots[s].static_handle = NoHandle
    BY <2>1, <2>2, ConstantsAssumption
  <2>3. CASE slots[s].static_handle # NoHandle
    BY <2>3 DEF HeldHandles, FilesOK, HandlesAccounted
  <2> QED BY <2>2, <2>3
<1>5. open_handles' = HeldHandles' \cup orphaned'
  BY <1>3, <1>4 DEF FilesOK, HandlesAccounted
<1>6. HeldHandles' \cap orphaned' = {}
  BY <1>2, <1>3 DEF FilesOK, HandlesAccounted
<1>7. \A t \in Slots : slots'[t].static_handle # NoHandle => slots'[t].used
  BY <1>1 DEF FilesOK, HandlesAccounted
<1>8. \A t \in Slots : t # s /\ slots[t].static_handle # NoHandle
                        => slots[t].static_handle # h
  BY <1>2 DEF HeldHandles
<1>9. \A t, u \in Slots : slots'[t].static_handle = slots'[u].static_handle =>
                            t = u \/ slots'[t].static_handle = NoHandle
  BY <1>1, <1>2, <1>8 DEF FilesOK, HandlesAccounted
<1> QED BY <1>5, <1>6, <1>7, <1>9 DEF HandlesAccounted

LEMMA InitFiles == Init => HandlesAccounted
BY DEF Init, HandlesAccounted, HeldHandles, EmptySlot

LEMMA AllocFiles ==
  ASSUME FilesOK, NEW s \in Slots, NEW c \in Conns, AllocSlot(s, c)
  PROVE  HandlesAccounted'
<1> DEFINE r == [EmptySlot EXCEPT !.used = TRUE, !.conn = c]
<1>1. slots[s].static_handle = NoHandle
  BY DEF AllocSlot, FirstFree, FilesOK, HandlesAccounted
<1>2. r.static_handle = NoHandle
  BY DEF EmptySlot
<1>3. slots' = [slots EXCEPT ![s] = r] /\ open_handles' = open_handles /\ orphaned' = orphaned
  BY DEF AllocSlot
<1> HIDE DEF r
<1> QED BY <1>1, <1>2, <1>3, FileKept

LEMMA ReleaseFiles ==
  ASSUME FilesOK, NEW s \in Slots, ReleaseSlot(s)
  PROVE  HandlesAccounted'
<1>1. EmptySlot.static_handle = NoHandle
  BY DEF EmptySlot
<1> QED BY <1>1, FileClosed DEF ReleaseSlot

LEMMA ResetFiles == ASSUME FilesOK, Reset PROVE HandlesAccounted'
<1>1. \A t \in Slots : slots'[t].static_handle = NoHandle
  BY DEF Reset, EmptySlot
<1>2. HeldHandles' = {}
  BY <1>1 DEF HeldHandles
<1> QED BY <1>1, <1>2 DEF Reset, FilesOK, HandlesAccounted

(* A response from memory or from a reader has no file, ...                *)
LEMMA NoFileAnswer ==
  ASSUME FilesOK, NEW s \in Slots, NEW r, r.static_handle = NoHandle, Answer(s, r)
  PROVE  HandlesAccounted'
BY FileClosed DEF Answer

LEMMA StartResponseFile ==
  ASSUME NEW r \in SlotType, NEW hdr, NEW src, NEW len
  PROVE  StartResponse(r, hdr, src, len).static_handle = NoHandle
BY DEF StartResponse, SlotType

(* ... and one from a file has the file that was just opened.              *)
LEMMA StartStaticFile ==
  ASSUME NEW r \in SlotType, NEW hdr, NEW len, NEW h
  PROVE  /\ StartStaticResponse(r, hdr, len, h).static_handle = h
         /\ StartStaticResponse(r, hdr, len, h).used = r.used
BY DEF StartStaticResponse, StartResponse, SlotType

LEMMA DispatchFiles ==
  ASSUME FilesOK, NEW s \in Slots, NEW r \in SlotType, r.used, Dispatch(s, r)
  PROVE  HandlesAccounted'
<1>1. CASE AnswerError(s, r)
  BY <1>1, StartResponseFile, NoFileAnswer DEF AnswerError, SendError
<1>2. CASE AnswerFromHandler(s, r)
  BY <1>2, StartResponseFile, NoFileAnswer DEF AnswerFromHandler
<1>3. CASE AnswerFromFile(s, r)
  <2>1. PICK hdr \in HeaderLens, len \in BodyLens, h \in Handles \ open_handles :
          /\ slots' = [slots EXCEPT ![s] = StartStaticResponse(r, hdr, len, h)]
          /\ open_handles' = (open_handles \ {slots[s].static_handle}) \cup {h}
          /\ UNCHANGED orphaned
    BY <1>3 DEF AnswerFromFile
  <2> DEFINE q == StartStaticResponse(r, hdr, len, h)
  <2>2. q.static_handle = h /\ q.used
    BY StartStaticFile
  <2> HIDE DEF q
  <2>3. slots' = [slots EXCEPT ![s] = q]
    BY <2>1 DEF q
  <2> QED BY <2>1, <2>2, <2>3, FileOpened
<1> QED BY <1>1, <1>2, <1>3 DEF Dispatch

LEMMA OnDataFiles ==
  ASSUME FilesOK, NEW s \in Slots, OnData(s)
  PROVE  HandlesAccounted'
<1>1. slots[s] \in SlotType
  BY DEF FilesOK, TypeOK
<1>2. ASSUME NEW q \in ParserStates
      PROVE  /\ [slots[s] EXCEPT !.parser = q] \in SlotType
             /\ [slots[s] EXCEPT !.parser = q].used = slots[s].used
             /\ [slots[s] EXCEPT !.parser = q].static_handle = slots[s].static_handle
  BY <1>1 DEF SlotType
<1>3. CASE OnDataMore(s)
  <2>1. PICK q \in Forward(slots[s].parser) : slots' = [slots EXCEPT ![s].parser = q]
    BY <1>3 DEF OnDataMore
  <2>2. q \in ParserStates
    BY <1>1 DEF Forward, ParserStates, ReadingStates, SlotType
  <2> DEFINE r == [slots[s] EXCEPT !.parser = q]
  <2>3. r.static_handle = slots[s].static_handle /\ r.used
    BY <1>2, <1>3, <2>2 DEF OnDataMore
  <2>4. slots' = [slots EXCEPT ![s] = r]
    BY <2>1 DEF FilesOK, TypeOK
  <2>5. open_handles' = open_handles /\ orphaned' = orphaned
    BY <1>3 DEF OnDataMore
  <2> HIDE DEF r
  <2> QED BY <2>3, <2>4, <2>5, FileKept
<1>4. CASE OnDataRejected(s)
  <2>1. [slots[s] EXCEPT !.parser = "ERROR"] \in SlotType
    BY <1>2 DEF ParserStates
  <2> QED BY <1>4, <2>1, StartResponseFile, NoFileAnswer
          DEF OnDataRejected, AnswerError, SendError
<1>5. CASE OnDataComplete(s)
  <2>1. /\ [slots[s] EXCEPT !.parser = "DONE"] \in SlotType
        /\ [slots[s] EXCEPT !.parser = "DONE"].used
    BY <1>2, <1>5 DEF ParserStates, OnDataComplete
  <2> QED BY <1>5, <2>1, DispatchFiles DEF OnDataComplete
<1> QED BY <1>3, <1>4, <1>5 DEF OnData

LEMMA OnDrainFiles ==
  ASSUME FilesOK, NEW s \in Slots, OnDrain(s)
  PROVE  HandlesAccounted'
<1> DEFINE r == slots[s]
<1>1. r \in SlotType /\ r.used
  BY DEF FilesOK, TypeOK, OnDrain
<1>2. CASE NeedsBody(r)
  <2>1. PICK got \in Reads(r) :
          /\ slots' = [slots EXCEPT ![s] = Filled(r, got)]
          /\ open_handles' = IF Filled(r, got).send_phase = "ERROR"
                             THEN open_handles \ {r.static_handle}
                             ELSE open_handles
          /\ orphaned' = orphaned
    BY <1>2 DEF OnDrain, FillNextTx
  <2> DEFINE q == Filled(r, got)
  <2>2. CASE q.send_phase = "ERROR"
    <3>1. q.static_handle = NoHandle
      BY <1>1, <2>2, <1>2 DEF Filled, Loaded, ReadFailed, SlotType, NeedsBody
    <3> HIDE DEF q
    <3> QED BY <2>1, <2>2, <3>1, FileClosed DEF q
  <2>3. CASE q.send_phase # "ERROR"
    <3>1. q.static_handle = r.static_handle /\ q.used
      BY <1>1, <2>3, <1>2 DEF Filled, Loaded, ReadFailed, SlotType, NeedsBody, SendPhases
    <3> HIDE DEF q
    <3> QED BY <2>1, <2>3, <3>1, FileKept DEF q
  <2> QED BY <2>2, <2>3
<1>3. CASE ~NeedsBody(r)
  <2>1. UNCHANGED vars
    BY <1>3 DEF OnDrain, FillNextTx
  <2> QED BY <2>1 DEF vars, FilesOK, HandlesAccounted, HeldHandles
<1> QED BY <1>2, <1>3

LEMMA OnBytesSentFiles ==
  ASSUME FilesOK, NEW s \in Slots, NEW n \in 1 .. slots[s].tx_len,
         OnBytesSent(s, n)
  PROVE  HandlesAccounted'
<1> DEFINE r == slots[s]
           q == IF n >= r.tx_len THEN AllSent(r) ELSE PartlySent(r, n)
<1>1. r \in SlotType /\ r.used
  BY DEF FilesOK, TypeOK, OnBytesSent
<1>2. /\ slots' = [slots EXCEPT ![s] = q]
      /\ open_handles' = IF n >= r.tx_len /\ BodyFinished(r)
                         THEN open_handles \ {r.static_handle}
                         ELSE open_handles
      /\ orphaned' = orphaned
  BY DEF OnBytesSent
<1>3. CASE n >= r.tx_len /\ BodyFinished(r)
  <2>1. q.static_handle = NoHandle
    BY <1>1, <1>3 DEF AllSent, SlotType
  <2> HIDE DEF q
  <2> QED BY <1>2, <1>3, <2>1, FileClosed
<1>4. CASE ~(n >= r.tx_len /\ BodyFinished(r))
  <2>1. q.static_handle = r.static_handle /\ q.used
    BY <1>1, <1>4 DEF AllSent, PartlySent, SlotType
  <2> HIDE DEF q
  <2> QED BY <1>2, <1>4, <2>1, FileKept
<1> QED BY <1>3, <1>4

LEMMA NextFiles == FilesOK /\ [Next]_vars => HandlesAccounted'
<1> SUFFICES ASSUME FilesOK, [Next]_vars PROVE HandlesAccounted'
  OBVIOUS
<1>1. ASSUME NEW s \in Slots, NEW c \in Conns, AllocSlot(s, c)
      PROVE  HandlesAccounted'
  BY <1>1, AllocFiles
<1>2. ASSUME NEW s \in Slots, OnData(s) PROVE HandlesAccounted'
  BY <1>2, OnDataFiles
<1>3. ASSUME NEW s \in Slots, OnDrain(s) PROVE HandlesAccounted'
  BY <1>3, OnDrainFiles
<1>4. ASSUME NEW s \in Slots, NEW n \in 1 .. slots[s].tx_len, OnBytesSent(s, n)
      PROVE  HandlesAccounted'
  BY <1>4, OnBytesSentFiles
<1>5. ASSUME NEW s \in Slots, ReleaseSlot(s) PROVE HandlesAccounted'
  BY <1>5, ReleaseFiles
<1>6. CASE Reset
  BY <1>6, ResetFiles
<1>7. CASE UNCHANGED vars
  BY <1>7 DEF vars, FilesOK, HandlesAccounted, HeldHandles
<1> QED BY <1>1, <1>2, <1>3, <1>4, <1>5, <1>6, <1>7 DEF Next, SlotOperation

(* No file stays open without a slot that will close it, except those a    *)
(* reset dropped, and no file is closed twice or used by two slots.        *)
THEOREM HandlesCorrect == Spec => []HandlesAccounted
<1>1. TypeOK /\ HandlesAccounted /\ [Next]_vars => HandlesAccounted'
  BY NextFiles DEF FilesOK
<1> QED BY <1>1, InitFiles, TypeCorrect, PTL DEF Spec

-----------------------------------------------------------------------------
(* Requests: a slot has a response exactly when its parser has ended.      *)

RequestsOK == TypeOK /\ AnsweredWhenParsed

Answers(r) == r.parser \in ReadingStates <=> ~r.close_after_send

LEMMA OneSlotAnswers ==
  ASSUME RequestsOK, NEW s \in Slots, NEW r, Answers(r),
         slots' = [slots EXCEPT ![s] = r]
  PROVE  AnsweredWhenParsed'
BY DEF RequestsOK, TypeOK, AnsweredWhenParsed, Answers

LEMMA EmptyAnswers ==
  ASSUME NEW u, NEW c
  PROVE  Answers(EmptySlot) /\ Answers([EmptySlot EXCEPT !.used = u, !.conn = c])
BY DEF EmptySlot, Answers, ReadingStates

(* A request that has ended is answered, whatever the response.            *)
LEMMA EndedAnswers ==
  ASSUME NEW r \in SlotType, NEW verdict \in {"DONE", "ERROR"},
         NEW hdr, NEW src, NEW len, NEW h
  PROVE  LET q == [r EXCEPT !.parser = verdict]
         IN  /\ q \in SlotType
             /\ Answers(StartResponse(q, hdr, src, len))
             /\ Answers(StartStaticResponse(q, hdr, len, h))
BY DEF StartResponse, StartStaticResponse, SlotType, Answers, ReadingStates,
       ParserStates

LEMMA OnDataAnswers ==
  ASSUME RequestsOK, NEW s \in Slots, OnData(s)
  PROVE  AnsweredWhenParsed'
<1>1. slots[s] \in SlotType /\ Answers(slots[s])
  BY DEF RequestsOK, TypeOK, AnsweredWhenParsed, Answers
<1>2. CASE OnDataMore(s)
  <2>1. PICK q \in Forward(slots[s].parser) : slots' = [slots EXCEPT ![s].parser = q]
    BY <1>2 DEF OnDataMore
  <2>2. slots[s].parser \in ReadingStates /\ q \in ReadingStates
    BY DEF Forward, ReadingStates
  <2> DEFINE r == [slots[s] EXCEPT !.parser = q]
  <2>3. Answers(r)
    BY <1>1, <2>2 DEF Answers, SlotType
  <2>4. slots' = [slots EXCEPT ![s] = r]
    BY <2>1 DEF RequestsOK, TypeOK
  <2> HIDE DEF r
  <2> QED BY <2>3, <2>4, OneSlotAnswers
<1>3. CASE OnDataRejected(s)
  <2>1. slots' = [slots EXCEPT ![s] = SendError([slots[s] EXCEPT !.parser = "ERROR"])]
    BY <1>3 DEF OnDataRejected, AnswerError, Answer
  <2> QED BY <1>1, <2>1, EndedAnswers, OneSlotAnswers DEF SendError
<1>4. CASE OnDataComplete(s)
  <2> DEFINE r == [slots[s] EXCEPT !.parser = "DONE"]
  <2>1. CASE AnswerError(s, r)
    <3>1. slots' = [slots EXCEPT ![s] = SendError(r)]
      BY <2>1 DEF AnswerError, Answer
    <3> QED BY <1>1, <3>1, EndedAnswers, OneSlotAnswers DEF SendError
  <2>2. CASE AnswerFromHandler(s, r)
    <3>1. PICK hdr, src, len :
            slots' = [slots EXCEPT ![s] = StartResponse(r, hdr, src, len)]
      BY <2>2 DEF AnswerFromHandler, Answer
    <3> QED BY <1>1, <3>1, EndedAnswers, OneSlotAnswers
  <2>3. CASE AnswerFromFile(s, r)
    <3>1. PICK hdr, len, h :
            slots' = [slots EXCEPT ![s] = StartStaticResponse(r, hdr, len, h)]
      BY <2>3 DEF AnswerFromFile
    <3> QED BY <1>1, <3>1, EndedAnswers, OneSlotAnswers
  <2> QED BY <1>4, <2>1, <2>2, <2>3 DEF OnDataComplete, Dispatch
<1> QED BY <1>2, <1>3, <1>4 DEF OnData

(* Filling and sending leave the request and the answer alone.             *)
LEMMA SendingAnswers ==
  ASSUME NEW r \in SlotType, Answers(r), NEW got, NEW n
  PROVE  /\ Answers(Filled(r, got))
         /\ Answers(AllSent(r))
         /\ Answers(PartlySent(r, n))
<1>1. Answers(Loaded(r, got)) /\ Answers(ReadFailed(r))
  BY DEF Loaded, ReadFailed, SlotType, Answers
<1>2. Answers([r EXCEPT !.send_phase = "DONE"])
  BY DEF SlotType, Answers
<1>3. Answers(AllSent(r)) /\ Answers(PartlySent(r, n))
  BY DEF AllSent, PartlySent, SlotType, Answers
<1> QED BY <1>1, <1>2, <1>3 DEF Filled

LEMMA NextAnswers == RequestsOK /\ [Next]_vars => AnsweredWhenParsed'
<1> SUFFICES ASSUME RequestsOK, [Next]_vars PROVE AnsweredWhenParsed'
  OBVIOUS
<1>0. \A s \in Slots : slots[s] \in SlotType /\ Answers(slots[s])
  BY DEF RequestsOK, TypeOK, AnsweredWhenParsed, Answers
<1>1. ASSUME NEW s \in Slots, NEW c \in Conns, AllocSlot(s, c)
      PROVE  AnsweredWhenParsed'
  BY <1>1, EmptyAnswers, OneSlotAnswers DEF AllocSlot
<1>2. ASSUME NEW s \in Slots, OnData(s) PROVE AnsweredWhenParsed'
  BY <1>2, OnDataAnswers
<1>3. ASSUME NEW s \in Slots, OnDrain(s) PROVE AnsweredWhenParsed'
  <2>1. CASE NeedsBody(slots[s])
    <3>1. PICK got : slots' = [slots EXCEPT ![s] = Filled(slots[s], got)]
      BY <1>3, <2>1 DEF OnDrain, FillNextTx
    <3> QED BY <1>0, <3>1, SendingAnswers, OneSlotAnswers
  <2>2. CASE ~NeedsBody(slots[s])
    BY <1>3, <2>2 DEF OnDrain, FillNextTx, vars, RequestsOK, AnsweredWhenParsed
  <2> QED BY <2>1, <2>2
<1>4. ASSUME NEW s \in Slots, NEW n \in 1 .. slots[s].tx_len, OnBytesSent(s, n)
      PROVE  AnsweredWhenParsed'
  <2>1. \/ slots' = [slots EXCEPT ![s] = AllSent(slots[s])]
        \/ slots' = [slots EXCEPT ![s] = PartlySent(slots[s], n)]
    BY <1>4 DEF OnBytesSent
  <2> QED BY <1>0, <2>1, SendingAnswers, OneSlotAnswers
<1>5. ASSUME NEW s \in Slots, ReleaseSlot(s) PROVE AnsweredWhenParsed'
  BY <1>5, EmptyAnswers, OneSlotAnswers DEF ReleaseSlot
<1>6. CASE Reset
  BY <1>6, EmptyAnswers DEF Reset, AnsweredWhenParsed, Answers
<1>7. CASE UNCHANGED vars
  BY <1>7 DEF vars, RequestsOK, AnsweredWhenParsed
<1> QED BY <1>1, <1>2, <1>3, <1>4, <1>5, <1>6, <1>7 DEF Next, SlotOperation

(* No complete request is left without a response, and nothing is prepared *)
(* for sending while the request is still being read.                      *)
THEOREM AnswersCorrect == Spec => []AnsweredWhenParsed
<1>1. Init => AnsweredWhenParsed
  BY EmptyAnswers DEF Init, AnsweredWhenParsed, Answers
<1>2. TypeOK /\ AnsweredWhenParsed /\ [Next]_vars => AnsweredWhenParsed'
  BY NextAnswers DEF RequestsOK
<1> QED BY <1>1, <1>2, TypeCorrect, PTL DEF Spec
-----------------------------------------------------------------------------
(* Owners: which connection has which slot, and how far a slot has come    *)
(* with its answer.  Whoever drives the engine reasons with these.         *)

OwnersInv ==
  /\ \A s \in Slots : slots[s].used => s \in Usable /\ slots[s].conn \in Conns
  /\ \A s, t \in Slots :
       slots[s].used /\ slots[t].used /\ slots[s].conn = slots[t].conn => s = t
  /\ \A s \in Slots : ~slots[s].used => slots[s].static_handle = NoHandle

(* A slot without an answer has sent nothing; an answer has headers.       *)
PhaseInv(r) == /\ r.close_after_send <=> r.send_phase # "IDLE"
               /\ IF r.close_after_send THEN r.hdr_len > 0 ELSE r.wire = 0
PhasesInv == \A s \in Slots : PhaseInv(slots[s])

ServingOK == StreamsOK /\ OwnersInv /\ PhasesInv

SameOwner(q, r) == q.used = r.used /\ q.conn = r.conn
Serves(s) == \/ OnData(s)
             \/ OnDrain(s)
             \/ \E n \in 1 .. slots[s].tx_len : OnBytesSent(s, n)

(* A response that is started, filled or sent stays with its connection.   *)
LEMMA StartedPhase ==
  ASSUME NEW r \in SlotType, NEW hdr \in Nat \ {0}, NEW src \in Sources,
         NEW len \in Nat, NEW h, NEW verdict \in ParserStates
  PROVE  LET p == [r EXCEPT !.parser = verdict]
             q == StartResponse(p, hdr, src, len)
             f == StartStaticResponse(p, hdr, len, h)
         IN  SameOwner(q, r) /\ PhaseInv(q) /\ SameOwner(f, r) /\ PhaseInv(f)
BY DEF StartResponse, StartStaticResponse, SlotType, SameOwner, PhaseInv

LEMMA FilledPhase ==
  ASSUME NEW r \in SlotType, PhaseInv(r), NeedsBody(r), NEW got
  PROVE  SameOwner(Filled(r, got), r) /\ PhaseInv(Filled(r, got))
<1>1. SameOwner(Loaded(r, got), r) /\ PhaseInv(Loaded(r, got))
  BY DEF Loaded, SlotType, SameOwner, PhaseInv, NeedsBody
<1>2. SameOwner(ReadFailed(r), r) /\ PhaseInv(ReadFailed(r))
  BY DEF ReadFailed, SlotType, SameOwner, PhaseInv, NeedsBody
<1>3. LET q == [r EXCEPT !.send_phase = "DONE"] IN SameOwner(q, r) /\ PhaseInv(q)
  BY DEF SlotType, SameOwner, PhaseInv, NeedsBody
<1> QED BY <1>1, <1>2, <1>3 DEF Filled

LEMMA SentPhase ==
  ASSUME NEW r \in SlotType, PhaseInv(r), StreamInv(r), r.tx_len > 0, NEW n
  PROVE  /\ SameOwner(AllSent(r), r) /\ PhaseInv(AllSent(r))
         /\ SameOwner(PartlySent(r, n), r) /\ PhaseInv(PartlySent(r, n))
<1>1. r.send_phase # "IDLE" /\ r.close_after_send /\ r.hdr_len > 0
  BY DEF PhaseInv, StreamInv, IdleInv, SlotType
<1>2. /\ AllSent(r).used = r.used
      /\ AllSent(r).conn = r.conn
      /\ AllSent(r).close_after_send = r.close_after_send
      /\ AllSent(r).hdr_len = r.hdr_len
      /\ AllSent(r).send_phase # "IDLE"
  BY <1>1 DEF AllSent, SlotType
<1>3. /\ PartlySent(r, n).used = r.used
      /\ PartlySent(r, n).conn = r.conn
      /\ PartlySent(r, n).close_after_send = r.close_after_send
      /\ PartlySent(r, n).hdr_len = r.hdr_len
      /\ PartlySent(r, n).send_phase = r.send_phase
  BY DEF PartlySent, SlotType
<1> QED BY <1>1, <1>2, <1>3 DEF SameOwner, PhaseInv

(* Serving a slot changes that slot alone, and not whose it is.            *)
LEMMA ServedSlot ==
  ASSUME StreamsOK, PhasesInv, NEW s \in Slots, Serves(s)
  PROVE  \E r : /\ slots' = [slots EXCEPT ![s] = r]
                /\ SameOwner(r, slots[s])
                /\ PhaseInv(r)
<1>1. slots[s] \in SlotType /\ StreamInv(slots[s]) /\ PhaseInv(slots[s])
  BY DEF StreamsOK, TypeOK, StreamsInvariant, PhasesInv
<1> DEFINE Goal == \E r : /\ slots' = [slots EXCEPT ![s] = r]
                          /\ SameOwner(r, slots[s])
                          /\ PhaseInv(r)
<1>2. CASE OnDataMore(s)
  <2>1. PICK q : slots' = [slots EXCEPT ![s].parser = q]
    BY <1>2 DEF OnDataMore
  <2> DEFINE r == [slots[s] EXCEPT !.parser = q]
  <2>2. SameOwner(r, slots[s]) /\ PhaseInv(r)
    BY <1>1 DEF SlotType, SameOwner, PhaseInv
  <2>3. slots' = [slots EXCEPT ![s] = r]
    BY <2>1 DEF StreamsOK, TypeOK
  <2> HIDE DEF r
  <2> QED BY <2>2, <2>3
<1>3. ASSUME NEW verdict \in {"DONE", "ERROR"},
             AnswerError(s, [slots[s] EXCEPT !.parser = verdict])
      PROVE  Goal
  <2>1. /\ ErrHeaderLen \in Nat \ {0} /\ ErrBodyLen \in Nat
        /\ verdict \in ParserStates /\ "MEMORY" \in Sources
    BY ErrorFitsAssumption DEF ParserStates, Sources
  <2> DEFINE r == SendError([slots[s] EXCEPT !.parser = verdict])
  <2>2. SameOwner(r, slots[s]) /\ PhaseInv(r)
    BY <1>1, <2>1, StartedPhase DEF SendError
  <2>3. slots' = [slots EXCEPT ![s] = r]
    BY <1>3 DEF AnswerError, Answer
  <2> HIDE DEF r
  <2> QED BY <2>2, <2>3
<1>4. ASSUME AnswerFromHandler(s, [slots[s] EXCEPT !.parser = "DONE"])
      PROVE  Goal
  <2> DEFINE p == [slots[s] EXCEPT !.parser = "DONE"]
  <2>1. PICK hdr \in HeaderLens, len \in BodyLens, src \in {"MEMORY", "READER"} :
          slots' = [slots EXCEPT ![s] =
                      StartResponse(p, hdr, IF len = 0 THEN "NONE" ELSE src, len)]
    BY <1>4 DEF AnswerFromHandler, Answer
  <2> DEFINE source == IF len = 0 THEN "NONE" ELSE src
             r == StartResponse(p, hdr, source, len)
  <2>2. /\ hdr \in Nat \ {0} /\ len \in Nat /\ source \in Sources
        /\ "DONE" \in ParserStates
    BY ConstantsAssumption DEF Sources, ParserStates
  <2> HIDE DEF source
  <2>3. SameOwner(r, slots[s]) /\ PhaseInv(r)
    BY <1>1, <2>2, StartedPhase
  <2>4. slots' = [slots EXCEPT ![s] = r]
    BY <2>1 DEF source
  <2> HIDE DEF r
  <2> QED BY <2>3, <2>4
<1>5. ASSUME AnswerFromFile(s, [slots[s] EXCEPT !.parser = "DONE"])
      PROVE  Goal
  <2> DEFINE p == [slots[s] EXCEPT !.parser = "DONE"]
  <2>1. PICK hdr \in HeaderLens, len \in BodyLens, h \in Handles :
          slots' = [slots EXCEPT ![s] = StartStaticResponse(p, hdr, len, h)]
    BY <1>5 DEF AnswerFromFile
  <2> DEFINE r == StartStaticResponse(p, hdr, len, h)
  <2>2. /\ hdr \in Nat \ {0} /\ len \in Nat /\ "NONE" \in Sources
        /\ "DONE" \in ParserStates
    BY ConstantsAssumption DEF Sources, ParserStates
  <2>3. SameOwner(r, slots[s]) /\ PhaseInv(r)
    BY <1>1, <2>2, StartedPhase
  <2> HIDE DEF r
  <2> QED BY <2>1, <2>3 DEF r
<1>6. CASE OnData(s)
  BY <1>2, <1>3, <1>4, <1>5, <1>6
  DEF OnData, OnDataRejected, OnDataComplete, Dispatch
<1>7. CASE OnDrain(s)
  <2>1. CASE NeedsBody(slots[s])
    <3>1. PICK got : slots' = [slots EXCEPT ![s] = Filled(slots[s], got)]
      BY <1>7, <2>1 DEF OnDrain, FillNextTx
    <3> QED BY <1>1, <2>1, <3>1, FilledPhase
  <2>2. CASE ~NeedsBody(slots[s])
    <3>1. slots' = [slots EXCEPT ![s] = slots[s]]
      BY <1>7, <2>2 DEF OnDrain, FillNextTx, vars, StreamsOK, TypeOK
    <3> QED BY <1>1, <3>1 DEF SameOwner
  <2> QED BY <2>1, <2>2
<1>8. ASSUME NEW n \in 1 .. slots[s].tx_len, OnBytesSent(s, n) PROVE Goal
  <2>1. slots[s].tx_len > 0
    BY <1>1, ConstantsAssumption DEF SlotType
  <2>2. \/ slots' = [slots EXCEPT ![s] = AllSent(slots[s])]
        \/ slots' = [slots EXCEPT ![s] = PartlySent(slots[s], n)]
    BY <1>8 DEF OnBytesSent
  <2> QED BY <1>1, <2>1, <2>2, SentPhase
<1> QED BY <1>6, <1>7, <1>8 DEF Serves

LEMMA ServedOwners ==
  ASSUME ServingOK, NEW s \in Slots, Serves(s)
  PROVE  OwnersInv' /\ PhasesInv'
<1>1. PICK r : /\ slots' = [slots EXCEPT ![s] = r]
               /\ SameOwner(r, slots[s])
               /\ PhaseInv(r)
  BY ServedSlot DEF ServingOK
<1>2. \A t \in Slots : SameOwner(slots'[t], slots[t]) /\ PhaseInv(slots'[t])
  BY <1>1 DEF ServingOK, StreamsOK, TypeOK, PhasesInv, SameOwner
<1>3. slots[s].used
  BY DEF Serves, OnData, OnDataMore, OnDataRejected, OnDataComplete, OnDrain,
         OnBytesSent
<1>4. \A t \in Slots : t = s \/ slots'[t] = slots[t]
  BY <1>1 DEF ServingOK, StreamsOK, TypeOK
<1> QED BY <1>2, <1>3, <1>4 DEF ServingOK, OwnersInv, PhasesInv, SameOwner

LEMMA BlankPhase ==
  ASSUME NEW u, NEW c
  PROVE  PhaseInv(EmptySlot) /\ PhaseInv([EmptySlot EXCEPT !.used = u, !.conn = c])
BY DEF EmptySlot, PhaseInv

LEMMA NextOwners == ServingOK /\ [Next]_vars => OwnersInv' /\ PhasesInv'
<1> SUFFICES ASSUME ServingOK, [Next]_vars PROVE OwnersInv' /\ PhasesInv'
  OBVIOUS
<1>1. ASSUME NEW s \in Slots, NEW c \in Conns, NoSlotFor(c), AllocSlot(s, c)
      PROVE  OwnersInv' /\ PhasesInv'
  <2> DEFINE r == [EmptySlot EXCEPT !.used = TRUE, !.conn = c]
  <2>1. s \in Usable /\ slots' = [slots EXCEPT ![s] = r]
    BY <1>1 DEF AllocSlot, FirstFree
  <2>2. r.used /\ r.conn = c /\ PhaseInv(r)
    BY BlankPhase DEF EmptySlot
  <2> HIDE DEF r
  <2>3. \A t \in Slots \ {s} : slots'[t] = slots[t]
    BY <2>1 DEF ServingOK, StreamsOK, TypeOK
  <2>4. slots'[s] = r
    BY <2>1 DEF ServingOK, StreamsOK, TypeOK
  <2>5. \A t \in Slots : slots[t].used => slots[t].conn # c
    BY <1>1 DEF NoSlotFor, IsSlotOf, ServingOK, OwnersInv
  <2> QED BY <2>1, <2>2, <2>3, <2>4, <2>5 DEF ServingOK, OwnersInv, PhasesInv
<1>2. ASSUME NEW s \in Slots, SlotOperation(s), ~ReleaseSlot(s)
      PROVE  OwnersInv' /\ PhasesInv'
  BY <1>2, ServedOwners DEF SlotOperation, Serves
<1>3. ASSUME NEW s \in Slots, ReleaseSlot(s) PROVE OwnersInv' /\ PhasesInv'
  <2>1. slots' = [slots EXCEPT ![s] = EmptySlot]
    BY <1>3 DEF ReleaseSlot
  <2>2. \A t \in Slots : slots'[t] = IF t = s THEN EmptySlot ELSE slots[t]
    BY <2>1 DEF ServingOK, StreamsOK, TypeOK
  <2>3. ~EmptySlot.used /\ EmptySlot.static_handle = NoHandle
    BY DEF EmptySlot
  <2> QED BY <2>2, <2>3, BlankPhase DEF ServingOK, OwnersInv, PhasesInv
<1>4. CASE Reset
  <2>1. ~EmptySlot.used /\ EmptySlot.static_handle = NoHandle
    BY DEF EmptySlot
  <2> QED BY <1>4, <2>1, BlankPhase DEF Reset, OwnersInv, PhasesInv
<1>5. CASE UNCHANGED vars
  BY <1>5 DEF vars, ServingOK, OwnersInv, PhasesInv
<1> QED BY <1>1, <1>2, <1>3, <1>4, <1>5 DEF Next

LEMMA InitServing == Init => ServingOK
<1>1. ~EmptySlot.used /\ EmptySlot.static_handle = NoHandle
  BY DEF EmptySlot
<1> QED BY <1>1, InitStream, BlankPhase DEF Init, ServingOK, OwnersInv, PhasesInv

LEMMA NextServing == ServingOK /\ [Next]_vars => ServingOK'
BY NextStream, NextOwners DEF ServingOK

(* A connection has at most one slot, and only the first max_clients slots *)
(* are ever given away: find_slot cannot answer with another's slot.  A    *)
(* slot given back holds no file.                                          *)
THEOREM OwnersCorrect == Spec => []OwnersInv
<1>1. ServingOK => OwnersInv
  BY DEF ServingOK
<1> QED BY <1>1, InitServing, NextServing, PTL DEF Spec
=============================================================================
