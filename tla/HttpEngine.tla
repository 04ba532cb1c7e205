----------------------------- MODULE HttpEngine -----------------------------
(***************************************************************************)
(* The slot table of HttpEngine (src/http_engine.cpp): one slot per client *)
(* connection, driven by whoever owns the sockets.  A slot collects one    *)
(* request through its parser, dispatches it, and then streams one         *)
(* response through its tx buffer: the header block first, the body in     *)
(* chunks of at most HTTP_RESPONSE_BUFFER_SIZE bytes.                      *)
(*                                                                         *)
(* Bytes are abstracted to their position.  The response of a slot is the  *)
(* stream 0 .. hdr_len + body_len - 1, headers first.  The tx buffer holds *)
(* tx_len consecutive bytes of that stream starting at position tx_pos,    *)
(* and wire counts the bytes of this response the transport has accepted.  *)
(* tx_pos, hdr_len, wire and split describe contents the code keeps only   *)
(* in bytes; every other field is a member of struct HttpClientSlot.       *)
(* HttpClientSlot.state is written by the code and never read: it has no   *)
(* counterpart here.                                                       *)
(***************************************************************************)
EXTENDS Integers, HttpParserStates

CONSTANTS
  HTTP_MAX_CLIENTS,  (* Size of the slot table.                            *)
  RequestedClients,  (* The uint8_t argument of reset(), clamped below.    *)
  TxSize,            (* HTTP_RESPONSE_BUFFER_SIZE, the size of tx[].       *)
  HeaderLens,        (* Sizes a header block built for a handler or a file *)
                     (* may take, encodable or not.                        *)
  ErrHeaderLen,      (* Size of the header block of an error response.     *)
  ErrBodyLen,        (* Size of its text ("Not Found", ...).               *)
  BodyLens,          (* Body lengths a handler or a file may announce.     *)
  FaultyReads,       (* May body readers and file backends fail?           *)
  Conns, NoConn,     (* Connection pointers of the transport; null.        *)
  Handles, NoHandle  (* File handles of the backend; null.                 *)

ASSUME ConstantsAssumption ==
  /\ HTTP_MAX_CLIENTS \in Nat \ {0}
  /\ RequestedClients \in 0 .. 255
  /\ TxSize \in Nat
  /\ HeaderLens \subseteq Nat \ {0}
  /\ BodyLens \subseteq Nat
  /\ FaultyReads \in BOOLEAN
  /\ NoConn \notin Conns
  /\ NoHandle \notin Handles

(* The longest header block of an error response takes about 100 of the    *)
(* 512 bytes of tx, so encode_headers never fails inside send_error.       *)
ASSUME ErrorFitsAssumption ==
  /\ ErrHeaderLen \in Nat \ {0}
  /\ ErrHeaderLen < TxSize
  /\ ErrBodyLen \in Nat

VARIABLES
  slots,         (* slots_[HTTP_MAX_CLIENTS]                               *)
  open_handles,  (* backend handles between open() and close()             *)
  orphaned       (* history: handles reset() dropped without closing them  *)

vars == <<slots, open_handles, orphaned>>

Slots == 0 .. HTTP_MAX_CLIENTS - 1
MaxClients == IF RequestedClients = 0 \/ RequestedClients > HTTP_MAX_CLIENTS
              THEN HTTP_MAX_CLIENTS ELSE RequestedClients
Usable == 0 .. MaxClients - 1

SendPhases == {"IDLE", "HEADERS", "BODY", "DONE", "ERROR"}
(* MEMORY stands for body_ram and body_progmem, which are copied alike.    *)
Sources == {"NONE", "MEMORY", "READER"}

SlotType ==
  [used: BOOLEAN, conn: Conns \cup {NoConn}, parser: ParserStates,
   tx_len: 0 .. TxSize, tx_pos: Nat, close_after_send: BOOLEAN,
   send_phase: SendPhases, hdr_len: Nat, body_len: Nat, body_sent: Nat,
   body_src: Sources, static_handle: Handles \cup {NoHandle}, file_pos: Nat,
   wire: Nat, split: BOOLEAN]

EmptySlot ==
  [used |-> FALSE, conn |-> NoConn, parser |-> "READ_LINE",
   tx_len |-> 0, tx_pos |-> 0, close_after_send |-> FALSE,
   send_phase |-> "IDLE", hdr_len |-> 0, body_len |-> 0, body_sent |-> 0,
   body_src |-> "NONE", static_handle |-> NoHandle, file_pos |-> 0,
   wire |-> 0, split |-> FALSE]

MinOf(a, b) == IF a < b THEN a ELSE b

-----------------------------------------------------------------------------
(* Slot allocation.                                                        *)

FirstFree(s) == /\ s \in Usable
                /\ ~slots[s].used
                /\ \A t \in 0 .. s - 1 : slots[t].used

IsSlotOf(s, c) == slots[s].used /\ slots[s].conn = c

(* find_slot(c) returns s.                                                 *)
FoundSlot(c, s) == /\ s \in Usable
                   /\ IsSlotOf(s, c)
                   /\ \A t \in 0 .. s - 1 : ~IsSlotOf(t, c)

(* find_slot(c) returns -1.                                                *)
NoSlotFor(c) == \A s \in Usable : ~IsSlotOf(s, c)

AllocSlot(s, c) ==
  /\ FirstFree(s)
  /\ slots' = [slots EXCEPT ![s] = [EmptySlot EXCEPT !.used = TRUE, !.conn = c]]
  /\ UNCHANGED <<open_handles, orphaned>>

(* Mutant: release_slot forgets close_static_if_needed.                    *)
ReleaseSlotOnly(s) ==
  /\ slots' = [slots EXCEPT ![s] = EmptySlot]
  /\ UNCHANGED <<open_handles, orphaned>>

ReleaseSlot(s) ==
  /\ open_handles' = open_handles \ {slots[s].static_handle}
  /\ slots' = [slots EXCEPT ![s] = EmptySlot]
  /\ UNCHANGED orphaned

(* reset() blanks every slot; unlike release_slot it closes no file.       *)
HeldHandles == {slots[s].static_handle : s \in Slots} \ {NoHandle}

Reset ==
  /\ slots' = [s \in Slots |-> EmptySlot]
  /\ orphaned' = orphaned \cup HeldHandles
  /\ UNCHANGED open_handles

-----------------------------------------------------------------------------
(* Building a response.                                                    *)

(* snprintf must leave room for its terminating zero.                      *)
Encodable(hdr) == hdr < TxSize

(* Mutant: start_response forgets to reset body_sent.                      *)
StartResponseKeepingCount(r, hdr, src, len) ==
  [r EXCEPT !.tx_len = hdr, !.tx_pos = 0, !.hdr_len = hdr,
            !.send_phase = IF len = 0 THEN "DONE" ELSE "HEADERS",
            !.close_after_send = TRUE, !.body_len = len, !.body_src = src,
            !.static_handle = NoHandle, !.file_pos = 0,
            !.wire = 0, !.split = FALSE]

(* start_response: tx is overwritten with the new header block and the     *)
(* body descriptor replaced, whatever the slot was sending before.         *)
StartResponse(r, hdr, src, len) ==
  [r EXCEPT !.tx_len = hdr, !.tx_pos = 0, !.hdr_len = hdr,
            !.send_phase = IF len = 0 THEN "DONE" ELSE "HEADERS",
            !.close_after_send = TRUE,
            !.body_len = len, !.body_sent = 0, !.body_src = src,
            !.static_handle = NoHandle, !.file_pos = 0,
            !.wire = 0, !.split = FALSE]

SendError(r) == StartResponse(r, ErrHeaderLen, "MEMORY", ErrBodyLen)

(* start_static_response: phase HEADERS even when the file is empty.       *)
StartStaticResponse(r, hdr, len, h) ==
  [StartResponse(r, hdr, "NONE", len) EXCEPT !.send_phase = "HEADERS",
                                             !.static_handle = h]

(* The slot gets response r, and the file it was sending, if any, is       *)
(* closed: every path of dispatch and send_error goes through              *)
(* close_static_if_needed first.                                           *)
Answer(s, r) ==
  /\ slots' = [slots EXCEPT ![s] = r]
  /\ open_handles' = open_handles \ {slots[s].static_handle}
  /\ UNCHANGED orphaned

(* 400, 404, 405, 413 and 500: wrong method, no route and no file, a       *)
(* handler that sent nothing, or a header block that does not fit.  A file *)
(* opened for a header block that does not fit is closed again at once.    *)
AnswerError(s, r) == Answer(s, SendError(r))

(* A handler ran and its response can be encoded.                          *)
AnswerFromHandler(s, r) ==
  \E hdr \in HeaderLens, len \in BodyLens, src \in {"MEMORY", "READER"} :
    /\ Encodable(hdr)
    /\ Answer(s, StartResponse(r, hdr, IF len = 0 THEN "NONE" ELSE src, len))

(* No route matched a GET and a static file was opened.                    *)
AnswerFromFile(s, r) ==
  \E hdr \in HeaderLens, len \in BodyLens, h \in Handles \ open_handles :
    /\ Encodable(hdr)
    /\ slots' = [slots EXCEPT ![s] = StartStaticResponse(r, hdr, len, h)]
    /\ open_handles' = (open_handles \ {slots[s].static_handle}) \cup {h}
    /\ UNCHANGED orphaned

Dispatch(s, r) == \/ AnswerError(s, r)
                  \/ AnswerFromHandler(s, r)
                  \/ AnswerFromFile(s, r)

-----------------------------------------------------------------------------
(* on_data: one segment is fed to the parser of the slot.                  *)

OnDataMore(s) ==
  /\ slots[s].used
  /\ \E q \in Forward(slots[s].parser) :
       slots' = [slots EXCEPT ![s].parser = q]
  /\ UNCHANGED <<open_handles, orphaned>>

(* Mutant: a parse error is returned to the caller and not answered.       *)
OnDataRejectedSilently(s) ==
  /\ slots[s].used
  /\ CanReject(slots[s].parser)
  /\ slots' = [slots EXCEPT ![s].parser = "ERROR"]
  /\ UNCHANGED <<open_handles, orphaned>>

(* ERROR or BODY_TOO_LARGE: 400 or 413.                                    *)
OnDataRejected(s) ==
  /\ slots[s].used
  /\ CanReject(slots[s].parser)
  /\ AnswerError(s, [slots[s] EXCEPT !.parser = "ERROR"])

OnDataComplete(s) ==
  /\ slots[s].used
  /\ CanComplete(slots[s].parser)
  /\ Dispatch(s, [slots[s] EXCEPT !.parser = "DONE"])

OnData(s) == OnDataMore(s) \/ OnDataRejected(s) \/ OnDataComplete(s)

-----------------------------------------------------------------------------
(* on_drain: refill the empty tx buffer.                                   *)

NeedsBody(r) == r.tx_len = 0 /\ r.send_phase \in {"HEADERS", "BODY"}
(* Mutant: the last chunk is not cut to what remains.                      *)
WholeChunk(r) == IF r.body_len = r.body_sent THEN 0 ELSE TxSize
Chunk(r) == MinOf(r.body_len - r.body_sent, TxSize)

(* What the body source may return when asked for Chunk(r) bytes.  A file  *)
(* has at most the bytes its size() announced.                             *)
Available(r) == MinOf(Chunk(r), r.body_len - r.file_pos)
Reads(r) ==
  IF r.body_src = "MEMORY" THEN {Chunk(r)}
  ELSE IF r.body_src = "READER"
  THEN IF FaultyReads THEN 0 .. Chunk(r) + 1 ELSE 1 .. Chunk(r)
  ELSE IF r.static_handle # NoHandle
  THEN IF FaultyReads \/ Available(r) <= 0 THEN 0 .. Available(r)
                                           ELSE 1 .. Available(r)
  ELSE {0}

(* Memory and readers are read at offset body_sent, a file at its own      *)
(* position.                                                               *)
ReadOffset(r) == IF r.body_src = "NONE" THEN r.file_pos ELSE r.body_sent

ReadFailed(r) == [r EXCEPT !.send_phase = "ERROR", !.static_handle = NoHandle]
Loaded(r, got) ==
  [r EXCEPT !.send_phase = "BODY", !.tx_len = got,
            !.tx_pos = r.hdr_len + ReadOffset(r),
            !.file_pos = IF r.body_src = "NONE" THEN @ + got ELSE @]

(* Mutant: a reader that returns more than it was asked for is believed.   *)
FilledUnchecked(r, got) == IF Chunk(r) = 0 THEN [r EXCEPT !.send_phase = "DONE"]
                           ELSE IF got > 0 THEN Loaded(r, got) ELSE ReadFailed(r)

Filled(r, got) == IF Chunk(r) = 0 THEN [r EXCEPT !.send_phase = "DONE"]
                  ELSE IF got \in 1 .. Chunk(r) THEN Loaded(r, got)
                  ELSE ReadFailed(r)

(* The file is closed exactly when the read failed.                        *)
FillNextTx(s) ==
  LET r == slots[s] IN
  IF NeedsBody(r)
  THEN \E got \in Reads(r) :
         /\ slots' = [slots EXCEPT ![s] = Filled(r, got)]
         /\ open_handles' = IF Filled(r, got).send_phase = "ERROR"
                            THEN open_handles \ {r.static_handle}
                            ELSE open_handles
         /\ UNCHANGED orphaned
  ELSE UNCHANGED vars

OnDrain(s) == slots[s].used /\ FillNextTx(s)

-----------------------------------------------------------------------------
(* on_bytes_sent: the transport took n of the tx_len bytes offered.  When  *)
(* it takes the last of them, body_sent grows by the bytes taken in this   *)
(* call, not by the chunk.                                                 *)

(* Mutant: the rest of tx is not moved to its front.                       *)
PartlySentUnmoved(r, n) ==
  [r EXCEPT !.tx_len = @ - n, !.wire = @ + n,
            !.split = IF r.send_phase = "BODY" THEN TRUE ELSE @]

PartlySent(r, n) ==
  [r EXCEPT !.tx_len = @ - n, !.tx_pos = @ + n, !.wire = @ + n,
            !.split = IF r.send_phase = "BODY" THEN TRUE ELSE @]

BodySentAfter(r) == IF r.send_phase = "BODY" THEN r.body_sent + r.tx_len
                                             ELSE r.body_sent
BodyFinished(r) == r.send_phase = "BODY" /\ BodySentAfter(r) >= r.body_len

AllSent(r) ==
  [r EXCEPT !.tx_len = 0, !.tx_pos = @ + r.tx_len, !.wire = @ + r.tx_len,
            !.body_sent = BodySentAfter(r),
            !.send_phase = IF @ \notin {"HEADERS", "BODY"} THEN @
                           ELSE IF BodySentAfter(r) >= r.body_len THEN "DONE"
                           ELSE "BODY",
            !.static_handle = IF BodyFinished(r) THEN NoHandle ELSE @]

OnBytesSent(s, n) ==
  LET r == slots[s] IN
  /\ r.used
  /\ slots' = [slots EXCEPT ![s] = IF n >= r.tx_len THEN AllSent(r)
                                                    ELSE PartlySent(r, n)]
  /\ open_handles' = IF n >= r.tx_len /\ BodyFinished(r)
                     THEN open_handles \ {r.static_handle}
                     ELSE open_handles
  /\ UNCHANGED orphaned

(* Mutant: what is still in tx is not waited for.                          *)
ReadyBeforeSent(r) == r.close_after_send /\ r.send_phase = "DONE"

ReadyToClose(r) == /\ r.close_after_send
                   /\ r.tx_len = 0
                   /\ r.send_phase = "DONE"

-----------------------------------------------------------------------------
Init == /\ slots = [s \in Slots |-> EmptySlot]
        /\ open_handles = {}
        /\ orphaned = {}

(* Every legal call, in any order: a connection is given one slot, and the *)
(* transport reports at most the bytes it was offered.                     *)
SlotOperation(s) ==
  \/ OnData(s)
  \/ OnDrain(s)
  \/ \E n \in 1 .. slots[s].tx_len : OnBytesSent(s, n)
  \/ slots[s].used /\ ReleaseSlot(s)

Next == \/ \E s \in Slots, c \in Conns : NoSlotFor(c) /\ AllocSlot(s, c)
        \/ \E s \in Slots : SlotOperation(s)
        \/ Reset

Spec == Init /\ [][Next]_vars

-----------------------------------------------------------------------------
(* Properties.                                                             *)

TypeOK == /\ slots \in [Slots -> SlotType]
          /\ open_handles \in SUBSET Handles
          /\ orphaned \in SUBSET Handles

(* fill_next_tx computes body_len - body_sent in size_t: whatever mixture  *)
(* of short reads, partial sends and repeated requests a slot goes         *)
(* through, the bytes accounted for plus those in tx never exceed the      *)
(* announced length.                                                       *)
RemainingNeverUnderflows ==
  \A s \in Slots : slots[s].send_phase = "BODY" =>
    slots[s].body_sent + slots[s].tx_len <= slots[s].body_len

(* As long as no body chunk was accepted in two parts, the next byte       *)
(* offered to the transport is the next byte of the response: nothing is   *)
(* repeated, skipped or left over from an earlier response.                *)
StreamInOrder ==
  \A s \in Slots : (slots[s].tx_len > 0 /\ ~slots[s].split) =>
    slots[s].tx_pos = slots[s].wire

(* A slot becomes ready to close only after all the bytes its headers      *)
(* announced; it has sent exactly those bytes if no body chunk was         *)
(* accepted in two parts, and too many otherwise.                          *)
ClosesAtAnnouncedLength ==
  \A s \in Slots : ReadyToClose(slots[s]) =>
    LET total == slots[s].hdr_len + slots[s].body_len IN
    /\ slots[s].wire >= total
    /\ slots[s].wire = total <=> ~slots[s].split

(* Every open file belongs to exactly one slot in use, except those        *)
(* reset() dropped; no slot keeps a handle that was closed.                *)
HandlesAccounted ==
  /\ open_handles = HeldHandles \cup orphaned
  /\ HeldHandles \cap orphaned = {}
  /\ \A s, t \in Slots :
       /\ slots[s].static_handle # NoHandle => slots[s].used
       /\ slots[s].static_handle = slots[t].static_handle =>
            s = t \/ slots[s].static_handle = NoHandle

(* A response is pending exactly when the parser has ended: no request is  *)
(* left unanswered and nothing is sent before the request is complete.     *)
AnsweredWhenParsed ==
  \A s \in Slots : slots[s].parser \in ReadingStates <=> ~slots[s].close_after_send

-----------------------------------------------------------------------------
(* The inductive invariant behind the properties above: where the stream   *)
(* of a slot stands in each send phase.                                    *)

IdleInv(r) == r.send_phase = "IDLE" => r.tx_len = 0

HeadersInv(r) ==
  r.send_phase = "HEADERS" =>
    /\ r.tx_len > 0
    /\ r.tx_pos = r.wire
    /\ r.wire + r.tx_len = r.hdr_len
    /\ r.body_sent = 0
    /\ r.file_pos = 0
    /\ ~r.split

BodyInv(r) ==
  r.send_phase = "BODY" =>
    /\ r.body_sent < r.body_len
    /\ r.body_sent + r.tx_len <= r.body_len
    /\ IF r.split
       THEN r.wire > r.hdr_len + r.body_sent
       ELSE /\ r.wire = r.hdr_len + r.body_sent
            /\ r.tx_len > 0 => r.tx_pos = r.wire
            /\ r.body_src = "NONE" => r.file_pos = r.body_sent + r.tx_len

DoneInv(r) ==
  r.send_phase = "DONE" =>
    IF r.split
    THEN r.tx_len = 0 /\ r.wire > r.hdr_len + r.body_len
    ELSE /\ r.wire + r.tx_len = r.hdr_len + r.body_len
         /\ r.tx_len > 0 => r.tx_pos = r.wire

ErrorInv(r) == r.send_phase = "ERROR" => r.tx_len = 0

StreamInv(r) == /\ IdleInv(r)
                /\ HeadersInv(r)
                /\ BodyInv(r)
                /\ DoneInv(r)
                /\ ErrorInv(r)

(* Every slot is where its send phase says it is.  One invariant for all   *)
(* phases, because each phase hands its stream over to the next.           *)
StreamsInvariant == \A s \in Slots : StreamInv(slots[s])
=============================================================================
