--------------------------- MODULE HttpTcpAdapter ---------------------------
(***************************************************************************)
(* http_tcp_adapter.cpp: the callbacks the TCP transport makes, each of    *)
(* them driving HttpEngine.  The transport runs them one at a time on its  *)
(* own task, but a callback that flushes takes several steps, and between  *)
(* two of them the peer acknowledges bytes or goes away.                   *)
(*                                                                         *)
(* The transport (the library esp8266-tcp-transport) is external.  It is   *)
(* modelled by what the adapter relies on: callbacks for a connection come *)
(* between its on_connect and its on_close, tcp_send takes at most what    *)
(* the send buffer has room for, tcp_close_after_drain closes once every   *)
(* accepted byte is acknowledged, and on_drain, where it exists, follows   *)
(* an acknowledgement (it may also come for no reason).                    *)
(***************************************************************************)
EXTENDS Integers

CONSTANTS HTTP_MAX_CLIENTS, RequestedClients, TxSize, HeaderLens, ErrHeaderLen,
          ErrBodyLen, BodyLens, FaultyReads, Conns, NoConn, Handles, NoHandle

CONSTANTS
  HasOnDrain,  (* HTTP_TCP_TRANSPORT_HAS_ON_DRAIN.                         *)
  SndBuf,      (* Bytes the transport buffers for a connection.            *)
  SplitSends,  (* Does tcp_send take a part of what it is offered when     *)
               (* there is no room for all of it, or nothing?              *)
  ExtraData,   (* Do peers send more after their request is complete?      *)
  MaxSegments  (* Bound: segments received on one connection.              *)

ASSUME TransportAssumption ==
  /\ HasOnDrain \in BOOLEAN
  /\ SplitSends \in BOOLEAN
  /\ ExtraData \in BOOLEAN
  /\ SndBuf \in Nat \ {0}
  /\ ~SplitSends => SndBuf >= TxSize
  /\ MaxSegments \in Nat \ {0}

VARIABLES
  slots, open_handles, orphaned,  (* HttpEngine                            *)
  task,      (* the network task: where it is in the callback it runs      *)
  link,      (* the transport's view of each connection                    *)
  unacked,   (* bytes accepted by tcp_send and not yet acknowledged        *)
  accepted,  (* bytes tcp_send took from the connection's callbacks        *)
  drain_due, (* an on_drain callback is owed to the connection             *)
  segments   (* segments received on the connection so far                 *)

E == INSTANCE HttpEngine

(* What HttpEngine assumes of the constants the two modules share.         *)
ASSUME EngineAssumption == E!ConstantsAssumption /\ E!ErrorFitsAssumption

engine_vars == <<slots, open_handles, orphaned>>
transport_vars == <<link, unacked, accepted, drain_due, segments>>
vars == <<engine_vars, task, transport_vars>>

(* "draining" after tcp_close_after_drain; "closing" once the connection   *)
(* is gone and only on_close remains to be called.                         *)
Links == {"free", "open", "draining", "closing"}

Idle == [pc |-> "idle", conn |-> NoConn, slot |-> 0]
At(pc) == task.pc = pc
GoTo(pc) == task' = [task EXCEPT !.pc = pc]
StartFlush(c, s) == task' = [pc |-> "fill", conn |-> c, slot |-> s]

Gone(c) == /\ link' = [link EXCEPT ![c] = "closing"]
           /\ unacked' = [unacked EXCEPT ![c] = 0]
           /\ drain_due' = [drain_due EXCEPT ![c] = FALSE]
TcpClose(c) == Gone(c)

-----------------------------------------------------------------------------
(* Callbacks.                                                              *)

(* Mutant: with every slot taken, the first is given to the newcomer.      *)
OnConnectEvicting(c) ==
  /\ At("idle")
  /\ link[c] = "free"
  /\ segments' = [segments EXCEPT ![c] = 0]
  /\ link' = [link EXCEPT ![c] = "open"]
  /\ \/ \E s \in E!Slots : E!AllocSlot(s, c)
     \/ /\ \A s \in E!Usable : slots[s].used
        /\ slots' = [slots EXCEPT ![0] = [E!EmptySlot EXCEPT !.used = TRUE, !.conn = c]]
        /\ UNCHANGED <<open_handles, orphaned>>
  /\ UNCHANGED <<task, unacked, accepted, drain_due>>

OnConnect(c) ==
  /\ At("idle")
  /\ link[c] = "free"
  /\ segments' = [segments EXCEPT ![c] = 0]
  /\ \/ /\ \E s \in E!Slots : E!AllocSlot(s, c)
        /\ link' = [link EXCEPT ![c] = "open"]
        /\ UNCHANGED <<unacked, drain_due>>
     \/ /\ \A s \in E!Usable : slots[s].used
        /\ TcpClose(c)
        /\ UNCHANGED engine_vars
  /\ UNCHANGED <<task, accepted>>

(* A peer that sends no more than its request stops when it is complete.   *)
MaySend(s) == ExtraData \/ slots[s].parser \in E!ReadingStates

(* Mutant: the response is prepared, but sent only on the next callback.   *)
OnDataWithoutFlush(c) ==
  /\ At("idle")
  /\ link[c] # "free"
  /\ segments[c] < MaxSegments
  /\ segments' = [segments EXCEPT ![c] = @ + 1]
  /\ \E s \in E!Slots : E!FoundSlot(c, s) /\ MaySend(s) /\ E!OnData(s)
  /\ UNCHANGED <<task, link, unacked, accepted, drain_due>>

OnData(c) ==
  /\ At("idle")
  /\ link[c] # "free"
  /\ segments[c] < MaxSegments
  /\ segments' = [segments EXCEPT ![c] = @ + 1]
  /\ UNCHANGED accepted
  /\ \/ \E s \in E!Slots : /\ E!FoundSlot(c, s)
                           /\ MaySend(s)
                           /\ E!OnData(s)
                           /\ StartFlush(c, s)
                           /\ UNCHANGED <<link, unacked, drain_due>>
     \/ /\ E!NoSlotFor(c)
        /\ TcpClose(c)
        /\ UNCHANGED <<engine_vars, task>>

OnDrain(c) ==
  /\ HasOnDrain
  /\ At("idle")
  /\ link[c] # "free"
  /\ \/ \E s \in E!Slots : /\ E!FoundSlot(c, s)
                           /\ StartFlush(c, s)
                           /\ drain_due' = [drain_due EXCEPT ![c] = FALSE]
                           /\ UNCHANGED <<link, unacked>>
     \/ /\ E!NoSlotFor(c)
        /\ TcpClose(c)
        /\ UNCHANGED task
  /\ UNCHANGED <<engine_vars, accepted, segments>>

(* Mutant: the slot is released only if its response was sent.             *)
OnCloseAfterResponse(c) ==
  /\ At("idle")
  /\ link[c] = "closing"
  /\ link' = [link EXCEPT ![c] = "free"]
  /\ accepted' = [accepted EXCEPT ![c] = 0]
  /\ \/ \E s \in E!Slots : /\ E!FoundSlot(c, s)
                           /\ E!ReadyToClose(slots[s])
                           /\ E!ReleaseSlot(s)
     \/ UNCHANGED engine_vars
  /\ UNCHANGED <<task, unacked, drain_due, segments>>

(* on_error does nothing, so the only trace of an error is this callback.  *)
OnClose(c) ==
  /\ At("idle")
  /\ link[c] = "closing"
  /\ link' = [link EXCEPT ![c] = "free"]
  /\ accepted' = [accepted EXCEPT ![c] = 0]
  /\ \/ \E s \in E!Slots : E!FoundSlot(c, s) /\ E!ReleaseSlot(s)
     \/ E!NoSlotFor(c) /\ UNCHANGED engine_vars
  /\ UNCHANGED <<task, unacked, drain_due, segments>>

-----------------------------------------------------------------------------
(* flush_tx, on the connection and slot of the callback that called it.    *)

(* Mutant: an error of on_drain does not end the loop.                     *)
FlushFillRetrying ==
  /\ At("fill")
  /\ IF slots[task.slot].used /\ slots[task.slot].tx_len = 0
     THEN E!OnDrain(task.slot)
     ELSE UNCHANGED engine_vars
  /\ GoTo(IF slots'[task.slot].send_phase = "ERROR" THEN "fill"
          ELSE IF slots'[task.slot].tx_len = 0 THEN "finish" ELSE "send")
  /\ UNCHANGED transport_vars

FlushFill ==
  /\ At("fill")
  /\ IF slots[task.slot].used /\ slots[task.slot].tx_len = 0
     THEN E!OnDrain(task.slot)
     ELSE UNCHANGED engine_vars
  /\ GoTo(IF slots'[task.slot].tx_len = 0 THEN "finish" ELSE "send")
  /\ UNCHANGED transport_vars

(* What tcp_send may return when offered len bytes.                        *)
Room(c) == SndBuf - unacked[c]
Takes(c, len) == IF len <= Room(c) THEN len
                 ELSE IF SplitSends THEN Room(c) ELSE 0
Accepted(c, len) == CASE link[c] = "open"     -> {Takes(c, len)}
                      [] link[c] = "draining" -> {0, Takes(c, len)}
                      [] OTHER                -> {0}

(* Mutant: the engine is told that all it offered was sent.                *)
FlushSendAll ==
  /\ At("send")
  /\ LET c == task.conn
         s == task.slot
         pending == slots[s].tx_len
     IN \E sent \in Accepted(c, pending) :
          /\ unacked' = [unacked EXCEPT ![c] = @ + sent]
          /\ accepted' = [accepted EXCEPT ![c] = @ + sent]
          /\ E!OnBytesSent(s, pending)
          /\ GoTo(IF sent < pending THEN "finish" ELSE "fill")
  /\ UNCHANGED <<link, drain_due, segments>>

(* Mutant: a send that took nothing is tried again.                        *)
FlushSendRetrying ==
  /\ At("send")
  /\ LET c == task.conn
         s == task.slot
         pending == slots[s].tx_len
     IN \E sent \in Accepted(c, pending) :
          /\ unacked' = [unacked EXCEPT ![c] = @ + sent]
          /\ accepted' = [accepted EXCEPT ![c] = @ + sent]
          /\ IF sent = 0 THEN UNCHANGED engine_vars ELSE E!OnBytesSent(s, sent)
          /\ GoTo(IF sent > 0 /\ sent < pending THEN "finish" ELSE "fill")
  /\ UNCHANGED <<link, drain_due, segments>>

FlushSend ==
  /\ At("send")
  /\ LET c == task.conn
         s == task.slot
         pending == slots[s].tx_len
     IN \E sent \in Accepted(c, pending) :
          /\ unacked' = [unacked EXCEPT ![c] = @ + sent]
          /\ accepted' = [accepted EXCEPT ![c] = @ + sent]
          /\ IF sent = 0 THEN UNCHANGED engine_vars ELSE E!OnBytesSent(s, sent)
          /\ GoTo(IF sent < pending THEN "finish" ELSE "fill")
  /\ UNCHANGED <<link, drain_due, segments>>

(* Mutants: close_after_send is asked instead of ready_to_close; the slot  *)
(* is released at once; the connection is left to the peer to close.       *)
FlushFinishEarly ==
  /\ At("finish")
  /\ task' = Idle
  /\ LET c == task.conn IN
     IF slots[task.slot].close_after_send /\ link[c] = "open"
     THEN link' = [link EXCEPT ![c] = "draining"]
     ELSE UNCHANGED link
  /\ UNCHANGED <<engine_vars, unacked, accepted, drain_due, segments>>

FlushFinishReleasing ==
  /\ At("finish")
  /\ task' = Idle
  /\ LET c == task.conn IN
     IF E!ReadyToClose(slots[task.slot]) /\ link[c] = "open"
     THEN link' = [link EXCEPT ![c] = "draining"] /\ E!ReleaseSlot(task.slot)
     ELSE UNCHANGED <<engine_vars, link>>
  /\ UNCHANGED <<unacked, accepted, drain_due, segments>>

FlushFinishOpen ==
  /\ At("finish")
  /\ task' = Idle
  /\ UNCHANGED <<engine_vars, transport_vars>>

FlushFinish ==
  /\ At("finish")
  /\ task' = Idle
  /\ LET c == task.conn IN
     IF E!ReadyToClose(slots[task.slot]) /\ link[c] = "open"
     THEN link' = [link EXCEPT ![c] = "draining"]
     ELSE UNCHANGED link
  /\ UNCHANGED <<engine_vars, unacked, accepted, drain_due, segments>>

-----------------------------------------------------------------------------
(* The transport and the peer.                                             *)

Ack(c) == /\ \E n \in 1 .. unacked[c] : unacked' = [unacked EXCEPT ![c] = @ - n]
          /\ drain_due' = [drain_due EXCEPT ![c] = HasOnDrain]
          /\ UNCHANGED <<engine_vars, task, link, accepted, segments>>

DrainDone(c) == /\ link[c] = "draining"
                /\ unacked[c] = 0
                /\ Gone(c)
                /\ UNCHANGED <<engine_vars, task, accepted, segments>>

(* The peer closes or resets, or the transport gives the connection up.    *)
PeerGone(c) == /\ link[c] \in {"open", "draining"}
               /\ Gone(c)
               /\ UNCHANGED <<engine_vars, task, accepted, segments>>

-----------------------------------------------------------------------------
Init == /\ E!Init
        /\ task = Idle
        /\ link = [c \in Conns |-> "free"]
        /\ unacked = [c \in Conns |-> 0]
        /\ accepted = [c \in Conns |-> 0]
        /\ drain_due = [c \in Conns |-> FALSE]
        /\ segments = [c \in Conns |-> 0]

Flush == FlushFill \/ FlushSend \/ FlushFinish

Next == \/ Flush
        \/ \E c \in Conns : \/ OnConnect(c) \/ OnData(c) \/ OnDrain(c) \/ OnClose(c)
                            \/ Ack(c) \/ DrainDone(c) \/ PeerGone(c)

Spec == Init /\ [][Next]_vars

(* The task runs, a live peer acknowledges, and the transport calls the    *)
(* callbacks it owes: it serves them in turn, so one that is due comes     *)
(* even if the task is busy with others again and again.  Nothing obliges  *)
(* a peer to send a request, or to close.                                  *)
Fairness == /\ WF_vars(Flush)
            /\ \A c \in Conns : /\ WF_vars(Ack(c))
                                /\ WF_vars(DrainDone(c))
                                /\ SF_vars(OnDrain(c) /\ drain_due[c])
                                /\ SF_vars(OnClose(c))

FairSpec == Spec /\ Fairness

-----------------------------------------------------------------------------
(* Properties.                                                             *)

TypeOK == /\ E!TypeOK
          /\ task \in [pc: {"idle", "fill", "send", "finish"},
                       conn: Conns \cup {NoConn}, slot: E!Slots]
          /\ link \in [Conns -> Links]
          /\ unacked \in [Conns -> 0 .. SndBuf]
          /\ accepted \in [Conns -> Nat]
          /\ drain_due \in [Conns -> BOOLEAN]
          /\ segments \in [Conns -> 0 .. MaxSegments]

(* The slot table follows the connections: an open or draining connection  *)
(* has exactly one slot, a free one none, so no slot is leaked to a        *)
(* connection whose pointer may be used again; and a flush works on the    *)
(* slot its connection still has, however the callbacks interleave.        *)
SlotsFollowConnections ==
  /\ \A c \in Conns :
       /\ link[c] \in {"open", "draining"} => ~E!NoSlotFor(c)
       /\ link[c] = "free" => E!NoSlotFor(c)
       /\ \A s, t \in E!Slots : E!IsSlotOf(s, c) /\ E!IsSlotOf(t, c) => s = t
  /\ ~At("idle") => E!FoundSlot(task.conn, task.slot)

(* The engine is called as its interface allows: one slot to a connection, *)
(* no more bytes reported than were offered, no call on a free slot.       *)
ImplementsEngine == E!Spec

SlotOf(c) == CHOOSE s \in E!Slots : E!FoundSlot(c, s)
Answered(c) == ~E!NoSlotFor(c) /\ slots[SlotOf(c)].close_after_send
Complete(c) == Answered(c) /\ E!ReadyToClose(slots[SlotOf(c)])
Failed(c) == Answered(c) /\ slots[SlotOf(c)].send_phase = "ERROR"

ExchangeOf(c) ==
  IF E!NoSlotFor(c) THEN [phase |-> "closed", total |-> 0, sent |-> 0]
  ELSE LET r == slots[SlotOf(c)] IN
       IF ~r.close_after_send
       THEN [phase |-> "receiving", total |-> 0, sent |-> 0]
       ELSE [phase |-> IF r.send_phase = "ERROR" THEN "failed"
                       ELSE IF E!ReadyToClose(r) THEN "complete"
                       ELSE "responding",
             total |-> r.hdr_len + r.body_len,
             sent  |-> accepted[c]]

X == INSTANCE HttpExchange WITH
       exchange <- [c \in Conns |-> ExchangeOf(c)],
       Lengths <- {h + b : h \in HeaderLens, b \in BodyLens}
                    \cup {ErrHeaderLen + ErrBodyLen}

(* With peers that send one request and a transport that takes a chunk     *)
(* whole or not at all, every connection goes through one exchange: one    *)
(* response, of the length its headers announce, each byte accepted once.  *)
ImplementsExchange == X!Spec

(* tcp_close_after_drain is called only when the whole response was        *)
(* accepted, and nothing is added to it afterwards.                        *)
DrainsOnlyComplete == \A c \in Conns : link[c] = "draining" => Complete(c)

(* No wake-up is lost: when the task is idle, an open connection whose     *)
(* response is not complete waits for an acknowledgement that is still to  *)
(* come or for an on_drain that is due.                                    *)
NoLostWakeup ==
  \A c \in Conns :
    At("idle") /\ link[c] = "open" /\ Answered(c) /\ ~Complete(c) /\ ~Failed(c)
      => unacked[c] > 0 \/ drain_due[c]

(* A connection that got a response is closed and its slot released.       *)
AnsweredIsReleased == \A s \in E!Slots : slots[s].close_after_send ~> ~slots[s].used

(* It is so for every connection whose response has a source that works,   *)
(* whatever happens to the others.                                         *)
ReleasedUnlessFailed ==
  \A s \in E!Slots : slots[s].close_after_send
                      ~> ~slots[s].used \/ slots[s].send_phase = "ERROR"

(* A connection that ends, at whatever point of whichever flush, gives its *)
(* pointer and its slot back: flush_tx loops until it has nothing to send  *)
(* or nothing is taken, so no callback may hold the network task for ever, *)
(* with a source that fails, a send cut short, or its own connection gone. *)
GoneIsReleased ==
  \A c \in Conns : link[c] = "closing" ~> link[c] = "free" /\ E!NoSlotFor(c)

(* Statements of the documentation the code does not live up to.           *)

(* README.md:17: a connection emits one response; the bytes a peer gets    *)
(* are never followed by the start of another response.                    *)
OneResponsePerConnection ==
  [][\A s \in E!Slots :
       (slots[s].used /\ slots'[s].used /\ slots[s].conn = slots'[s].conn)
         => slots'[s].wire >= slots[s].wire]_vars

(* docs/memory.md:44: the headers and then the chunks of the body are      *)
(* streamed; what is offered to tcp_send continues what it has taken.      *)
BodyIsStreamed ==
  \A s \in E!Slots : slots[s].tx_len > 0 => slots[s].tx_pos = slots[s].wire

(* docs/api.md:86: a read of a static file that is inconsistent with its   *)
(* size is answered with 500, so it is found before anything is sent.      *)
ReadErrorsAreReported ==
  \A s \in E!Slots : slots[s].send_phase = "ERROR" => slots[s].wire = 0
=============================================================================
