----------------------- MODULE HttpTcpAdapter_proofs -----------------------
(***************************************************************************)
(* Proofs about HttpTcpAdapter, for every number of slots and connections, *)
(* every size of the buffers and every choice of the transport.            *)
(***************************************************************************)
EXTENDS HttpTcpAdapter, TLAPS

EP == INSTANCE HttpEngine_proofs

-----------------------------------------------------------------------------
(* The engine of the adapter (E) is the engine the theorems are about (EP).*)

LEMMA EngineAssumptions == EP!ConstantsAssumption /\ EP!ErrorFitsAssumption
BY EngineAssumption DEF E!ConstantsAssumption, E!ErrorFitsAssumption,
                        EP!ConstantsAssumption, EP!ErrorFitsAssumption

LEMMA SameSlots == /\ E!Slots = EP!Slots
                   /\ E!Usable = EP!Usable
                   /\ E!SlotType = EP!SlotType
                   /\ E!EmptySlot = EP!EmptySlot
                   /\ E!vars = EP!vars
BY DEF E!Slots, EP!Slots, E!Usable, EP!Usable, E!MaxClients, EP!MaxClients,
       E!SlotType, EP!SlotType, E!ParserStates, EP!ParserStates,
       E!ReadingStates, EP!ReadingStates, E!SendPhases, EP!SendPhases,
       E!Sources, EP!Sources, E!EmptySlot, EP!EmptySlot, E!vars, EP!vars

LEMMA SameOperations ==
  ASSUME NEW s, NEW c, NEW n
  PROVE  /\ E!AllocSlot(s, c) <=> EP!AllocSlot(s, c)
         /\ E!ReleaseSlot(s) <=> EP!ReleaseSlot(s)
         /\ E!OnData(s) <=> EP!OnData(s)
         /\ E!OnDrain(s) <=> EP!OnDrain(s)
         /\ E!OnBytesSent(s, n) <=> EP!OnBytesSent(s, n)
         /\ E!NoSlotFor(c) <=> EP!NoSlotFor(c)
         /\ E!Reset <=> EP!Reset
<1>1. E!AllocSlot(s, c) <=> EP!AllocSlot(s, c)
  BY DEF E!AllocSlot, E!FirstFree, E!EmptySlot, E!Usable, E!MaxClients,
         EP!AllocSlot, EP!FirstFree, EP!EmptySlot, EP!Usable, EP!MaxClients
<1>2. E!ReleaseSlot(s) <=> EP!ReleaseSlot(s)
  BY DEF E!ReleaseSlot, E!EmptySlot, EP!ReleaseSlot, EP!EmptySlot
<1>3. E!OnData(s) <=> EP!OnData(s)
  BY DEF E!OnData, E!OnDataMore, E!OnDataRejected, E!OnDataComplete,
         E!Dispatch, E!AnswerError, E!AnswerFromHandler, E!AnswerFromFile,
         E!Answer, E!SendError, E!StartResponse, E!StartStaticResponse,
         E!Encodable, E!EmptySlot, E!Forward, E!CanComplete, E!CanReject,
         E!ReadingStates, EP!OnData, EP!OnDataMore, EP!OnDataRejected,
         EP!OnDataComplete, EP!Dispatch, EP!AnswerError,
         EP!AnswerFromHandler, EP!AnswerFromFile, EP!Answer, EP!SendError,
         EP!StartResponse, EP!StartStaticResponse, EP!Encodable,
         EP!EmptySlot, EP!Forward, EP!CanComplete, EP!CanReject,
         EP!ReadingStates
<1>4. E!OnDrain(s) <=> EP!OnDrain(s)
  BY DEF E!OnDrain, E!FillNextTx, E!NeedsBody, E!Reads, E!Chunk, E!Available,
         E!MinOf, E!Filled, E!Loaded, E!ReadOffset, E!ReadFailed, E!vars,
         EP!OnDrain, EP!FillNextTx, EP!NeedsBody, EP!Reads, EP!Chunk,
         EP!Available, EP!MinOf, EP!Filled, EP!Loaded, EP!ReadOffset,
         EP!ReadFailed, EP!vars
<1>5. E!OnBytesSent(s, n) <=> EP!OnBytesSent(s, n)
  BY DEF E!OnBytesSent, E!AllSent, E!PartlySent, E!BodySentAfter,
         E!BodyFinished, EP!OnBytesSent, EP!AllSent, EP!PartlySent,
         EP!BodySentAfter, EP!BodyFinished
<1>6. E!NoSlotFor(c) <=> EP!NoSlotFor(c)
  BY DEF E!NoSlotFor, E!IsSlotOf, E!Usable, E!MaxClients, EP!NoSlotFor,
         EP!IsSlotOf, EP!Usable, EP!MaxClients
<1>7. E!Reset <=> EP!Reset
  BY DEF E!Reset, E!HeldHandles, E!Slots, E!EmptySlot, EP!Reset,
         EP!HeldHandles, EP!Slots, EP!EmptySlot
<1> QED BY <1>1, <1>2, <1>3, <1>4, <1>5, <1>6, <1>7

LEMMA SameSteps == /\ E!Init <=> EP!Init
                   /\ E!Next <=> EP!Next
<1>1. E!Init <=> EP!Init
  BY SameSlots DEF E!Init, EP!Init
<1>2. \A s : E!SlotOperation(s) <=> EP!SlotOperation(s)
  BY SameOperations DEF E!SlotOperation, EP!SlotOperation
<1> QED BY <1>1, <1>2, SameSlots, SameOperations DEF E!Next, EP!Next

LEMMA SameSpec == E!Spec <=> EP!Spec
<1>1. [E!Next]_(E!vars) <=> [EP!Next]_(EP!vars)
  BY SameSteps DEF E!vars, EP!vars
<1>2. E!Init <=> EP!Init
  BY SameSteps
<1> QED BY <1>1, <1>2, PTL DEF E!Spec, EP!Spec

LEMMA SameInvariants ==
  /\ E!TypeOK <=> EP!TypeOK
  /\ E!StreamsInvariant <=> EP!StreamsInvariant
  /\ E!AnsweredWhenParsed <=> EP!AnsweredWhenParsed
  /\ E!HandlesAccounted <=> EP!HandlesAccounted
  /\ E!RemainingNeverUnderflows <=> EP!RemainingNeverUnderflows
  /\ E!StreamInOrder <=> EP!StreamInOrder
  /\ E!ClosesAtAnnouncedLength <=> EP!ClosesAtAnnouncedLength
<1>1. E!TypeOK <=> EP!TypeOK
  BY SameSlots DEF E!TypeOK, EP!TypeOK
<1>2. E!StreamsInvariant <=> EP!StreamsInvariant
  BY DEF E!StreamsInvariant, E!StreamInv, E!IdleInv, E!HeadersInv, E!BodyInv,
         E!DoneInv, E!ErrorInv, E!Slots, EP!StreamsInvariant, EP!StreamInv,
         EP!IdleInv, EP!HeadersInv, EP!BodyInv, EP!DoneInv, EP!ErrorInv,
         EP!Slots
<1>3. E!AnsweredWhenParsed <=> EP!AnsweredWhenParsed
  BY DEF E!AnsweredWhenParsed, E!ReadingStates, E!Slots,
         EP!AnsweredWhenParsed, EP!ReadingStates, EP!Slots
<1>4. E!HandlesAccounted <=> EP!HandlesAccounted
  BY DEF E!HandlesAccounted, E!HeldHandles, E!Slots, EP!HandlesAccounted,
         EP!HeldHandles, EP!Slots
<1>5. E!RemainingNeverUnderflows <=> EP!RemainingNeverUnderflows
  BY DEF E!RemainingNeverUnderflows, E!Slots, EP!RemainingNeverUnderflows,
         EP!Slots
<1>6. E!StreamInOrder <=> EP!StreamInOrder
  BY DEF E!StreamInOrder, E!Slots, EP!StreamInOrder, EP!Slots
<1>7. E!ClosesAtAnnouncedLength <=> EP!ClosesAtAnnouncedLength
  BY DEF E!ClosesAtAnnouncedLength, E!ReadyToClose, E!Slots,
         EP!ClosesAtAnnouncedLength, EP!ReadyToClose, EP!Slots
<1> QED BY <1>1, <1>2, <1>3, <1>4, <1>5, <1>6, <1>7

-----------------------------------------------------------------------------
(* The table: what each operation of the engine does to the question which *)
(* slot belongs to which connection.                                       *)

ServingOK == EP!ServingOK

LEMMA UsableSlots == E!Usable \subseteq E!Slots
BY EngineAssumption DEF E!ConstantsAssumption, E!Usable, E!Slots, E!MaxClients

LEMMA ServingFacts ==
  ASSUME ServingOK
  PROVE  /\ E!TypeOK
         /\ E!StreamsInvariant
         /\ \A s \in E!Slots : /\ slots[s] \in E!SlotType
                               /\ EP!PhaseInv(slots[s])
                               /\ slots[s].used => /\ s \in E!Usable
                                                   /\ slots[s].conn \in Conns
         /\ \A s, t \in E!Slots : \A c : E!IsSlotOf(s, c) /\ E!IsSlotOf(t, c) => s = t
<1>1. E!TypeOK /\ E!StreamsInvariant
  BY SameInvariants DEF ServingOK, EP!ServingOK, EP!StreamsOK
<1>2. \A s \in E!Slots : slots[s] \in E!SlotType
  BY <1>1 DEF E!TypeOK
<1>3. EP!OwnersInv /\ EP!PhasesInv
  BY DEF ServingOK, EP!ServingOK
<1> QED BY <1>1, <1>2, <1>3, SameSlots
        DEF EP!OwnersInv, EP!PhasesInv, E!IsSlotOf

(* find_slot finds the one slot of a connection, if it has one.            *)
Lookups ==
  \A c : /\ \A s : E!FoundSlot(c, s) <=> s \in E!Slots /\ E!IsSlotOf(s, c)
         /\ E!NoSlotFor(c) <=> \A s \in E!Slots : ~E!IsSlotOf(s, c)

LEMMA LookupsHold == ServingOK => Lookups
<1> SUFFICES ASSUME ServingOK, NEW c
             PROVE  /\ \A s : E!FoundSlot(c, s) <=> s \in E!Slots /\ E!IsSlotOf(s, c)
                    /\ E!NoSlotFor(c) <=> \A s \in E!Slots : ~E!IsSlotOf(s, c)
  BY DEF Lookups
<1>1. \A s \in E!Slots : 0 .. s - 1 \subseteq E!Slots /\ s \notin 0 .. s - 1
  BY EngineAssumption DEF E!ConstantsAssumption, E!Slots
<1>2. \A s \in E!Slots : E!IsSlotOf(s, c) => s \in E!Usable
  BY ServingFacts DEF E!IsSlotOf
<1>3. ASSUME NEW s \in E!Slots, E!IsSlotOf(s, c) PROVE E!FoundSlot(c, s)
  BY <1>1, <1>2, <1>3, ServingFacts DEF E!FoundSlot
<1>4. ASSUME NEW s, E!FoundSlot(c, s) PROVE s \in E!Slots /\ E!IsSlotOf(s, c)
  BY <1>4, UsableSlots DEF E!FoundSlot
<1>5. E!NoSlotFor(c) <=> \A s \in E!Slots : ~E!IsSlotOf(s, c)
  BY <1>2, UsableSlots DEF E!NoSlotFor
<1> QED BY <1>3, <1>4, <1>5

LEMMA Lookup ==
  ASSUME ServingOK, NEW c
  PROVE  /\ \A s : E!FoundSlot(c, s) <=> s \in E!Slots /\ E!IsSlotOf(s, c)
         /\ E!NoSlotFor(c) <=> \A s \in E!Slots : ~E!IsSlotOf(s, c)
BY LookupsHold DEF Lookups

LEMMA LookupsHoldNext == ServingOK' => Lookups'
BY LookupsHold, PTL

LEMMA LookupNext ==
  ASSUME ServingOK', NEW c
  PROVE  /\ \A s : E!FoundSlot(c, s)' <=> s \in E!Slots /\ E!IsSlotOf(s, c)'
         /\ E!NoSlotFor(c)' <=> \A s \in E!Slots : ~E!IsSlotOf(s, c)'
BY LookupsHoldNext DEF Lookups

LEMMA SlotOfFound ==
  ASSUME ServingOK, NEW c, NEW s, E!FoundSlot(c, s)
  PROVE  SlotOf(c) = s /\ s \in E!Slots /\ ~E!NoSlotFor(c)
<1>1. s \in E!Slots /\ \A t \in E!Slots : E!FoundSlot(c, t) => t = s
  BY Lookup, ServingFacts
<1>2. SlotOf(c) = s
  BY <1>1 DEF SlotOf
<1> QED BY <1>1, <1>2, Lookup

LEMMA SlotOfHolder ==
  ASSUME ServingOK, NEW c, ~E!NoSlotFor(c)
  PROVE  E!FoundSlot(c, SlotOf(c))
BY Lookup, SlotOfFound

Serves(s) == \/ E!OnData(s)
             \/ E!OnDrain(s)
             \/ \E n \in 1 .. slots[s].tx_len : E!OnBytesSent(s, n)

LEMMA AllocStep ==
  ASSUME ServingOK, NEW s \in E!Slots, NEW c \in Conns, E!NoSlotFor(c),
         E!AllocSlot(s, c)
  PROVE  /\ E!Next
         /\ ServingOK'
         /\ slots'[s] = [E!EmptySlot EXCEPT !.used = TRUE, !.conn = c]
         /\ \A t \in E!Slots \ {s} : slots'[t] = slots[t]
         /\ ~slots[s].used
<1>1. E!Next
  BY DEF E!Next
<1>2. ServingOK'
  BY <1>1, SameSteps, EngineAssumptions, EP!NextServing DEF ServingOK
<1> QED BY <1>1, <1>2, ServingFacts DEF E!AllocSlot, E!FirstFree, E!TypeOK

LEMMA ReleaseStep ==
  ASSUME ServingOK, NEW s \in E!Slots, slots[s].used, E!ReleaseSlot(s)
  PROVE  /\ E!Next
         /\ ServingOK'
         /\ slots'[s] = E!EmptySlot
         /\ \A t \in E!Slots \ {s} : slots'[t] = slots[t]
<1>1. E!Next
  BY DEF E!Next, E!SlotOperation
<1>2. ServingOK'
  BY <1>1, SameSteps, EngineAssumptions, EP!NextServing DEF ServingOK
<1> QED BY <1>1, <1>2, ServingFacts DEF E!ReleaseSlot, E!TypeOK

LEMMA ServeStep ==
  ASSUME ServingOK, NEW s \in E!Slots, Serves(s)
  PROVE  /\ E!Next
         /\ ServingOK'
         /\ \A t \in E!Slots \ {s} : slots'[t] = slots[t]
         /\ \A t \in E!Slots : EP!SameOwner(slots'[t], slots[t])
<1>1. E!Next
  BY DEF E!Next, E!SlotOperation, Serves
<1>2. ServingOK'
  BY <1>1, SameSteps, EngineAssumptions, EP!NextServing DEF ServingOK
<1>3. EP!Serves(s) /\ s \in EP!Slots
  BY SameOperations, SameSlots DEF Serves, EP!Serves
<1>4. \E r : slots' = [slots EXCEPT ![s] = r] /\ EP!SameOwner(r, slots[s])
  BY <1>3, EngineAssumptions, EP!ServedSlot DEF ServingOK, EP!ServingOK
<1> QED BY <1>1, <1>2, <1>4, ServingFacts DEF E!TypeOK, EP!SameOwner

LEMMA IdleStep ==
  ASSUME ServingOK, UNCHANGED engine_vars
  PROVE  ServingOK'
<1>1. [EP!Next]_(EP!vars)
  BY DEF engine_vars, EP!vars
<1> QED BY <1>1, EngineAssumptions, EP!NextServing DEF ServingOK

(* Who has a slot, after each of these steps.                              *)
LEMMA AllocLookup ==
  ASSUME ServingOK, NEW s \in E!Slots, NEW c \in Conns, E!NoSlotFor(c),
         E!AllocSlot(s, c), NEW d
  PROVE  /\ E!NoSlotFor(d)' <=> E!NoSlotFor(d) /\ d # c
         /\ \A t : E!FoundSlot(d, t)' <=> E!FoundSlot(d, t) \/ (d = c /\ t = s)
<1>1. ASSUME NEW t \in E!Slots
      PROVE  E!IsSlotOf(t, d)' <=> E!IsSlotOf(t, d) \/ (d = c /\ t = s)
  <2>1. CASE t = s
    <3>1. /\ slots'[s] = [E!EmptySlot EXCEPT !.used = TRUE, !.conn = c]
          /\ ~slots[s].used
      BY AllocStep
    <3>2. slots'[s].used /\ slots'[s].conn = c
      BY <3>1 DEF E!EmptySlot
    <3> QED BY <2>1, <3>1, <3>2 DEF E!IsSlotOf
  <2>2. CASE t # s
    BY <2>2, AllocStep DEF E!IsSlotOf
  <2> QED BY <2>1, <2>2
<1> QED BY <1>1, AllocStep, Lookup, LookupNext

LEMMA ReleaseLookup ==
  ASSUME ServingOK, NEW c, NEW s, E!FoundSlot(c, s), E!ReleaseSlot(s), NEW d
  PROVE  /\ E!NoSlotFor(d)' <=> E!NoSlotFor(d) \/ d = c
         /\ \A t : E!FoundSlot(d, t)' <=> E!FoundSlot(d, t) /\ t # s
<1>1. s \in E!Slots /\ E!IsSlotOf(s, c) /\ slots[s].used
  BY Lookup DEF E!IsSlotOf
<1>2. \A t \in E!Slots : E!IsSlotOf(t, d)' <=> E!IsSlotOf(t, d) /\ t # s
  BY <1>1, ReleaseStep DEF E!IsSlotOf, E!EmptySlot
<1>3. \A t \in E!Slots : E!IsSlotOf(t, c) => t = s
  BY <1>1, ServingFacts
<1>4. d # c => ~E!IsSlotOf(s, d)
  BY <1>1 DEF E!IsSlotOf
<1> QED BY <1>1, <1>2, <1>3, <1>4, ReleaseStep, Lookup, LookupNext

LEMMA ServeLookup ==
  ASSUME ServingOK, NEW s \in E!Slots, Serves(s), NEW d
  PROVE  /\ E!NoSlotFor(d)' <=> E!NoSlotFor(d)
         /\ \A t : E!FoundSlot(d, t)' <=> E!FoundSlot(d, t)
<1>1. \A t \in E!Slots : E!IsSlotOf(t, d)' <=> E!IsSlotOf(t, d)
  BY ServeStep DEF E!IsSlotOf, EP!SameOwner
<1> QED BY <1>1, ServeStep, Lookup, LookupNext

-----------------------------------------------------------------------------
(* Types, and the calls of the engine.                                     *)

TransportTypes ==
  /\ task \in [pc: {"idle", "fill", "send", "finish"},
               conn: Conns \cup {NoConn}, slot: E!Slots]
  /\ ~At("idle") => task.conn \in Conns
  /\ link \in [Conns -> Links]
  /\ unacked \in [Conns -> 0 .. SndBuf]
  /\ accepted \in [Conns -> Nat]
  /\ drain_due \in [Conns -> BOOLEAN]
  /\ segments \in [Conns -> 0 .. MaxSegments]

StepOK == ServingOK /\ TransportTypes

(* A step of the adapter in which a connection is only given a slot when   *)
(* it has none.                                                            *)
LegalNext ==
  \/ Flush
  \/ \E c \in Conns : \/ E!NoSlotFor(c) /\ OnConnect(c)
                      \/ OnData(c) \/ OnDrain(c) \/ OnClose(c)
                      \/ Ack(c) \/ DrainDone(c) \/ PeerGone(c)

(* tcp_send takes no more than it is offered and has room for, and only    *)
(* refuses a part when there is something that is still to be acknowledged.*)
LEMMA SendRange ==
  ASSUME StepOK, At("send"),
         NEW sent \in Accepted(task.conn, slots[task.slot].tx_len)
  PROVE  /\ task.conn \in Conns
         /\ task.slot \in E!Slots
         /\ slots[task.slot].tx_len \in Nat
         /\ sent \in 0 .. slots[task.slot].tx_len
         /\ unacked[task.conn] + sent \in 0 .. SndBuf
         /\ link[task.conn] = "open" /\ sent < slots[task.slot].tx_len
              => unacked[task.conn] + sent > 0
         /\ ~SplitSends => sent \in {0, slots[task.slot].tx_len}
<1> DEFINE c == task.conn
           len == slots[task.slot].tx_len
<1>1. /\ c \in Conns
      /\ task.slot \in E!Slots
      /\ unacked[c] \in 0 .. SndBuf
      /\ SndBuf \in Nat \ {0}
      /\ SplitSends \in BOOLEAN
  BY TransportAssumption DEF StepOK, TransportTypes, At
<1>2. /\ len \in Nat /\ TxSize \in Nat /\ len <= TxSize
      /\ ~SplitSends => SndBuf >= TxSize
  <2>1. slots[task.slot] \in E!SlotType
    BY <1>1, ServingFacts DEF StepOK
  <2> QED BY <2>1, EngineAssumption, TransportAssumption
          DEF E!SlotType, E!ConstantsAssumption
<1> HIDE DEF c, len
<1>3. /\ Takes(c, len) \in 0 .. len
      /\ unacked[c] + Takes(c, len) \in 0 .. SndBuf
      /\ ~SplitSends => Takes(c, len) \in {0, len}
      /\ Takes(c, len) < len => unacked[c] + Takes(c, len) > 0
  BY <1>1, <1>2 DEF Takes, Room
<1>4. /\ sent \in {0, Takes(c, len)}
      /\ link[c] = "open" => sent = Takes(c, len)
  BY DEF Accepted, c, len
<1>5. /\ sent \in 0 .. len
      /\ unacked[c] + sent \in 0 .. SndBuf
      /\ ~SplitSends => sent \in {0, len}
      /\ link[c] = "open" /\ sent < len => unacked[c] + sent > 0
  BY <1>1, <1>2, <1>3, <1>4
<1> QED BY <1>1, <1>2, <1>5 DEF c, len

(* A flush serves the slot of the callback, or does not call the engine.   *)
LEMMA FillStep ==
  ASSUME StepOK, FlushFill
  PROVE  /\ task.slot \in E!Slots
         /\ Serves(task.slot) \/ UNCHANGED engine_vars
BY DEF StepOK, TransportTypes, FlushFill, Serves, At

LEMMA SendStep ==
  ASSUME StepOK, FlushSend
  PROVE  /\ task.slot \in E!Slots
         /\ Serves(task.slot) \/ UNCHANGED engine_vars
<1>1. PICK sent \in Accepted(task.conn, slots[task.slot].tx_len) :
        IF sent = 0 THEN UNCHANGED engine_vars ELSE E!OnBytesSent(task.slot, sent)
  BY DEF FlushSend
<1>2. /\ task.slot \in E!Slots
      /\ slots[task.slot].tx_len \in Nat
      /\ sent \in 0 .. slots[task.slot].tx_len
  BY SendRange DEF FlushSend
<1>3. sent # 0 => sent \in 1 .. slots[task.slot].tx_len
  BY <1>2
<1> QED BY <1>1, <1>2, <1>3 DEF Serves

LEMMA FlushStep ==
  ASSUME StepOK, Flush
  PROVE  /\ task.slot \in E!Slots
         /\ Serves(task.slot) \/ UNCHANGED engine_vars
<1>1. CASE FlushFinish
  BY <1>1 DEF FlushFinish, StepOK, TransportTypes
<1> QED BY <1>1, FillStep, SendStep DEF Flush

(* Every step makes a call the engine allows, or none.                     *)
LEMMA LegalCalls ==
  ASSUME StepOK, LegalNext
  PROVE  E!Next \/ UNCHANGED engine_vars
<1>0. ServingOK
  BY DEF StepOK
<1>1. CASE Flush
  BY <1>0, <1>1, FlushStep, ServeStep
<1>2. ASSUME NEW c \in Conns, E!NoSlotFor(c), OnConnect(c)
      PROVE  E!Next \/ UNCHANGED engine_vars
  BY <1>2 DEF OnConnect, E!Next
<1>3. ASSUME NEW c \in Conns, OnData(c)
      PROVE  E!Next \/ UNCHANGED engine_vars
  BY <1>3 DEF OnData, E!Next, E!SlotOperation
<1>4. ASSUME NEW c \in Conns, OnClose(c)
      PROVE  E!Next \/ UNCHANGED engine_vars
  BY <1>4 DEF OnClose, E!Next, E!SlotOperation, E!FoundSlot, E!IsSlotOf
<1>5. ASSUME NEW c \in Conns,
             OnDrain(c) \/ Ack(c) \/ DrainDone(c) \/ PeerGone(c)
      PROVE  UNCHANGED engine_vars
  BY <1>5 DEF OnDrain, Ack, DrainDone, PeerGone
<1> QED BY <1>1, <1>2, <1>3, <1>4, <1>5 DEF LegalNext

LEMMA FlushTypes ==
  ASSUME StepOK, Flush
  PROVE  TransportTypes'
<1>0. /\ SndBuf \in Nat
      /\ TransportTypes
  BY TransportAssumption DEF StepOK
<1>1. CASE FlushFill
  BY <1>0, <1>1 DEF TransportTypes, FlushFill, At, GoTo, transport_vars
<1>2. CASE FlushSend
  <2>1. PICK sent \in Accepted(task.conn, slots[task.slot].tx_len) :
          /\ unacked' = [unacked EXCEPT ![task.conn] = @ + sent]
          /\ accepted' = [accepted EXCEPT ![task.conn] = @ + sent]
          /\ GoTo(IF sent < slots[task.slot].tx_len THEN "finish" ELSE "fill")
    BY <1>2 DEF FlushSend
  <2>2. /\ At("send")
        /\ UNCHANGED <<link, drain_due, segments>>
    BY <1>2 DEF FlushSend
  <2>3. /\ task.conn \in Conns
        /\ unacked[task.conn] + sent \in 0 .. SndBuf
        /\ sent \in Nat
    BY <2>2, SendRange
  <2>4. unacked' \in [Conns -> 0 .. SndBuf]
    BY <1>0, <2>1, <2>3 DEF TransportTypes
  <2>5. accepted' \in [Conns -> Nat]
    <3>1. accepted[task.conn] + sent \in Nat
      BY <1>0, <2>3 DEF TransportTypes
    <3> QED BY <1>0, <2>1, <3>1 DEF TransportTypes
  <2>6. /\ task' \in [pc: {"idle", "fill", "send", "finish"},
                      conn: Conns \cup {NoConn}, slot: E!Slots]
        /\ task'.conn \in Conns
    BY <1>0, <2>1, <2>3 DEF TransportTypes, GoTo
  <2> QED BY <1>0, <2>2, <2>4, <2>5, <2>6 DEF TransportTypes
<1>3. CASE FlushFinish
  <2>1. Idle \in [pc: {"idle", "fill", "send", "finish"},
                  conn: Conns \cup {NoConn}, slot: E!Slots]
    BY EngineAssumption DEF E!ConstantsAssumption, E!Slots, Idle
  <2>2. task' = Idle /\ Idle.pc = "idle"
    BY <1>3 DEF FlushFinish, Idle
  <2>3. link' \in [Conns -> Links]
    BY <1>0, <1>3 DEF FlushFinish, TransportTypes, Links
  <2> QED BY <1>0, <1>3, <2>1, <2>2, <2>3 DEF FlushFinish, TransportTypes, At
<1> QED BY <1>1, <1>2, <1>3 DEF Flush

LEMMA GoneTypes ==
  ASSUME TransportTypes, NEW c \in Conns, Gone(c)
  PROVE  /\ link' \in [Conns -> Links]
         /\ unacked' \in [Conns -> 0 .. SndBuf]
         /\ drain_due' \in [Conns -> BOOLEAN]
BY TransportAssumption DEF TransportTypes, Gone, Links

LEMMA StartFlushTypes ==
  ASSUME TransportTypes, NEW c \in Conns, NEW s, E!FoundSlot(c, s), StartFlush(c, s)
  PROVE  /\ task' \in [pc: {"idle", "fill", "send", "finish"},
                       conn: Conns \cup {NoConn}, slot: E!Slots]
         /\ (~At("idle") => task.conn \in Conns)'
BY UsableSlots DEF StartFlush, E!FoundSlot, At

LEMMA LegalTypes ==
  ASSUME StepOK, LegalNext
  PROVE  TransportTypes'
<1>0. TransportTypes /\ MaxSegments \in Nat /\ SndBuf \in Nat /\ HasOnDrain \in BOOLEAN
  BY TransportAssumption DEF StepOK
<1>1. ASSUME NEW c \in Conns, OnConnect(c) PROVE TransportTypes'
  <2>1. segments' \in [Conns -> 0 .. MaxSegments]
    BY <1>0, <1>1 DEF OnConnect, TransportTypes
  <2>2. CASE UNCHANGED <<unacked, drain_due>> /\ link' = [link EXCEPT ![c] = "open"]
    BY <1>0, <1>1, <2>1, <2>2 DEF OnConnect, TransportTypes, Links, At
  <2>3. CASE Gone(c)
    BY <1>0, <1>1, <2>1, <2>3, GoneTypes DEF OnConnect, TransportTypes, At
  <2> QED BY <1>1, <2>2, <2>3 DEF OnConnect, TcpClose
<1>2. ASSUME NEW c \in Conns, OnData(c) PROVE TransportTypes'
  <2>1. segments' \in [Conns -> 0 .. MaxSegments]
    BY <1>0, <1>2 DEF OnData, TransportTypes
  <2>2. ASSUME NEW s, E!FoundSlot(c, s), StartFlush(c, s),
               UNCHANGED <<link, unacked, drain_due>>
        PROVE  TransportTypes'
    BY <1>0, <1>2, <2>1, <2>2, StartFlushTypes DEF OnData, TransportTypes
  <2>3. CASE Gone(c) /\ UNCHANGED task
    BY <1>0, <1>2, <2>1, <2>3, GoneTypes DEF OnData, TransportTypes, At
  <2> QED BY <1>2, <2>2, <2>3 DEF OnData, TcpClose
<1>3. ASSUME NEW c \in Conns, OnDrain(c) PROVE TransportTypes'
  <2>1. ASSUME NEW s, E!FoundSlot(c, s), StartFlush(c, s),
               drain_due' = [drain_due EXCEPT ![c] = FALSE],
               UNCHANGED <<link, unacked>>
        PROVE  TransportTypes'
    BY <1>0, <1>3, <2>1, StartFlushTypes DEF OnDrain, TransportTypes
  <2>2. CASE Gone(c) /\ UNCHANGED task
    BY <1>0, <1>3, <2>2, GoneTypes DEF OnDrain, TransportTypes, At
  <2> QED BY <1>3, <2>1, <2>2 DEF OnDrain, TcpClose
<1>4. ASSUME NEW c \in Conns, OnClose(c) PROVE TransportTypes'
  BY <1>0, <1>4 DEF OnClose, TransportTypes, Links, At
<1>5. ASSUME NEW c \in Conns, Ack(c) PROVE TransportTypes'
  <2>1. PICK n \in 1 .. unacked[c] : unacked' = [unacked EXCEPT ![c] = @ - n]
    BY <1>5 DEF Ack
  <2>2. unacked[c] - n \in 0 .. SndBuf
    BY <1>0 DEF TransportTypes
  <2>3. unacked' \in [Conns -> 0 .. SndBuf]
    BY <1>0, <2>1, <2>2 DEF TransportTypes
  <2> QED BY <1>0, <1>5, <2>3 DEF Ack, TransportTypes, At
<1>6. ASSUME NEW c \in Conns, DrainDone(c) \/ PeerGone(c) PROVE TransportTypes'
  <2>1. Gone(c)
    BY <1>6 DEF DrainDone, PeerGone
  <2> QED BY <1>0, <1>6, <2>1, GoneTypes DEF DrainDone, PeerGone, TransportTypes, At
<1> QED BY <1>1, <1>2, <1>3, <1>4, <1>5, <1>6, FlushTypes DEF LegalNext

LEMMA LegalStep ==
  ASSUME StepOK, LegalNext
  PROVE  StepOK'
<1>1. [EP!Next]_(EP!vars)
  BY LegalCalls, SameSteps DEF engine_vars, EP!vars
<1>2. ServingOK'
  BY <1>1, EngineAssumptions, EP!NextServing DEF ServingOK, StepOK
<1> QED BY <1>2, LegalTypes DEF StepOK

-----------------------------------------------------------------------------
(* Slots and connections.                                                  *)

OpenHasSlot == \A c \in Conns : link[c] \in {"open", "draining"} => ~E!NoSlotFor(c)
FreeHasNone == \A c \in Conns : link[c] = "free" => E!NoSlotFor(c)
TaskHasSlot == ~At("idle") => E!FoundSlot(task.conn, task.slot)

(* A step that leaves the engine alone, or serves a slot, leaves the table *)
(* alone.                                                                  *)
LEMMA SameTable ==
  ASSUME ServingOK, NEW s \in E!Slots, Serves(s) \/ UNCHANGED engine_vars
  PROVE  \A c : /\ E!NoSlotFor(c)' <=> E!NoSlotFor(c)
                /\ \A t : E!FoundSlot(c, t)' <=> E!FoundSlot(c, t)
<1>1. CASE Serves(s)
  BY <1>1, ServeLookup
<1>2. CASE UNCHANGED engine_vars
  BY <1>2 DEF engine_vars, E!NoSlotFor, E!FoundSlot, E!IsSlotOf
<1> QED BY <1>1, <1>2

LEMMA FlushTable ==
  ASSUME StepOK, Flush
  PROVE  \A c : /\ E!NoSlotFor(c)' <=> E!NoSlotFor(c)
                /\ \A t : E!FoundSlot(c, t)' <=> E!FoundSlot(c, t)
BY FlushStep, SameTable DEF StepOK

LEMMA DataTable ==
  ASSUME StepOK, NEW c \in Conns, OnData(c)
  PROVE  \A d : /\ E!NoSlotFor(d)' <=> E!NoSlotFor(d)
                /\ \A t : E!FoundSlot(d, t)' <=> E!FoundSlot(d, t)
<1>1. PICK s \in E!Slots : E!OnData(s) \/ UNCHANGED engine_vars
  BY EngineAssumption DEF OnData, E!Slots, E!ConstantsAssumption
<1> QED BY <1>1, SameTable DEF StepOK, Serves

LEMMA StillTable ==
  ASSUME UNCHANGED engine_vars
  PROVE  \A d : /\ E!NoSlotFor(d)' <=> E!NoSlotFor(d)
                /\ \A t : E!FoundSlot(d, t)' <=> E!FoundSlot(d, t)
BY DEF engine_vars, E!NoSlotFor, E!FoundSlot, E!IsSlotOf

LEMMA OpenKept ==
  ASSUME StepOK, OpenHasSlot, LegalNext
  PROVE  OpenHasSlot'
<1>0. ServingOK /\ link \in [Conns -> Links]
  BY DEF StepOK, TransportTypes
<1>1. ASSUME Flush PROVE OpenHasSlot'
  <2>1. \A c \in Conns : link'[c] \in {"open", "draining"} =>
                           link[c] \in {"open", "draining"}
    BY <1>0, <1>1 DEF Flush, FlushFill, FlushSend, FlushFinish, transport_vars
  <2> QED BY <1>1, <2>1, FlushTable DEF OpenHasSlot
<1>2. ASSUME NEW c \in Conns, E!NoSlotFor(c), OnConnect(c) PROVE OpenHasSlot'
  <2>1. ASSUME NEW s \in E!Slots, E!AllocSlot(s, c),
               link' = [link EXCEPT ![c] = "open"]
        PROVE  OpenHasSlot'
    BY <1>0, <1>2, <2>1, AllocLookup DEF OpenHasSlot
  <2>2. CASE Gone(c) /\ UNCHANGED engine_vars
    BY <1>0, <2>2, StillTable DEF Gone, OpenHasSlot
  <2> QED BY <1>2, <2>1, <2>2 DEF OnConnect, TcpClose
<1>3. ASSUME NEW c \in Conns, OnData(c) PROVE OpenHasSlot'
  BY <1>0, <1>3, DataTable DEF OnData, TcpClose, Gone, OpenHasSlot
<1>4. ASSUME NEW c \in Conns,
             OnDrain(c) \/ Ack(c) \/ DrainDone(c) \/ PeerGone(c)
      PROVE  OpenHasSlot'
  BY <1>0, <1>4, StillTable
  DEF OnDrain, Ack, DrainDone, PeerGone, TcpClose, Gone, OpenHasSlot
<1>5. ASSUME NEW c \in Conns, OnClose(c) PROVE OpenHasSlot'
  <2>1. link' = [link EXCEPT ![c] = "free"]
    BY <1>5 DEF OnClose
  <2>2. CASE UNCHANGED engine_vars
    BY <1>0, <2>1, <2>2, StillTable DEF OpenHasSlot
  <2>3. ASSUME NEW s, E!FoundSlot(c, s), E!ReleaseSlot(s) PROVE OpenHasSlot'
    BY <1>0, <2>1, <2>3, ReleaseLookup DEF OpenHasSlot
  <2> QED BY <1>5, <2>2, <2>3 DEF OnClose
<1> QED BY <1>1, <1>2, <1>3, <1>4, <1>5 DEF LegalNext

LEMMA FreeKept ==
  ASSUME StepOK, FreeHasNone, LegalNext
  PROVE  FreeHasNone'
<1>0. ServingOK /\ link \in [Conns -> Links]
  BY DEF StepOK, TransportTypes
<1>1. ASSUME Flush PROVE FreeHasNone'
  <2>1. \A c \in Conns : link'[c] = "free" => link[c] = "free"
    BY <1>0, <1>1 DEF Flush, FlushFill, FlushSend, FlushFinish, transport_vars
  <2> QED BY <1>1, <2>1, FlushTable DEF FreeHasNone
<1>2. ASSUME NEW c \in Conns, E!NoSlotFor(c), OnConnect(c) PROVE FreeHasNone'
  <2>1. ASSUME NEW s \in E!Slots, E!AllocSlot(s, c),
               link' = [link EXCEPT ![c] = "open"]
        PROVE  FreeHasNone'
    BY <1>0, <1>2, <2>1, AllocLookup DEF FreeHasNone
  <2>2. CASE Gone(c) /\ UNCHANGED engine_vars
    BY <1>0, <2>2, StillTable DEF Gone, FreeHasNone
  <2> QED BY <1>2, <2>1, <2>2 DEF OnConnect, TcpClose
<1>3. ASSUME NEW c \in Conns, OnData(c) PROVE FreeHasNone'
  <2>1. \A d \in Conns : link'[d] = "free" => link[d] = "free"
    BY <1>0, <1>3 DEF OnData, TcpClose, Gone
  <2> QED BY <1>3, <2>1, DataTable DEF FreeHasNone
<1>4. ASSUME NEW c \in Conns,
             OnDrain(c) \/ Ack(c) \/ DrainDone(c) \/ PeerGone(c)
      PROVE  FreeHasNone'
  BY <1>0, <1>4, StillTable
  DEF OnDrain, Ack, DrainDone, PeerGone, TcpClose, Gone, FreeHasNone
<1>5. ASSUME NEW c \in Conns, OnClose(c) PROVE FreeHasNone'
  <2>1. link' = [link EXCEPT ![c] = "free"]
    BY <1>5 DEF OnClose
  <2>2. CASE E!NoSlotFor(c) /\ UNCHANGED engine_vars
    BY <1>0, <2>1, <2>2, StillTable DEF FreeHasNone
  <2>3. ASSUME NEW s, E!FoundSlot(c, s), E!ReleaseSlot(s) PROVE FreeHasNone'
    BY <1>0, <2>1, <2>3, ReleaseLookup DEF FreeHasNone
  <2> QED BY <1>5, <2>2, <2>3 DEF OnClose
<1> QED BY <1>1, <1>2, <1>3, <1>4, <1>5 DEF LegalNext

(* Only the network task's own callbacks take a slot away, and none of     *)
(* them runs while another is under way.                                   *)
LEMMA TaskKept ==
  ASSUME StepOK, TaskHasSlot, LegalNext
  PROVE  TaskHasSlot'
<1>0. ServingOK /\ TransportTypes
  BY DEF StepOK
<1>1. ASSUME Flush PROVE TaskHasSlot'
  <2>1. task' = Idle \/ (task'.conn = task.conn /\ task'.slot = task.slot /\ ~At("idle"))
    BY <1>0, <1>1 DEF Flush, FlushFill, FlushSend, FlushFinish, GoTo, TransportTypes, At
  <2> QED BY <1>1, <2>1, FlushTable DEF TaskHasSlot, At, Idle
<1>2. ASSUME At("idle"), UNCHANGED task PROVE TaskHasSlot'
  BY <1>2 DEF TaskHasSlot, At
<1>3. ASSUME NEW c \in Conns, OnData(c) PROVE TaskHasSlot'
  <2>1. \/ UNCHANGED task
        \/ \E s : E!FoundSlot(c, s) /\ StartFlush(c, s)
    BY <1>3 DEF OnData
  <2>2. ASSUME NEW s, E!FoundSlot(c, s), StartFlush(c, s) PROVE TaskHasSlot'
    BY <1>3, <2>2, DataTable DEF StartFlush, TaskHasSlot
  <2> QED BY <1>2, <1>3, <2>1, <2>2 DEF OnData
<1>4. ASSUME NEW c \in Conns, OnDrain(c) PROVE TaskHasSlot'
  <2>1. \/ UNCHANGED task
        \/ \E s : E!FoundSlot(c, s) /\ StartFlush(c, s)
    BY <1>4 DEF OnDrain
  <2>2. ASSUME NEW s, E!FoundSlot(c, s), StartFlush(c, s) PROVE TaskHasSlot'
    BY <1>4, <2>2, StillTable DEF OnDrain, StartFlush, TaskHasSlot
  <2> QED BY <1>2, <1>4, <2>1, <2>2 DEF OnDrain
<1>5. ASSUME NEW c \in Conns, Ack(c) \/ DrainDone(c) \/ PeerGone(c)
      PROVE  TaskHasSlot'
  BY <1>5, StillTable DEF Ack, DrainDone, PeerGone, TaskHasSlot, At
<1>6. ASSUME NEW c \in Conns, OnConnect(c) \/ OnClose(c) PROVE TaskHasSlot'
  BY <1>2, <1>6 DEF OnConnect, OnClose
<1> QED BY <1>1, <1>3, <1>4, <1>5, <1>6 DEF LegalNext

(* Only reset() drops files.                                               *)
LEMMA LegalOrphans == LegalNext => orphaned' = orphaned
<1>1. \A s : E!OnDrain(s) => orphaned' = orphaned
  BY DEF E!OnDrain, E!FillNextTx, E!vars
<1>2. \A s, n : E!OnBytesSent(s, n) => orphaned' = orphaned
  BY DEF E!OnBytesSent
<1>3. \A s : E!OnData(s) => orphaned' = orphaned
  BY DEF E!OnData, E!OnDataMore, E!OnDataRejected, E!OnDataComplete, E!Dispatch,
         E!AnswerError, E!AnswerFromHandler, E!AnswerFromFile, E!Answer
<1>4. Flush => orphaned' = orphaned
  BY <1>1, <1>2 DEF Flush, FlushFill, FlushSend, FlushFinish, engine_vars
<1>5. \A c \in Conns : OnData(c) => orphaned' = orphaned
  BY <1>3 DEF OnData, engine_vars
<1>6. \A c \in Conns :
        OnConnect(c) \/ OnDrain(c) \/ OnClose(c) \/ Ack(c) \/ DrainDone(c) \/ PeerGone(c)
          => orphaned' = orphaned
  BY DEF OnConnect, OnDrain, OnClose, Ack, DrainDone, PeerGone, E!AllocSlot,
         E!ReleaseSlot, engine_vars
<1> QED BY <1>4, <1>5, <1>6 DEF LegalNext

(* reset(), for those who call it besides the callbacks: no slot is left,  *)
(* and a file is lost only with a slot that a connection still had.        *)
LEMMA ResetStep ==
  ASSUME ServingOK, E!Reset
  PROVE  /\ E!Next
         /\ ServingOK'
         /\ \A c : E!NoSlotFor(c)'
         /\ (\A c \in Conns : E!NoSlotFor(c)) => orphaned' = orphaned
<1>1. E!Next
  BY DEF E!Next
<1>2. ServingOK'
  BY <1>1, SameSteps, EngineAssumptions, EP!NextServing DEF ServingOK
<1>3. \A c : E!NoSlotFor(c)'
  <2>1. \A s \in E!Slots : ~slots'[s].used
    BY DEF E!Reset, E!EmptySlot
  <2> QED BY <1>2, <2>1, LookupNext DEF E!IsSlotOf
<1>4. ASSUME \A c \in Conns : E!NoSlotFor(c) PROVE orphaned' = orphaned
  <2>1. ASSUME NEW s \in E!Slots PROVE slots[s].static_handle = NoHandle
    <3>1. ~slots[s].used
      BY <1>4, ServingFacts, Lookup DEF E!IsSlotOf
    <3> QED BY <3>1, SameSlots DEF ServingOK, EP!ServingOK, EP!OwnersInv
  <2>2. E!HeldHandles = {}
    BY <2>1 DEF E!HeldHandles
  <2> QED BY <2>2 DEF E!Reset
<1> QED BY <1>1, <1>2, <1>3, <1>4

-----------------------------------------------------------------------------
(* The adapter on its own, whose connections are never dropped without an  *)
(* on_close.                                                               *)

AdapterInv == /\ StepOK
              /\ OpenHasSlot
              /\ FreeHasNone
              /\ TaskHasSlot

LEMMA FreeIsLegal == FreeHasNone /\ Next => LegalNext
BY DEF FreeHasNone, Next, LegalNext, OnConnect

LEMMA AdapterInit == Init => AdapterInv
<1> SUFFICES ASSUME Init PROVE AdapterInv
  OBVIOUS
<1>1. ServingOK
  BY EngineAssumptions, EP!InitServing, SameSteps DEF Init, ServingOK
<1>2. 0 \in E!Slots /\ SndBuf \in Nat /\ MaxSegments \in Nat
  BY EngineAssumption, TransportAssumption DEF E!ConstantsAssumption, E!Slots
<1>3. TransportTypes
  BY <1>2 DEF Init, TransportTypes, Idle, At, Links
<1>4. \A c : E!NoSlotFor(c)
  BY UsableSlots DEF Init, E!Init, E!NoSlotFor, E!IsSlotOf, E!EmptySlot
<1> QED BY <1>1, <1>3, <1>4
        DEF Init, AdapterInv, StepOK, OpenHasSlot, FreeHasNone, TaskHasSlot, At, Idle

LEMMA AdapterStill ==
  ASSUME AdapterInv, UNCHANGED vars
  PROVE  AdapterInv'
<1>1. UNCHANGED engine_vars /\ UNCHANGED <<task, transport_vars>>
  BY DEF vars
<1>2. ServingOK'
  BY <1>1, IdleStep DEF AdapterInv, StepOK
<1> QED BY <1>1, <1>2, StillTable
        DEF AdapterInv, StepOK, TransportTypes, OpenHasSlot, FreeHasNone,
            TaskHasSlot, At, transport_vars

LEMMA AdapterNext == AdapterInv /\ [Next]_vars => AdapterInv'
<1>1. ASSUME AdapterInv, Next PROVE AdapterInv'
  <2>1. LegalNext
    BY <1>1, FreeIsLegal DEF AdapterInv
  <2> QED BY <1>1, <2>1, LegalStep, OpenKept, FreeKept, TaskKept DEF AdapterInv
<1> QED BY <1>1, AdapterStill

LEMMA AdapterAlways == Spec => []AdapterInv
BY AdapterInit, AdapterNext, PTL DEF Spec

(* Whatever peers and transport do, the network task is somewhere in a     *)
(* flush of a slot of the table, no send buffer holds more than its size,  *)
(* and no slot leaves its type.                                            *)
THEOREM AdapterTypeCorrect == Spec => []TypeOK
<1>1. AdapterInv => TypeOK
  BY ServingFacts DEF AdapterInv, StepOK, TransportTypes, TypeOK
<1> QED BY <1>1, AdapterAlways, PTL

(* Each open connection has exactly one slot, a free one has none, and a   *)
(* flush finds its slot where the callback left it.                        *)
THEOREM SlotsCorrect == Spec => []SlotsFollowConnections
<1>1. AdapterInv => SlotsFollowConnections
  BY ServingFacts
  DEF AdapterInv, StepOK, OpenHasSlot, FreeHasNone, TaskHasSlot,
      SlotsFollowConnections
<1> QED BY <1>1, AdapterAlways, PTL

(* Every step of the adapter is a call the engine allows or none at all.   *)
THEOREM EngineImplemented == Spec => ImplementsEngine
<1>1. Init => E!Init
  BY DEF Init
<1>2. AdapterInv /\ [Next]_vars => [E!Next]_(E!vars)
  <2>1. ASSUME AdapterInv, Next PROVE E!Next \/ UNCHANGED engine_vars
    BY <2>1, FreeIsLegal, LegalCalls DEF AdapterInv
  <2> QED BY <2>1 DEF vars, engine_vars, E!vars
<1> QED BY <1>1, <1>2, AdapterAlways, PTL DEF Spec, ImplementsEngine, E!Spec

(* So everything proved of the engine holds of the engine the adapter      *)
(* drives: bytes are accounted for, sent in order, to the announced        *)
(* length, from files that are closed once, and only after the request.    *)
THEOREM EngineTheoremsHold ==
  Spec => /\ []E!RemainingNeverUnderflows
          /\ []E!StreamInOrder
          /\ []E!ClosesAtAnnouncedLength
          /\ []E!HandlesAccounted
          /\ []E!AnsweredWhenParsed
<1>1. Spec => EP!Spec
  BY EngineImplemented, SameSpec DEF ImplementsEngine
<1>2. EP!Spec => /\ []EP!RemainingNeverUnderflows
                 /\ []EP!StreamInOrder
                 /\ []EP!ClosesAtAnnouncedLength
                 /\ []EP!HandlesAccounted
                 /\ []EP!AnsweredWhenParsed
  BY EngineAssumptions, EP!RemainingCorrect, EP!OrderCorrect, EP!LengthCorrect,
     EP!HandlesCorrect, EP!AnswersCorrect
<1> QED BY <1>1, <1>2, SameInvariants, PTL

-----------------------------------------------------------------------------
(* Flushing: when the network task may stop with a response half sent, and *)
(* when it may have the connection closed.                                 *)

(* What is offered to tcp_send is not empty.                               *)
SendInv == At("send") => slots[task.slot].tx_len > 0

(* NoLostWakeup at every step: a flush under way is as good as a wake-up.  *)
Flushing(c) == (At("fill") \/ At("send")) /\ task.conn = c
Waits(r) == r.close_after_send /\ ~E!ReadyToClose(r) /\ r.send_phase # "ERROR"
WakeInv ==
  \A c \in Conns, s \in E!Slots :
    link[c] = "open" /\ E!IsSlotOf(s, c) /\ Waits(slots[s])
      => unacked[c] > 0 \/ drain_due[c] \/ Flushing(c)

(* DrainsOnlyComplete, of the slot rather than of what find_slot finds.    *)
DrainInv ==
  \A c \in Conns, s \in E!Slots :
    link[c] = "draining" /\ E!IsSlotOf(s, c) => E!ReadyToClose(slots[s])

LEMMA SlotTypes ==
  ASSUME ServingOK, NEW s \in E!Slots
  PROVE  /\ slots[s] \in E!SlotType
         /\ slots[s].tx_len \in Nat
         /\ slots[s].tx_len <= TxSize
         /\ TxSize \in Nat
         /\ slots[s].send_phase \in E!SendPhases
BY ServingFacts, EngineAssumption DEF E!SlotType, E!ConstantsAssumption

LEMMA SlotTypesNext ==
  ServingOK' => \A s \in E!Slots : slots'[s].tx_len \in Nat
<1>1. ServingOK => \A s \in E!Slots : slots[s].tx_len \in Nat
  BY SlotTypes
<1>2. ServingOK' => (\A s \in E!Slots : slots[s].tx_len \in Nat)'
  BY <1>1, PTL
<1> QED BY <1>2

(* A fill that leaves tx empty has nothing more to wait for.               *)
LEMMA FillOutcome ==
  ASSUME StepOK, TaskHasSlot, FlushFill, slots'[task.slot].tx_len = 0
  PROVE  ~Waits(slots'[task.slot])
<1> DEFINE s == task.slot
           r == slots[s]
<1>1. s \in E!Slots /\ r.used
  BY Lookup DEF StepOK, TaskHasSlot, FlushFill, At, E!IsSlotOf
<1>2. /\ r \in E!SlotType
      /\ r.tx_len \in Nat
      /\ r.send_phase \in E!SendPhases
      /\ EP!PhaseInv(r)
      /\ slots \in [E!Slots -> E!SlotType]
  BY <1>1, SlotTypes, ServingFacts DEF StepOK, E!TypeOK
<1>3. CASE r.tx_len # 0
  BY <1>1, <1>3 DEF FlushFill, engine_vars
<1>4. CASE r.tx_len = 0 /\ E!NeedsBody(r)
  <2>1. PICK got \in E!Reads(r) : slots' = [slots EXCEPT ![s] = E!Filled(r, got)]
    BY <1>1, <1>4 DEF FlushFill, E!OnDrain, E!FillNextTx
  <2>2. slots'[s] = E!Filled(r, got)
    BY <1>1, <1>2, <2>1
  <2>3. CASE E!Chunk(r) = 0
    <3>1. slots'[s] = [r EXCEPT !.send_phase = "DONE"]
      BY <2>2, <2>3 DEF E!Filled
    <3> QED BY <1>2, <1>4, <3>1 DEF E!SlotType, Waits, E!ReadyToClose
  <2>4. CASE E!Chunk(r) # 0 /\ got \in 1 .. E!Chunk(r)
    <3>1. slots'[s] = E!Loaded(r, got)
      BY <2>2, <2>4 DEF E!Filled
    <3>2. slots'[s].tx_len = got
      BY <1>2, <3>1 DEF E!SlotType, E!Loaded
    <3>3. got # 0
      BY <2>4
    <3> QED BY <3>2, <3>3
  <2>5. CASE E!Chunk(r) # 0 /\ got \notin 1 .. E!Chunk(r)
    <3>1. slots'[s] = E!ReadFailed(r)
      BY <2>2, <2>5 DEF E!Filled
    <3> QED BY <1>2, <3>1 DEF E!SlotType, E!ReadFailed, Waits
  <2> QED BY <2>3, <2>4, <2>5
<1>5. CASE r.tx_len = 0 /\ ~E!NeedsBody(r)
  <2>1. slots'[s] = r
    BY <1>1, <1>5 DEF FlushFill, E!OnDrain, E!FillNextTx, E!vars
  <2> QED BY <1>2, <1>5, <2>1
          DEF E!NeedsBody, E!SendPhases, EP!PhaseInv, Waits, E!ReadyToClose
<1> QED BY <1>3, <1>4, <1>5

LEMMA SendKept ==
  ASSUME StepOK, SendInv, LegalNext
  PROVE  SendInv'
<1>1. CASE FlushFill
  <2>1. task.slot \in E!Slots /\ task'.slot = task.slot
    BY <1>1 DEF FlushFill, GoTo, StepOK, TransportTypes
  <2>2. slots'[task.slot].tx_len \in Nat
    BY <2>1, SlotTypesNext, LegalStep DEF StepOK
  <2>3. (At("send"))' => slots'[task.slot].tx_len # 0
    BY <1>1 DEF FlushFill, GoTo, At, StepOK, TransportTypes
  <2> QED BY <2>1, <2>2, <2>3 DEF SendInv
<1>2. CASE FlushSend
  BY <1>2 DEF FlushSend, GoTo, At, SendInv, StepOK, TransportTypes
<1>3. CASE FlushFinish
  BY <1>3 DEF FlushFinish, Idle, At, SendInv
<1>4. ASSUME NEW c \in Conns, OnConnect(c) \/ OnData(c) \/ OnDrain(c) \/ OnClose(c)
      PROVE  SendInv'
  BY <1>4 DEF OnConnect, OnData, OnDrain, OnClose, StartFlush, At, SendInv
<1>5. ASSUME NEW c \in Conns, Ack(c) \/ DrainDone(c) \/ PeerGone(c)
      PROVE  SendInv'
  BY <1>5 DEF Ack, DrainDone, PeerGone, engine_vars, At, SendInv
<1> QED BY <1>1, <1>2, <1>3, <1>4, <1>5 DEF LegalNext, Flush

(* Slots other than the one that is served keep owner and contents.        *)
LEMMA Bystanders ==
  ASSUME StepOK, NEW t \in E!Slots, Serves(t) \/ UNCHANGED engine_vars
  PROVE  /\ \A s \in E!Slots : \A c : E!IsSlotOf(s, c)' <=> E!IsSlotOf(s, c)
         /\ \A s \in E!Slots \ {t} : slots'[s] = slots[s]
<1>1. CASE Serves(t)
  BY <1>1, ServeStep DEF StepOK, EP!SameOwner, E!IsSlotOf
<1>2. CASE UNCHANGED engine_vars
  BY <1>2 DEF engine_vars, E!IsSlotOf
<1> QED BY <1>1, <1>2

(* The slot a flush works on is the slot of its connection, and of no      *)
(* other.                                                                  *)
LEMMA TaskSlot ==
  ASSUME StepOK, TaskHasSlot, ~At("idle")
  PROVE  /\ task.slot \in E!Slots
         /\ E!IsSlotOf(task.slot, task.conn)
         /\ task.conn \in Conns
         /\ \A s \in E!Slots : E!IsSlotOf(s, task.conn) => s = task.slot
         /\ \A c : E!IsSlotOf(task.slot, c) => c = task.conn
<1>1. task.slot \in E!Slots /\ E!IsSlotOf(task.slot, task.conn)
  BY Lookup DEF StepOK, TaskHasSlot
<1> QED BY <1>1, ServingFacts DEF StepOK, TransportTypes, E!IsSlotOf

(* After on_connect: the new connection's slot is empty.                   *)
LEMMA ConnectSlots ==
  ASSUME StepOK, NEW c \in Conns, E!NoSlotFor(c), OnConnect(c)
  PROVE  \A s \in E!Slots : \A d :
           E!IsSlotOf(s, d)' =>
             \/ E!IsSlotOf(s, d) /\ slots'[s] = slots[s]
             \/ d = c /\ slots'[s] = [E!EmptySlot EXCEPT !.used = TRUE, !.conn = c]
<1>1. CASE UNCHANGED engine_vars
  BY <1>1 DEF engine_vars, E!IsSlotOf
<1>2. ASSUME NEW t \in E!Slots, E!AllocSlot(t, c), NEW s \in E!Slots, NEW d,
             E!IsSlotOf(s, d)'
      PROVE  \/ E!IsSlotOf(s, d) /\ slots'[s] = slots[s]
             \/ d = c /\ slots'[s] = [E!EmptySlot EXCEPT !.used = TRUE, !.conn = c]
  <2>1. /\ slots'[t] = [E!EmptySlot EXCEPT !.used = TRUE, !.conn = c]
        /\ \A u \in E!Slots \ {t} : slots'[u] = slots[u]
    BY <1>2, AllocStep DEF StepOK
  <2>2. slots'[t].conn = c
    BY <2>1 DEF E!EmptySlot
  <2> QED BY <1>2, <2>1, <2>2 DEF E!IsSlotOf
<1> QED BY <1>1, <1>2 DEF OnConnect

(* After on_close: what is left of the table is as it was.                 *)
LEMMA CloseSlots ==
  ASSUME StepOK, NEW c \in Conns, OnClose(c)
  PROVE  \A s \in E!Slots : \A d :
           E!IsSlotOf(s, d)' => E!IsSlotOf(s, d) /\ slots'[s] = slots[s]
<1>1. CASE UNCHANGED engine_vars
  BY <1>1 DEF engine_vars, E!IsSlotOf
<1>2. ASSUME NEW t \in E!Slots, E!FoundSlot(c, t), E!ReleaseSlot(t),
             NEW s \in E!Slots, NEW d, E!IsSlotOf(s, d)'
      PROVE  E!IsSlotOf(s, d) /\ slots'[s] = slots[s]
  <2>1. slots[t].used
    BY <1>2 DEF E!FoundSlot, E!IsSlotOf
  <2>2. /\ slots'[t] = E!EmptySlot
        /\ \A u \in E!Slots \ {t} : slots'[u] = slots[u]
    BY <1>2, <2>1, ReleaseStep DEF StepOK
  <2>3. ~slots'[t].used
    BY <2>2 DEF E!EmptySlot
  <2> QED BY <1>2, <2>2, <2>3 DEF E!IsSlotOf
<1> QED BY <1>1, <1>2 DEF OnClose

LEMMA WakeKept ==
  ASSUME StepOK, TaskHasSlot, SendInv, WakeInv, HasOnDrain = TRUE, LegalNext
  PROVE  WakeInv'
<1>0. /\ ServingOK
      /\ TransportTypes
      /\ link \in [Conns -> Links]
      /\ unacked \in [Conns -> 0 .. SndBuf]
      /\ drain_due \in [Conns -> BOOLEAN]
  BY DEF StepOK, TransportTypes
<1> SUFFICES ASSUME NEW c \in Conns, NEW s \in E!Slots,
                    link'[c] = "open", E!IsSlotOf(s, c)', Waits(slots'[s])
             PROVE  unacked'[c] > 0 \/ drain_due'[c] \/ Flushing(c)'
  BY DEF WakeInv, Waits, E!ReadyToClose
<1>1. ASSUME link[c] = "open", E!IsSlotOf(s, c), slots'[s] = slots[s]
      PROVE  unacked[c] > 0 \/ drain_due[c] \/ Flushing(c)
  BY <1>1 DEF WakeInv
<1>2. CASE FlushFill
  <2>1. link[c] = "open" /\ unacked'[c] = unacked[c] /\ drain_due'[c] = drain_due[c]
    BY <1>2 DEF FlushFill, transport_vars
  <2>2. task.slot \in E!Slots /\ (Serves(task.slot) \/ UNCHANGED engine_vars)
    BY <1>2, FillStep
  <2>3. CASE c = task.conn
    <3>1. s = task.slot
      BY <1>2, <2>2, <2>3, Bystanders, TaskSlot DEF FlushFill, At
    <3>2. slots'[task.slot].tx_len # 0
      BY <1>2, <3>1, FillOutcome
    <3> QED BY <1>0, <1>2, <2>3, <3>2 DEF FlushFill, GoTo, At, Flushing, TransportTypes
  <2>4. CASE c # task.conn
    <3>1. E!IsSlotOf(s, c) /\ s # task.slot
      BY <1>2, <2>2, <2>4, Bystanders, TaskSlot DEF FlushFill, At
    <3>2. slots'[s] = slots[s]
      BY <2>2, <3>1, Bystanders
    <3> QED BY <1>1, <2>1, <2>4, <3>1, <3>2 DEF Flushing
  <2> QED BY <2>3, <2>4
<1>3. CASE FlushSend
  <2>1. PICK sent \in Accepted(task.conn, slots[task.slot].tx_len) :
          /\ unacked' = [unacked EXCEPT ![task.conn] = @ + sent]
          /\ GoTo(IF sent < slots[task.slot].tx_len THEN "finish" ELSE "fill")
    BY <1>3 DEF FlushSend
  <2>2. link[c] = "open" /\ drain_due'[c] = drain_due[c]
    BY <1>3 DEF FlushSend
  <2>3. task.slot \in E!Slots /\ (Serves(task.slot) \/ UNCHANGED engine_vars)
    BY <1>3, SendStep
  <2>4. CASE c = task.conn
    <3>1. CASE sent < slots[task.slot].tx_len
      <4>1. unacked[c] + sent > 0
        BY <1>3, <2>2, <2>4, <3>1, SendRange DEF FlushSend
      <4>2. unacked'[c] = unacked[c] + sent
        BY <1>0, <2>1, <2>4
      <4> QED BY <4>1, <4>2
    <3>2. CASE ~(sent < slots[task.slot].tx_len)
      BY <1>0, <2>1, <2>4, <3>2 DEF GoTo, At, Flushing, TransportTypes
    <3> QED BY <3>1, <3>2
  <2>5. CASE c # task.conn
    <3>1. E!IsSlotOf(s, c) /\ s # task.slot
      BY <1>3, <2>3, <2>5, Bystanders, TaskSlot DEF FlushSend, At
    <3>2. slots'[s] = slots[s]
      BY <2>3, <3>1, Bystanders
    <3>3. unacked'[c] = unacked[c]
      BY <1>0, <2>1, <2>5
    <3> QED BY <1>1, <2>2, <2>5, <3>1, <3>2, <3>3 DEF Flushing
  <2> QED BY <2>4, <2>5
<1>4. CASE FlushFinish
  <2>1. /\ unacked' = unacked
        /\ drain_due' = drain_due
        /\ UNCHANGED engine_vars
        /\ At("finish")
    BY <1>4 DEF FlushFinish
  <2>2. link[c] = "open"
    BY <1>0, <1>4 DEF FlushFinish
  <2> QED BY <1>1, <2>1, <2>2 DEF engine_vars, E!IsSlotOf, Flushing, At
<1>5. ASSUME NEW d \in Conns, E!NoSlotFor(d), OnConnect(d)
      PROVE  unacked'[c] > 0 \/ drain_due'[c] \/ Flushing(c)'
  <2>1. ~Waits([E!EmptySlot EXCEPT !.used = TRUE, !.conn = d])
    BY DEF Waits, E!EmptySlot
  <2>2. E!IsSlotOf(s, c) /\ slots'[s] = slots[s]
    BY <1>5, <2>1, ConnectSlots
  <2>3. ~E!NoSlotFor(c)
    BY <1>0, <2>2, Lookup
  <2>4. c # d
    BY <1>5, <2>3
  <2>5. link[c] = "open" /\ unacked'[c] = unacked[c] /\ drain_due'[c] = drain_due[c]
    BY <1>0, <1>5, <2>4 DEF OnConnect, TcpClose, Gone
  <2> QED BY <1>1, <1>5, <2>2, <2>5 DEF OnConnect, Flushing, At
<1>6. ASSUME NEW d \in Conns, OnData(d) \/ OnDrain(d)
      PROVE  unacked'[c] > 0 \/ drain_due'[c] \/ Flushing(c)'
  <2>1. ASSUME Gone(d), UNCHANGED engine_vars
        PROVE  unacked'[c] > 0 \/ drain_due'[c] \/ Flushing(c)'
    <3>1. c # d
      BY <1>0, <2>1 DEF Gone
    <3>2. /\ link[c] = "open"
          /\ unacked'[c] = unacked[c]
          /\ drain_due'[c] = drain_due[c]
          /\ slots' = slots
      BY <1>0, <2>1, <3>1 DEF Gone, engine_vars
    <3> QED BY <1>1, <1>6, <3>2 DEF OnData, OnDrain, Flushing, At, E!IsSlotOf
  <2>2. ASSUME NEW t \in E!Slots, E!FoundSlot(d, t), StartFlush(d, t),
               Serves(t) \/ UNCHANGED engine_vars,
               UNCHANGED <<link, unacked>>,
               \A e \in Conns \ {d} : drain_due'[e] = drain_due[e]
        PROVE  unacked'[c] > 0 \/ drain_due'[c] \/ Flushing(c)'
    <3>1. CASE c = d
      BY <2>2, <3>1 DEF StartFlush, Flushing, At
    <3>2. CASE c # d
      <4>1. E!IsSlotOf(s, c)
        BY <2>2, Bystanders
      <4>2. s # t
        BY <1>0, <2>2, <3>2, <4>1, Lookup DEF E!IsSlotOf
      <4>3. slots'[s] = slots[s]
        BY <2>2, <4>2, Bystanders
      <4> QED BY <1>1, <1>6, <2>2, <3>2, <4>1, <4>3 DEF OnData, OnDrain, Flushing, At
    <3> QED BY <3>1, <3>2
  <2>3. CASE OnData(d)
    BY <2>1, <2>2, <2>3 DEF OnData, TcpClose, Serves
  <2>4. CASE OnDrain(d)
    BY <1>0, <2>1, <2>2, <2>4 DEF OnDrain, TcpClose
  <2> QED BY <1>6, <2>3, <2>4
<1>7. ASSUME NEW d \in Conns, OnClose(d)
      PROVE  unacked'[c] > 0 \/ drain_due'[c] \/ Flushing(c)'
  <2>1. E!IsSlotOf(s, c) /\ slots'[s] = slots[s]
    BY <1>7, CloseSlots
  <2>2. link[c] = "open" /\ unacked'[c] = unacked[c] /\ drain_due'[c] = drain_due[c]
    BY <1>0, <1>7 DEF OnClose
  <2> QED BY <1>1, <1>7, <2>1, <2>2 DEF OnClose, Flushing, At
<1>8. ASSUME NEW d \in Conns, Ack(d) \/ DrainDone(d) \/ PeerGone(d)
      PROVE  unacked'[c] > 0 \/ drain_due'[c] \/ Flushing(c)'
  <2>1. E!IsSlotOf(s, c) /\ slots'[s] = slots[s] /\ task' = task
    BY <1>8 DEF Ack, DrainDone, PeerGone, engine_vars, E!IsSlotOf
  <2>2. CASE Ack(d)
    <3>1. c = d => drain_due'[c]
      BY <1>0, <2>2 DEF Ack
    <3>2. c # d => unacked'[c] = unacked[c] /\ drain_due'[c] = drain_due[c]
      BY <1>0, <2>2 DEF Ack
    <3> QED BY <1>1, <2>1, <2>2, <3>1, <3>2 DEF Ack, Flushing, At
  <2>3. CASE DrainDone(d) \/ PeerGone(d)
    <3>1. c # d /\ link[c] = "open"
      BY <1>0, <2>3 DEF DrainDone, PeerGone, Gone
    <3>2. unacked'[c] = unacked[c] /\ drain_due'[c] = drain_due[c]
      BY <1>0, <2>3, <3>1 DEF DrainDone, PeerGone, Gone
    <3> QED BY <1>1, <2>1, <3>1, <3>2 DEF Flushing, At
  <2> QED BY <1>8, <2>2, <2>3
<1> QED BY <1>2, <1>3, <1>4, <1>5, <1>6, <1>7, <1>8 DEF LegalNext, Flush

(* With peers that stop after their request, a draining connection's slot  *)
(* is not touched again.                                                   *)
LEMMA DrainKept ==
  ASSUME StepOK, TaskHasSlot, SendInv, DrainInv, E!AnsweredWhenParsed,
         ~ExtraData, LegalNext
  PROVE  DrainInv'
<1>0. /\ ServingOK
      /\ TransportTypes
      /\ link \in [Conns -> Links]
  BY DEF StepOK, TransportTypes
<1> SUFFICES ASSUME NEW c \in Conns, NEW s \in E!Slots,
                    link'[c] = "draining", E!IsSlotOf(s, c)'
             PROVE  E!ReadyToClose(slots'[s])
  BY DEF DrainInv, E!ReadyToClose
<1>1. ASSUME link[c] = "draining", E!IsSlotOf(s, c), slots'[s] = slots[s]
      PROVE  E!ReadyToClose(slots'[s])
  BY <1>1 DEF DrainInv
<1>2. CASE FlushFill
  <2>1. /\ link[c] = "draining"
        /\ task.slot \in E!Slots
        /\ Serves(task.slot) \/ UNCHANGED engine_vars
    BY <1>2, FillStep DEF FlushFill, transport_vars
  <2>2. E!IsSlotOf(s, c)
    BY <2>1, Bystanders
  <2>3. CASE s = task.slot
    <3>1. E!ReadyToClose(slots[s])
      BY <2>1, <2>2 DEF DrainInv
    <3>2. ~E!NeedsBody(slots[s])
      BY <3>1 DEF E!ReadyToClose, E!NeedsBody
    <3>3. slots' = slots
      BY <1>2, <2>3, <3>2
      DEF FlushFill, E!OnDrain, E!FillNextTx, E!vars, engine_vars
    <3> QED BY <3>1, <3>3
  <2> QED BY <1>1, <2>1, <2>2, <2>3, Bystanders
<1>3. CASE FlushSend
  <2>1. /\ link[c] = "draining"
        /\ task.slot \in E!Slots
        /\ Serves(task.slot) \/ UNCHANGED engine_vars
    BY <1>3, SendStep DEF FlushSend
  <2>2. E!IsSlotOf(s, c)
    BY <2>1, Bystanders
  <2>3. s # task.slot
    <3>1. slots[task.slot].tx_len > 0 /\ slots[task.slot].tx_len \in Nat
      BY <1>0, <1>3, <2>1, SlotTypes DEF FlushSend, SendInv
    <3>2. slots[s].tx_len = 0
      BY <2>1, <2>2 DEF DrainInv, E!ReadyToClose
    <3> QED BY <3>1, <3>2
  <2> QED BY <1>1, <2>1, <2>2, <2>3, Bystanders
<1>4. CASE FlushFinish
  <2>1. E!IsSlotOf(s, c) /\ slots'[s] = slots[s]
    BY <1>4 DEF FlushFinish, engine_vars, E!IsSlotOf
  <2>2. \/ link[c] = "draining"
        \/ c = task.conn /\ E!ReadyToClose(slots[task.slot])
    BY <1>0, <1>4 DEF FlushFinish
  <2>3. c = task.conn => s = task.slot
    BY <1>4, <2>1, TaskSlot DEF FlushFinish, At
  <2> QED BY <1>1, <2>1, <2>2, <2>3
<1>5. ASSUME NEW d \in Conns, E!NoSlotFor(d), OnConnect(d)
      PROVE  E!ReadyToClose(slots'[s])
  <2>1. c # d /\ link[c] = "draining"
    BY <1>0, <1>5 DEF OnConnect, TcpClose, Gone
  <2> QED BY <1>1, <1>5, <2>1, ConnectSlots
<1>6. ASSUME NEW d \in Conns, OnData(d) PROVE E!ReadyToClose(slots'[s])
  <2>1. ASSUME Gone(d), UNCHANGED engine_vars
        PROVE  E!ReadyToClose(slots'[s])
    BY <1>0, <1>1, <2>1 DEF Gone, engine_vars, E!IsSlotOf
  <2>2. ASSUME NEW t \in E!Slots, E!FoundSlot(d, t), MaySend(t), E!OnData(t),
               UNCHANGED link
        PROVE  E!ReadyToClose(slots'[s])
    <3>1. ~slots[t].close_after_send
      BY <2>2 DEF MaySend, E!AnsweredWhenParsed
    <3>2. Serves(t) /\ link[c] = "draining"
      BY <2>2 DEF Serves
    <3>3. E!IsSlotOf(s, c)
      BY <2>2, <3>2, Bystanders
    <3>4. s # t
      BY <3>1, <3>2, <3>3 DEF DrainInv, E!ReadyToClose
    <3> QED BY <1>1, <2>2, <3>2, <3>3, <3>4, Bystanders
  <2> QED BY <1>6, <2>1, <2>2 DEF OnData, TcpClose
<1>7. ASSUME NEW d \in Conns, OnClose(d) PROVE E!ReadyToClose(slots'[s])
  <2>1. link[c] = "draining"
    BY <1>0, <1>7 DEF OnClose
  <2> QED BY <1>1, <1>7, <2>1, CloseSlots
<1>8. ASSUME NEW d \in Conns,
             OnDrain(d) \/ Ack(d) \/ DrainDone(d) \/ PeerGone(d)
      PROVE  E!ReadyToClose(slots'[s])
  <2>1. link[c] = "draining" /\ slots' = slots
    BY <1>0, <1>8
    DEF OnDrain, Ack, DrainDone, PeerGone, Gone, TcpClose, engine_vars
  <2> QED BY <1>1, <2>1 DEF E!IsSlotOf
<1> QED BY <1>2, <1>3, <1>4, <1>5, <1>6, <1>7, <1>8 DEF LegalNext, Flush

LEMMA SendAlways == Spec => []SendInv
<1>1. Init => SendInv
  BY DEF Init, Idle, At, SendInv
<1>2. AdapterInv /\ SendInv /\ [Next]_vars => SendInv'
  <2>1. ASSUME AdapterInv, SendInv, Next PROVE SendInv'
    BY <2>1, FreeIsLegal, SendKept DEF AdapterInv
  <2>2. SendInv /\ UNCHANGED vars => SendInv'
    BY DEF vars, engine_vars, At, SendInv
  <2> QED BY <2>1, <2>2
<1> QED BY <1>1, <1>2, AdapterAlways, PTL DEF Spec

(* With on_drain, a response that is not finished is always waited for:    *)
(* whatever the transport accepts of a chunk, and however acknowledgements *)
(* fall between the steps of a flush.                                      *)
THEOREM WakeupCorrect ==
  ASSUME HasOnDrain = TRUE
  PROVE  Spec => []NoLostWakeup
<1>1. Init => WakeInv
  BY DEF Init, WakeInv
<1>2. AdapterInv /\ SendInv /\ WakeInv /\ [Next]_vars => WakeInv'
  <2>1. ASSUME AdapterInv, SendInv, WakeInv, Next PROVE WakeInv'
    BY <2>1, FreeIsLegal, WakeKept DEF AdapterInv
  <2>2. ASSUME WakeInv, UNCHANGED vars PROVE WakeInv'
    BY <2>2 DEF vars, engine_vars, transport_vars, WakeInv, E!IsSlotOf, Waits,
                E!ReadyToClose, Flushing, At
  <2> QED BY <2>1, <2>2
<1>3. AdapterInv /\ WakeInv => NoLostWakeup
  <2> SUFFICES ASSUME AdapterInv, WakeInv, NEW c \in Conns,
                      At("idle"), link[c] = "open",
                      Answered(c), ~Complete(c), ~Failed(c)
               PROVE  unacked[c] > 0 \/ drain_due[c]
    BY DEF NoLostWakeup
  <2>1. E!FoundSlot(c, SlotOf(c))
    BY SlotOfHolder DEF AdapterInv, StepOK, Answered
  <2>2. SlotOf(c) \in E!Slots /\ E!IsSlotOf(SlotOf(c), c)
    BY <2>1, Lookup DEF AdapterInv, StepOK
  <2>3. Waits(slots[SlotOf(c)])
    BY DEF Answered, Complete, Failed, Waits
  <2> QED BY <2>2, <2>3 DEF WakeInv, Flushing, At
<1> QED BY <1>1, <1>2, <1>3, AdapterAlways, SendAlways, PTL DEF Spec

(* A connection that is to be closed after draining has its whole response *)
(* in the transport, and nothing is put behind it.                         *)
THEOREM DrainsCorrect ==
  ASSUME ~ExtraData
  PROVE  Spec => []DrainsOnlyComplete
<1>1. Init => DrainInv
  BY DEF Init, DrainInv
<1>2. AdapterInv /\ SendInv /\ E!AnsweredWhenParsed /\ DrainInv /\ [Next]_vars
        => DrainInv'
  <2>1. ASSUME AdapterInv, SendInv, E!AnsweredWhenParsed, DrainInv, Next
        PROVE  DrainInv'
    BY <2>1, FreeIsLegal, DrainKept DEF AdapterInv
  <2>2. ASSUME DrainInv, UNCHANGED vars PROVE DrainInv'
    BY <2>2 DEF vars, engine_vars, transport_vars, DrainInv, E!IsSlotOf,
                E!ReadyToClose
  <2> QED BY <2>1, <2>2
<1>3. AdapterInv /\ DrainInv => DrainsOnlyComplete
  <2> SUFFICES ASSUME AdapterInv, DrainInv, NEW c \in Conns, link[c] = "draining"
               PROVE  Complete(c)
    BY DEF DrainsOnlyComplete
  <2>1. ~E!NoSlotFor(c)
    BY DEF AdapterInv, OpenHasSlot
  <2>2. E!FoundSlot(c, SlotOf(c))
    BY <2>1, SlotOfHolder DEF AdapterInv, StepOK
  <2>3. SlotOf(c) \in E!Slots /\ E!IsSlotOf(SlotOf(c), c)
    BY <2>2, Lookup DEF AdapterInv, StepOK
  <2>4. E!ReadyToClose(slots[SlotOf(c)])
    BY <2>3 DEF DrainInv
  <2> QED BY <2>1, <2>4 DEF Complete, Answered, E!ReadyToClose
<1> QED BY <1>1, <1>2, <1>3, AdapterAlways, SendAlways, EngineTheoremsHold, PTL
        DEF Spec

-----------------------------------------------------------------------------
(* The exchange of a connection, when peers stop after their request and   *)
(* the transport takes a chunk whole or not at all.                        *)

(* What the transport took from a connection is what its slot counts.      *)
WireAt(c) ==
  /\ E!NoSlotFor(c) => accepted[c] = 0
  /\ \A s \in E!Slots :
       E!IsSlotOf(s, c) => accepted[c] = slots[s].wire /\ ~slots[s].split
WireInv == \A c \in Conns : WireAt(c)

(* ExchangeOf, of a slot and the number of bytes accepted from it.         *)
ExchangeIn(r, sent) ==
  IF ~r.close_after_send
  THEN [phase |-> "receiving", total |-> 0, sent |-> 0]
  ELSE [phase |-> IF r.send_phase = "ERROR" THEN "failed"
                  ELSE IF E!ReadyToClose(r) THEN "complete"
                  ELSE "responding",
        total |-> r.hdr_len + r.body_len,
        sent  |-> sent]

Responding(total, sent) ==
  [phase |-> "responding", total |-> total, sent |-> sent]

Exchanges ==
  \A c \in Conns :
    /\ E!NoSlotFor(c) => ExchangeOf(c) = X!Closed
    /\ \A s \in E!Slots : E!IsSlotOf(s, c) =>
         ExchangeOf(c) = ExchangeIn(slots[s], accepted[c])

LEMMA ExchangesHold == ServingOK => Exchanges
<1> SUFFICES ASSUME ServingOK, NEW c \in Conns
             PROVE  /\ E!NoSlotFor(c) => ExchangeOf(c) = X!Closed
                    /\ \A s \in E!Slots : E!IsSlotOf(s, c) =>
                         ExchangeOf(c) = ExchangeIn(slots[s], accepted[c])
  BY DEF Exchanges
<1>1. E!NoSlotFor(c) => ExchangeOf(c) = X!Closed
  BY DEF ExchangeOf, X!Closed
<1>2. ASSUME NEW s \in E!Slots, E!IsSlotOf(s, c)
      PROVE  ExchangeOf(c) = ExchangeIn(slots[s], accepted[c])
  <2>1. SlotOf(c) = s /\ ~E!NoSlotFor(c)
    BY <1>2, Lookup, SlotOfFound
  <2> QED BY <2>1 DEF ExchangeOf, ExchangeIn
<1> QED BY <1>1, <1>2

LEMMA ExchangesHoldNext == ServingOK' => Exchanges'
BY ExchangesHold, PTL

LEMMA ExchangeBecomes ==
  ASSUME NEW c \in Conns, NEW e, ExchangeOf(c)' = e,
         \A d \in Conns \ {c} : ExchangeOf(d)' = ExchangeOf(d)
  PROVE  X!Become(c, e)
BY DEF X!Become

(* A step that concerns one connection leaves the others' slots, and so    *)
(* their exchanges, alone.                                                 *)
OnlyTouches(c) ==
  \A d \in Conns \ {c} :
    /\ accepted'[d] = accepted[d]
    /\ \A s \in E!Slots : /\ E!IsSlotOf(s, d)' <=> E!IsSlotOf(s, d)
                          /\ E!IsSlotOf(s, d) => slots'[s] = slots[s]

LEMMA OtherExchanges ==
  ASSUME ServingOK, ServingOK', NEW c \in Conns, OnlyTouches(c)
  PROVE  /\ \A d \in Conns \ {c} : ExchangeOf(d)' = ExchangeOf(d)
         /\ WireInv /\ WireAt(c)' => WireInv'
<1>1. ASSUME NEW d \in Conns \ {c} PROVE ExchangeOf(d)' = ExchangeOf(d)
  <2>1. CASE \E s \in E!Slots : E!IsSlotOf(s, d)
    <3>1. PICK s \in E!Slots : E!IsSlotOf(s, d)
      BY <2>1
    <3>2. /\ E!IsSlotOf(s, d)'
          /\ slots'[s] = slots[s]
          /\ accepted'[d] = accepted[d]
      BY <3>1 DEF OnlyTouches
    <3>3. ExchangeOf(d) = ExchangeIn(slots[s], accepted[d])
      BY <3>1, ExchangesHold DEF Exchanges
    <3>4. ExchangeOf(d)' = ExchangeIn(slots[s], accepted[d])'
      BY <3>2, ExchangesHoldNext DEF Exchanges
    <3> QED BY <3>2, <3>3, <3>4 DEF ExchangeIn, E!ReadyToClose
  <2>2. CASE ~\E s \in E!Slots : E!IsSlotOf(s, d)
    <3>1. E!NoSlotFor(d) /\ E!NoSlotFor(d)'
      BY <2>2, Lookup, LookupNext DEF OnlyTouches
    <3> QED BY <3>1, ExchangesHold, ExchangesHoldNext DEF Exchanges, X!Closed
  <2> QED BY <2>1, <2>2
<1>2. ASSUME WireInv, NEW d \in Conns \ {c} PROVE WireAt(d)'
  <2>1. E!NoSlotFor(d)' => E!NoSlotFor(d)
    BY Lookup, LookupNext DEF OnlyTouches
  <2> QED BY <1>2, <2>1 DEF OnlyTouches, WireInv, WireAt
<1> QED BY <1>1, <1>2 DEF WireInv

LEMMA ServeTouches ==
  ASSUME StepOK, NEW t \in E!Slots, Serves(t) \/ UNCHANGED engine_vars,
         NEW c \in Conns, E!IsSlotOf(t, c),
         \A d \in Conns \ {c} : accepted'[d] = accepted[d]
  PROVE  OnlyTouches(c)
BY Bystanders DEF OnlyTouches, E!IsSlotOf

LEMMA ConnectTouches ==
  ASSUME StepOK, NEW t \in E!Slots, NEW c \in Conns, E!NoSlotFor(c),
         E!AllocSlot(t, c), UNCHANGED accepted
  PROVE  OnlyTouches(c)
<1>1. /\ slots'[t] = [E!EmptySlot EXCEPT !.used = TRUE, !.conn = c]
      /\ \A u \in E!Slots \ {t} : slots'[u] = slots[u]
      /\ ~slots[t].used
  BY AllocStep DEF StepOK
<1>2. slots'[t].conn = c
  BY <1>1 DEF E!EmptySlot
<1> QED BY <1>1, <1>2 DEF OnlyTouches, E!IsSlotOf

LEMMA CloseTouches ==
  ASSUME StepOK, NEW t \in E!Slots, NEW c \in Conns, E!IsSlotOf(t, c),
         E!ReleaseSlot(t), \A d \in Conns \ {c} : accepted'[d] = accepted[d]
  PROVE  OnlyTouches(c)
<1>1. /\ slots'[t] = E!EmptySlot
      /\ \A u \in E!Slots \ {t} : slots'[u] = slots[u]
  BY ReleaseStep DEF StepOK, E!IsSlotOf
<1>2. ~slots'[t].used
  BY <1>1 DEF E!EmptySlot
<1> QED BY <1>1, <1>2 DEF OnlyTouches, E!IsSlotOf

LEMMA SameExchanges ==
  ASSUME UNCHANGED <<engine_vars, accepted>>
  PROVE  \A d \in Conns : ExchangeOf(d)' = ExchangeOf(d)
BY DEF engine_vars, ExchangeOf, SlotOf, E!NoSlotFor, E!FoundSlot, E!IsSlotOf,
       E!ReadyToClose

-----------------------------------------------------------------------------
(* What the engine's operations on a slot mean for its exchange.           *)

LEMMA StartedExchange ==
  ASSUME NEW p \in E!SlotType, NEW hdr \in Nat \ {0}, NEW len \in Nat,
         NEW src, NEW h, NEW sent
  PROVE  LET q == E!StartResponse(p, hdr, src, len)
             f == E!StartStaticResponse(p, hdr, len, h)
         IN  /\ ExchangeIn(q, sent) = Responding(hdr + len, sent)
             /\ ExchangeIn(f, sent) = Responding(hdr + len, sent)
             /\ q.wire = 0 /\ ~q.split
             /\ f.wire = 0 /\ ~f.split
BY DEF E!StartResponse, E!StartStaticResponse, E!SlotType, ExchangeIn,
       Responding, E!ReadyToClose

LEMMA FilledExchange ==
  ASSUME NEW r \in E!SlotType, E!StreamInv(r), EP!PhaseInv(r), E!NeedsBody(r),
         ~r.split, NEW got, NEW sent
  PROVE  LET q == E!Filled(r, got)
         IN  /\ q.wire = r.wire /\ q.split = r.split
             /\ ExchangeIn(r, sent) = Responding(r.hdr_len + r.body_len, sent)
             /\ r.wire > 0
             /\ \/ ExchangeIn(q, sent) = ExchangeIn(r, sent)
                \/ ExchangeIn(q, sent) = [ExchangeIn(r, sent) EXCEPT !.phase = "failed"]
<1>1. /\ r.close_after_send
      /\ r.hdr_len \in Nat \ {0}
      /\ r.wire = r.hdr_len + r.body_sent
      /\ r.body_sent \in Nat
      /\ r.body_sent < r.body_len
      /\ r.body_len \in Nat
      /\ r.send_phase = "BODY"
  BY DEF E!StreamInv, E!HeadersInv, E!BodyInv, E!NeedsBody, EP!PhaseInv, E!SlotType
<1>2. ExchangeIn(r, sent) = Responding(r.hdr_len + r.body_len, sent) /\ r.wire > 0
  BY <1>1 DEF ExchangeIn, Responding, E!ReadyToClose
<1>3. E!Chunk(r) # 0
  BY <1>1, EngineAssumption
  DEF E!Chunk, E!MinOf, E!ConstantsAssumption, E!ErrorFitsAssumption
<1>4. LET q == E!Loaded(r, got)
      IN  /\ q.wire = r.wire /\ q.split = r.split
          /\ ExchangeIn(q, sent) = ExchangeIn(r, sent)
  BY <1>1 DEF E!Loaded, E!SlotType, ExchangeIn, E!ReadyToClose
<1>5. LET q == E!ReadFailed(r)
      IN  /\ q.wire = r.wire /\ q.split = r.split
          /\ ExchangeIn(q, sent) = [ExchangeIn(r, sent) EXCEPT !.phase = "failed"]
  BY <1>1 DEF E!ReadFailed, E!SlotType, ExchangeIn, E!ReadyToClose
<1> QED BY <1>2, <1>3, <1>4, <1>5 DEF E!Filled

LEMMA SameExchange ==
  ASSUME NEW p, NEW total, NEW sent,
         NEW e \in [phase: {p}, total: {total}, sent: {sent}]
  PROVE  e = [phase |-> p, total |-> total, sent |-> sent]
OBVIOUS

LEMMA RespondingUpdated ==
  ASSUME NEW total, NEW sent, NEW more
  PROVE  [Responding(total, sent) EXCEPT
            !.sent = more,
            !.phase = IF more = total THEN "complete" ELSE @]
           = [phase |-> IF more = total THEN "complete" ELSE "responding",
              total |-> total, sent |-> more]
<1> DEFINE e == [Responding(total, sent) EXCEPT
                   !.sent = more,
                   !.phase = IF more = total THEN "complete" ELSE @]
           p == IF more = total THEN "complete" ELSE "responding"
<1>1. e \in [phase: {p}, total: {total}, sent: {more}]
  BY DEF Responding
<1> HIDE DEF e, p
<1>2. e = [phase |-> p, total |-> total, sent |-> more]
  BY <1>1, SameExchange
<1> QED BY <1>2 DEF e, p

LEMMA SentExchange ==
  ASSUME NEW r \in E!SlotType, E!StreamInv(r), EP!PhaseInv(r), ~r.split,
         r.tx_len \in Nat, r.tx_len > 0
  PROVE  LET q == E!AllSent(r)
             total == r.hdr_len + r.body_len
             sent == r.wire + r.tx_len
         IN  /\ q.wire = sent /\ ~q.split
             /\ total \in Nat
             /\ r.tx_len \in 1 .. total - r.wire
             /\ ExchangeIn(r, r.wire) = Responding(total, r.wire)
             /\ ExchangeIn(q, sent) =
                  [phase |-> IF sent = total THEN "complete" ELSE "responding",
                   total |-> total, sent |-> sent]
<1> DEFINE q == E!AllSent(r)
           total == r.hdr_len + r.body_len
           sent == r.wire + r.tx_len
<1>1. /\ r.wire \in Nat
      /\ r.hdr_len \in Nat
      /\ r.body_len \in Nat
      /\ r.body_sent \in Nat
      /\ r.send_phase \in {"HEADERS", "BODY", "DONE"}
      /\ r.close_after_send
  BY DEF E!SlotType, E!SendPhases, E!StreamInv, E!IdleInv, E!ErrorInv, EP!PhaseInv
<1>2. /\ q.wire = sent
      /\ q.split = r.split
      /\ q.tx_len = 0
      /\ q.close_after_send
      /\ q.hdr_len = r.hdr_len
      /\ q.body_len = r.body_len
      /\ q.send_phase = IF r.send_phase \notin {"HEADERS", "BODY"} THEN r.send_phase
                        ELSE IF E!BodySentAfter(r) >= r.body_len THEN "DONE"
                        ELSE "BODY"
  BY <1>1 DEF E!AllSent, E!SlotType
<1>3. ExchangeIn(r, r.wire) = Responding(total, r.wire)
  BY <1>1 DEF ExchangeIn, Responding, E!ReadyToClose
<1>4. /\ sent <= total
      /\ q.send_phase # "ERROR"
      /\ q.send_phase = "DONE" <=> sent = total
  <2>1. CASE r.send_phase = "HEADERS"
    BY <1>1, <1>2, <2>1 DEF E!StreamInv, E!HeadersInv, E!BodySentAfter
  <2>2. CASE r.send_phase = "BODY"
    BY <1>1, <1>2, <2>2 DEF E!StreamInv, E!BodyInv, E!BodySentAfter
  <2>3. CASE r.send_phase = "DONE"
    BY <1>1, <1>2, <2>3 DEF E!StreamInv, E!DoneInv
  <2> QED BY <1>1, <2>1, <2>2, <2>3
<1>5. total \in Nat /\ r.tx_len \in 1 .. total - r.wire
  BY <1>1, <1>4
<1> DEFINE phase == IF sent = total THEN "complete" ELSE "responding"
<1>6. q.hdr_len + q.body_len = total
  BY <1>2
<1> HIDE DEF q, total, sent, phase
<1>7. E!ReadyToClose(q) <=> sent = total
  BY <1>2, <1>4 DEF E!ReadyToClose
<1>8. ExchangeIn(q, sent) = [phase |-> phase, total |-> total, sent |-> sent]
  BY <1>2, <1>4, <1>6, <1>7 DEF ExchangeIn, phase
<1> QED BY <1>2, <1>3, <1>5, <1>8 DEF q, total, sent, phase

-----------------------------------------------------------------------------
(* The steps of the refinement.                                            *)

PoliteOK == /\ StepOK
            /\ TaskHasSlot
            /\ SendInv
            /\ E!AnsweredWhenParsed
            /\ WireInv

ExchangeStep == X!Next \/ \A d \in Conns : ExchangeOf(d)' = ExchangeOf(d)

LEMMA QuietStep ==
  ASSUME PoliteOK, UNCHANGED <<engine_vars, accepted>>
  PROVE  ExchangeStep /\ WireInv'
<1>1. WireInv'
  BY StillTable DEF PoliteOK, WireInv, WireAt, engine_vars, E!IsSlotOf
<1> QED BY <1>1, SameExchanges DEF ExchangeStep

LEMMA SlotFacts ==
  ASSUME PoliteOK, NEW c \in Conns, NEW s \in E!Slots, E!IsSlotOf(s, c)
  PROVE  /\ slots[s] \in E!SlotType
         /\ slots \in [E!Slots -> E!SlotType]
         /\ slots[s].tx_len \in Nat
         /\ E!StreamInv(slots[s])
         /\ EP!PhaseInv(slots[s])
         /\ accepted[c] = slots[s].wire
         /\ ~slots[s].split
         /\ ExchangeOf(c) = ExchangeIn(slots[s], accepted[c])
<1>1. ServingOK
  BY DEF PoliteOK, StepOK
<1>2. /\ slots[s] \in E!SlotType
      /\ slots \in [E!Slots -> E!SlotType]
      /\ slots[s].tx_len \in Nat
      /\ E!StreamInv(slots[s])
      /\ EP!PhaseInv(slots[s])
  BY <1>1, ServingFacts, SlotTypes DEF E!StreamsInvariant, E!TypeOK
<1>3. accepted[c] = slots[s].wire /\ ~slots[s].split
  BY DEF PoliteOK, WireInv, WireAt
<1>4. ExchangeOf(c) = ExchangeIn(slots[s], accepted[c])
  BY <1>1, ExchangesHold DEF Exchanges
<1> QED BY <1>2, <1>3, <1>4

(* After a slot was served: what remains to be said is what became of it.  *)
LEMMA ServedExchange ==
  ASSUME PoliteOK, NEW c \in Conns, NEW s \in E!Slots, E!IsSlotOf(s, c),
         Serves(s), \A d \in Conns \ {c} : accepted'[d] = accepted[d],
         accepted'[c] = slots'[s].wire, ~slots'[s].split
  PROVE  /\ WireInv'
         /\ \A d \in Conns \ {c} : ExchangeOf(d)' = ExchangeOf(d)
         /\ ExchangeOf(c)' = ExchangeIn(slots'[s], accepted'[c])
<1>1. ServingOK /\ ServingOK'
  BY ServeStep DEF PoliteOK, StepOK
<1>2. E!IsSlotOf(s, c)'
  BY Bystanders DEF PoliteOK
<1>3. WireAt(c)'
  <2>1. ~E!NoSlotFor(c)'
    BY <1>1, <1>2, LookupNext
  <2>2. \A t \in E!Slots : E!IsSlotOf(t, c)' => t = s
    BY <1>1, ServingFacts, Bystanders DEF PoliteOK
  <2> QED BY <2>1, <2>2 DEF WireAt
<1>4. /\ WireInv'
      /\ \A d \in Conns \ {c} : ExchangeOf(d)' = ExchangeOf(d)
  BY <1>1, <1>3, ServeTouches, OtherExchanges DEF PoliteOK
<1>5. ExchangeOf(c)' = ExchangeIn(slots[s], accepted[c])'
  BY <1>1, <1>2, ExchangesHoldNext DEF Exchanges
<1> QED BY <1>4, <1>5 DEF ExchangeIn, E!ReadyToClose

(* Filling tx is no step of the exchange, unless the source fails.         *)
LEMMA FillExchange ==
  ASSUME PoliteOK, FlushFill, NEW c, NEW s, c = task.conn, s = task.slot
  PROVE  ExchangeStep /\ WireInv'
<1> DEFINE r == slots[s]
<1>1. /\ s \in E!Slots /\ c \in Conns /\ E!IsSlotOf(s, c)
      /\ accepted' = accepted
  BY TaskSlot DEF PoliteOK, FlushFill, At, transport_vars
<1>2. CASE r.tx_len = 0 /\ E!NeedsBody(r)
  <2>1. PICK got : slots' = [slots EXCEPT ![s] = E!Filled(r, got)]
    BY <1>1, <1>2 DEF FlushFill, E!OnDrain, E!FillNextTx, E!IsSlotOf
  <2>2. slots'[s] = E!Filled(r, got)
    BY <1>1, <2>1, SlotFacts
  <2>3. Serves(s)
    BY <1>1, <1>2 DEF FlushFill, Serves, E!IsSlotOf
  <2>4. /\ slots'[s].wire = r.wire /\ ~slots'[s].split
        /\ ExchangeIn(r, accepted[c]) = Responding(r.hdr_len + r.body_len, accepted[c])
        /\ accepted[c] = r.wire /\ r.wire > 0
        /\ ExchangeOf(c) = ExchangeIn(r, accepted[c])
        /\ \/ ExchangeIn(slots'[s], accepted[c]) = ExchangeIn(r, accepted[c])
           \/ ExchangeIn(slots'[s], accepted[c])
                = [ExchangeIn(r, accepted[c]) EXCEPT !.phase = "failed"]
    <3>1. /\ r \in E!SlotType /\ E!StreamInv(r) /\ EP!PhaseInv(r) /\ ~r.split
          /\ accepted[c] = r.wire
          /\ ExchangeOf(c) = ExchangeIn(r, accepted[c])
      BY <1>1, SlotFacts
    <3> DEFINE q == E!Filled(r, got)
    <3>2. /\ q.wire = r.wire /\ q.split = r.split
          /\ ExchangeIn(r, accepted[c]) = Responding(r.hdr_len + r.body_len, accepted[c])
          /\ r.wire > 0
          /\ \/ ExchangeIn(q, accepted[c]) = ExchangeIn(r, accepted[c])
             \/ ExchangeIn(q, accepted[c])
                  = [ExchangeIn(r, accepted[c]) EXCEPT !.phase = "failed"]
      BY <1>2, <3>1, FilledExchange
    <3> HIDE DEF r, q
    <3> QED BY <2>2, <3>1, <3>2 DEF q
  <2>5. /\ WireInv'
        /\ \A d \in Conns \ {c} : ExchangeOf(d)' = ExchangeOf(d)
        /\ ExchangeOf(c)' = ExchangeIn(slots'[s], accepted[c])
    BY <1>1, <2>3, <2>4, ServedExchange
  <2>6. CASE ExchangeOf(c)' = ExchangeOf(c)
    BY <2>5, <2>6 DEF ExchangeStep
  <2>7. CASE ExchangeOf(c)' = [ExchangeOf(c) EXCEPT !.phase = "failed"]
    <3>1. X!Become(c, [ExchangeOf(c) EXCEPT !.phase = "failed"])
      BY <1>1, <2>5, <2>7, ExchangeBecomes
    <3>2. ExchangeOf(c).phase = "responding" /\ ExchangeOf(c).sent > 0
      BY <2>4 DEF Responding
    <3>3. X!Fail(c)
      BY <1>1, <3>1, <3>2 DEF X!Fail
    <3> QED BY <1>1, <2>5, <3>3 DEF X!Next, ExchangeStep
  <2> QED BY <2>4, <2>5, <2>6, <2>7
<1>3. CASE ~(r.tx_len = 0 /\ E!NeedsBody(r))
  <2>1. UNCHANGED engine_vars
    BY <1>3 DEF FlushFill, E!OnDrain, E!FillNextTx, E!vars, engine_vars
  <2> QED BY <1>1, <2>1, QuietStep
<1> QED BY <1>2, <1>3

(* A send is taken whole and advances the exchange, or not at all.         *)
LEMMA SendExchange ==
  ASSUME PoliteOK, FlushSend, ~SplitSends,
         NEW c, NEW s, c = task.conn, s = task.slot
  PROVE  ExchangeStep /\ WireInv'
<1> DEFINE r == slots[s]
<1>1. /\ s \in E!Slots /\ c \in Conns /\ E!IsSlotOf(s, c)
      /\ accepted \in [Conns -> Nat]
  BY TaskSlot DEF PoliteOK, FlushSend, At, StepOK, TransportTypes
<1>2. PICK sent \in Accepted(c, r.tx_len) :
        /\ accepted' = [accepted EXCEPT ![c] = @ + sent]
        /\ IF sent = 0 THEN UNCHANGED engine_vars ELSE E!OnBytesSent(s, sent)
  BY DEF FlushSend
<1>3. sent \in {0, r.tx_len} /\ r.tx_len \in Nat
  BY SendRange DEF FlushSend, PoliteOK
<1>4. CASE sent = 0
  <2>1. accepted' = accepted
    BY <1>1, <1>2, <1>4
  <2> QED BY <1>2, <1>4, <2>1, QuietStep
<1>5. CASE sent # 0
  <2>1. sent = r.tx_len /\ r.tx_len > 0 /\ r.tx_len \in Nat
    BY <1>3, <1>5
  <2>2. slots' = [slots EXCEPT ![s] = E!AllSent(r)]
    BY <1>2, <1>5, <2>1 DEF E!OnBytesSent
  <2>3. Serves(s)
    BY <1>2, <1>5, <2>1 DEF Serves
  <2>4. slots'[s] = E!AllSent(r)
    BY <1>1, <2>2, SlotFacts
  <2>5. /\ accepted'[c] = r.wire + r.tx_len
        /\ \A d \in Conns \ {c} : accepted'[d] = accepted[d]
    BY <1>1, <1>2, <2>1, SlotFacts
  <2> DEFINE total == r.hdr_len + r.body_len
             more == r.wire + r.tx_len
             e == [phase |-> IF more = total THEN "complete" ELSE "responding",
                   total |-> total, sent |-> more]
  <2>6. /\ slots'[s].wire = more /\ ~slots'[s].split
        /\ r.tx_len \in 1 .. total - r.wire
        /\ ExchangeOf(c) = Responding(total, r.wire)
        /\ ExchangeIn(slots'[s], more) =
             [phase |-> IF more = total THEN "complete" ELSE "responding",
              total |-> total, sent |-> more]
    BY <1>1, <2>1, <2>4, SlotFacts, SentExchange
  <2>7. /\ WireInv'
        /\ \A d \in Conns \ {c} : ExchangeOf(d)' = ExchangeOf(d)
        /\ ExchangeOf(c)' = ExchangeIn(slots'[s], more)
    BY <1>1, <2>3, <2>5, <2>6, ServedExchange
  <2> HIDE DEF total, more
  <2>8. X!Become(c, [ExchangeOf(c) EXCEPT
                       !.sent = more,
                       !.phase = IF more = total THEN "complete" ELSE @])
    <3>1. [Responding(total, r.wire) EXCEPT
             !.sent = more,
             !.phase = IF more = total THEN "complete" ELSE @] = e
      BY RespondingUpdated
    <3>2. [ExchangeOf(c) EXCEPT
             !.sent = more,
             !.phase = IF more = total THEN "complete" ELSE @] = e
      BY <2>6, <3>1
    <3>3. ExchangeOf(c)' = e
      BY <2>6, <2>7
    <3> HIDE DEF e
    <3>4. X!Become(c, e)
      BY <1>1, <2>7, <3>3, ExchangeBecomes
    <3> QED BY <3>2, <3>4
  <2>9. X!Send(c)
    <3>1. /\ ExchangeOf(c).phase = "responding"
          /\ ExchangeOf(c).total = total
          /\ ExchangeOf(c).sent = r.wire
      BY <2>6 DEF Responding
    <3> QED BY <1>1, <2>6, <2>8, <3>1 DEF X!Send, more
  <2> QED BY <1>1, <2>7, <2>9 DEF X!Next, ExchangeStep
<1> QED BY <1>4, <1>5

Receiving == [phase |-> "receiving", total |-> 0, sent |-> 0]

LEMMA ConnectExchange ==
  ASSUME PoliteOK, NEW c \in Conns, E!NoSlotFor(c), OnConnect(c)
  PROVE  ExchangeStep /\ WireInv'
<1>0. ServingOK /\ accepted' = accepted
  BY DEF PoliteOK, StepOK, OnConnect
<1>1. CASE UNCHANGED engine_vars
  BY <1>0, <1>1, QuietStep
<1>2. ASSUME NEW t \in E!Slots, E!AllocSlot(t, c) PROVE ExchangeStep /\ WireInv'
  <2>1. /\ ServingOK'
        /\ slots'[t] = [E!EmptySlot EXCEPT !.used = TRUE, !.conn = c]
        /\ \A s \in E!Slots \ {t} : slots'[s] = slots[s]
    BY <1>0, <1>2, AllocStep
  <2>2. /\ slots'[t].used /\ slots'[t].conn = c
        /\ slots'[t].wire = 0 /\ ~slots'[t].split
        /\ ~slots'[t].close_after_send
    BY <2>1 DEF E!EmptySlot
  <2>3. accepted[c] = 0 /\ ExchangeOf(c) = X!Closed
    BY <1>0, ExchangesHold DEF PoliteOK, WireInv, WireAt, Exchanges
  <2>4. E!IsSlotOf(t, c)' /\ \A s \in E!Slots : E!IsSlotOf(s, c)' => s = t
    BY <1>0, <2>1, <2>2, Lookup DEF E!IsSlotOf
  <2>5. ~E!NoSlotFor(c)'
    BY <2>1, <2>4, LookupNext
  <2>6. WireAt(c)'
    BY <1>0, <2>2, <2>3, <2>4, <2>5 DEF WireAt
  <2>7. /\ WireInv'
        /\ \A d \in Conns \ {c} : ExchangeOf(d)' = ExchangeOf(d)
    BY <1>0, <1>2, <2>1, <2>6, ConnectTouches, OtherExchanges DEF PoliteOK
  <2>8. ExchangeOf(c)' = Receiving
    <3>1. ExchangeOf(c)' = ExchangeIn(slots[t], accepted[c])'
      BY <2>1, <2>4, ExchangesHoldNext DEF Exchanges
    <3> QED BY <2>2, <3>1 DEF ExchangeIn, Receiving
  <2>9. [ExchangeOf(c) EXCEPT !.phase = "receiving"] = Receiving
    <3>1. [X!Closed EXCEPT !.phase = "receiving"]
            \in [phase: {"receiving"}, total: {0}, sent: {0}]
      BY DEF X!Closed
    <3> QED BY <2>3, <3>1, SameExchange DEF Receiving
  <2>10. X!Become(c, [ExchangeOf(c) EXCEPT !.phase = "receiving"])
    BY <2>7, <2>8, <2>9, ExchangeBecomes
  <2>11. X!Open(c)
    BY <2>3, <2>10 DEF X!Open, X!Closed
  <2> QED BY <2>7, <2>11 DEF X!Next, ExchangeStep
<1> QED BY <1>1, <1>2 DEF OnConnect

LEMMA CloseExchange ==
  ASSUME PoliteOK, NEW c \in Conns, OnClose(c)
  PROVE  ExchangeStep /\ WireInv'
<1>0. /\ ServingOK
      /\ accepted \in [Conns -> Nat]
      /\ accepted' = [accepted EXCEPT ![c] = 0]
  BY DEF PoliteOK, StepOK, TransportTypes, OnClose
<1>1. CASE E!NoSlotFor(c) /\ UNCHANGED engine_vars
  <2>1. accepted' = accepted
    BY <1>0, <1>1 DEF PoliteOK, WireInv, WireAt
  <2> QED BY <1>1, <2>1, QuietStep
<1>2. ASSUME NEW t, E!FoundSlot(c, t), E!ReleaseSlot(t)
      PROVE  ExchangeStep /\ WireInv'
  <2>1. t \in E!Slots /\ E!IsSlotOf(t, c)
    BY <1>0, <1>2, Lookup
  <2>2. ServingOK'
    BY <1>0, <1>2, <2>1, ReleaseStep DEF E!IsSlotOf
  <2>3. E!NoSlotFor(c)'
    BY <1>0, <1>2, ReleaseLookup
  <2>4. WireAt(c)'
    BY <1>0, <2>2, <2>3, LookupNext DEF WireAt
  <2>5. /\ WireInv'
        /\ \A d \in Conns \ {c} : ExchangeOf(d)' = ExchangeOf(d)
    BY <1>0, <1>2, <2>1, <2>2, <2>4, CloseTouches, OtherExchanges DEF PoliteOK
  <2>6. ExchangeOf(c)' = X!Closed
    BY <2>2, <2>3, ExchangesHoldNext DEF Exchanges, X!Closed
  <2>7. X!Become(c, X!Closed)
    BY <2>5, <2>6, ExchangeBecomes
  <2>8. ExchangeOf(c).phase # "closed"
    <3>1. ExchangeOf(c) = ExchangeIn(slots[t], accepted[c])
      BY <2>1, SlotFacts
    <3> QED BY <3>1 DEF ExchangeIn
  <2>9. X!Close(c)
    BY <2>7, <2>8 DEF X!Close
  <2> QED BY <2>5, <2>9 DEF X!Next, ExchangeStep
<1> QED BY <1>1, <1>2 DEF OnClose

(* What a segment makes of a slot that has not been answered: it stays so, *)
(* or a response of one of the possible lengths is started.                *)
DataLengths == {h + b : h \in HeaderLens, b \in BodyLens}
                 \cup {ErrHeaderLen + ErrBodyLen}

LEMMA DataOutcome ==
  ASSUME PoliteOK, NEW c \in Conns, NEW s \in E!Slots, E!IsSlotOf(s, c),
         E!OnData(s), ~slots[s].close_after_send
  PROVE  /\ accepted[c] = 0
         /\ slots'[s].wire = 0 /\ ~slots'[s].split
         /\ ExchangeOf(c) = Receiving
         /\ \/ ExchangeIn(slots'[s], 0) = Receiving
            \/ \E len \in DataLengths : ExchangeIn(slots'[s], 0) = Responding(len, 0)
<1> DEFINE r == slots[s]
           Outcome == \/ ExchangeIn(slots'[s], 0) = Receiving
                      \/ \E len \in DataLengths :
                           ExchangeIn(slots'[s], 0) = Responding(len, 0)
<1>1. /\ r \in E!SlotType
      /\ slots \in [E!Slots -> E!SlotType]
      /\ r.wire = 0 /\ ~r.split
      /\ accepted[c] = 0
      /\ ExchangeOf(c) = ExchangeIn(r, accepted[c])
  BY SlotFacts DEF EP!PhaseInv
<1>2. ExchangeOf(c) = Receiving
  BY <1>1 DEF ExchangeIn, Receiving
<1>3. ASSUME NEW q \in E!ParserStates
      PROVE  [r EXCEPT !.parser = q] \in E!SlotType
  BY <1>1 DEF E!SlotType
<1>4. CASE E!OnDataMore(s)
  <2>1. PICK q : slots'[s] = [r EXCEPT !.parser = q]
    BY <1>1, <1>4 DEF E!OnDataMore
  <2>2. /\ slots'[s].wire = r.wire /\ slots'[s].split = r.split
        /\ slots'[s].close_after_send = r.close_after_send
    BY <1>1, <2>1 DEF E!SlotType
  <2>3. ExchangeIn(slots'[s], 0) = Receiving
    BY <2>2 DEF ExchangeIn, Receiving
  <2> QED BY <1>1, <1>2, <2>2, <2>3
<1>5. ASSUME NEW p \in E!SlotType, E!Dispatch(s, p)
      PROVE  slots'[s].wire = 0 /\ ~slots'[s].split /\ Outcome
  <2>1. CASE E!AnswerError(s, p)
    <3>1. slots'[s] = E!StartResponse(p, ErrHeaderLen, "MEMORY", ErrBodyLen)
      BY <1>1, <2>1 DEF E!AnswerError, E!Answer, E!SendError
    <3>2. ErrHeaderLen \in Nat \ {0} /\ ErrBodyLen \in Nat
      BY EngineAssumption DEF E!ConstantsAssumption, E!ErrorFitsAssumption
    <3> DEFINE q == E!StartResponse(p, ErrHeaderLen, "MEMORY", ErrBodyLen)
    <3>3. /\ q.wire = 0 /\ ~q.split
          /\ ExchangeIn(q, 0) = Responding(ErrHeaderLen + ErrBodyLen, 0)
      BY <1>5, <3>2, StartedExchange
    <3> HIDE DEF q
    <3> QED BY <3>1, <3>3 DEF DataLengths, q
  <2>2. CASE E!AnswerFromHandler(s, p)
    <3>1. PICK hdr \in HeaderLens, len \in BodyLens, src \in E!Sources :
            slots'[s] = E!StartResponse(p, hdr, src, len)
      BY <1>1, <2>2 DEF E!AnswerFromHandler, E!Answer, E!Sources
    <3>2. hdr \in Nat \ {0} /\ len \in Nat
      BY EngineAssumption DEF E!ConstantsAssumption
    <3> DEFINE q == E!StartResponse(p, hdr, src, len)
    <3>3. /\ q.wire = 0 /\ ~q.split
          /\ ExchangeIn(q, 0) = Responding(hdr + len, 0)
      BY <1>5, <3>2, StartedExchange
    <3> HIDE DEF q
    <3> QED BY <3>1, <3>3 DEF DataLengths, q
  <2>3. CASE E!AnswerFromFile(s, p)
    <3>1. PICK hdr \in HeaderLens, len \in BodyLens, h \in Handles :
            slots'[s] = E!StartStaticResponse(p, hdr, len, h)
      BY <1>1, <2>3 DEF E!AnswerFromFile
    <3>2. hdr \in Nat \ {0} /\ len \in Nat
      BY EngineAssumption DEF E!ConstantsAssumption
    <3> DEFINE q == E!StartStaticResponse(p, hdr, len, h)
    <3>3. /\ q.wire = 0 /\ ~q.split
          /\ ExchangeIn(q, 0) = Responding(hdr + len, 0)
      BY <1>5, <3>2, StartedExchange
    <3> HIDE DEF q
    <3> QED BY <3>1, <3>3 DEF DataLengths, q
  <2> QED BY <1>5, <2>1, <2>2, <2>3 DEF E!Dispatch
<1>6. CASE E!OnDataRejected(s)
  <2>1. E!Dispatch(s, [r EXCEPT !.parser = "ERROR"])
    BY <1>6 DEF E!OnDataRejected, E!Dispatch
  <2> QED BY <1>1, <1>2, <1>3, <1>5, <2>1 DEF E!ParserStates
<1>7. CASE E!OnDataComplete(s)
  <2>1. E!Dispatch(s, [r EXCEPT !.parser = "DONE"])
    BY <1>7 DEF E!OnDataComplete
  <2> QED BY <1>1, <1>2, <1>3, <1>5, <2>1 DEF E!ParserStates
<1> QED BY <1>4, <1>6, <1>7 DEF E!OnData

LEMMA DataExchange ==
  ASSUME PoliteOK, ~ExtraData, NEW c \in Conns, OnData(c)
  PROVE  ExchangeStep /\ WireInv'
<1>0. ServingOK /\ accepted' = accepted
  BY DEF PoliteOK, StepOK, OnData
<1>1. CASE UNCHANGED engine_vars
  BY <1>0, <1>1, QuietStep
<1>2. ASSUME NEW s, E!FoundSlot(c, s), MaySend(s), E!OnData(s)
      PROVE  ExchangeStep /\ WireInv'
  <2>1. s \in E!Slots /\ E!IsSlotOf(s, c)
    BY <1>0, <1>2, Lookup
  <2>2. ~slots[s].close_after_send
    BY <1>2, <2>1 DEF MaySend, PoliteOK, E!AnsweredWhenParsed
  <2>3. /\ accepted[c] = 0
        /\ slots'[s].wire = 0 /\ ~slots'[s].split
        /\ ExchangeOf(c) = Receiving
        /\ \/ ExchangeIn(slots'[s], 0) = Receiving
           \/ \E len \in DataLengths : ExchangeIn(slots'[s], 0) = Responding(len, 0)
    BY <1>2, <2>1, <2>2, DataOutcome
  <2>4. /\ WireInv'
        /\ \A d \in Conns \ {c} : ExchangeOf(d)' = ExchangeOf(d)
        /\ ExchangeOf(c)' = ExchangeIn(slots'[s], 0)
    BY <1>0, <1>2, <2>1, <2>3, ServedExchange DEF Serves
  <2>5. CASE ExchangeOf(c)' = ExchangeOf(c)
    BY <2>4, <2>5 DEF ExchangeStep
  <2>6. ASSUME NEW len \in DataLengths, ExchangeOf(c)' = Responding(len, 0)
        PROVE  ExchangeStep
    <3>1. X!Become(c, Responding(len, 0))
      BY <2>4, <2>6, ExchangeBecomes
    <3>2. ExchangeOf(c).phase = "receiving"
      BY <2>3 DEF Receiving
    <3>3. X!Respond(c)
      BY <3>1, <3>2 DEF X!Respond, DataLengths, Responding
    <3> QED BY <3>3 DEF X!Next, ExchangeStep
  <2> QED BY <2>3, <2>4, <2>5, <2>6
<1> QED BY <1>1, <1>2 DEF OnData

LEMMA PoliteStep ==
  ASSUME PoliteOK, ~ExtraData, ~SplitSends, LegalNext
  PROVE  ExchangeStep /\ WireInv'
<1>1. ASSUME NEW c \in Conns,
             \/ FlushFinish
             \/ OnDrain(c) \/ Ack(c) \/ DrainDone(c) \/ PeerGone(c)
      PROVE  UNCHANGED <<engine_vars, accepted>>
  BY <1>1 DEF FlushFinish, OnDrain, Ack, DrainDone, PeerGone
<1>2. CASE FlushFinish
  BY <1>2, QuietStep DEF FlushFinish
<1>3. CASE FlushFill
  BY <1>3, FillExchange
<1>4. CASE FlushSend
  BY <1>4, SendExchange
<1> QED BY <1>1, <1>2, <1>3, <1>4, QuietStep, ConnectExchange, DataExchange,
           CloseExchange DEF LegalNext, Flush

(* With peers that stop after their request and a transport that takes a   *)
(* chunk whole or not at all, every connection goes through the exchange   *)
(* the library promises: one response, of a length fixed before its first  *)
(* byte, each byte accepted once and in order, and nothing behind it.      *)
THEOREM ExchangeImplemented ==
  ASSUME ~ExtraData, ~SplitSends
  PROVE  Spec => ImplementsExchange
<1>1. Init => WireInv /\ X!Init
  <2> SUFFICES ASSUME Init PROVE WireInv /\ X!Init
    OBVIOUS
  <2>1. \A c \in Conns : accepted[c] = 0
    BY DEF Init
  <2>2. \A s \in E!Slots : ~slots[s].used
    BY DEF Init, E!Init, E!EmptySlot
  <2>3. \A c : E!NoSlotFor(c)
    BY <2>2, UsableSlots DEF E!NoSlotFor, E!IsSlotOf
  <2>4. WireInv
    BY <2>1, <2>2 DEF WireInv, WireAt, E!IsSlotOf
  <2>5. X!Init
    BY <2>3 DEF X!Init, X!Closed, ExchangeOf
  <2> QED BY <2>4, <2>5
<1>2. AdapterInv /\ SendInv /\ E!AnsweredWhenParsed /\ WireInv /\ [Next]_vars
        => ExchangeStep /\ WireInv'
  <2> SUFFICES ASSUME AdapterInv, SendInv, E!AnsweredWhenParsed, WireInv, [Next]_vars
               PROVE  ExchangeStep /\ WireInv'
    OBVIOUS
  <2>1. PoliteOK
    BY DEF PoliteOK, AdapterInv
  <2>2. CASE Next
    BY <2>1, <2>2, FreeIsLegal, PoliteStep DEF AdapterInv
  <2>3. CASE UNCHANGED vars
    BY <2>1, <2>3, QuietStep DEF vars, transport_vars
  <2> QED BY <2>2, <2>3
<1>3. ExchangeStep => [X!Next]_([c \in Conns |-> ExchangeOf(c)])
  BY DEF ExchangeStep
<1> QED BY <1>1, <1>2, <1>3, AdapterAlways, SendAlways, EngineTheoremsHold, PTL
        DEF Spec, ImplementsExchange, X!Spec
=============================================================================
