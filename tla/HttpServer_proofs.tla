-------------------------- MODULE HttpServer_proofs --------------------------
(***************************************************************************)
(* Proofs about HttpServer: begin() and stop() between the callbacks, for  *)
(* any number of HttpServer objects, connections and slots.                *)
(***************************************************************************)
EXTENDS HttpServer, TLAPS

AP == INSTANCE HttpTcpAdapter_proofs

-----------------------------------------------------------------------------
(* The adapter of the server (A) is the adapter the lemmas are about (AP). *)

LEMMA AdapterAssumptions == AP!TransportAssumption /\ AP!EngineAssumption
BY AdapterAssumption
DEF A!TransportAssumption, A!EngineAssumption, A!E!ConstantsAssumption,
    A!E!ErrorFitsAssumption, AP!TransportAssumption, AP!EngineAssumption,
    AP!E!ConstantsAssumption, AP!E!ErrorFitsAssumption

LEMMA SameTable == /\ A!E!Slots = AP!E!Slots
                   /\ A!E!Usable = AP!E!Usable
                   /\ A!E!EmptySlot = AP!E!EmptySlot
                   /\ A!E!vars = AP!E!vars
BY DEF A!E!Slots, AP!E!Slots, A!E!Usable, AP!E!Usable, A!E!MaxClients,
       AP!E!MaxClients, A!E!EmptySlot, AP!E!EmptySlot, A!E!vars, AP!E!vars

LEMMA SameLookup ==
  ASSUME NEW s, NEW c
  PROVE  /\ A!E!IsSlotOf(s, c) <=> AP!E!IsSlotOf(s, c)
         /\ A!E!FoundSlot(c, s) <=> AP!E!FoundSlot(c, s)
         /\ A!E!NoSlotFor(c) <=> AP!E!NoSlotFor(c)
BY SameTable DEF A!E!IsSlotOf, AP!E!IsSlotOf, A!E!FoundSlot, AP!E!FoundSlot,
                 A!E!NoSlotFor, AP!E!NoSlotFor

LEMMA SameOperations ==
  ASSUME NEW s, NEW c, NEW n
  PROVE  /\ A!E!AllocSlot(s, c) <=> AP!E!AllocSlot(s, c)
         /\ A!E!ReleaseSlot(s) <=> AP!E!ReleaseSlot(s)
         /\ A!E!OnData(s) <=> AP!E!OnData(s)
         /\ A!E!OnDrain(s) <=> AP!E!OnDrain(s)
         /\ A!E!OnBytesSent(s, n) <=> AP!E!OnBytesSent(s, n)
         /\ A!E!Reset <=> AP!E!Reset
         /\ A!E!ReadyToClose(slots[s]) <=> AP!E!ReadyToClose(slots[s])
<1>1. A!E!AllocSlot(s, c) <=> AP!E!AllocSlot(s, c)
  BY SameTable DEF A!E!AllocSlot, A!E!FirstFree, AP!E!AllocSlot, AP!E!FirstFree
<1>2. A!E!ReleaseSlot(s) <=> AP!E!ReleaseSlot(s)
  BY SameTable DEF A!E!ReleaseSlot, AP!E!ReleaseSlot
<1>3. A!E!OnData(s) <=> AP!E!OnData(s)
  BY DEF A!E!OnData, A!E!OnDataMore, A!E!OnDataRejected, A!E!OnDataComplete,
         A!E!Dispatch, A!E!AnswerError, A!E!AnswerFromHandler,
         A!E!AnswerFromFile, A!E!Answer, A!E!SendError, A!E!StartResponse,
         A!E!StartStaticResponse, A!E!Encodable, A!E!Forward,
         A!E!CanComplete, A!E!CanReject, A!E!ReadingStates, AP!E!OnData,
         AP!E!OnDataMore, AP!E!OnDataRejected, AP!E!OnDataComplete,
         AP!E!Dispatch, AP!E!AnswerError, AP!E!AnswerFromHandler,
         AP!E!AnswerFromFile, AP!E!Answer, AP!E!SendError,
         AP!E!StartResponse, AP!E!StartStaticResponse, AP!E!Encodable,
         AP!E!Forward, AP!E!CanComplete, AP!E!CanReject, AP!E!ReadingStates
<1>4. A!E!OnDrain(s) <=> AP!E!OnDrain(s)
  BY DEF A!E!OnDrain, A!E!FillNextTx, A!E!NeedsBody, A!E!Reads, A!E!Chunk,
         A!E!Available, A!E!MinOf, A!E!Filled, A!E!Loaded, A!E!ReadOffset,
         A!E!ReadFailed, A!E!vars, AP!E!OnDrain, AP!E!FillNextTx,
         AP!E!NeedsBody, AP!E!Reads, AP!E!Chunk, AP!E!Available, AP!E!MinOf,
         AP!E!Filled, AP!E!Loaded, AP!E!ReadOffset, AP!E!ReadFailed, AP!E!vars
<1>5. A!E!OnBytesSent(s, n) <=> AP!E!OnBytesSent(s, n)
  BY DEF A!E!OnBytesSent, A!E!AllSent, A!E!PartlySent, A!E!BodySentAfter,
         A!E!BodyFinished, AP!E!OnBytesSent, AP!E!AllSent, AP!E!PartlySent,
         AP!E!BodySentAfter, AP!E!BodyFinished
<1>6. A!E!Reset <=> AP!E!Reset
  BY SameTable DEF A!E!Reset, A!E!HeldHandles, AP!E!Reset, AP!E!HeldHandles
<1>7. A!E!ReadyToClose(slots[s]) <=> AP!E!ReadyToClose(slots[s])
  BY DEF A!E!ReadyToClose, AP!E!ReadyToClose
<1> QED BY <1>1, <1>2, <1>3, <1>4, <1>5, <1>6, <1>7

LEMMA SameCallbacks ==
  ASSUME NEW c
  PROVE  /\ A!OnConnect(c) <=> AP!OnConnect(c)
         /\ A!OnData(c) <=> AP!OnData(c)
         /\ A!OnDrain(c) <=> AP!OnDrain(c)
         /\ A!OnClose(c) <=> AP!OnClose(c)
         /\ A!Ack(c) <=> AP!Ack(c)
         /\ A!DrainDone(c) <=> AP!DrainDone(c)
         /\ A!PeerGone(c) <=> AP!PeerGone(c)
<1>1. A!OnConnect(c) <=> AP!OnConnect(c)
  BY SameTable, SameOperations
  DEF A!OnConnect, AP!OnConnect, A!At, AP!At, A!TcpClose, AP!TcpClose, A!Gone,
      AP!Gone, A!engine_vars, AP!engine_vars
<1>2. A!OnData(c) <=> AP!OnData(c)
  <2>1. \A s : A!MaySend(s) <=> AP!MaySend(s)
    BY DEF A!MaySend, AP!MaySend, A!E!ReadingStates, AP!E!ReadingStates
  <2>2. \A s : A!StartFlush(c, s) <=> AP!StartFlush(c, s)
    BY DEF A!StartFlush, AP!StartFlush
  <2>3. (A!At("idle") <=> AP!At("idle")) /\ (A!TcpClose(c) <=> AP!TcpClose(c))
    BY DEF A!At, AP!At, A!TcpClose, AP!TcpClose, A!Gone, AP!Gone
  <2> QED BY <2>1, <2>2, <2>3, SameTable, SameLookup, SameOperations
          DEF A!OnData, AP!OnData, A!engine_vars, AP!engine_vars
<1>3. A!OnDrain(c) <=> AP!OnDrain(c)
  BY SameTable, SameLookup
  DEF A!OnDrain, AP!OnDrain, A!At, AP!At, A!StartFlush, AP!StartFlush,
      A!TcpClose, AP!TcpClose, A!Gone, AP!Gone, A!engine_vars, AP!engine_vars
<1>4. A!OnClose(c) <=> AP!OnClose(c)
  BY SameTable, SameLookup, SameOperations
  DEF A!OnClose, AP!OnClose, A!At, AP!At, A!engine_vars, AP!engine_vars
<1>5. /\ A!Ack(c) <=> AP!Ack(c)
      /\ A!DrainDone(c) <=> AP!DrainDone(c)
      /\ A!PeerGone(c) <=> AP!PeerGone(c)
  BY DEF A!Ack, AP!Ack, A!DrainDone, AP!DrainDone, A!PeerGone, AP!PeerGone,
         A!Gone, AP!Gone, A!engine_vars, AP!engine_vars
<1> QED BY <1>1, <1>2, <1>3, <1>4, <1>5

LEMMA SameFlush == A!Flush <=> AP!Flush
<1>1. \A pc : /\ A!At(pc) <=> AP!At(pc)
              /\ A!GoTo(pc) <=> AP!GoTo(pc)
  BY DEF A!At, AP!At, A!GoTo, AP!GoTo
<1>2. A!FlushFill <=> AP!FlushFill
  BY <1>1, SameOperations
  DEF A!FlushFill, AP!FlushFill, A!engine_vars, AP!engine_vars,
      A!transport_vars, AP!transport_vars
<1>3. A!FlushSend <=> AP!FlushSend
  <2>1. \A c, len : A!Accepted(c, len) = AP!Accepted(c, len)
    BY DEF A!Accepted, AP!Accepted, A!Takes, AP!Takes, A!Room, AP!Room
  <2> QED BY <1>1, <2>1, SameOperations
          DEF A!FlushSend, AP!FlushSend, A!engine_vars, AP!engine_vars
<1>4. A!FlushFinish <=> AP!FlushFinish
  BY <1>1, SameOperations
  DEF A!FlushFinish, AP!FlushFinish, A!Idle, AP!Idle, A!engine_vars,
      AP!engine_vars
<1> QED BY <1>2, <1>3, <1>4 DEF A!Flush, AP!Flush

LEMMA SameInit == A!Init <=> AP!Init
BY SameTable
DEF A!Init, AP!Init, A!E!Init, AP!E!Init, A!Idle, AP!Idle

-----------------------------------------------------------------------------
(* begin() and stop(): what started_, the listener, the connections and    *)
(* g_engine are to each other at every point of the two.                   *)

ServerTypes ==
  /\ g_engine \in BOOLEAN
  /\ listening \in BOOLEAN
  /\ server \in [Servers -> {"absent", "stopped", "started"}]
  /\ app \in [pc: {"idle", "starting", "start_ok", "start_failed",
                   "stopping", "clear", "reset"},
              server: Servers \cup {NoServer}]
  /\ dropped \in BOOLEAN

Starting == AppAt("starting") \/ AppAt("start_failed")
Stopping == AppAt("stopping") \/ AppAt("clear") \/ AppAt("reset")
Quiet == A!At("idle") /\ \A c \in Conns : link[c] = "free"
SomeStarted == \E v \in Servers : server[v] = "started"

LifeInv ==
  /\ ServerTypes
  /\ CallbacksHaveEngine
  /\ listening \/ AppAt("stopping") \/ Quiet
  /\ ~AppAt("idle") => app.server \in Servers
  /\ AppAt("idle") \/ Starting => (listening <=> SomeStarted)
  /\ Starting => g_engine /\ server[app.server] = "stopped"
  /\ AppAt("start_ok") => listening /\ ~SomeStarted
  /\ Stopping => ~listening /\ server[app.server] = "started"
  /\ \A v, w \in Servers : server[v] = "started" /\ server[w] = "started" => v = w

(* A callback or a step of the transport does not touch what begin() and   *)
(* stop() go by, and starts nothing when all is quiet.                     *)
LEMMA NetworkQuiet ==
  ASSUME LifeInv, link \in [Conns -> A!Links], Network
  PROVE  /\ UNCHANGED <<g_engine, listening, server, app>>
         /\ dropped' \in BOOLEAN
         /\ CallbacksHaveEngine'
         /\ ~listening /\ Quiet => Quiet'
<1>1. /\ UNCHANGED <<g_engine, listening, server, app>>
      /\ dropped' \in BOOLEAN
  BY DEF Network, server_vars, DropSilently, LifeInv, ServerTypes
<1>2. CASE A!Flush
  <2>1. ~A!At("idle")
    BY <1>2 DEF A!Flush, A!FlushFill, A!FlushSend, A!FlushFinish, A!At
  <2>2. g_engine
    BY <2>1 DEF LifeInv, CallbacksHaveEngine
  <2> QED BY <1>1, <2>1, <2>2 DEF Quiet, CallbacksHaveEngine
<1>3. ASSUME NEW c \in Conns, g_engine,
             \/ listening /\ A!OnConnect(c)
             \/ A!OnData(c) \/ A!OnDrain(c) \/ A!OnClose(c)
      PROVE  CallbacksHaveEngine' /\ (~listening /\ Quiet => Quiet')
  <2>1. listening \/ link[c] # "free"
    BY <1>3 DEF A!OnData, A!OnDrain, A!OnClose
  <2> QED BY <1>1, <1>3, <2>1 DEF Quiet, CallbacksHaveEngine
<1>4. ASSUME NEW c \in Conns, A!Ack(c)
      PROVE  CallbacksHaveEngine' /\ (~listening /\ Quiet => Quiet')
  BY <1>1, <1>4 DEF A!Ack, LifeInv, Quiet, CallbacksHaveEngine, A!At
<1>5. ASSUME NEW c \in Conns, A!DrainDone(c) \/ A!PeerGone(c) \/ DropSilently(c)
      PROVE  CallbacksHaveEngine' /\ (~listening /\ Quiet => Quiet')
  <2>1. link[c] # "free"
    BY <1>5 DEF A!DrainDone, A!PeerGone, DropSilently
  <2>2. g_engine
    BY <2>1 DEF LifeInv, CallbacksHaveEngine
  <2> QED BY <1>1, <2>1, <2>2 DEF Quiet, CallbacksHaveEngine
<1> QED BY <1>1, <1>2, <1>3, <1>4, <1>5 DEF Network

LEMMA NetworkLife ==
  ASSUME LifeInv, link \in [Conns -> A!Links], Network
  PROVE  LifeInv'
<1>1. /\ UNCHANGED <<g_engine, listening, server, app>>
      /\ dropped' \in BOOLEAN
      /\ CallbacksHaveEngine'
      /\ ~listening /\ Quiet => Quiet'
  BY NetworkQuiet
<1> QED BY <1>1 DEF LifeInv, ServerTypes, AppAt, Starting, Stopping, SomeStarted

LEMMA ApplicationLife ==
  ASSUME LifeInv, link \in [Conns -> A!Links], Application
  PROVE  LifeInv'
<1>0. ServerTypes
  BY DEF LifeInv
<1>1. ASSUME NEW v \in Servers, Construct(v) PROVE LifeInv'
  BY <1>0, <1>1
  DEF Construct, LifeInv, ServerTypes, CallbacksHaveEngine, Quiet, SomeStarted,
      Starting, Stopping, AppAt, transport_vars, A!At
<1>2. ASSUME NEW v \in Servers, Begin(v) PROVE LifeInv'
  BY <1>0, <1>2
  DEF Begin, Calls, LifeInv, ServerTypes, CallbacksHaveEngine, Quiet,
      SomeStarted, Starting, Stopping, AppAt, adapter_vars, transport_vars, A!At
<1>3. CASE TcpServerStart
  <2>1. /\ AppAt("starting")
        /\ app.server \in Servers
        /\ UNCHANGED <<g_engine, server, dropped, task, link>>
        /\ g_engine
        /\ server[app.server] = "stopped"
        /\ listening <=> SomeStarted
    BY <1>3 DEF TcpServerStart, LifeInv, Starting, AppAt, adapter_vars, transport_vars
  <2>2. CASE ~listening /\ listening' = TRUE /\ AppGoTo("start_ok")
    <3>1. app' = [app EXCEPT !.pc = "start_ok"]
      BY <2>2 DEF AppGoTo
    <3>2. app'.pc = "start_ok" /\ app'.server = app.server /\ ServerTypes'
      BY <1>0, <2>1, <2>2, <3>1 DEF ServerTypes
    <3> QED BY <2>1, <2>2, <3>2
            DEF LifeInv, CallbacksHaveEngine, SomeStarted, Starting, Stopping, AppAt
  <2>3. CASE UNCHANGED listening /\ AppGoTo("start_failed")
    <3>1. app' = [app EXCEPT !.pc = "start_failed"]
      BY <2>3 DEF AppGoTo
    <3>2. app'.pc = "start_failed" /\ app'.server = app.server /\ ServerTypes'
      BY <1>0, <2>1, <2>3, <3>1 DEF ServerTypes
    <3> QED BY <2>1, <2>3, <3>2
            DEF LifeInv, CallbacksHaveEngine, Quiet, A!At, SomeStarted, Starting,
                Stopping, AppAt
  <2> QED BY <1>3, <2>2, <2>3 DEF TcpServerStart
<1>4. CASE BeginReturn
  BY <1>0, <1>4
  DEF BeginReturn, Started, LifeInv, ServerTypes, CallbacksHaveEngine, Quiet,
      SomeStarted, Starting, Stopping, AppAt, AppIdle, adapter_vars,
      transport_vars, A!At
<1>5. ASSUME NEW v \in Servers, Stop(v) PROVE LifeInv'
  BY <1>0, <1>5
  DEF Stop, CallStop, Calls, LifeInv, ServerTypes, CallbacksHaveEngine, Quiet,
      SomeStarted, Starting, Stopping, AppAt, A!At
<1>6. CASE TcpServerStopReturn
  BY <1>0, <1>6
  DEF TcpServerStopReturn, LifeInv, ServerTypes, CallbacksHaveEngine, Quiet,
      SomeStarted, Starting, Stopping, AppAt, AppGoTo, adapter_vars,
      transport_vars, A!At
<1>7. CASE StopClear
  BY <1>0, <1>7
  DEF StopClear, LifeInv, ServerTypes, CallbacksHaveEngine, Quiet,
      SomeStarted, Starting, Stopping, AppAt, AppGoTo, adapter_vars,
      transport_vars, A!At
<1>8. CASE StopReset
  BY <1>0, <1>8
  DEF StopReset, Stopped, LifeInv, ServerTypes, CallbacksHaveEngine, Quiet,
      SomeStarted, Starting, Stopping, AppAt, AppIdle, transport_vars, A!At
<1> QED BY <1>1, <1>2, <1>3, <1>4, <1>5, <1>6, <1>7, <1>8 DEF Application

-----------------------------------------------------------------------------
(* The engine: begin() and stop() call it as legally as the callbacks do.  *)

(* Slots of connections that are gone are left only while stop() runs, and *)
(* only if the transport ended some without on_close.                      *)
FreeInv == ~Stopping \/ ~dropped => AP!FreeHasNone

LEMMA SameView ==
  /\ A!Links = AP!Links
  /\ A!Idle = AP!Idle
  /\ \A pc : A!At(pc) <=> AP!At(pc)
BY DEF A!Links, AP!Links, A!Idle, AP!Idle, A!At, AP!At

(* The steps of the network task are those of the adapter's lemmas.        *)
LEMMA NetworkLegal ==
  ASSUME LifeInv, FreeInv, Network
  PROVE  \/ AP!LegalNext /\ UNCHANGED dropped
         \/ \E c \in Conns : DropSilently(c)
<1>1. ASSUME NEW c \in Conns, listening, AP!OnConnect(c)
      PROVE  AP!E!NoSlotFor(c)
  BY <1>1 DEF LifeInv, FreeInv, AP!OnConnect, AP!FreeHasNone
<1> QED BY <1>1, SameCallbacks, SameFlush DEF Network, server_vars, AP!LegalNext

(* Ending connections, whether by tcp_server_stop or at its end, calls no  *)
(* operation of the engine.                                                *)
LEMMA EndedTypes ==
  ASSUME AP!StepOK, UNCHANGED <<engine_vars, task, segments>>,
         link' \in [Conns -> AP!Links],
         unacked' \in [Conns -> 0 .. SndBuf],
         accepted' \in [Conns -> Nat],
         drain_due' \in [Conns -> BOOLEAN]
  PROVE  AP!StepOK'
<1>1. AP!ServingOK'
  BY AdapterAssumptions, AP!IdleStep DEF AP!StepOK, AP!engine_vars, engine_vars
<1> QED BY <1>1 DEF AP!StepOK, AP!TransportTypes, AP!At

LEMMA DropTypes ==
  ASSUME AP!StepOK, NEW c \in Conns, DropSilently(c)
  PROVE  AP!StepOK' /\ link' = [link EXCEPT ![c] = "free"]
<1>1. AP!TransportTypes
  BY DEF AP!StepOK
<1> QED BY <1>1, EndedTypes DEF DropSilently, AP!TransportTypes, AP!Links

LEMMA StopTypes ==
  ASSUME AP!StepOK, NEW v \in Servers, Stop(v)
  PROVE  AP!StepOK'
<1>1. AP!TransportTypes
  BY DEF AP!StepOK
<1>2. 0 \in 0 .. SndBuf
  BY AdapterAssumptions DEF AP!TransportAssumption
<1> QED BY <1>1, <1>2, EndedTypes DEF Stop, CallStop, AP!TransportTypes, AP!Links

LEMMA ResetTypes ==
  ASSUME AP!StepOK, A!E!Reset, UNCHANGED <<task, transport_vars>>
  PROVE  /\ AP!E!Next
         /\ AP!StepOK'
         /\ \A c : AP!E!NoSlotFor(c)'
         /\ (\A c \in Conns : AP!E!NoSlotFor(c)) => orphaned' = orphaned
<1>1. AP!E!Reset /\ AP!ServingOK
  BY SameOperations DEF AP!StepOK
<1>2. /\ AP!E!Next
      /\ AP!ServingOK'
      /\ \A c : AP!E!NoSlotFor(c)'
      /\ (\A c \in Conns : AP!E!NoSlotFor(c)) => orphaned' = orphaned
  BY <1>1, AdapterAssumptions, AP!ResetStep
<1> QED BY <1>2 DEF AP!StepOK, AP!TransportTypes, AP!At, transport_vars

(* What the application does besides.                                      *)
AppStill == UNCHANGED adapter_vars
LEMMA ApplicationCases ==
  ASSUME Application
  PROVE  \/ AppStill
         \/ \E v \in Servers : Stop(v)
         \/ A!E!Reset /\ UNCHANGED <<task, transport_vars>>
BY DEF Application, Construct, Begin, TcpServerStart, BeginReturn,
       TcpServerStopReturn, StopClear, StopReset, Stopped, AppStill

LEMMA StillTypes ==
  ASSUME AP!StepOK, AppStill
  PROVE  AP!StepOK'
<1>1. AP!ServingOK'
  BY AdapterAssumptions, AP!IdleStep
  DEF AP!StepOK, AP!engine_vars, AppStill, adapter_vars, engine_vars
<1> QED BY <1>1
        DEF AP!StepOK, AP!TransportTypes, AP!At, AppStill, adapter_vars,
            transport_vars

LEMMA NextTypes ==
  ASSUME LifeInv, FreeInv, AP!StepOK, [Next]_vars
  PROVE  AP!StepOK' /\ (AP!E!Next \/ UNCHANGED engine_vars)
<1>1. CASE Network
  <2>1. CASE AP!LegalNext
    BY <2>1, AdapterAssumptions, AP!LegalStep, AP!LegalCalls
    DEF AP!engine_vars, engine_vars
  <2>2. ASSUME NEW c \in Conns, DropSilently(c)
        PROVE  AP!StepOK' /\ (AP!E!Next \/ UNCHANGED engine_vars)
    BY <2>2, DropTypes DEF DropSilently
  <2> QED BY <1>1, <2>1, <2>2, NetworkLegal
<1>2. CASE Application
  BY <1>2, ApplicationCases, StillTypes, StopTypes, ResetTypes
  DEF AppStill, adapter_vars, Stop
<1>3. CASE UNCHANGED vars
  BY <1>3, StillTypes DEF vars, AppStill, adapter_vars
<1> QED BY <1>1, <1>2, <1>3 DEF Next

LEMMA NextLife ==
  ASSUME LifeInv, AP!StepOK, [Next]_vars
  PROVE  LifeInv'
<1>1. link \in [Conns -> A!Links]
  BY SameView DEF AP!StepOK, AP!TransportTypes
<1>2. CASE UNCHANGED vars
  BY <1>2
  DEF vars, adapter_vars, transport_vars, server_vars, LifeInv, ServerTypes,
      CallbacksHaveEngine, Quiet, SomeStarted, Starting, Stopping, AppAt, A!At
<1> QED BY <1>1, <1>2, NetworkLife, ApplicationLife DEF Next

LEMMA SameSlots ==
  ASSUME UNCHANGED engine_vars
  PROVE  \A c : AP!E!NoSlotFor(c)' <=> AP!E!NoSlotFor(c)
BY DEF engine_vars, AP!E!NoSlotFor, AP!E!IsSlotOf

LEMMA NextFree ==
  ASSUME LifeInv, FreeInv, AP!StepOK, [Next]_vars
  PROVE  FreeInv'
<1> SUFFICES ASSUME Stopping' => ~dropped' PROVE AP!FreeHasNone'
  BY DEF FreeInv, Stopping, AppAt
<1>1. ASSUME ~Stopping \/ ~dropped, AppStill PROVE AP!FreeHasNone'
  BY <1>1, SameSlots DEF FreeInv, AppStill, adapter_vars, transport_vars, AP!FreeHasNone
<1>2. CASE Network
  <2>1. CASE AP!LegalNext /\ UNCHANGED dropped
    <3>1. UNCHANGED app
      BY <1>2, NetworkQuiet, SameView DEF AP!StepOK, AP!TransportTypes
    <3>2. AP!FreeHasNone
      BY <2>1, <3>1 DEF FreeInv, Stopping, AppAt
    <3> QED BY <2>1, <3>2, AdapterAssumptions, AP!FreeKept
  <2>2. ASSUME NEW c \in Conns, DropSilently(c) PROVE FALSE
    BY <2>2 DEF DropSilently, Stopping, AppAt
  <2> QED BY <1>2, <2>1, <2>2, NetworkLegal
<1>3. CASE Application
  <2>1. ASSUME NEW v \in Servers, Stop(v) PROVE AP!FreeHasNone'
    <3>1. AP!FreeHasNone
      BY <2>1 DEF FreeInv, Stop, CallStop, Calls, Stopping, AppAt
    <3>2. \A c \in Conns : link'[c] = "free" => link[c] = "free"
      BY <2>1 DEF Stop, CallStop
    <3> QED BY <2>1, <3>1, <3>2, SameSlots DEF Stop, AP!FreeHasNone
  <2>2. CASE A!E!Reset /\ UNCHANGED <<task, transport_vars>>
    BY <2>2, ResetTypes DEF AP!FreeHasNone
  <2>3. CASE AppStill /\ ~StopReset
    <3>1. dropped' = dropped
      BY <1>3, <2>3
      DEF Application, Construct, Begin, TcpServerStart, BeginReturn, Stop,
          CallStop, TcpServerStopReturn, StopClear
    <3>2. ASSUME Stopping, ~Stopping' PROVE FALSE
      <4>1. TcpServerStopReturn \/ StopClear
        BY <1>3, <2>3, <3>2
        DEF Application, Construct, Begin, Calls, TcpServerStart, BeginReturn,
            Stop, CallStop, Stopping, AppAt
      <4> QED BY <3>2, <4>1
              DEF TcpServerStopReturn, StopClear, AppGoTo, Stopping, AppAt,
                  LifeInv, ServerTypes
    <3> QED BY <1>1, <2>3, <3>1, <3>2
  <2> QED BY <1>3, <2>1, <2>2, <2>3, ApplicationCases DEF StopReset, Stopped
<1>4. CASE UNCHANGED vars
  BY <1>1, <1>4 DEF vars, server_vars, AppStill, adapter_vars, Stopping, AppAt
<1> QED BY <1>2, <1>3, <1>4 DEF Next

-----------------------------------------------------------------------------
ServerInv == LifeInv /\ FreeInv /\ AP!StepOK

LEMMA ServerInit == Init => ServerInv
<1> SUFFICES ASSUME Init PROVE ServerInv
  OBVIOUS
<1>1. AP!AdapterInv
  BY AdapterAssumptions, AP!AdapterInit, SameInit DEF Init
<1>2. Quiet
  BY DEF Init, A!Init, A!Idle, A!At, Quiet
<1>3. LifeInv
  BY <1>2 DEF Init, LifeInv, ServerTypes, CallbacksHaveEngine, AppIdle, AppAt,
              Starting, Stopping, SomeStarted, Quiet
<1> QED BY <1>1, <1>3 DEF AP!AdapterInv, FreeInv, ServerInv

LEMMA ServerNext == ServerInv /\ [Next]_vars => ServerInv'
BY NextLife, NextFree, NextTypes DEF ServerInv

LEMMA ServerAlways == Spec => []ServerInv
BY ServerInit, ServerNext, PTL DEF Spec

(* No callback of the network task ever finds g_engine cleared: not by a   *)
(* stop() of its own server, not by a begin() that failed, not by another  *)
(* HttpServer.                                                             *)
THEOREM CallbacksCorrect == Spec => []CallbacksHaveEngine
<1>1. ServerInv => CallbacksHaveEngine
  BY DEF ServerInv, LifeInv
<1> QED BY <1>1, ServerAlways, PTL

(* A server that says it is started is the one that listens, whichever     *)
(* start was refused and whichever of several servers was stopped.         *)
THEOREM ListensCorrect == Spec => []ListensIffStarted
<1>1. ServerInv => ListensIffStarted
  BY DEF ServerInv, LifeInv, ListensIffStarted, SomeStarted
<1> QED BY <1>1, ServerAlways, PTL

LEMMA SameEngineSteps == A!E!Next <=> AP!E!Next
<1>1. \A s : A!E!SlotOperation(s) <=> AP!E!SlotOperation(s)
  BY SameOperations DEF A!E!SlotOperation, AP!E!SlotOperation
<1> QED BY <1>1, SameTable, SameLookup, SameOperations DEF A!E!Next, AP!E!Next

(* With begin(), stop() and any number of HttpServer objects, the engine   *)
(* is still called only as it allows: so what HttpEngine_proofs shows of   *)
(* the engine holds in the whole program.                                  *)
THEOREM ServerImplementsEngine == Spec => ImplementsEngine
<1>1. Init => A!E!Init
  BY DEF Init, A!Init
<1>2. ServerInv /\ [Next]_vars => [A!E!Next]_(A!E!vars)
  BY NextTypes, SameEngineSteps DEF ServerInv, engine_vars, A!E!vars
<1> QED BY <1>1, <1>2, ServerAlways, PTL
        DEF Spec, ImplementsEngine, A!ImplementsEngine, A!E!Spec

-----------------------------------------------------------------------------
(* One server at a time.  The constructor resets the engine for everybody, *)
(* so the rest needs that no HttpServer is constructed while another one   *)
(* serves.                                                                 *)

ConstructsQuietly == \A v \in Servers : Construct(v) => ~listening
NoneConstructedInService == [][ConstructsQuietly]_vars

HeldInv == AP!OpenHasSlot /\ AP!TaskHasSlot
FilesInv == ~dropped => orphaned = {}

(* The engine is reset only when no callback runs and no connection is     *)
(* left.                                                                   *)
LEMMA ResetsQuietly ==
  ASSUME LifeInv, Application, ConstructsQuietly
  PROVE  \/ AppStill
         \/ \E v \in Servers : Stop(v)
         \/ /\ A!E!Reset
            /\ UNCHANGED <<task, transport_vars, dropped>>
            /\ Quiet
<1>1. ASSUME NEW v \in Servers, Construct(v)
      PROVE  A!E!Reset /\ UNCHANGED <<task, transport_vars, dropped>> /\ Quiet
  BY <1>1 DEF Construct, ConstructsQuietly, LifeInv, AppAt
<1>2. ASSUME StopReset
      PROVE  A!E!Reset /\ UNCHANGED <<task, transport_vars, dropped>> /\ Quiet
  BY <1>2 DEF StopReset, Stopped, LifeInv, Stopping, AppAt
<1> QED BY <1>1, <1>2
        DEF Application, Begin, TcpServerStart, BeginReturn,
            TcpServerStopReturn, StopClear, AppStill

LEMMA SameFound ==
  ASSUME UNCHANGED engine_vars
  PROVE  \A c : /\ AP!E!NoSlotFor(c)' <=> AP!E!NoSlotFor(c)
                /\ \A s : AP!E!FoundSlot(c, s)' <=> AP!E!FoundSlot(c, s)
BY DEF engine_vars, AP!E!NoSlotFor, AP!E!FoundSlot, AP!E!IsSlotOf

LEMMA NextHeld ==
  ASSUME ServerInv, HeldInv, [Next /\ ConstructsQuietly]_vars
  PROVE  HeldInv'
<1>1. CASE Network
  <2>1. CASE AP!LegalNext
    BY <2>1, AdapterAssumptions, AP!OpenKept, AP!TaskKept DEF HeldInv, ServerInv
  <2>2. ASSUME NEW c \in Conns, DropSilently(c) PROVE HeldInv'
    <3>1. UNCHANGED <<engine_vars, task>>
      BY <2>2 DEF DropSilently
    <3>2. \A d \in Conns : link'[d] \in {"open", "draining"} =>
                             link[d] \in {"open", "draining"}
      BY <2>2, DropTypes DEF ServerInv, AP!StepOK, AP!TransportTypes
    <3> QED BY <3>1, <3>2, SameFound
            DEF HeldInv, AP!OpenHasSlot, AP!TaskHasSlot, AP!At
  <2> QED BY <1>1, <2>1, <2>2, NetworkLegal DEF ServerInv
<1>2. CASE AppStill
  BY <1>2, SameFound
  DEF AppStill, adapter_vars, transport_vars, HeldInv, AP!OpenHasSlot,
      AP!TaskHasSlot, AP!At
<1>3. ASSUME NEW v \in Servers, Stop(v) PROVE HeldInv'
  <2>1. UNCHANGED <<engine_vars, task>>
    BY <1>3 DEF Stop, CallStop
  <2>2. \A c \in Conns : link'[c] \notin {"open", "draining"}
    BY <1>3 DEF Stop, CallStop
  <2> QED BY <2>1, <2>2, SameFound
          DEF HeldInv, AP!OpenHasSlot, AP!TaskHasSlot, AP!At
<1>4. ASSUME UNCHANGED <<task, transport_vars>>, Quiet PROVE HeldInv'
  BY <1>4 DEF Quiet, A!At, transport_vars, HeldInv, AP!OpenHasSlot,
              AP!TaskHasSlot, AP!At
<1>5. CASE UNCHANGED vars
  BY <1>2, <1>5 DEF vars, AppStill, adapter_vars
<1> QED BY <1>1, <1>2, <1>3, <1>4, <1>5, ResetsQuietly DEF Next, ServerInv

LEMMA NextFiles ==
  ASSUME ServerInv, FilesInv, [Next /\ ConstructsQuietly]_vars
  PROVE  FilesInv'
<1>1. CASE Network
  <2>1. CASE AP!LegalNext /\ UNCHANGED dropped
    BY <2>1, AdapterAssumptions, AP!LegalOrphans DEF FilesInv
  <2>2. ASSUME NEW c \in Conns, DropSilently(c) PROVE FilesInv'
    BY <2>2 DEF DropSilently, FilesInv
  <2> QED BY <1>1, <2>1, <2>2, NetworkLegal DEF ServerInv
<1>2. CASE Application /\ UNCHANGED orphaned
  BY <1>2 DEF Application, Construct, Begin, TcpServerStart, BeginReturn, Stop,
              CallStop, TcpServerStopReturn, StopClear, StopReset, Stopped,
              FilesInv
<1>3. CASE A!E!Reset /\ UNCHANGED <<task, transport_vars, dropped>> /\ Quiet
  <2>1. ~dropped => \A c \in Conns : AP!E!NoSlotFor(c)
    BY <1>3 DEF ServerInv, FreeInv, AP!FreeHasNone, Quiet
  <2>2. (\A c \in Conns : AP!E!NoSlotFor(c)) => orphaned' = orphaned
    BY <1>3, ResetTypes DEF ServerInv
  <2> QED BY <1>3, <2>1, <2>2 DEF FilesInv
<1>4. CASE UNCHANGED vars
  BY <1>4 DEF vars, adapter_vars, engine_vars, server_vars, FilesInv
<1> QED BY <1>1, <1>2, <1>3, <1>4, ResetsQuietly
        DEF Next, ServerInv, AppStill, adapter_vars, engine_vars, Stop

(* However often it is started, stopped and started again, with or without *)
(* on_close for the connections stop() ends, a server that listens has a   *)
(* slot table that follows its connections.                                *)
THEOREM SlotsFollowCorrect ==
  Spec /\ NoneConstructedInService => []SlotsFollowWhileListening
<1>1. Init => HeldInv
  BY AdapterAssumptions, AP!AdapterInit, SameInit DEF Init, HeldInv, AP!AdapterInv
<1>2. ServerInv /\ HeldInv => SlotsFollowWhileListening
  <2> SUFFICES ASSUME ServerInv, HeldInv, listening PROVE A!SlotsFollowConnections
    BY DEF SlotsFollowWhileListening
  <2>1. AP!FreeHasNone
    BY DEF ServerInv, LifeInv, FreeInv
  <2>2. \A s, t \in AP!E!Slots : \A c :
          AP!E!IsSlotOf(s, c) /\ AP!E!IsSlotOf(t, c) => s = t
    BY AdapterAssumptions, AP!ServingFacts DEF ServerInv, AP!StepOK
  <2> QED BY <2>1, <2>2, SameView, SameTable, SameLookup
          DEF A!SlotsFollowConnections, HeldInv, AP!OpenHasSlot,
              AP!FreeHasNone, AP!TaskHasSlot
<1>3. [Next]_vars /\ [ConstructsQuietly]_vars => [Next /\ ConstructsQuietly]_vars
  OBVIOUS
<1>4. ServerInv /\ HeldInv /\ [Next /\ ConstructsQuietly]_vars => HeldInv'
  BY NextHeld
<1> QED BY <1>1, <1>2, <1>3, <1>4, ServerAlways, PTL
        DEF Spec, NoneConstructedInService

(* A transport that reports every connection it ends leaves no file open   *)
(* in a slot that reset() drops.                                           *)
THEOREM FilesCorrect ==
  Spec /\ NoneConstructedInService => []NoFileLost
<1>1. Init => FilesInv
  BY DEF Init, A!Init, A!E!Init, FilesInv
<1>2. FilesInv => NoFileLost
  BY DEF FilesInv, NoFileLost
<1>3. [Next]_vars /\ [ConstructsQuietly]_vars => [Next /\ ConstructsQuietly]_vars
  OBVIOUS
<1>4. ServerInv /\ FilesInv /\ [Next /\ ConstructsQuietly]_vars => FilesInv'
  BY NextFiles
<1> QED BY <1>1, <1>2, <1>3, <1>4, ServerAlways, PTL
        DEF Spec, NoneConstructedInService

(* A program with a single HttpServer, as every example is, needs nothing  *)
(* else: it is constructed before it can listen.                           *)
THEOREM OneServerSuffices ==
  ASSUME \A v, w \in Servers : v = w
  PROVE  Spec => /\ []SlotsFollowWhileListening
                 /\ []NoFileLost
<1>1. ServerInv => ConstructsQuietly
  <2> SUFFICES ASSUME ServerInv, NEW v \in Servers, Construct(v), listening
               PROVE  FALSE
    BY DEF ConstructsQuietly
  <2>1. server[v] = "absent" /\ AppAt("idle")
    BY DEF Construct
  <2>2. PICK w \in Servers : server[w] = "started"
    BY <2>1 DEF ServerInv, LifeInv, SomeStarted
  <2> QED BY <2>1, <2>2
<1>2. Spec => NoneConstructedInService
  BY <1>1, ServerAlways, PTL DEF Spec, NoneConstructedInService
<1> QED BY <1>2, SlotsFollowCorrect, FilesCorrect
==============================================================================
