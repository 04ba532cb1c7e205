----------------------------- MODULE HttpServer -----------------------------
(***************************************************************************)
(* http_server.cpp, and start and stop of http_tcp_adapter.cpp: begin()    *)
(* and stop() run on an application task, step by step, while the network  *)
(* task makes the callbacks of HttpTcpAdapter.  The tasks share g_engine   *)
(* and the engine, of which there is one for all HttpServer objects.       *)
(*                                                                         *)
(* The transport is external.  stop() relies on tcp_server_stop to accept  *)
(* nothing more, to end every connection, and to return when no callback   *)
(* runs and none is to come; it may or may not call on_close for those it  *)
(* ends.  Without that contract a callback could be cut short by           *)
(* g_engine = 0 wherever it stands, for it reads g_engine at each call it  *)
(* makes on the engine.                                                    *)
(***************************************************************************)
EXTENDS Integers

CONSTANTS HTTP_MAX_CLIENTS, RequestedClients, TxSize, HeaderLens, ErrHeaderLen,
          ErrBodyLen, BodyLens, FaultyReads, Conns, NoConn, Handles, NoHandle,
          HasOnDrain, SndBuf, SplitSends, ExtraData, MaxSegments

CONSTANTS
  Servers,  (* The HttpServer objects of the application.                  *)
  NoServer

ASSUME ServersAssumption == NoServer \notin Servers

VARIABLES
  slots, open_handles, orphaned,                           (* HttpEngine   *)
  task, link, unacked, accepted, drain_due, segments,      (* the adapter  *)
  g_engine,   (* is the adapter's engine pointer set?                      *)
  listening,  (* does the transport accept connections?                    *)
  server,     (* each HttpServer: not constructed yet, or its started_     *)
  app,        (* the application task: where it is in begin() or stop()    *)
  dropped     (* history: has a connection ever ended without an on_close? *)

A == INSTANCE HttpTcpAdapter

(* What HttpTcpAdapter assumes of the constants the two modules share.     *)
ASSUME AdapterAssumption == A!TransportAssumption /\ A!EngineAssumption

engine_vars == <<slots, open_handles, orphaned>>
transport_vars == <<link, unacked, accepted, drain_due, segments>>
adapter_vars == <<engine_vars, task, transport_vars>>
server_vars == <<g_engine, listening, server, app, dropped>>
vars == <<adapter_vars, server_vars>>

AppIdle == [pc |-> "idle", server |-> NoServer]
AppAt(pc) == app.pc = pc
AppGoTo(pc) == app' = [app EXCEPT !.pc = pc]
Calls(v, pc) == AppAt("idle") /\ app' = [pc |-> pc, server |-> v]

-----------------------------------------------------------------------------
(* The constructor resets the engine, whoever uses it.                     *)
Construct(v) ==
  /\ AppAt("idle")
  /\ server[v] = "absent"
  /\ server' = [server EXCEPT ![v] = "stopped"]
  /\ A!E!Reset
  /\ UNCHANGED <<task, transport_vars, g_engine, listening, app, dropped>>

(* begin: nothing if started; otherwise g_engine, tcp_server_start, and    *)
(* started_ if it said OK.                                                 *)
Begin(v) ==
  /\ Calls(v, "starting")
  /\ server[v] = "stopped"
  /\ g_engine' = TRUE
  /\ UNCHANGED <<adapter_vars, listening, server, dropped>>

(* The transport serves one port: a second start is refused, as may be     *)
(* any other.                                                              *)
TcpServerStart ==
  /\ AppAt("starting")
  /\ \/ ~listening /\ listening' = TRUE /\ AppGoTo("start_ok")
     \/ UNCHANGED listening /\ AppGoTo("start_failed")
  /\ UNCHANGED <<adapter_vars, g_engine, server, dropped>>

(* Mutant: started_ is set whatever tcp_server_start returned.             *)
WhateverReturned(v) == "started"
Started(v) == IF AppAt("start_ok") THEN "started" ELSE server[v]

BeginReturn ==
  /\ AppAt("start_ok") \/ AppAt("start_failed")
  /\ server' = [server EXCEPT ![app.server] = Started(app.server)]
  /\ app' = AppIdle
  /\ UNCHANGED <<adapter_vars, g_engine, listening, dropped>>

-----------------------------------------------------------------------------
(* stop: nothing unless started.  The call of tcp_server_stop ends every   *)
(* connection; what remains of each is its on_close, or nothing.           *)
CallStop(v) ==
  /\ Calls(v, "stopping")
  /\ server[v] = "started"
  /\ listening' = FALSE
  /\ link' = [c \in Conns |-> IF link[c] = "free" THEN "free" ELSE "closing"]
  /\ unacked' = [c \in Conns |-> 0]
  /\ drain_due' = [c \in Conns |-> FALSE]
  /\ UNCHANGED <<task, accepted, segments, server, dropped>>

(* Mutants: g_engine is cleared, or the engine reset, before the call.     *)
StopClearingFirst(v) == CallStop(v) /\ g_engine' = FALSE /\ UNCHANGED engine_vars
StopResettingFirst(v) == CallStop(v) /\ A!E!Reset /\ UNCHANGED g_engine
Stop(v) == CallStop(v) /\ UNCHANGED <<engine_vars, g_engine>>

(* A connection ended by tcp_server_stop without an on_close.              *)
DropSilently(c) ==
  /\ AppAt("stopping")
  /\ A!At("idle")
  /\ link[c] = "closing"
  /\ link' = [link EXCEPT ![c] = "free"]
  /\ accepted' = [accepted EXCEPT ![c] = 0]
  /\ dropped' = TRUE
  /\ UNCHANGED <<engine_vars, task, unacked, drain_due, segments,
                 g_engine, listening, server, app>>

TcpServerStopReturn ==
  /\ AppAt("stopping")
  /\ A!At("idle")
  /\ \A c \in Conns : link[c] = "free"
  /\ AppGoTo("clear")
  /\ UNCHANGED <<adapter_vars, g_engine, listening, server, dropped>>

StopClear ==
  /\ AppAt("clear")
  /\ g_engine' = FALSE
  /\ AppGoTo("reset")
  /\ UNCHANGED <<adapter_vars, listening, server, dropped>>

Stopped == /\ AppAt("reset")
           /\ server' = [server EXCEPT ![app.server] = "stopped"]
           /\ app' = AppIdle
           /\ UNCHANGED <<task, transport_vars, g_engine, listening, dropped>>

(* Mutant: stop() leaves the slots as they are.                            *)
StopWithoutReset == Stopped /\ UNCHANGED engine_vars
StopReset == Stopped /\ A!E!Reset

-----------------------------------------------------------------------------
Init == /\ A!Init
        /\ g_engine = FALSE
        /\ listening = FALSE
        /\ server = [v \in Servers |-> "absent"]
        /\ app = AppIdle
        /\ dropped = FALSE

Application == \/ \E v \in Servers : Construct(v) \/ Begin(v) \/ Stop(v)
               \/ TcpServerStart \/ BeginReturn
               \/ TcpServerStopReturn \/ StopClear \/ StopReset

(* The callbacks test g_engine first.  The branches for 0, which close the *)
(* connection, cannot be reached: CallbacksHaveEngine.                     *)
Network ==
  \/ A!Flush /\ UNCHANGED server_vars
  \/ \E c \in Conns :
       \/ /\ \/ listening /\ A!OnConnect(c)
             \/ A!OnData(c) \/ A!OnDrain(c) \/ A!OnClose(c)
          /\ g_engine
          /\ UNCHANGED server_vars
       \/ /\ A!Ack(c) \/ A!DrainDone(c) \/ A!PeerGone(c)
          /\ UNCHANGED server_vars
       \/ DropSilently(c)

Next == Application \/ Network

Spec == Init /\ [][Next]_vars

(* A callback that was begun is run to its end, the transport makes the    *)
(* on_close calls it owes, and stop() goes on when it can.  Nothing makes  *)
(* the application call begin() or stop().                                 *)
Fairness == /\ WF_vars(A!Flush /\ UNCHANGED server_vars)
            /\ WF_vars(TcpServerStopReturn \/ StopClear \/ StopReset)
            /\ \A c \in Conns :
                 SF_vars(A!OnClose(c) /\ g_engine /\ UNCHANGED server_vars)

FairSpec == Spec /\ Fairness

-----------------------------------------------------------------------------
(* Properties.                                                             *)

TypeOK == /\ A!TypeOK
          /\ g_engine \in BOOLEAN
          /\ listening \in BOOLEAN
          /\ server \in [Servers -> {"absent", "stopped", "started"}]
          /\ app \in [pc: {"idle", "starting", "start_ok", "start_failed",
                           "stopping", "clear", "reset"},
                      server: Servers \cup {NoServer}]
          /\ dropped \in BOOLEAN

(* No callback is ever made, or cut short, without an engine: as long as   *)
(* a connection may be accepted, exists, or has its callback under way,    *)
(* g_engine is set, through every interleaving of begin() and stop().      *)
CallbacksHaveEngine ==
  listening \/ ~A!At("idle") \/ (\E c \in Conns : link[c] # "free") => g_engine

(* However often the server is started, stopped and started again, with    *)
(* or without on_close for what stop() ended, a server that listens has a  *)
(* slot table that follows its connections: none is lost to an earlier run.*)
SlotsFollowWhileListening == listening => A!SlotsFollowConnections

(* Between calls of the application, what started_ says and what the        *)
(* transport does agree: stop() never refuses to stop a listening server,  *)
(* and a begin() that failed may be tried again.                           *)
ListensIffStarted ==
  AppAt("idle") => (listening <=> \E v \in Servers : server[v] = "started")

(* As long as the transport reports the connections it ends, stop() loses  *)
(* no open file: reset() finds nothing left to close.                      *)
NoFileLost == ~dropped => orphaned = {}

(* begin() and stop() call the engine as legally as the callbacks do.      *)
ImplementsEngine == A!ImplementsEngine

(* stop() returns, whatever the callbacks were doing when it was called:   *)
(* none of them waits for a connection that stop() has ended.              *)
StopReturns == AppAt("stopping") ~> AppAt("idle")
=============================================================================
