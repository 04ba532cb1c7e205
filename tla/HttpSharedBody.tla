--------------------------- MODULE HttpSharedBody ---------------------------
(***************************************************************************)
(* HttpEngine with a handler that builds each response in one buffer of    *)
(* its own and sends it from there.  start_response keeps the pointer, and *)
(* fill_next_tx reads the buffer chunk by chunk after the handler has      *)
(* returned, when a request of another client may have rewritten it.       *)
(***************************************************************************)
EXTENDS HttpEngine

VARIABLES
  memory,  (* the slot whose response the handler's buffer holds           *)
  mixed    (* history: slots that took bytes of another slot's response    *)

shared_vars == <<vars, memory, mixed>>

(* The handler runs for s, writes the buffer and calls send().             *)
Handle(s) ==
  /\ slots[s].used
  /\ CanComplete(slots[s].parser)
  /\ AnswerFromHandler(s, [slots[s] EXCEPT !.parser = "DONE"])
  /\ slots'[s].body_src = "MEMORY"
  /\ memory' = s
  /\ mixed' = mixed \ {s}

(* A chunk is copied from the buffer as it is now.                         *)
Copy(s) ==
  /\ OnDrain(s)
  /\ mixed' = IF NeedsBody(slots[s]) /\ slots'[s].tx_len > 0 /\ memory # s
              THEN mixed \cup {s} ELSE mixed
  /\ UNCHANGED memory

Other(s) == /\ \/ OnDataMore(s)
               \/ \E c \in Conns : NoSlotFor(c) /\ AllocSlot(s, c)
               \/ \E n \in 1 .. slots[s].tx_len : OnBytesSent(s, n)
            /\ UNCHANGED <<memory, mixed>>

Release(s) == slots[s].used /\ ReleaseSlot(s) /\ mixed' = mixed \ {s} /\ UNCHANGED memory

SharedInit == Init /\ memory = 0 /\ mixed = {}
SharedNext == \E s \in Slots : Handle(s) \/ Copy(s) \/ Other(s) \/ Release(s)
SharedSpec == SharedInit /\ [][SharedNext]_shared_vars

(* docs/architecture.md:33: HttpResponse builds the full response in the   *)
(* TX buffer of the slot, so what a client gets is what was built for it.  *)
SentAsBuilt == mixed = {}
=============================================================================
