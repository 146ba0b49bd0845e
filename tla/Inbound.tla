------------------------------ MODULE Inbound -------------------------------
(***************************************************************************)
(* A message's way in: the record parser of a READY session hands complete *)
(* records to handle_record on the session's worker; a message packet with *)
(* a text becomes an event of the event bus, which the threads of the      *)
(* local API consume.  An event is the number of its record.               *)
(***************************************************************************)
EXTENDS RecordParser, ApiServer

inboundVars == <<vars, busVars, apiVars>>

InboundInit == Init /\ BusInit /\ ApiInit

(* The record just delivered is a message with a text, or it is rejected,  *)
(* or a packet that emits nothing.  handle_record returns false also after *)
(* it emitted, when the session was stopped meanwhile.                     *)
HandleRecord ==
  \/ Len(delivered') > Len(delivered) /\ EmitMessage(Len(delivered'))
  \/ UNCHANGED busVars

(* A turn of the worker's loop in consume. *)
Worker ==
  /\ ConsumePreface \/ ConsumeHeader \/ ConsumePayload
  /\ HandleRecord
  /\ UNCHANGED apiVars

(* The socket: the next fragment, or the end of the stream. *)
Socket ==
  /\ \/ \E n \in 1 .. MaxFragment : \E fragment \in [1 .. n -> Byte] :
          Len(stream) + n <= MaxStream /\ Consume(fragment)
     \/ Finish
  /\ UNCHANGED <<busVars, apiVars>>

InboundNext == Worker \/ Socket \/ (ApiNext /\ UNCHANGED vars)

InboundSpec == InboundInit /\ [][InboundNext]_inboundVars
-----------------------------------------------------------------------------
(* What API clients are given, in the order in which their threads         *)
(* consumed it, followed by what is still stored, are records the parser   *)
(* delivered, in the order of the stream, and none twice, also when two    *)
(* clients ask at once while the session goes on receiving.                *)
EventsFollowStream ==
  LET all == consumed \o g_events
  IN /\ \A i \in DOMAIN all : all[i] \in DOMAIN delivered
     /\ \A i, j \in DOMAIN all : i < j => all[i] < all[j]

(* emit_message loses an event only for newer ones: one that was neither   *)
(* handed out nor is stored has at least MAX_STORED_EVENTS younger events. *)
LostOnlyToNewer ==
  \A i \in DOMAIN emitted :
    \/ \E j \in DOMAIN g_events : g_events[j] = emitted[i]
    \/ \E j \in DOMAIN consumed : consumed[j] = emitted[i]
    \/ Len(emitted) - i >= MAX_STORED_EVENTS
=============================================================================
