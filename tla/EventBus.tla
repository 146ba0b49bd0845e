------------------------------ MODULE EventBus ------------------------------
(***************************************************************************)
(* The bounded list of received messages (event_bus.cpp) between the       *)
(* session workers, which emit, and the API threads, which consume.  Both  *)
(* operations run under g_events_mutex.                                    *)
(***************************************************************************)
EXTENDS Integers, Sequences

CONSTANT MAX_STORED_EVENTS

ASSUME EventBusAssumption == MAX_STORED_EVENTS \in Nat

VARIABLES g_events,
          emitted, consumed   \* history: what was ever emitted, and handed out

busVars == <<g_events, emitted, consumed>>

BusInit == g_events = <<>> /\ emitted = <<>> /\ consumed = <<>>

(* Mutant: a full list makes room for an event that it could still hold. *)
NewestButOne(events) ==
  IF Len(events) >= MAX_STORED_EVENTS
  THEN SubSeq(events, Len(events) - MAX_STORED_EVENTS + 2, Len(events))
  ELSE events

(* The excess over the limit is erased from the front. *)
Newest(events) ==
  IF Len(events) > MAX_STORED_EVENTS
  THEN SubSeq(events, Len(events) - MAX_STORED_EVENTS + 1, Len(events))
  ELSE events

EmitMessage(event) ==
  /\ g_events' = Newest(Append(g_events, event))
  /\ emitted' = Append(emitted, event)
  /\ UNCHANGED consumed

(* Mutant: the events are copied and not cleared. *)
CopyEvents ==
  consumed' = consumed \o g_events /\ UNCHANGED <<g_events, emitted>>

ConsumeEvents ==
  consumed' = consumed \o g_events /\ g_events' = <<>> /\ UNCHANGED emitted
=============================================================================
