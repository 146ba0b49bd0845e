------------------------------ MODULE ApiServer -----------------------------
(***************************************************************************)
(* The local HTTP API (api_server.cpp): an accept loop and one detached    *)
(* thread per client, which reads a request, runs one handler, answers and *)
(* closes.  The bytes of requests and answers are left out: a request is   *)
(* complete or not and names an endpoint. MessageService::send_to_device,  *)
(* which the send handler calls, is in module Daemon; its result does not  *)
(* reach the answer.  Left out: an exception that leaves a handler, which  *)
(* ends the process.                                                       *)
(***************************************************************************)
EXTENDS EventBus

CONSTANT Client   \* descriptors of accepted clients

VARIABLES listening,  \* "no", "yes", or "failed": the accept loop was not reached
          api         \* what the thread of each client is doing

apiVars == <<listening, api>>

Endpoint == {"options", "devices", "events", "send", "other"}

ApiTypeOK ==
  /\ listening \in {"no", "yes", "failed"}
  /\ api \in [Client -> {"closed", "receive", "reply"} \union Endpoint]

ApiInit == listening = "no" /\ api = [c \in Client |-> "closed"]

(* socket, bind and listen; without them the API thread ends. *)
BootstrapApiServer ==
  /\ listening = "no"
  /\ listening' \in {"yes", "failed"}
  /\ UNCHANGED <<api, busVars>>

GoOn(c, label) == api' = [api EXCEPT ![c] = label] /\ UNCHANGED listening

Accept(c) ==
  listening = "yes" /\ api[c] = "closed" /\ GoOn(c, "receive") /\ UNCHANGED busVars

(* recv_http_request reads the headers and the announced body; an end of   *)
(* stream before that, or a length out of range, is answered with 400.     *)
RecvHttpRequest(c) ==
  /\ api[c] = "receive"
  /\ \E label \in {"reply"} \union Endpoint : GoOn(c, label)
  /\ UNCHANGED busVars

(* The events leave the list before the answer is sent. *)
HandleGetEvents(c) == api[c] = "events" /\ ConsumeEvents /\ GoOn(c, "reply")

(* A body that does not parse or lacks a field is refused; otherwise the   *)
(* message service is called, and the answer is "queued" whatever it did.  *)
HandlePostSend(c) == api[c] = "send" /\ GoOn(c, "reply") /\ UNCHANGED busVars

(* OPTIONS, a copy of the device registry, and unknown endpoints. *)
HandleOther(c) ==
  api[c] \in {"options", "devices", "other"} /\ GoOn(c, "reply") /\ UNCHANGED busVars

(* send_http_response, which may fail, and close. *)
SendHttpResponse(c) == api[c] = "reply" /\ GoOn(c, "closed") /\ UNCHANGED busVars

HandleApiClient(c) ==
  \/ RecvHttpRequest(c) \/ HandleGetEvents(c) \/ HandlePostSend(c) \/ HandleOther(c)
  \/ SendHttpResponse(c)

ApiNext == BootstrapApiServer \/ \E c \in Client : Accept(c) \/ HandleApiClient(c)
=============================================================================
