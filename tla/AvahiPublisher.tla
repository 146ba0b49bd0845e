--------------------------- MODULE AvahiPublisher ---------------------------
(***************************************************************************)
(* The mDNS advertisement (avahi_publisher.cpp): start on a thread of its  *)
(* own, the library's event loop and its callbacks.  Names, TXT records    *)
(* and the port are left out.                                              *)
(***************************************************************************)
EXTENDS AvahiHandles

VARIABLES publishing,  \* where start is: off, polled, loop, quit or returned
          ph,          \* the publisher's handles
          committed,   \* the entry group holds the service
          announced    \* the state the client callback last got

publisherVars == <<publishing, ph, committed, announced>>

PublisherInit ==
  publishing = "off" /\ ph = NoHandles /\ committed = FALSE /\ announced = "none"

(* reset_services: the entry group goes, and with it the service. *)
ResetServices(a) == Release(IF "group" \in a.held THEN Use(a, "group") ELSE a, "group")

PublisherCleanup(a) == Release(Release(ResetServices(a), "client"), "poll")

(* create_services: any of its three library calls may fail; the last two  *)
(* failures reset.  A group that is not empty is left alone.               *)
CreateServices(a) ==
  LET group == IF "group" \in a.held THEN a ELSE New(Use(a, "client"), "group") IN
  \/ ph' = Use(a, "client") /\ "group" \notin a.held /\ UNCHANGED committed
  \/ ph' = Use(group, "group") /\ committed' = TRUE
  \/ ~committed /\ ph' = ResetServices(Use(group, "group")) /\ committed' = FALSE

(* Mutant: a host name collision is taken for a passing state. *)
StateChangedQuietly(a, state) ==
  /\ announced' = state
  /\ \/ state = "running" /\ CreateServices(a)
     \/ state = "registering" /\ ph' = ResetServices(a) /\ committed' = FALSE
     \/ state \in {"collision", "failure"} /\ ph' = a /\ UNCHANGED committed

(* client_callback. *)
StateChanged(a, state) ==
  /\ announced' = state
  /\ \/ state = "running" /\ CreateServices(a)
     \/ state \in {"registering", "collision"} /\ ph' = ResetServices(a) /\ committed' = FALSE
     \/ state = "failure" /\ ph' = a /\ UNCHANGED committed

(* start up to avahi_simple_poll_new, which may fail. *)
PublisherStart ==
  /\ publishing = "off"
  /\ \/ publishing' = "polled" /\ ph' = New(PublisherCleanup(ph), "poll")
     \/ publishing' = "returned" /\ ph' = PublisherCleanup(ph)
  /\ UNCHANGED <<committed, announced>>

(* avahi_client_new fails, or calls the callback before it returns. *)
PublisherClient ==
  /\ publishing = "polled"
  /\ \/ /\ publishing' = "returned" /\ ph' = PublisherCleanup(ph)
        /\ UNCHANGED <<committed, announced>>
     \/ \E state \in ClientState :
          /\ StateChanged(New(Use(ph, "poll"), "client"), state)
          /\ publishing' = IF state = "failure" THEN "quit" ELSE "loop"

(* Callbacks go on until the loop notices that it was told to quit. *)
PublisherCallback ==
  /\ publishing \in {"loop", "quit"}
  /\ \E state \in ClientState \ {announced} :
       /\ StateChanged(ph, state)
       /\ publishing' = IF state = "failure" THEN "quit" ELSE publishing

(* entry_group_callback: a failure ends the loop, a collision is logged. *)
GroupFailure ==
  /\ publishing = "loop" /\ "group" \in ph.live
  /\ publishing' = "quit"
  /\ UNCHANGED <<ph, committed, announced>>

PublisherReturns ==
  /\ publishing = "quit"
  /\ publishing' = "returned" /\ ph' = PublisherCleanup(ph) /\ committed' = FALSE
  /\ UNCHANGED announced

PublisherNext ==
  PublisherStart \/ PublisherClient \/ PublisherCallback \/ GroupFailure \/ PublisherReturns
=============================================================================
