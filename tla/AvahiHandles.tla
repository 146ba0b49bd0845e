---------------------------- MODULE AvahiHandles ----------------------------
(***************************************************************************)
(* The objects of the Avahi client library that a browser or a publisher   *)
(* holds by raw pointers.  a.held are the members that are not null,       *)
(* a.live the objects that exist, and a.misuse says that the library was   *)
(* ever given an object that does not.  The library is external: freeing a *)
(* client frees everything created on it, and a poll object must outlive   *)
(* its client.                                                             *)
(***************************************************************************)
NoHandles == [held |-> {}, live |-> {}, misuse |-> FALSE]

New(a, object) ==
  [a EXCEPT !.held = @ \union {object}, !.live = @ \union {object}]

(* The library is given the object that a member points to. *)
Use(a, object) == [a EXCEPT !.misuse = @ \/ object \notin a.live]

Owned(object) ==
  IF object = "client" THEN {"client", "browser", "group"} ELSE {object}

(* if (member) { avahi_..._free(member); member = nullptr; } *)
Release(a, object) ==
  IF object \notin a.held THEN a
  ELSE [held |-> a.held \ {object},
        live |-> a.live \ Owned(object),
        misuse |-> \/ a.misuse
                   \/ object \notin a.live
                   \/ object = "poll" /\ "client" \in a.live]

(* What avahi_client_new or the daemon reports to a client callback. *)
ClientState == {"registering", "running", "collision", "failure"}
=============================================================================
