---------------------------- MODULE DaemonProofs ----------------------------
(***************************************************************************)
(* Proofs about the running daemon, for every set of devices, sessions and *)
(* dialling threads: the browser's and the publisher's use of Avahi, the   *)
(* devices that are being dialled, and the messages of the senders.  The   *)
(* four share few variables, and each has an invariant of its own.         *)
(***************************************************************************)
EXTENDS Daemon, TLAPS

(* Handles in order: what is held exists, and nothing was misused.         *)
Clean(objects) == [held |-> objects, live |-> objects, misuse |-> FALSE]

(* The handles of the browser, by the position of its thread.              *)
BrowserInv ==
  \/ browsing \in {"off", "returned"} /\ bh = Clean({})
  \/ browsing = "polled" /\ bh = Clean({"poll"})
  \/ /\ browsing \in {"loop", "quit"}
     /\ bh \in {Clean({"poll", "client"}), Clean({"poll", "client", "browser"})}

(* When the group of the publisher may hold the service.                   *)
MayAdvertise == announced = "running" \/ (announced = "failure" /\ publishing = "quit")

(* The handles of the publisher, and the service that its group holds.     *)
PublisherInv ==
  \/ publishing \in {"off", "returned"} /\ ph = Clean({}) /\ committed = FALSE
  \/ publishing = "polled" /\ ph = Clean({"poll"}) /\ committed = FALSE
  \/ /\ publishing \in {"loop", "quit"}
     /\ \/ ph = Clean({"poll", "client"}) /\ committed = FALSE
        \/ /\ ph = Clean({"poll", "client", "group"}) /\ committed \in BOOLEAN
           /\ committed => MayAdvertise

DialInv ==
  /\ pending \subseteq Device
  /\ dial \in [Dialer -> {NoDial} \union [at : {"connect", "sleep"}, device : Device]]
  /\ PendingIsDialled

(* A session that an entry names has authenticated as the entry's device.  *)
Authenticated(e) ==
  /\ e.session_id \in Session
  /\ conn[e.session_id].at \notin {"unborn", "setup"}
  /\ conn[e.session_id].device = e.device_id

(* Also the copies that a sender works from name authenticated sessions.   *)
MessageInv ==
  /\ DOMAIN conn = Session
  /\ \A s \in Session : /\ "at" \in DOMAIN conn[s]
                        /\ ~At(s, "unborn") => "device" \in DOMAIN conn[s]
  /\ \A e \in devices \union work : Authenticated(e)
  /\ held # Nothing => Authenticated(held)
  /\ MessagesReachTheirDevice
-----------------------------------------------------------------------------
(* The operations of the library on handles in order.                      *)
LEMMA CleanHandles ==
  ASSUME NEW S, NEW o
  PROVE  /\ Clean(S).held = S /\ Clean(S).live = S /\ ~Clean(S).misuse
         /\ New(Clean(S), o) = Clean(S \union {o})
         /\ o \in S => Use(Clean(S), o) = Clean(S)
<1>1. Clean(S).held = S /\ Clean(S).live = S /\ ~Clean(S).misuse
  BY DEF Clean
<1>2. New(Clean(S), o) = Clean(S \union {o})
  <2>1. ASSUME NEW a, a = Clean(S),
               NEW b, b = [a EXCEPT !.held = S \union {o}, !.live = S \union {o}]
        PROVE  b = Clean(S \union {o})
    BY <2>1 DEF Clean
  <2>2. New(Clean(S), o) = [Clean(S) EXCEPT !.held = S \union {o}, !.live = S \union {o}]
    BY <1>1 DEF New
  <2> QED
    BY <2>1, <2>2, Zenon
<1>3. ASSUME o \in S PROVE Use(Clean(S), o) = Clean(S)
  <2>1. ASSUME NEW a, a = Clean(S), NEW m, m = FALSE, NEW b, b = [a EXCEPT !.misuse = m]
        PROVE  b = Clean(S)
    BY <2>1 DEF Clean
  <2>2. (Clean(S).misuse \/ o \notin Clean(S).live) = FALSE
    BY <1>1, <1>3
  <2> QED
    BY <2>1, <2>2 DEF Use
<1> QED
  BY <1>1, <1>2, <1>3

(* Freeing an object that no other depends on, or none.                    *)
LEMMA CleanRelease ==
  ASSUME NEW S, NEW o,
         o = "client" => "browser" \notin S /\ "group" \notin S,
         o = "poll" => "client" \notin S
  PROVE  Release(Clean(S), o) = Clean(S \ {o})
<1>1. CASE o \in S
  <2>1. Release(Clean(S), o) = [held |-> S \ {o}, live |-> S \ Owned(o), misuse |-> FALSE]
    BY <1>1 DEF Release, Clean
  <2>2. S \ Owned(o) = S \ {o}
    BY DEF Owned
  <2> QED
    BY <2>1, <2>2 DEF Clean
<1>2. CASE o \notin S
  <2>1. S \ {o} = S
    BY <1>2
  <2> QED
    BY <1>2, <2>1, CleanHandles DEF Release
<1> QED
  BY <1>1, <1>2

(* The orders in which cleanup frees the handles are safe.                 *)
LEMMA Cleanups ==
  /\ \A S \in SUBSET {"poll", "client", "browser"} : BrowserCleanup(Clean(S)) = Clean({})
  /\ \A S \in SUBSET {"poll", "client", "group"} :
       ResetServices(Clean(S)) = Clean(S \ {"group"}) /\ PublisherCleanup(Clean(S)) = Clean({})
<1>1. ASSUME NEW S \in SUBSET {"poll", "client", "browser", "group"},
             "browser" \notin S, "group" \notin S
      PROVE  Release(Release(Clean(S), "client"), "poll") = Clean({})
  <2>1. Release(Clean(S), "client") = Clean(S \ {"client"})
    BY <1>1, CleanRelease
  <2>2. Release(Clean(S \ {"client"}), "poll") = Clean((S \ {"client"}) \ {"poll"})
    BY CleanRelease
  <2>3. (S \ {"client"}) \ {"poll"} = {}
    BY <1>1
  <2> QED
    BY <2>1, <2>2, <2>3
<1>2. ASSUME NEW S \in SUBSET {"poll", "client", "browser"}
      PROVE  BrowserCleanup(Clean(S)) = Clean({})
  <2>1. Release(Clean(S), "browser") = Clean(S \ {"browser"})
    BY CleanRelease
  <2> QED
    BY <2>1, <1>1 DEF BrowserCleanup
<1>3. ASSUME NEW S \in SUBSET {"poll", "client", "group"}
      PROVE  /\ ResetServices(Clean(S)) = Clean(S \ {"group"})
             /\ PublisherCleanup(Clean(S)) = Clean({})
  <2>1. Release(Clean(S), "group") = Clean(S \ {"group"})
    BY CleanRelease
  <2>2. ResetServices(Clean(S)) = Clean(S \ {"group"})
    BY <2>1, CleanHandles DEF ResetServices
  <2> QED
    BY <2>2, <1>1 DEF PublisherCleanup
<1> QED
  BY <1>2, <1>3

(* How start creates the poll object and the client.                       *)
LEMMA Opening ==
  /\ New(Clean({}), "poll") = Clean({"poll"})
  /\ New(Use(Clean({"poll"}), "poll"), "client") = Clean({"poll", "client"})
<1>1. \A S : S = {} => New(Clean(S), "poll") = Clean(S \union {"poll"})
  BY CleanHandles
<1>2. \A S : S = {} => S \union {"poll"} = {"poll"}
  OBVIOUS
<1>3. \A S : S = {"poll"} => New(Clean(S), "client") = Clean(S \union {"client"})
  BY CleanHandles
<1>4. \A S : S = {"poll"} => S \union {"client"} = {"poll", "client"}
  OBVIOUS
<1>5. Use(Clean({"poll"}), "poll") = Clean({"poll"})
  BY CleanHandles
<1>6. New(Clean({}), "poll") = Clean({"poll"})
  BY <1>1, <1>2
<1>7. New(Clean({"poll"}), "client") = Clean({"poll", "client"})
  BY <1>3, <1>4
<1> QED
  BY <1>5, <1>6, <1>7
-----------------------------------------------------------------------------
(* Every step of start, of the loop and of the callbacks of the browser.   *)
LEMMA BrowserPreserved ==
  BrowserInv /\ (BrowserNext \/ Resolved \/ UNCHANGED browserVars) => BrowserInv'
<1> SUFFICES ASSUME BrowserInv, BrowserNext \/ Resolved \/ UNCHANGED browserVars
             PROVE  BrowserInv'
  OBVIOUS
<1> DEFINE None == Clean({})
           Poll == Clean({"poll"})
           Client == Clean({"poll", "client"})
           Browser == Clean({"poll", "client", "browser"})
<1>1. \A a \in {None, Poll, Client, Browser} : BrowserCleanup(a) = None
  <2>1. \A S \in {{}, {"poll"}, {"poll", "client"}, {"poll", "client", "browser"}} :
          S \in SUBSET {"poll", "client", "browser"}
    OBVIOUS
  <2> QED
    BY <2>1, Cleanups
<1>2. New(None, "poll") = Poll
  BY Opening
<1>3. New(Use(Poll, "poll"), "client") = Client
  BY Opening
<1>4. ASSUME NEW a \in {Client, Browser}, NEW state
      PROVE  BrowserOn(a, state) \subseteq {Client, Browser}
  <2>1. Release(a, "browser") = Client
    <3>1. {"poll", "client"} \ {"browser"} = {"poll", "client"}
          /\ {"poll", "client", "browser"} \ {"browser"} = {"poll", "client"}
      OBVIOUS
    <3> QED
      BY <3>1, CleanRelease
  <2>2. Use(Client, "client") = Client
    BY CleanHandles
  <2>3. New(Client, "browser") = Browser
    <3>1. \A S : S = {"poll", "client"} =>
          New(Clean(S), "browser") = Clean(S \union {"browser"})
            /\ S \union {"browser"} = {"poll", "client", "browser"}
      BY CleanHandles
    <3> QED
      BY <3>1
  <2> QED
    BY <2>1, <2>2, <2>3 DEF BrowserOn
<1>5. \A a \in {Client, Browser} : Use(a, "client") = a
  BY CleanHandles
<1> HIDE DEF None, Poll, Client, Browser
<1> USE DEF BrowserInv
<1>7. \/ browsing \in {"off", "returned"} /\ bh = None
      \/ browsing = "polled" /\ bh = Poll
      \/ browsing \in {"loop", "quit"} /\ bh \in {Client, Browser}
  BY DEF None, Poll, Client, Browser
<1>8. SUFFICES \/ browsing' \in {"off", "returned"} /\ bh' = None
               \/ browsing' = "polled" /\ bh' = Poll
               \/ browsing' \in {"loop", "quit"} /\ bh' \in {Client, Browser}
  BY DEF None, Poll, Client, Browser
<1> HIDE DEF BrowserInv
<1>9. CASE BrowserStart
  BY <1>1, <1>2, <1>7, <1>9 DEF BrowserStart
<1>10. CASE BrowserClient
  BY <1>1, <1>3, <1>4, <1>7, <1>10 DEF BrowserClient
<1>11. CASE BrowserCallback
  BY <1>4, <1>7, <1>11 DEF BrowserCallback
<1>12. CASE ServiceNew \/ BrowseFailure
  BY <1>5, <1>7, <1>12 DEF ServiceNew, BrowseFailure
<1>13. CASE BrowserReturns
  BY <1>1, <1>7, <1>13 DEF BrowserReturns
<1>14. CASE Resolved \/ UNCHANGED browserVars
  BY <1>7, <1>14 DEF Resolved, browserVars
<1> QED
  BY <1>9, <1>10, <1>11, <1>12, <1>13, <1>14 DEF BrowserNext

(* Every step of start, of the loop and of the callbacks of the publisher. *)
LEMMA PublisherPreserved ==
  PublisherInv /\ (PublisherNext \/ UNCHANGED publisherVars) => PublisherInv'
<1> SUFFICES ASSUME PublisherInv, PublisherNext \/ UNCHANGED publisherVars
             PROVE  PublisherInv'
  OBVIOUS
<1> DEFINE None == Clean({})
           Poll == Clean({"poll"})
           Client == Clean({"poll", "client"})
           Group == Clean({"poll", "client", "group"})
<1>1. /\ \A a \in {None, Poll, Client, Group} : PublisherCleanup(a) = None
      /\ \A a \in {Client, Group} : ResetServices(a) = Client
  <2>1. /\ \A S \in {{}, {"poll"}, {"poll", "client"}, {"poll", "client", "group"}} :
             S \in SUBSET {"poll", "client", "group"}
        /\ \A S \in {{"poll", "client"}, {"poll", "client", "group"}} :
             S \ {"group"} = {"poll", "client"}
    OBVIOUS
  <2> QED
    BY <2>1, Cleanups
<1>2. New(None, "poll") = Poll
  BY Opening
<1>3. New(Use(Poll, "poll"), "client") = Client
  BY Opening
<1>4. Use(Client, "client") = Client /\ Use(Group, "group") = Group
  BY CleanHandles
<1>5. New(Client, "group") = Group
  <2>1. \A S : S = {"poll", "client"} =>
          New(Clean(S), "group") = Clean(S \union {"group"})
            /\ S \union {"group"} = {"poll", "client", "group"}
    BY CleanHandles
  <2> QED
    BY <2>1
<1>6. "group" \notin Client.held /\ "group" \in Group.held
  <2>1. Client.held = {"poll", "client"} /\ Group.held = {"poll", "client", "group"}
    BY CleanHandles
  <2> HIDE DEF Client, Group
  <2> QED
    BY <2>1
<1> USE DEF PublisherInv
<1> DEFINE At3 == \/ ph = Client /\ committed = FALSE
                  \/ /\ ph = Group /\ committed \in BOOLEAN
                     /\ committed => MayAdvertise
           AtAny == \/ publishing \in {"off", "returned"} /\ ph = None /\ committed = FALSE
                    \/ publishing = "polled" /\ ph = Poll /\ committed = FALSE
                    \/ publishing \in {"loop", "quit"} /\ At3
<1>7. AtAny
  OBVIOUS
<1>8. SUFFICES AtAny'
  OBVIOUS
<1> HIDE DEF PublisherInv, None, Poll, Client, Group
<1>9. ASSUME NEW a, NEW state \in ClientState, StateChanged(a, state),
             \/ a = Client /\ committed = FALSE
             \/ /\ a = Group /\ committed \in BOOLEAN
                /\ committed => MayAdvertise,
             state = "failure" => publishing' = "quit"
      PROVE  At3'
  <2>1. CASE state = "running" /\ CreateServices(a)
    <3>1. CASE a = Client
      BY <1>1, <1>4, <1>5, <1>6, <1>9, <2>1, <3>1 DEF StateChanged, CreateServices, MayAdvertise
    <3>2. CASE a = Group
      BY <1>1, <1>4, <1>5, <1>6, <1>9, <2>1, <3>2 DEF StateChanged, CreateServices, MayAdvertise
    <3> QED
      BY <1>9, <3>1, <3>2
  <2>2. CASE state \in {"registering", "collision"} /\ ph' = ResetServices(a) /\ committed' = FALSE
    BY <1>1, <1>9, <2>2
  <2>3. CASE state = "failure" /\ ph' = a /\ UNCHANGED committed
    BY <1>9, <2>3 DEF StateChanged, MayAdvertise
  <2> QED
    BY <1>9, <2>1, <2>2, <2>3 DEF StateChanged
<1>10. CASE PublisherStart
  BY <1>1, <1>2, <1>7, <1>10 DEF PublisherStart
<1>11. CASE PublisherClient
  <2>1. publishing = "polled" /\ ph = Poll /\ committed = FALSE
    BY <1>7, <1>11 DEF PublisherClient
  <2>2. CASE publishing' = "returned" /\ ph' = PublisherCleanup(ph)
          /\ UNCHANGED <<committed, announced>>
    BY <1>1, <2>1, <2>2
  <2>3. CASE \E state \in ClientState :
          /\ StateChanged(New(Use(ph, "poll"), "client"), state)
          /\ publishing' = IF state = "failure" THEN "quit" ELSE "loop"
    BY <1>3, <1>9, <2>1, <2>3
  <2> QED
    BY <1>11, <2>2, <2>3 DEF PublisherClient
<1>12. CASE PublisherCallback
  <2>1. publishing \in {"loop", "quit"} /\ At3
    BY <1>7, <1>12 DEF PublisherCallback
  <2> QED
    BY <1>9, <1>12, <2>1 DEF PublisherCallback
<1>13. CASE GroupFailure
  BY <1>7, <1>13 DEF GroupFailure, MayAdvertise
<1>14. CASE PublisherReturns
  BY <1>1, <1>7, <1>14 DEF PublisherReturns
<1>15. CASE UNCHANGED publisherVars
  BY <1>7, <1>15 DEF publisherVars, MayAdvertise
<1> QED
  BY <1>10, <1>11, <1>12, <1>13, <1>14, <1>15 DEF PublisherNext

(* A step of the browser's thread or of a dialling thread keeps a device   *)
(* pending exactly while one thread dials it.                              *)
DialStep ==
  \/ \E d \in Device, connected \in BOOLEAN : OnDeviceDiscovered(d, connected)
  \/ \E t \in Dialer : Dialled(t) \/ DialEnds(t)
  \/ UNCHANGED discoveryVars

LEMMA DialPreserved == DialInv /\ DialStep => DialInv'
<1> SUFFICES ASSUME DialInv, DialStep PROVE DialInv'
  OBVIOUS
<1> DEFINE Dialling == [at : {"connect", "sleep"}, device : Device]
<1>0. /\ pending \subseteq Device /\ dial \in [Dialer -> {NoDial} \union Dialling]
      /\ PendingIsDialled
  BY DEF DialInv
<1>n. NoDial.at = "none" /\ NoDial \notin Dialling
  BY DEF NoDial
<1>1. ASSUME NEW d \in Device, NEW connected \in BOOLEAN, OnDeviceDiscovered(d, connected)
      PROVE  DialInv'
  <2>1. CASE UNCHANGED discoveryVars
    BY <1>0, <2>1 DEF DialInv, discoveryVars, PendingIsDialled, DialsTo
  <2>2. ASSUME d \notin pending, NEW t \in Dialer, dial[t] = NoDial, pending' = pending \union {d},
               dial' = [dial EXCEPT ![t] = Dial(d, "connect")]
        PROVE  DialInv'
    <3>1. Dial(d, "connect") \in Dialling /\ Dial(d, "connect").device = d
          /\ Dial(d, "connect").at # "none"
      BY DEF Dial
    <3>2. pending' \subseteq Device /\ dial' \in [Dialer -> {NoDial} \union Dialling]
      BY <1>0, <2>2, <3>1
    <3>3. DialsTo(d)' = {t}
      BY <1>0, <1>n, <2>2, <3>1 DEF PendingIsDialled, DialsTo
    <3>4. \A c \in Device \ {d} : DialsTo(c)' = DialsTo(c)
      BY <1>0, <1>n, <2>2, <3>1 DEF DialsTo
    <3> QED
      BY <1>0, <2>2, <3>2, <3>3, <3>4 DEF DialInv, PendingIsDialled
  <2> QED
    BY <1>1, <2>1, <2>2 DEF OnDeviceDiscovered
<1>2. ASSUME NEW t \in Dialer, Dialled(t) PROVE DialInv'
  <2>1. dial[t] \in Dialling
    BY <1>0, <1>2, <1>n DEF Dialled
  <2>2. LET new == Dial(dial[t].device, "sleep")
        IN new \in Dialling /\ new.device = dial[t].device /\ new.at # "none" /\ dial[t].at # "none"
    BY <2>1 DEF Dial
  <2>3. dial' \in [Dialer -> {NoDial} \union Dialling] /\ pending' = pending
    BY <1>0, <1>2, <2>2 DEF Dialled
  <2>4. \A c \in Device : DialsTo(c)' = DialsTo(c)
    BY <1>0, <1>2, <2>2 DEF Dialled, DialsTo
  <2> QED
    BY <1>0, <2>3, <2>4 DEF DialInv, PendingIsDialled
<1>3. ASSUME NEW t \in Dialer, DialEnds(t) PROVE DialInv'
  <2>1. dial[t] \in Dialling
    BY <1>0, <1>3, <1>n DEF DialEnds
  <2>2. PICK d \in Device : d = dial[t].device /\ t \in DialsTo(d)
    BY <2>1 DEF DialsTo
  <2>3. DialsTo(d) = {t}
    BY <1>0, <2>2 DEF PendingIsDialled
  <2>4. pending' = pending \ {d} /\ dial' = [dial EXCEPT ![t] = NoDial]
    BY <1>3, <2>2 DEF DialEnds
  <2>5. DialsTo(d)' = {}
    BY <1>0, <1>n, <2>3, <2>4 DEF DialsTo
  <2>6. \A c \in Device \ {d} : DialsTo(c)' = DialsTo(c)
    BY <1>0, <1>n, <2>2, <2>4 DEF DialsTo
  <2>7. dial' \in [Dialer -> {NoDial} \union Dialling]
    BY <1>0, <2>4
  <2> QED
    BY <1>0, <2>2, <2>4, <2>5, <2>6, <2>7 DEF DialInv, PendingIsDialled
<1>4. CASE UNCHANGED discoveryVars
  BY <1>0, <1>4 DEF DialInv, discoveryVars, PendingIsDialled, DialsTo
<1> QED
  BY <1>1, <1>2, <1>3, <1>4 DEF DialStep

(* A step of a session or of a sender keeps entries, also copied ones, on  *)
(* sessions that authenticated as their device.                            *)
LEMMA MessagePreserved == MessageInv /\ [Next]_vars => MessageInv'
<1> SUFFICES ASSUME MessageInv, [Next]_vars PROVE MessageInv'
  OBVIOUS
<1> USE DEF At
<1>0. /\ DOMAIN conn = Session
      /\ \A s \in Session : /\ "at" \in DOMAIN conn[s]
                            /\ conn[s].at # "unborn" => "device" \in DOMAIN conn[s]
      /\ \A e \in devices \union work : Authenticated(e)
      /\ held # Nothing => Authenticated(held)
      /\ \A m \in sent : m[1] = m[2]
  BY DEF MessageInv, MessagesReachTheirDevice
<1>1. ASSUME UNCHANGED senderVars, DOMAIN conn' = Session,
             \A e \in devices' : e \in devices \/ Authenticated(e)',
             \A s \in Session :
               /\ "at" \in DOMAIN conn'[s]
               /\ conn'[s].at # "unborn" => "device" \in DOMAIN conn'[s]
               /\ conn[s].at \notin {"unborn", "setup"} =>
                    conn'[s].at \notin {"unborn", "setup"} /\ conn'[s].device = conn[s].device
      PROVE  MessageInv'
  BY <1>0, <1>1 DEF MessageInv, MessagesReachTheirDevice, senderVars, Authenticated, Nothing
<1>2. ASSUME NEW s \in Session, NEW label, Goto(s, label), conn[s].at # "unborn",
             label \notin {"unborn", "setup"}, UNCHANGED senderVars,
             \A e \in devices' : e \in devices
      PROVE  MessageInv'
  BY <1>0, <1>1, <1>2 DEF Goto
<1>3. ASSUME NEW outgoing, Create(outgoing), UNCHANGED senderVars PROVE MessageInv'
  BY <1>0, <1>1, <1>3 DEF Create
<1>4. ASSUME NEW s \in Session, NEW d \in Device, Activate(s, d), UNCHANGED senderVars
      PROVE  MessageInv'
  <2> DEFINE ready == [conn EXCEPT ![s].at = "ready", ![s].device = d]
  <2>d. PICK device : device = [device_id |-> d, session_id |-> s,
                                preferred |-> (d \in Greater) = conn[s].outgoing]
    OBVIOUS
  <2>1. conn[s].at = "setup" /\ device.session_id = s /\ device.device_id = d
    BY <1>4, <2>d DEF Activate
  <2>2. /\ DOMAIN ready = Session /\ \A t \in Session \ {s} : ready[t] = conn[t]
        /\ ready[s].at = "ready" /\ ready[s].device = d /\ DOMAIN ready[s] = DOMAIN conn[s]
    BY <1>0, <2>1
  <2> HIDE DEF ready
  <2>3. CASE PublishNew(device) /\ conn' = ready
    BY <1>0, <1>1, <1>4, <2>1, <2>2, <2>3 DEF PublishNew, Authenticated
  <2>4. ASSUME NEW e \in EntriesOf(d), PublishReplacing(device, e),
               conn' = [ready EXCEPT ![e.session_id].at = IF @ = "ready" THEN "stopping" ELSE @]
        PROVE  MessageInv'
    <3>1. Authenticated(e)
      BY <1>0 DEF EntriesOf
    <3>2. PICK x \in Session : x = e.session_id
      BY <3>1 DEF Authenticated
    <3>3. x # s /\ conn[x].at \notin {"unborn", "setup"}
      BY <2>1, <3>1, <3>2 DEF Authenticated
    <3>4. /\ DOMAIN conn' = Session /\ \A t \in Session \ {x} : conn'[t] = ready[t]
          /\ conn'[x].at \in {conn[x].at, "stopping"} /\ conn'[x].device = conn[x].device
          /\ DOMAIN conn'[x] = DOMAIN conn[x]
      BY <1>0, <2>2, <2>4, <3>2, <3>3
    <3>5. devices' \subseteq devices \union {device}
      BY <2>4 DEF PublishReplacing
    <3>6. Authenticated(device)'
      BY <2>1, <2>2, <3>3, <3>4 DEF Authenticated
    <3> QED
      BY <1>0, <1>1, <1>4, <2>1, <2>2, <3>3, <3>4, <3>5, <3>6
  <2> QED
    BY <1>4, <2>d, <2>3, <2>4 DEF Activate, ready
<1>5. ASSUME UNCHANGED <<devices, conn, senderVars>> PROVE MessageInv'
  BY <1>0, <1>1, <1>5
<1>6. CASE SessionNext
  BY <1>0, <1>2, <1>4, <1>6
     DEF SessionNext, RequestDisconnect, Remove, Unregister, CloseSocket, RemoveDevice
<1>7. CASE NetworkNext
  BY <1>3, <1>5, <1>7
     DEF NetworkNext, Listen, Accept, ResolveCallback, ConnectToDevice, sessionVars
<1>8. CASE SenderNext
  <2>1. ASSUME UNCHANGED sessionVars, \A e \in work' : e \in devices \union work,
               held' \in {held, Nothing} \union work, sent' \subseteq sent
        PROVE  MessageInv'
    BY <1>0, <2>1 DEF MessageInv, MessagesReachTheirDevice, Authenticated, sessionVars, Nothing
  <2>2. ASSUME NEW d \in Device, SendToDevice(d), UNCHANGED sessionVars PROVE MessageInv'
    BY <2>1, <2>2 DEF SendToDevice, EntriesOf
  <2>3. ASSUME BroadcastMessage, UNCHANGED sessionVars PROVE MessageInv'
    BY <2>1, <2>3 DEF BroadcastMessage
  <2>4. ASSUME NEW e \in work, LockConnection(e), UNCHANGED sessionVars PROVE MessageInv'
    BY <2>1, <2>4 DEF LockConnection
  <2>5. CASE SendPacket
    BY <1>0, <2>5
       DEF SendPacket, Recipient, Usable, Goto, MessageInv, MessagesReachTheirDevice,
           Authenticated, Nothing
  <2> QED
    BY <1>8, <2>2, <2>3, <2>4, <2>5 DEF SenderNext
<1>9. CASE UNCHANGED sessionVars /\ UNCHANGED senderVars
  BY <1>5, <1>9 DEF sessionVars
<1> QED
  BY <1>6, <1>7, <1>8, <1>9 DEF Next, vars
-----------------------------------------------------------------------------
(* In every step of the daemon each of the four parts makes a step of its  *)
(* own or none.                                                            *)
LEMMA Parts ==
  ASSUME [Next]_vars
  PROVE  /\ BrowserNext \/ Resolved \/ UNCHANGED browserVars
         /\ PublisherNext \/ UNCHANGED publisherVars
         /\ DialStep
<1> USE DEF networkVars
<1>1. CASE NetworkNext
  <2>1. CASE ResolveCallback
    BY <2>1 DEF ResolveCallback, DialStep
  <2>2. CASE Listen \/ Accept
    BY <2>2 DEF Listen, Accept, DialStep
  <2>3. CASE \E t \in Dialer : ConnectToDevice(t)
    BY <2>3 DEF ConnectToDevice, DialStep
  <2> QED
    BY <1>1, <2>1, <2>2, <2>3 DEF NetworkNext, DialStep
<1>2. CASE SessionNext \/ SenderNext
  BY <1>2 DEF SessionNext, SenderNext, SendPacket, DialStep
<1> QED
  BY <1>1, <1>2 DEF Next, vars, DialStep

(* At the start nothing is held, pending, announced or registered.         *)
LEMMA InitDaemon == Init => BrowserInv /\ PublisherInv /\ DialInv /\ MessageInv
<1> SUFFICES ASSUME Init PROVE BrowserInv /\ PublisherInv /\ DialInv /\ MessageInv
  OBVIOUS
<1>1. BrowserInv /\ PublisherInv
  BY DEF Init, BrowserInit, PublisherInit, BrowserInv, PublisherInv, NoHandles, Clean
<1>2. DialInv
  <2>1. \A d \in Device : DialsTo(d) = {}
    BY DEF Init, DiscoveryInit, DialsTo, NoDial
  <2> QED
    BY <2>1 DEF Init, DiscoveryInit, DialInv, PendingIsDialled
<1>3. MessageInv
  BY DEF Init, RegistryInit, MessageInv, MessagesReachTheirDevice, At, Unborn
<1> QED
  BY <1>1, <1>2, <1>3

(* A device is pending exactly while one detached thread dials it, however *)
(* often and whenever it is announced.                                     *)
THEOREM PendingDialled == Spec => []PendingIsDialled
<1>1. DialInv => PendingIsDialled
  BY DEF DialInv
<1>2. DialInv /\ [Next]_vars => DialInv'
  BY Parts, DialPreserved
<1> QED
  BY <1>1, <1>2, InitDaemon, PTL DEF Spec

(* The callbacks and cleanups of browser and publisher never use or keep a *)
(* freed Avahi object.                                                     *)
THEOREM HandlesLive == Spec => []HandlesAreLive
<1>1. BrowserInv /\ PublisherInv => HandlesAreLive
  <2>1. \A S : ~Clean(S).misuse /\ Clean(S).held \subseteq Clean(S).live
    BY CleanHandles
  <2>2. ASSUME BrowserInv PROVE ~bh.misuse /\ bh.held \subseteq bh.live
    BY <2>1, <2>2 DEF BrowserInv
  <2>3. ASSUME PublisherInv PROVE ~ph.misuse /\ ph.held \subseteq ph.live
    BY <2>1, <2>3 DEF PublisherInv
  <2> QED
    BY <2>2, <2>3 DEF HandlesAreLive
<1>2. BrowserInv /\ PublisherInv /\ [Next]_vars => BrowserInv' /\ PublisherInv'
  BY Parts, BrowserPreserved, PublisherPreserved
<1> QED
  BY <1>1, <1>2, InitDaemon, PTL DEF Spec

(* The publisher has its service committed only while the Avahi server     *)
(* runs, or has failed and the loop is about to end with the service.      *)
THEOREM AdvertisedOnlyRunning == Spec => []AdvertisedWhileRunning
<1>1. PublisherInv => AdvertisedWhileRunning
  BY CleanHandles DEF PublisherInv, MayAdvertise, AdvertisedWhileRunning
<1>2. PublisherInv /\ [Next]_vars => PublisherInv'
  BY Parts, PublisherPreserved
<1> QED
  BY <1>1, <1>2, InitDaemon, PTL DEF Spec

(* A message goes to a session that authenticated as the device it is      *)
(* meant for, whatever happened since the sender copied the registry.      *)
THEOREM MessagesArrive == Spec => []MessagesReachTheirDevice
<1>1. MessageInv => MessagesReachTheirDevice
  BY DEF MessageInv
<1> QED
  BY <1>1, InitDaemon, MessagePreserved, PTL DEF Spec
=============================================================================
