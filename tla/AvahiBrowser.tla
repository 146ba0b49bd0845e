---------------------------- MODULE AvahiBrowser ----------------------------
(***************************************************************************)
(* The mDNS browser (avahi_browser.cpp): start on the main thread, the     *)
(* library's event loop and its callbacks.  A resolver is created for      *)
(* every announced service and frees itself in its one callback; module    *)
(* Daemon adds what the callback does with a resolved device.              *)
(***************************************************************************)
EXTENDS Naturals, AvahiHandles

CONSTANT MaxResolvers   \* bound on resolvers that wait for their callback

ASSUME BrowserAssumption == MaxResolvers \in Nat

VARIABLES browsing,   \* where start is: off, polled, loop, quit or returned
          bh,         \* the browser's handles
          resolvers   \* how many resolvers wait for their callback

browserVars == <<browsing, bh, resolvers>>

BrowserInit == browsing = "off" /\ bh = NoHandles /\ resolvers = 0

(* Mutant: the client goes before the browser that was created on it. *)
CleanupClientFirst(a) == Release(Release(Release(a, "client"), "browser"), "poll")

BrowserCleanup(a) == Release(Release(Release(a, "browser"), "client"), "poll")

(* client_callback: a running client gets a new browser, which may fail;   *)
(* the outcomes for the handles.                                           *)
BrowserOn(a, state) ==
  LET freed == Release(a, "browser") IN
  IF state = "running"
  THEN {Use(freed, "client"), New(Use(freed, "client"), "browser")}
  ELSE {a}

BrowserStart ==
  /\ browsing = "off"
  /\ \/ browsing' = "polled" /\ bh' = New(BrowserCleanup(bh), "poll")
     \/ browsing' = "returned" /\ bh' = BrowserCleanup(bh)
  /\ UNCHANGED resolvers

(* avahi_client_new fails, or calls the callback before it returns. *)
BrowserClient ==
  /\ browsing = "polled"
  /\ \/ browsing' = "returned" /\ bh' = BrowserCleanup(bh)
     \/ \E state \in ClientState :
          /\ bh' \in BrowserOn(New(Use(bh, "poll"), "client"), state)
          /\ browsing' = IF state = "failure" THEN "quit" ELSE "loop"
  /\ UNCHANGED resolvers

BrowserCallback ==
  /\ browsing \in {"loop", "quit"}
  /\ \E state \in ClientState :
       /\ bh' \in BrowserOn(bh, state)
       /\ browsing' = IF state = "failure" THEN "quit" ELSE browsing
  /\ UNCHANGED resolvers

(* browse_callback: a new service gets a resolver, which may fail; a       *)
(* failure ends the loop.                                                  *)
ServiceNew ==
  /\ browsing \in {"loop", "quit"} /\ "browser" \in bh.live
  /\ bh' = Use(bh, "client")
  /\ resolvers' \in {resolvers} \union (1 .. MaxResolvers \intersect {resolvers + 1})
  /\ UNCHANGED browsing

BrowseFailure ==
  /\ browsing = "loop" /\ "browser" \in bh.live
  /\ browsing' = "quit" /\ bh' = Use(bh, "client")
  /\ UNCHANGED resolvers

(* resolve_callback: ResolverGuard frees the resolver on every path. *)
Resolved ==
  /\ browsing \in {"loop", "quit"} /\ resolvers > 0
  /\ resolvers' = resolvers - 1
  /\ UNCHANGED <<browsing, bh>>

(* The loop ends; freeing the client frees the resolvers left. *)
BrowserReturns ==
  /\ browsing = "quit"
  /\ browsing' = "returned" /\ bh' = BrowserCleanup(bh) /\ resolvers' = 0

BrowserNext ==
  \/ BrowserStart \/ BrowserClient \/ BrowserCallback \/ ServiceNew \/ BrowseFailure
  \/ BrowserReturns
=============================================================================
