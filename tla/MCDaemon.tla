------------------------------ MODULE MCDaemon ------------------------------
(* Daemon for TLC.  The publisher shares no state with the other threads,  *)
(* so their interleavings need not be explored: in each behaviour either   *)
(* the publisher moves or the others do.                                   *)
EXTENDS Daemon, TLC

Apart == publishing = "off" \/ <<browsing, listening>> = <<"off", "no">>
Alike == Permutations(Dialer) \union Permutations(Session) \union Permutations(Device)
=============================================================================
