----------------------------- MODULE MCSessions -----------------------------
(* Two connections to one peer, one per direction: the daemon dialled s1   *)
(* and accepted s2, and its own UUID is the lower one, so s1 is preferred. *)
EXTENDS Sessions

CONSTANTS s1, s2, d1

MCSession == {s1, s2}
MCDevice == {d1}
MCPeerOf == [s \in MCSession |-> d1]
MCPreferred == [s \in MCSession |-> s = s1]
=============================================================================
