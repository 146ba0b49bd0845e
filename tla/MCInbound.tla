----------------------------- MODULE MCInbound ------------------------------
(* Inbound for TLC: a preface of two bytes over a binary alphabet.         *)
EXTENDS Inbound

Preface == <<1, 0>>
Clients == Permutations(Client)
=============================================================================
