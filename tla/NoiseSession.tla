---------------------------- MODULE NoiseSession ----------------------------
(***************************************************************************)
(* core/noise: an initiator and a responder that use NoiseSession (the C++ *)
(* owner of the handle and the Rust functions behind it) over a transport  *)
(* that loses, repeats, reorders and damages messages.  Each function runs *)
(* under the handle's mutex and is one step.  A call that is refused for   *)
(* its arguments, its buffers or the session's state changes nothing.      *)
(*                                                                         *)
(* The Noise library is external.  A transcript is the prologue and the    *)
(* ephemeral keys mixed in so far: it stands for the handshake hash and    *)
(* for the keys derived from it.  A ciphertext is accepted by the session  *)
(* that holds the same transcript, key and nonce, and by no other.         *)
(***************************************************************************)
EXTENDS Naturals, FiniteSets, Sequences, SequencesExt

CONSTANTS Prologue,
          MaxSessions,  \* sessions created by each side
          MaxNonce,     \* the nonce the library refuses; 2^64 - 1 in the code
          MaxRekeys     \* rekeys of one key explored

ASSUME NoiseBounds == MaxSessions \in Nat /\ MaxNonce \in Nat /\ MaxRekeys \in Nat

VARIABLES state,        \* SessionState behind the handle, see States
          generation,   \* how many sessions the side has created
          transcript,   \* of the session's handshake
          broken,       \* the library's handshake can no longer complete
          send, receive,\* the two cipher states: [key: rekeys so far, nonce]
          mail,         \* every handshake message written
          wire,         \* every ciphertext produced
          received,     \* the ciphertexts the session accepted, in order
          rejected      \* history: the session rejected a ciphertext

vars == <<state, generation, transcript, broken, send, receive, mail, wire, received, rejected>>

Side == {"initiator", "responder"}
Peer(x) == IF x = "initiator" THEN "responder" ELSE "initiator"

(* "None": no handle.  "Poisoned": a panic left the mutex poisoned. *)
States == {"None", "Handshake", "Transport", "Failed", "Poisoned"}

Garbled == <<"garbled", 0>>
Ephemeral == (Side \X (1 .. MaxSessions)) \union {Garbled}
Cipher == [key : 0 .. MaxRekeys, nonce : 0 .. MaxNonce]
NewCipher == [key |-> 0, nonce |-> 0]

(* handshake.is_finished(): both messages of the NN pattern are through. *)
Finished(x) == Len(transcript[x]) = 3

(* Variables have their types, and only a finished handshake carries       *)
(* transport records.                                                      *)
TypeOK ==
  /\ state \in [Side -> States]
  /\ generation \in [Side -> 0 .. MaxSessions]
  /\ \A x \in Side : \/ transcript[x] = <<>>
                     \/ /\ Len(transcript[x]) \in 1 .. 3 /\ transcript[x][1] \in Prologue
                        /\ \A i \in 2 .. Len(transcript[x]) : transcript[x][i] \in Ephemeral
  /\ broken \in [Side -> BOOLEAN] /\ rejected \in [Side -> BOOLEAN]
  /\ send \in [Side -> Cipher] /\ receive \in [Side -> Cipher]
  /\ \A x \in Side : /\ state[x] = "Transport" => Finished(x)
                     /\ \A i \in DOMAIN received[x] : received[x][i] \in wire

Init ==
  /\ state = [x \in Side |-> "None"]
  /\ generation = [x \in Side |-> 0]
  /\ transcript = [x \in Side |-> <<>>]
  /\ broken = [x \in Side |-> FALSE]
  /\ send = [x \in Side |-> NewCipher] /\ receive = [x \in Side |-> NewCipher]
  /\ mail = {} /\ wire = {}
  /\ received = [x \in Side |-> <<>>]
  /\ rejected = [x \in Side |-> FALSE]

-----------------------------------------------------------------------------
(* Creation and destruction of the handle.                                 *)

(* The data behind a handle as it is before the first message. *)
Fresh(x, newTranscript) ==
  /\ transcript' = [transcript EXCEPT ![x] = newTranscript]
  /\ broken' = [broken EXCEPT ![x] = FALSE]
  /\ send' = [send EXCEPT ![x] = NewCipher] /\ receive' = [receive EXCEPT ![x] = NewCipher]
  /\ received' = [received EXCEPT ![x] = <<>>]
  /\ rejected' = [rejected EXCEPT ![x] = FALSE]
  /\ UNCHANGED <<mail, wire>>

(* NoiseSession::initiator or responder; assigning over an older session   *)
(* destroys its handle.                                                    *)
Create(x, prologue) ==
  /\ generation[x] < MaxSessions
  /\ generation' = [generation EXCEPT ![x] = @ + 1]
  /\ state' = [state EXCEPT ![x] = "Handshake"]
  /\ Fresh(x, <<prologue>>)

Destroy(x) ==
  /\ state[x] # "None"
  /\ state' = [state EXCEPT ![x] = "None"]
  /\ Fresh(x, <<>>)
  /\ UNCHANGED generation

(* The library panics inside a call: guard reports it, and every later     *)
(* call finds the mutex poisoned.                                          *)
Panic(x) ==
  /\ state[x] \in {"Handshake", "Transport"}
  /\ state' = [state EXCEPT ![x] = "Poisoned"]
  /\ UNCHANGED <<generation, transcript, broken, send, receive, mail, wire, received, rejected>>

-----------------------------------------------------------------------------
(* The handshake: the initiator's ephemeral key in clear, then the         *)
(* responder's with a tag over the transcript.                             *)

MyTurn(x, writing) ==
  /\ state[x] = "Handshake" /\ ~broken[x]
  /\ Len(transcript[x]) = IF writing <=> x = "initiator" THEN 1 ELSE 2

WriteHandshake(x) ==
  /\ MyTurn(x, TRUE)
  /\ transcript' = [transcript EXCEPT ![x] = Append(@, <<x, generation[x]>>)]
  /\ mail' = mail \union {IF x = "initiator" THEN <<Last(transcript'[x])>> ELSE transcript'[x]}
  /\ UNCHANGED <<state, generation, broken, send, receive, wire, received, rejected>>

(* The first message carries nothing that can be verified; the second one  *)
(* is accepted only for the reader's own transcript.                       *)
ReadHandshake(x, message) ==
  /\ MyTurn(x, FALSE)
  /\ x = "responder" \/ (Len(message) = 3 /\ Front(message) = transcript[x])
  /\ transcript' = [transcript EXCEPT ![x] = Append(@, Last(message))]
  /\ UNCHANGED <<state, generation, broken, send, receive, mail, wire, received, rejected>>

(* The library rejects a message or fails to write one.  The session stays *)
(* in its handshake; if the library's handshake survives, nothing happened.*)
HandshakeFails(x) ==
  /\ \E writing \in BOOLEAN : MyTurn(x, writing)
  /\ broken' = [broken EXCEPT ![x] = TRUE]
  /\ UNCHANGED <<state, generation, transcript, send, receive, mail, wire, received, rejected>>

(* Mutant: the hash is handed out before the handshake is finished. *)
HandshakeHashEarly(x) == IF state[x] \in {"Handshake", "Transport"} THEN transcript[x] ELSE <<>>

(* handshake_hash, where <<>> stands for an error. *)
HandshakeHash(x) ==
  IF state[x] \in {"Handshake", "Transport"} /\ Finished(x) THEN transcript[x] ELSE <<>>

(* Mutant: a session in transport state may enter it again. *)
EnterTransportAgain(x) ==
  /\ state[x] \in {"Handshake", "Transport"} /\ Finished(x)
  /\ state' = [state EXCEPT ![x] = "Transport"]
  /\ send' = [send EXCEPT ![x] = NewCipher] /\ receive' = [receive EXCEPT ![x] = NewCipher]
  /\ UNCHANGED <<generation, transcript, broken, mail, wire, received, rejected>>

(* enter_transport: a finished handshake is consumed; if the library does  *)
(* not produce a transport the session has failed.                         *)
EnterTransport(x) ==
  /\ state[x] = "Handshake" /\ Finished(x)
  /\ \E next \in {"Transport", "Failed"} : state' = [state EXCEPT ![x] = next]
  /\ send' = [send EXCEPT ![x] = NewCipher] /\ receive' = [receive EXCEPT ![x] = NewCipher]
  /\ UNCHANGED <<generation, transcript, broken, mail, wire, received, rejected>>

-----------------------------------------------------------------------------
(* Transport.                                                              *)

(* The position of a session's next record in what it has sent. *)
NextPosition(x) == 1 + Cardinality({c \in wire : c.from = x /\ c.transcript = transcript[x]})

(* Mutant: the buffer is checked after the library has used up a nonce. *)
EncryptOrWaste(x) ==
  /\ state[x] = "Transport" /\ send[x].nonce < MaxNonce
  /\ wire' \in {wire, wire \union {[from |-> x, transcript |-> transcript[x], key |-> send[x].key,
                                    nonce |-> send[x].nonce, position |-> NextPosition(x)]}}
  /\ send' = [send EXCEPT ![x].nonce = @ + 1]
  /\ UNCHANGED <<state, generation, transcript, broken, receive, mail, received, rejected>>

(* encrypt; with the last nonce used the library refuses. *)
Encrypt(x) ==
  /\ state[x] = "Transport" /\ send[x].nonce < MaxNonce
  /\ wire' = wire \union {[from |-> x, transcript |-> transcript[x], key |-> send[x].key,
                           nonce |-> send[x].nonce, position |-> NextPosition(x)]}
  /\ send' = [send EXCEPT ![x].nonce = @ + 1]
  /\ UNCHANGED <<state, generation, transcript, broken, receive, mail, received, rejected>>

Opens(x, c) ==
  /\ c.from = Peer(x) /\ c.transcript = transcript[x]
  /\ c.key = receive[x].key /\ c.nonce = receive[x].nonce

Decrypt(x, c) ==
  /\ state[x] = "Transport" /\ Opens(x, c)
  /\ receive' = [receive EXCEPT ![x].nonce = @ + 1]
  /\ received' = [received EXCEPT ![x] = Append(@, c)]
  /\ UNCHANGED <<state, generation, transcript, broken, send, mail, wire, rejected>>

(* Mutant: the session goes on after a rejected ciphertext. *)
RejectAndGoOn(x) ==
  /\ state[x] = "Transport"
  /\ rejected' = [rejected EXCEPT ![x] = TRUE]
  /\ UNCHANGED <<state, generation, transcript, broken, send, receive, mail, wire, received>>

(* A damaged, repeated, early or foreign ciphertext, or one under another  *)
(* key: authentication fails, which ends the session.                      *)
Reject(x) ==
  /\ state[x] = "Transport"
  /\ state' = [state EXCEPT ![x] = "Failed"]
  /\ rejected' = [rejected EXCEPT ![x] = TRUE]
  /\ UNCHANGED <<generation, transcript, broken, send, receive, mail, wire, received>>

(* A rekey replaces the key and keeps the nonce. *)
RekeySender(x) ==
  /\ state[x] = "Transport" /\ send[x].key < MaxRekeys
  /\ send' = [send EXCEPT ![x].key = @ + 1]
  /\ UNCHANGED <<state, generation, transcript, broken, receive, mail, wire, received, rejected>>

RekeyReceiver(x) ==
  /\ state[x] = "Transport" /\ receive[x].key < MaxRekeys
  /\ receive' = [receive EXCEPT ![x].key = @ + 1]
  /\ UNCHANGED <<state, generation, transcript, broken, send, mail, wire, received, rejected>>

Next ==
  \E x \in Side :
    \/ \E p \in Prologue : Create(x, p)
    \/ Destroy(x) \/ Panic(x)
    \/ WriteHandshake(x) \/ HandshakeFails(x) \/ EnterTransport(x)
    \/ \E message \in mail \union {<<Garbled>>} : ReadHandshake(x, message)
    \/ Encrypt(x) \/ Reject(x) \/ RekeySender(x) \/ RekeyReceiver(x)
    \/ \E c \in wire : Decrypt(x, c)

Spec == Init /\ [][Next]_vars

-----------------------------------------------------------------------------
(* Properties.                                                             *)

(* What a session decrypts is what its peer encrypted in the same session, *)
(* from the first record on, in order and each once, although ciphertexts  *)
(* of earlier sessions and earlier records may be delivered again.         *)
DeliveredInOrder ==
  \A x \in Side : \A i \in DOMAIN received[x] :
    /\ received[x][i].position = i
    /\ received[x][i].from = Peer(x) /\ received[x][i].transcript = transcript[x]

(* No two ciphertexts are ever produced under the same key and nonce, over *)
(* all sessions of both sides: enter_transport makes cipher states once    *)
(* per handshake.                                                          *)
NonceUsedOnce ==
  \A c, d \in wire :
    /\ c.from = d.from /\ c.transcript = d.transcript
    /\ c.key = d.key /\ c.nonce = d.nonce
    => c = d

(* The record that the peer sent next is the one the receiver's nonce      *)
(* expects: refused calls and rekeys of either side never put the nonces   *)
(* out of step, so an undisturbed record can fail only for its key.        *)
NextIsExpected ==
  \A x \in Side : \A c \in wire :
    /\ state[x] = "Transport"
    /\ c.from = Peer(x) /\ c.transcript = transcript[x]
    /\ c.position = Len(received[x]) + 1
    => c.nonce = receive[x].nonce

(* A session that rejected one ciphertext never decrypts, encrypts or      *)
(* rekeys again (decrypt: authentication failures are terminal).           *)
RejectionIsFinal ==
  [][\A x \in Side :
       rejected[x] /\ rejected'[x] =>
         /\ received'[x] = received[x]
         /\ send'[x] = send[x] /\ receive'[x] = receive[x]
         /\ \A c \in wire' \ wire : c.from # x]_vars

(* The hash that handshake_hash hands out for channel binding is final: no *)
(* later message and no enter_transport changes it within the session.     *)
HashIsFinal ==
  [][\A x \in Side :
       HandshakeHash(x) # <<>> /\ generation'[x] = generation[x] =>
         HandshakeHash(x)' \in {HandshakeHash(x), <<>>}]_vars
=============================================================================
