------------------------- MODULE NoiseSessionProofs -------------------------
(***************************************************************************)
(* Proofs about Noise sessions, for any number of sessions, nonces and     *)
(* rekeys, and whatever the transport does with the messages.              *)
(***************************************************************************)
EXTENDS NoiseSession, FiniteSetTheorems, TLAPS

Value == Prologue \union Ephemeral

Ciphertext == [from : Side, transcript : Seq(Value), key : Nat, nonce : Nat, position : Nat]

Types ==
  /\ state \in [Side -> States]
  /\ generation \in [Side -> 0 .. MaxSessions]
  /\ transcript \in [Side -> Seq(Value)]
  /\ broken \in [Side -> BOOLEAN] /\ rejected \in [Side -> BOOLEAN]
  /\ send \in [Side -> [key : Nat, nonce : Nat]] /\ receive \in [Side -> [key : Nat, nonce : Nat]]
  /\ mail \subseteq Seq(Value) \ {<<>>}
  /\ wire \subseteq Ciphertext /\ IsFiniteSet(wire)
  /\ received \in [Side -> Seq(Ciphertext)]

(* The place of a side's own ephemeral key in a transcript. *)
Own(x) == IF x = "initiator" THEN 2 ELSE 3

SentBy(x) == {c \in wire : c.from = x /\ c.transcript = transcript[x]}

(* A session's own ephemeral key is in its transcript once it was written. *)
(* No ciphertext has that key before enter_transport; after it the nonce   *)
(* counts the ciphertexts that have the transcript.                        *)
Sending(x) ==
  /\ Len(transcript[x]) <= 3
  /\ state[x] # "None" => generation[x] > 0
  /\ Len(transcript[x]) >= Own(x) => transcript[x][Own(x)] = <<x, generation[x]>>
  /\ state[x] = "Handshake" =>
       \A c \in wire : c.from = x => c.transcript[Own(x)] # <<x, generation[x]>>
  /\ state[x] = "Transport" =>
       /\ Finished(x)
       /\ send[x].nonce = Cardinality(SentBy(x))
       /\ \A c \in SentBy(x) : c.nonce < send[x].nonce

(* The receiver's nonce counts the ciphertexts that it accepted.           *)
Receiving(x) ==
  /\ state[x] = "Handshake" => received[x] = <<>>
  /\ rejected[x] => state[x] = "Failed"
  /\ receive[x].nonce = Len(received[x])
  /\ \A i \in 1 .. Len(received[x]) :
       /\ received[x][i] \in wire /\ received[x][i].nonce = i - 1
       /\ received[x][i].from = Peer(x) /\ received[x][i].transcript = transcript[x]

(* Ciphertexts are numbered by their nonces and have the ephemeral key of  *)
(* a session that their sender has created.                                *)
Numbered ==
  \A c \in wire :
    /\ c.position = c.nonce + 1 /\ Len(c.transcript) = 3
    /\ \E g \in 1 .. generation[c.from] : c.transcript[Own(c.from)] = <<c.from, g>>

NoiseInv == Types /\ (\A x \in Side : Sending(x) /\ Receiving(x)) /\ Numbered
-----------------------------------------------------------------------------
(* What a step leaves to a side whose session it does not change. *)
Untouched(y) ==
  /\ state'[y] = state[y] /\ generation'[y] = generation[y] /\ transcript'[y] = transcript[y]
  /\ send'[y] = send[y] /\ receive'[y] = receive[y]
  /\ received'[y] = received[y] /\ rejected'[y] = rejected[y]

LEMMA OthersKept ==
  ASSUME NEW y \in Side, Sending(y), Receiving(y), Untouched(y), wire \subseteq wire',
         \A c \in wire' \ wire : c.from # y
  PROVE  Sending(y)' /\ Receiving(y)'
<1>1. SentBy(y)' = SentBy(y)
  BY DEF SentBy, Untouched
<1>2. Sending(y)'
  BY <1>1 DEF Sending, Untouched, Finished, SentBy
<1>3. Receiving(y)'
  BY DEF Receiving, Untouched
<1> QED
  BY <1>2, <1>3

LEMMA NumberedKept ==
  ASSUME Types, Numbered, wire' = wire,
         \A x \in Side : generation'[x] \in Nat /\ generation'[x] >= generation[x]
  PROVE  Numbered'
<1> SUFFICES ASSUME NEW c \in wire
             PROVE  /\ c.position = c.nonce + 1 /\ Len(c.transcript) = 3
                    /\ \E g \in 1 .. generation'[c.from] : c.transcript[Own(c.from)] = <<c.from, g>>
  BY DEF Numbered, Own
<1>1. c.from \in Side /\ generation[c.from] \in Nat
  BY NoiseBounds DEF Types, Ciphertext
<1> QED
  BY <1>1 DEF Numbered

(* A step of side x. *)
LEMMA Step ==
  ASSUME NoiseInv, NEW x \in Side, Types', Sending(x)', Receiving(x)', Numbered',
         \A y \in Side \ {x} : Untouched(y), wire \subseteq wire',
         \A c \in wire' \ wire : c.from = x
  PROVE  NoiseInv'
<1>1. ASSUME NEW y \in Side \ {x} PROVE Sending(y)' /\ Receiving(y)'
  BY OthersKept DEF NoiseInv
<1> QED
  BY <1>1 DEF NoiseInv

LEMMA InitNoise == Init => NoiseInv
<1> SUFFICES ASSUME Init PROVE NoiseInv
  OBVIOUS
<1>1. IsFiniteSet(wire)
  BY FS_EmptySet DEF Init
<1>2. Types
  BY <1>1, NoiseBounds DEF Init, Types, States, NewCipher
<1>3. \A x \in Side : Sending(x)
  BY DEF Init, Sending, Own
<1>4. \A x \in Side : Receiving(x)
  BY DEF Init, Receiving, NewCipher
<1>5. Numbered
  BY DEF Init, Numbered
<1> QED
  BY <1>2, <1>3, <1>4, <1>5 DEF NoiseInv

(* The creation of a session, and its end: received is empty again.        *)
LEMMA HandleActions ==
  ASSUME NoiseInv, NEW x \in Side,
         \/ \E p \in Prologue : Create(x, p)
         \/ Destroy(x) \/ Panic(x)
  PROVE  NoiseInv'
<1>0. Types /\ Sending(x) /\ Receiving(x) /\ Numbered
  BY DEF NoiseInv
<1>1. ASSUME NEW p \in Prologue, Create(x, p) PROVE NoiseInv'
  <2>1. <<p>> \in Seq(Value) /\ Len(<<p>>) = 1
    BY DEF Value
  <2>2. generation[x] \in Nat /\ generation[x] + 1 \in 0 .. MaxSessions
    BY <1>0, <1>1, NoiseBounds DEF Types, Create
  <2>3. Types'
    BY <1>0, <1>1, <2>1, <2>2 DEF Types, Create, Fresh, States, NewCipher
  <2>4. ASSUME NEW c \in wire, c.from = x PROVE c.transcript[Own(x)] # <<x, generation[x] + 1>>
    BY <1>0, <2>2, <2>4 DEF Numbered
  <2>5. Sending(x)'
    BY <1>0, <1>1, <2>1, <2>2, <2>4 DEF Types, Create, Fresh, Sending, Own
  <2>6. Receiving(x)'
    BY <1>0, <1>1 DEF Types, Create, Fresh, Receiving, NewCipher
  <2>7. /\ \A y \in Side : generation'[y] \in Nat /\ generation'[y] >= generation[y]
        /\ \A y \in Side \ {x} : Untouched(y)
        /\ wire' = wire
    <3>1. generation' = [generation EXCEPT ![x] = generation[x] + 1] /\ wire' = wire
      BY <1>1 DEF Create, Fresh
    <3>2. \A y \in Side : generation'[y] \in Nat /\ generation'[y] >= generation[y]
      BY <1>0, <2>2, <3>1, NoiseBounds DEF Types
    <3>3. \A y \in Side \ {x} : Untouched(y)
      BY <1>0, <1>1 DEF Types, Create, Fresh, Untouched
    <3> QED
      BY <3>1, <3>2, <3>3
  <2>8. Numbered'
    BY <1>0, <2>7, NumberedKept
  <2> QED
    BY <2>3, <2>5, <2>6, <2>7, <2>8, Step
<1>2. CASE Destroy(x) \/ Panic(x)
  <2>1. Types'
    <3>1. CASE Destroy(x)
      <4>1. <<>> \in Seq(Value) /\ <<>> \in Seq(Ciphertext)
              /\ NewCipher \in [key : Nat, nonce : Nat]
        BY DEF NewCipher
      <4> QED
        BY <1>0, <3>1, <4>1 DEF Types, Destroy, Fresh, States
    <3>2. CASE Panic(x)
      BY <1>0, <3>2 DEF Types, Panic, States
    <3> QED
      BY <1>2, <3>1, <3>2
  <2>2. Sending(x)'
    BY <1>0, <1>2 DEF Types, Destroy, Panic, Fresh, Sending, Own
  <2>3. Receiving(x)'
    BY <1>0, <1>2 DEF Types, Destroy, Panic, Fresh, Receiving, NewCipher
  <2>4. /\ \A y \in Side : generation'[y] \in Nat /\ generation'[y] >= generation[y]
        /\ \A y \in Side \ {x} : Untouched(y)
        /\ wire' = wire
    BY <1>0, <1>2, NoiseBounds DEF Types, Destroy, Panic, Fresh, Untouched
  <2>5. Numbered'
    BY <1>0, <2>4, NumberedKept
  <2> QED
    BY <2>1, <2>2, <2>3, <2>4, <2>5, Step
<1> QED
  BY <1>1, <1>2

(* The handshake: nothing is encrypted or received during it.              *)
LEMMA HandshakeActions ==
  ASSUME NoiseInv, NEW x \in Side,
         \/ WriteHandshake(x) \/ HandshakeFails(x) \/ EnterTransport(x)
         \/ \E message \in mail \union {<<Garbled>>} : ReadHandshake(x, message)
  PROVE  NoiseInv'
<1>0. Types /\ Sending(x) /\ Receiving(x) /\ Numbered
  BY DEF NoiseInv
<1>1. \A y \in Side : generation[y] \in Nat
  BY <1>0, NoiseBounds DEF Types
<1>2. /\ UNCHANGED <<generation, wire, received, rejected>>
      /\ \A y \in Side \ {x} : Untouched(y)
  BY <1>0 DEF Types, Untouched, WriteHandshake, HandshakeFails, EnterTransport, ReadHandshake
<1>3. Numbered'
  BY <1>0, <1>1, <1>2, NumberedKept
<1>4. state[x] = "Handshake" /\ received[x] = <<>> /\ ~rejected[x]
  BY <1>0 DEF Receiving, WriteHandshake, HandshakeFails, EnterTransport, ReadHandshake, MyTurn
<1>5. ASSUME Types', Sending(x)', state'[x] = "Handshake" \/ receive'[x].nonce = 0,
             state'[x] = "Handshake" => receive' = receive
      PROVE  NoiseInv'
  <2>1. Receiving(x)'
    BY <1>0, <1>2, <1>4, <1>5 DEF Receiving
  <2> QED
    BY <1>2, <1>3, <1>5, <2>1, Step
<1>6. ASSUME NEW e \in Value, state' = state, receive' = receive, Len(transcript[x]) < 3,
             transcript' = [transcript EXCEPT ![x] = Append(@, e)],
             Len(transcript[x]) + 1 = Own(x) => e = <<x, generation[x]>>
      PROVE  transcript' \in [Side -> Seq(Value)] /\ Sending(x)'
  <2>1. PICK s : s = Append(transcript[x], e)
    OBVIOUS
  <2>2. /\ s \in Seq(Value) /\ Len(s) = Len(transcript[x]) + 1 /\ s[Len(s)] = e
        /\ \A i \in 1 .. Len(transcript[x]) : s[i] = transcript[x][i]
    BY <1>0, <2>1 DEF Types
  <2>3. transcript' \in [Side -> Seq(Value)] /\ transcript'[x] = s
    BY <1>0, <1>6, <2>1, <2>2 DEF Types
  <2>4. Len(transcript[x]) \in Nat
    BY <1>0 DEF Types
  <2> QED
    BY <1>0, <1>2, <1>4, <1>6, <2>2, <2>3, <2>4 DEF Sending, Own
<1>7. CASE WriteHandshake(x)
  <2>1. PICK e : e = <<x, generation[x]>>
    OBVIOUS
  <2>2. e \in Value
    BY <1>0, <1>1, <1>4, <2>1 DEF Types, Sending, Value, Ephemeral
  <2>3. Len(transcript[x]) < 3 /\ transcript' = [transcript EXCEPT ![x] = Append(@, e)]
    BY <1>7, <2>1 DEF WriteHandshake, MyTurn
  <2>4. transcript' \in [Side -> Seq(Value)] /\ Sending(x)'
    BY <1>6, <1>7, <2>1, <2>2, <2>3 DEF WriteHandshake
  <2>5. transcript'[x] = Append(transcript[x], e) /\ transcript'[x] \in Seq(Value) \ {<<>>}
    <3>1. transcript[x] \in Seq(Value) /\ transcript'[x] = Append(transcript[x], e)
      BY <1>0, <2>3 DEF Types
    <3>2. Append(transcript[x], e) \in Seq(Value) /\ Len(Append(transcript[x], e)) > 0
      BY <2>2, <3>1
    <3>3. \A q \in Seq(Value) : Len(q) > 0 => q # <<>>
      OBVIOUS
    <3>4. Append(transcript[x], e) \in Seq(Value) \ {<<>>}
      BY <3>2, <3>3
    <3> QED
      BY <3>1, <3>4
  <2>6. Last(transcript'[x]) = e
    BY <1>0, <2>2, <2>5 DEF Types, Last
  <2>7. mail' \subseteq Seq(Value) \ {<<>>}
    <3>1. <<e>> \in Seq(Value) \ {<<>>}
      BY <2>2
    <3>2. mail' = mail \union {<<e>>} \/ mail' = mail \union {transcript'[x]}
      BY <1>7, <2>6 DEF WriteHandshake
    <3> QED
      BY <1>0, <2>5, <3>1, <3>2 DEF Types
  <2>8. Types'
    BY <1>0, <1>2, <1>7, <2>4, <2>7 DEF Types, WriteHandshake
  <2> QED
    BY <1>4, <1>5, <1>7, <2>4, <2>8 DEF WriteHandshake
<1>8. ASSUME NEW message \in mail \union {<<Garbled>>}, ReadHandshake(x, message) PROVE NoiseInv'
  <2>1. message \in Seq(Value) /\ message # <<>>
    <3>1. Garbled \in Value
      BY DEF Value, Ephemeral
    <3> HIDE DEF Garbled
    <3>2. <<Garbled>> \in Seq(Value) /\ <<Garbled>> # <<>>
      BY <3>1
    <3> QED
      BY <1>0, <3>2 DEF Types
  <2>2. PICK e \in Value : e = Last(message)
    BY <2>1 DEF Last
  <2>3. /\ Len(transcript[x]) + 1 \in {2, 3} /\ Len(transcript[x]) + 1 # Own(x)
        /\ transcript' = [transcript EXCEPT ![x] = Append(@, e)]
    BY <1>8, <2>2 DEF ReadHandshake, MyTurn, Own, Side
  <2>4. Len(transcript[x]) < 3
    BY <1>0, <2>3 DEF Types
  <2>5. transcript' \in [Side -> Seq(Value)] /\ Sending(x)'
    BY <1>6, <1>8, <2>3, <2>4 DEF ReadHandshake
  <2>6. Types'
    BY <1>0, <1>2, <1>8, <2>5 DEF Types, ReadHandshake
  <2> QED
    BY <1>4, <1>5, <1>8, <2>5, <2>6 DEF ReadHandshake
<1>9. CASE HandshakeFails(x)
  <2>1. Types'
    BY <1>0, <1>2, <1>9 DEF Types, HandshakeFails
  <2>2. Sending(x)'
    BY <1>0, <1>2, <1>4, <1>9 DEF Sending, HandshakeFails
  <2> QED
    BY <1>4, <1>5, <1>9, <2>1, <2>2 DEF HandshakeFails
<1>10. CASE EnterTransport(x)
  <2>1. Types'
    BY <1>0, <1>2, <1>10 DEF Types, EnterTransport, NewCipher, States
  <2>2. Len(transcript[x]) = 3 /\ transcript[x][Own(x)] = <<x, generation[x]>>
    BY <1>0, <1>10 DEF Sending, EnterTransport, Finished, Own
  <2>3. SentBy(x)' = {}
    BY <1>0, <1>2, <1>4, <1>10, <2>2 DEF Sending, SentBy, EnterTransport
  <2>4. Cardinality(SentBy(x)') = 0
    BY <2>3, FS_EmptySet
  <2>5. send'[x].nonce = 0 /\ receive'[x].nonce = 0 /\ state'[x] \in {"Transport", "Failed"}
    BY <1>0, <1>10 DEF Types, EnterTransport, NewCipher
  <2>6. Sending(x)'
    BY <1>0, <1>2, <1>4, <1>10, <2>2, <2>3, <2>4, <2>5 DEF Sending, EnterTransport, Finished
  <2> QED
    BY <1>5, <2>1, <2>5, <2>6
<1> QED
  BY <1>7, <1>8, <1>9, <1>10

(* Transport: a ciphertext takes the next nonce and the next position.     *)
LEMMA CipherSteps ==
  ASSUME NEW f \in [Side -> [key : Nat, nonce : Nat]], NEW x \in Side, NEW g,
         \/ g = [f EXCEPT ![x].nonce = @ + 1]
         \/ g = [f EXCEPT ![x].key = @ + 1]
  PROVE  /\ g \in [Side -> [key : Nat, nonce : Nat]]
         /\ g = [f EXCEPT ![x].nonce = @ + 1] => g[x].nonce = f[x].nonce + 1
         /\ g = [f EXCEPT ![x].key = @ + 1] => g[x].nonce = f[x].nonce
         /\ \A y \in Side \ {x} : g[y] = f[y]
<1>1. CASE g = [f EXCEPT ![x].nonce = @ + 1]
  <2>1. PICK r : r = [f[x] EXCEPT !.nonce = @ + 1]
    OBVIOUS
  <2>2. r \in [key : Nat, nonce : Nat] /\ r.nonce = f[x].nonce + 1
    BY <2>1
  <2>3. g = [f EXCEPT ![x] = r]
    BY <1>1, <2>1
  <2>4. g # [f EXCEPT ![x].key = @ + 1]
    <3>1. PICK q : q = [f[x] EXCEPT !.key = @ + 1]
      OBVIOUS
    <3>2. q.nonce = f[x].nonce
      BY <3>1
    <3>3. ASSUME g = [f EXCEPT ![x].key = @ + 1] PROVE g[x] = q
      BY <3>1, <3>3
    <3> QED
      BY <2>2, <2>3, <3>2, <3>3
  <2> QED
    BY <2>2, <2>3, <2>4
<1>2. CASE g = [f EXCEPT ![x].key = @ + 1]
  <2>1. PICK r : r = [f[x] EXCEPT !.key = @ + 1]
    OBVIOUS
  <2>2. r \in [key : Nat, nonce : Nat] /\ r.nonce = f[x].nonce
    BY <2>1
  <2>3. g = [f EXCEPT ![x] = r]
    BY <1>2, <2>1
  <2> QED
    BY <1>1, <2>2, <2>3
<1> QED
  BY <1>1, <1>2

LEMMA EncryptKeeps ==
  ASSUME NoiseInv, NEW x \in Side, Encrypt(x) PROVE NoiseInv'
<1>0. Types /\ Sending(x) /\ Receiving(x) /\ Numbered
  BY DEF NoiseInv
<1>1. PICK n, k : n = send[x].nonce /\ k = send[x].key
  OBVIOUS
<1>2. /\ n \in Nat /\ k \in Nat /\ transcript[x] \in Seq(Value) /\ Len(transcript[x]) = 3
      /\ n = Cardinality(SentBy(x)) /\ state[x] = "Transport"
      /\ \A c \in SentBy(x) : c.nonce < n
      /\ transcript[x][Own(x)] = <<x, generation[x]>> /\ generation[x] \in 1 .. generation[x]
  <2>1. state[x] = "Transport"
    BY DEF Encrypt
  <2>2. /\ Len(transcript[x]) = 3 /\ transcript[x][Own(x)] = <<x, generation[x]>>
        /\ n = Cardinality(SentBy(x)) /\ generation[x] > 0
        /\ \A c \in SentBy(x) : c.nonce < n
    BY <1>0, <1>1, <2>1 DEF Sending, Finished, Own
  <2>3. n \in Nat /\ k \in Nat /\ transcript[x] \in Seq(Value) /\ generation[x] \in Nat
    BY <1>0, <1>1, NoiseBounds DEF Types
  <2> QED
    BY <2>1, <2>2, <2>3
<1>3. PICK d : d = [from |-> x, transcript |-> transcript[x], key |-> k, nonce |-> n,
                    position |-> NextPosition(x)]
  OBVIOUS
<1>4. NextPosition(x) = n + 1
  BY <1>2 DEF NextPosition, SentBy
<1>5. /\ d \in Ciphertext /\ d.from = x /\ d.transcript = transcript[x] /\ d.nonce = n
      /\ d.position = n + 1
  BY <1>2, <1>3, <1>4 DEF Ciphertext
<1>6. wire' = wire \union {d} /\ send' = [send EXCEPT ![x].nonce = @ + 1]
  BY <1>1, <1>3 DEF Encrypt
<1>7. UNCHANGED <<state, generation, transcript, broken, receive, mail, received, rejected>>
  BY DEF Encrypt
<1>8. /\ send' \in [Side -> [key : Nat, nonce : Nat]] /\ send'[x].nonce = n + 1
      /\ \A y \in Side \ {x} : send'[y] = send[y]
  BY <1>0, <1>1, <1>6, CipherSteps DEF Types
<1>9. Types'
  <2>1. IsFiniteSet(wire')
    BY <1>0, <1>6, FS_AddElement DEF Types
  <2> QED
    BY <1>0, <1>5, <1>6, <1>7, <1>8, <2>1 DEF Types
<1>10. Sending(x)'
  <2>1. SentBy(x)' = SentBy(x) \union {d}
    BY <1>5, <1>6, <1>7 DEF SentBy
  <2>2. d \notin SentBy(x)
    BY <1>2, <1>5
  <2>3. IsFiniteSet(SentBy(x))
    BY <1>0, FS_Subset DEF Types, SentBy
  <2>4. Cardinality(SentBy(x)') = n + 1
    BY <1>2, <2>1, <2>2, <2>3, FS_AddElement
  <2>5. \A c \in SentBy(x)' : c.nonce < n + 1
    <3>1. \A c \in SentBy(x) : c.nonce \in Nat
      BY <1>0 DEF Types, SentBy, Ciphertext
    <3> QED
      BY <1>2, <1>5, <2>1, <3>1
  <2> QED
    BY <1>0, <1>2, <1>7, <1>8, <2>4, <2>5 DEF Sending, Finished
<1>11. Receiving(x)'
  BY <1>0, <1>6, <1>7 DEF Receiving
<1>12. Numbered'
  BY <1>0, <1>2, <1>5, <1>6, <1>7 DEF Numbered
<1>13. \A y \in Side \ {x} : Untouched(y)
  BY <1>7, <1>8 DEF Untouched
<1> QED
  BY <1>5, <1>6, <1>9, <1>10, <1>11, <1>12, <1>13, Step

(* An accepted ciphertext has the nonce that follows the accepted ones.    *)
LEMMA DecryptKeeps ==
  ASSUME NoiseInv, NEW x \in Side, NEW c \in wire, Decrypt(x, c) PROVE NoiseInv'
<1>0. Types /\ Sending(x) /\ Receiving(x) /\ Numbered
  BY DEF NoiseInv
<1>1. PICK r, n : r = received[x] /\ n = receive[x].nonce
  OBVIOUS
<1>2. /\ r \in Seq(Ciphertext) /\ n \in Nat /\ n = Len(r) /\ c \in Ciphertext
      /\ c.nonce = n /\ c.from = Peer(x) /\ c.transcript = transcript[x]
      /\ state[x] = "Transport" /\ ~rejected[x]
  BY <1>0, <1>1 DEF Types, Receiving, Decrypt, Opens
<1>3. UNCHANGED <<state, generation, transcript, broken, send, mail, wire, rejected>>
  BY DEF Decrypt
<1>4. PICK q : q = Append(r, c)
  OBVIOUS
<1>5. /\ q \in Seq(Ciphertext) /\ Len(q) = n + 1 /\ q[n + 1] = c
      /\ \A i \in 1 .. n : q[i] = r[i]
  BY <1>2, <1>4
<1>6. received' = [received EXCEPT ![x] = q] /\ receive' = [receive EXCEPT ![x].nonce = @ + 1]
  BY <1>1, <1>4 DEF Decrypt
<1>7. /\ received' \in [Side -> Seq(Ciphertext)] /\ received'[x] = q
      /\ receive' \in [Side -> [key : Nat, nonce : Nat]] /\ receive'[x].nonce = n + 1
      /\ \A y \in Side \ {x} : received'[y] = received[y] /\ receive'[y] = receive[y]
  <2>1. /\ received' \in [Side -> Seq(Ciphertext)] /\ received'[x] = q
        /\ \A y \in Side \ {x} : received'[y] = received[y]
    BY <1>0, <1>5, <1>6 DEF Types
  <2>2. /\ receive' \in [Side -> [key : Nat, nonce : Nat]] /\ receive'[x].nonce = n + 1
        /\ \A y \in Side \ {x} : receive'[y] = receive[y]
    <3>1. receive \in [Side -> [key : Nat, nonce : Nat]]
      BY <1>0 DEF Types
    <3>2. receive' = [receive EXCEPT ![x].nonce = @ + 1]
      BY <1>6
    <3> QED
      BY <1>1, <3>1, <3>2, CipherSteps
  <2> QED
    BY <2>1, <2>2
<1>8. Types'
  BY <1>0, <1>3, <1>7 DEF Types
<1>9. Sending(x)'
  BY <1>0, <1>3 DEF Sending, SentBy, Finished
<1>10. Receiving(x)'
  <2>1. ASSUME NEW i \in 1 .. n + 1
        PROVE  /\ q[i] \in wire /\ q[i].nonce = i - 1
               /\ q[i].from = Peer(x) /\ q[i].transcript = transcript[x]
    <3>1. CASE i \in 1 .. n
      BY <1>0, <1>1, <1>2, <1>5, <3>1 DEF Receiving
    <3>2. CASE i = n + 1
      BY <1>2, <1>5, <3>2
    <3> QED
      BY <1>2, <3>1, <3>2
  <2> QED
    BY <1>2, <1>3, <1>5, <1>7, <2>1 DEF Receiving
<1>11. Numbered'
  BY <1>0, <1>3 DEF Numbered
<1>12. \A y \in Side \ {x} : Untouched(y)
  BY <1>3, <1>7 DEF Untouched
<1> QED
  BY <1>3, <1>8, <1>9, <1>10, <1>11, <1>12, Step

LEMMA TransportActions ==
  ASSUME NoiseInv, NEW x \in Side, Reject(x) \/ RekeySender(x) \/ RekeyReceiver(x)
  PROVE  NoiseInv'
<1>0. Types /\ Sending(x) /\ Receiving(x) /\ Numbered
  BY DEF NoiseInv
<1>1. /\ UNCHANGED <<generation, transcript, broken, mail, wire, received>>
      /\ state[x] = "Transport"
  BY DEF Reject, RekeySender, RekeyReceiver
<1>2. /\ send' \in [Side -> [key : Nat, nonce : Nat]] /\ send'[x].nonce = send[x].nonce
      /\ receive' \in [Side -> [key : Nat, nonce : Nat]] /\ receive'[x].nonce = receive[x].nonce
      /\ \A y \in Side \ {x} : send'[y] = send[y] /\ receive'[y] = receive[y]
  <2>0. /\ send \in [Side -> [key : Nat, nonce : Nat]]
        /\ receive \in [Side -> [key : Nat, nonce : Nat]]
    BY <1>0 DEF Types
  <2>1. CASE Reject(x)
    BY <2>0, <2>1 DEF Reject
  <2>2. CASE RekeySender(x)
    BY <2>0, <2>2, CipherSteps DEF RekeySender
  <2>3. CASE RekeyReceiver(x)
    BY <2>0, <2>3, CipherSteps DEF RekeyReceiver
  <2> QED
    BY <2>1, <2>2, <2>3
<1>3. /\ state' \in [Side -> States] /\ rejected' \in [Side -> BOOLEAN]
      /\ (state'[x] = state[x] /\ rejected'[x] = rejected[x]) \/ state'[x] = "Failed"
      /\ \A y \in Side \ {x} : state'[y] = state[y] /\ rejected'[y] = rejected[y]
  BY <1>0 DEF Types, Reject, RekeySender, RekeyReceiver, States
<1>4. Types'
  BY <1>0, <1>1, <1>2, <1>3 DEF Types
<1>5. Sending(x)'
  <2>1. SentBy(x)' = SentBy(x)
    BY <1>1 DEF SentBy
  <2> QED
    BY <1>0, <1>1, <1>2, <1>3, <2>1 DEF Sending, Finished
<1>6. Receiving(x)'
  BY <1>0, <1>1, <1>2, <1>3 DEF Receiving
<1>7. Numbered'
  BY <1>0, <1>1 DEF Numbered
<1>8. \A y \in Side \ {x} : Untouched(y)
  BY <1>1, <1>2, <1>3 DEF Untouched
<1> QED
  BY <1>1, <1>4, <1>5, <1>6, <1>7, <1>8, Step

LEMMA NoisePreserved == NoiseInv /\ [Next]_vars => NoiseInv'
<1> SUFFICES ASSUME NoiseInv, [Next]_vars PROVE NoiseInv'
  OBVIOUS
<1>1. CASE Next
  BY <1>1, HandleActions, HandshakeActions, EncryptKeeps, DecryptKeeps, TransportActions
     DEF Next
<1>2. CASE UNCHANGED vars
  <2>1. Types' /\ Numbered'
    BY <1>2 DEF vars, NoiseInv, Types, Numbered
  <2>2. ASSUME NEW y \in Side PROVE Sending(y)' /\ Receiving(y)'
    BY <1>2, OthersKept DEF vars, NoiseInv, Untouched
  <2> QED
    BY <2>1, <2>2 DEF NoiseInv
<1> QED
  BY <1>1, <1>2
-----------------------------------------------------------------------------
(* For any numbers of sessions, nonces and rekeys: a session's nonces are  *)
(* the numbers of the ciphertexts that it sent and accepted.               *)
THEOREM NoiseInvariant == Spec => []NoiseInv
  BY InitNoise, NoisePreserved, PTL DEF Spec

(* What a session decrypts is what the peer encrypted in the same session, *)
(* from the first record on, in order and each once, however ciphertexts   *)
(* are lost, repeated and reordered.                                       *)
THEOREM InOrder == Spec => []DeliveredInOrder
<1>1. NoiseInv => DeliveredInOrder
  <2> SUFFICES ASSUME NoiseInv, NEW x \in Side, NEW i \in DOMAIN received[x]
               PROVE  /\ received[x][i].position = i
                      /\ received[x][i].from = Peer(x)
                      /\ received[x][i].transcript = transcript[x]
    BY DEF DeliveredInOrder
  <2>1. received[x] \in Seq(Ciphertext) /\ wire \subseteq Ciphertext /\ Receiving(x) /\ Numbered
    BY DEF NoiseInv, Types
  <2>2. i \in 1 .. Len(received[x])
    BY <2>1
  <2> QED
    BY <2>1, <2>2 DEF Receiving, Numbered
<1> QED
  BY <1>1, NoiseInvariant, PTL

(* No key and nonce is used for two ciphertexts, over all sessions.        *)
THEOREM NoncesUnique == Spec => []NonceUsedOnce
<1>1. NoiseInv => NonceUsedOnce
  <2> SUFFICES ASSUME NoiseInv, NEW c \in wire, NEW d \in wire, c.from = d.from,
                      c.transcript = d.transcript, c.key = d.key, c.nonce = d.nonce
               PROVE  c = d
    BY DEF NonceUsedOnce
  <2>1. c \in Ciphertext /\ d \in Ciphertext /\ c.position = d.position
    BY DEF NoiseInv, Types, Numbered
  <2> QED
    BY <2>1 DEF Ciphertext
<1> QED
  BY <1>1, NoiseInvariant, PTL

(* The nonces of the two sides stay in step: the record that was sent next *)
(* has the nonce that the receiver expects.                                *)
THEOREM NextExpected == Spec => []NextIsExpected
<1>1. NoiseInv => NextIsExpected
  <2> SUFFICES ASSUME NoiseInv, NEW x \in Side, NEW c \in wire, c.position = Len(received[x]) + 1
               PROVE  c.nonce = receive[x].nonce
    BY DEF NextIsExpected
  <2>1. c.nonce \in Nat /\ c.position = c.nonce + 1 /\ receive[x].nonce = Len(received[x])
    BY DEF NoiseInv, Types, Ciphertext, Numbered, Receiving
  <2>2. receive[x].nonce \in Nat
    BY DEF NoiseInv, Types
  <2> QED
    BY <2>1, <2>2
<1> QED
  BY <1>1, NoiseInvariant, PTL

(* A rejected ciphertext ends the session: decrypt leaves it "Failed", and *)
(* no function but destroy accepts that state.                             *)
THEOREM RejectionFinal == Spec => RejectionIsFinal
<1> DEFINE Final == \A x \in Side :
              rejected[x] /\ rejected'[x] =>
                /\ received'[x] = received[x]
                /\ send'[x] = send[x] /\ receive'[x] = receive[x]
                /\ \A c \in wire' \ wire : c.from # x
<1>1. ASSUME NoiseInv, Next PROVE Final
  <2>1. PICK y \in Side :
          \/ \E p \in Prologue : Create(y, p)
          \/ Destroy(y) \/ Panic(y)
          \/ WriteHandshake(y) \/ HandshakeFails(y) \/ EnterTransport(y)
          \/ \E message \in mail \union {<<Garbled>>} : ReadHandshake(y, message)
          \/ Encrypt(y) \/ Reject(y) \/ RekeySender(y) \/ RekeyReceiver(y)
          \/ \E c \in wire : Decrypt(y, c)
    BY <1>1 DEF Next
  <2> SUFFICES ASSUME NEW x \in Side, rejected[x], rejected'[x]
               PROVE  /\ received'[x] = received[x]
                      /\ send'[x] = send[x] /\ receive'[x] = receive[x]
                      /\ \A c \in wire' \ wire : c.from # x
    OBVIOUS
  <2>2. Types /\ state[x] = "Failed"
    BY <1>1 DEF NoiseInv, Receiving
  <2>3. CASE \E p \in Prologue : Create(y, p)
    BY <2>2, <2>3 DEF Types, Create, Fresh
  <2>4. CASE Destroy(y) \/ Panic(y)
    BY <2>2, <2>4 DEF Types, Destroy, Panic, Fresh
  <2>5. CASE \/ WriteHandshake(y) \/ HandshakeFails(y) \/ EnterTransport(y)
             \/ \E message \in mail \union {<<Garbled>>} : ReadHandshake(y, message)
    BY <2>2, <2>5 DEF Types, WriteHandshake, HandshakeFails, EnterTransport, ReadHandshake
  <2>6. CASE Encrypt(y)
    BY <2>2, <2>6 DEF Types, Encrypt
  <2>7. CASE \/ Reject(y) \/ RekeySender(y) \/ RekeyReceiver(y)
             \/ \E c \in wire : Decrypt(y, c)
    BY <2>2, <2>7 DEF Types, Reject, RekeySender, RekeyReceiver, Decrypt
  <2> QED
    BY <2>1, <2>3, <2>4, <2>5, <2>6, <2>7
<1>2. NoiseInv /\ [Next]_vars => [Final]_vars
  BY <1>1
<1> QED
  BY <1>2, NoiseInvariant, PTL DEF Spec, RejectionIsFinal

(* The handshake hash does not change within a session once it is handed   *)
(* out: no function mixes into a finished transcript.                      *)
THEOREM HashFinal == Spec => HashIsFinal
<1> DEFINE Final == \A x \in Side :
              HandshakeHash(x) # <<>> /\ generation'[x] = generation[x] =>
                HandshakeHash(x)' \in {HandshakeHash(x), <<>>}
<1>1. ASSUME NoiseInv, Next PROVE Final
  <2>1. PICK y \in Side :
          \/ \E p \in Prologue : Create(y, p)
          \/ Destroy(y) \/ Panic(y)
          \/ WriteHandshake(y) \/ HandshakeFails(y) \/ EnterTransport(y)
          \/ \E message \in mail \union {<<Garbled>>} : ReadHandshake(y, message)
          \/ Encrypt(y) \/ Reject(y) \/ RekeySender(y) \/ RekeyReceiver(y)
          \/ \E c \in wire : Decrypt(y, c)
    BY <1>1 DEF Next
  <2> SUFFICES ASSUME NEW x \in Side, HandshakeHash(x) # <<>>, generation'[x] = generation[x]
               PROVE  HandshakeHash(x)' \in {HandshakeHash(x), <<>>}
    OBVIOUS
  <2>2. Types /\ Len(transcript[x]) = 3 /\ HandshakeHash(x) = transcript[x]
    BY <1>1 DEF NoiseInv, HandshakeHash, Finished
  <2>3. transcript'[x] = transcript[x] \/ state'[x] = "None"
    <3>1. CASE \E p \in Prologue : Create(y, p)
      BY <2>2, <3>1, NoiseBounds DEF Types, Create, Fresh
    <3>2. CASE Destroy(y) \/ Panic(y)
      BY <2>2, <3>2 DEF Types, Destroy, Panic, Fresh
    <3>3. CASE \/ WriteHandshake(y)
               \/ \E message \in mail \union {<<Garbled>>} : ReadHandshake(y, message)
      <4>0. MyTurn(y, TRUE) \/ MyTurn(y, FALSE)
        BY <3>3 DEF WriteHandshake, ReadHandshake
      <4>1. PICK n \in {1, 2} : Len(transcript[y]) = n
        BY <4>0 DEF MyTurn
      <4>2. PICK e : transcript' = [transcript EXCEPT ![y] = Append(@, e)]
        BY <3>3 DEF WriteHandshake, ReadHandshake
      <4>3. x # y
        <5>1. \A k \in {1, 2} : k # 3
          OBVIOUS
        <5> QED
          BY <2>2, <4>1, <5>1, Zenon
      <4> QED
        BY <2>2, <4>2, <4>3 DEF Types
    <3>4. CASE \/ HandshakeFails(y) \/ EnterTransport(y)
               \/ Encrypt(y) \/ Reject(y) \/ RekeySender(y) \/ RekeyReceiver(y)
               \/ \E c \in wire : Decrypt(y, c)
      BY <3>4
         DEF HandshakeFails, EnterTransport, Encrypt, Reject, RekeySender, RekeyReceiver,
             Decrypt
    <3> QED
      BY <2>1, <3>1, <3>2, <3>3, <3>4
  <2> QED
    BY <2>2, <2>3 DEF HandshakeHash
<1>2. NoiseInv /\ [Next]_vars => [Final]_vars
  BY <1>1
<1> QED
  BY <1>2, NoiseInvariant, PTL DEF Spec, HashIsFinal
=============================================================================
