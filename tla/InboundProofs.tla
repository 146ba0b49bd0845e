---------------------------- MODULE InboundProofs ---------------------------
(***************************************************************************)
(* Proofs about the way of a message in: the record parser of a session    *)
(* and the event bus behind it, for every set of API clients.              *)
(***************************************************************************)
EXTENDS Inbound, RecordParserProofs

(* The worker, the socket and the API threads take only steps of the       *)
(* parser, or leave it alone.                                              *)
LEMMA InboundStep == [InboundNext]_inboundVars => [Next]_vars
  BY DEF InboundNext, inboundVars, Worker, Socket, Next

(* The session around the parser is one more run of it: whatever the API   *)
(* threads and the handler do, consume and finish behave as RecordParser   *)
(* says.                                                                   *)
THEOREM InboundImplements == InboundSpec => Spec
<1>1. InboundInit => Init
  BY DEF InboundInit
<1> QED
  BY <1>1, InboundStep, PTL DEF InboundSpec, Spec

(* However consume's input is cut into fragments, the stream is the        *)
(* preface, the delivered records in order, what is buffered and what is   *)
(* unread.                                                                 *)
THEOREM StreamRecords == InboundSpec => []StreamIsRecords
  BY InboundImplements, ParserInvariant, ParserSafe, PTL

(* Whatever length a header announces, no payload beyond                   *)
(* maximum_record_size_ is buffered or handed to the handler.              *)
THEOREM BufferBounded == InboundSpec => []BufferIsBounded
  BY InboundImplements, ParserInvariant, ParserSafe, PTL

(* finish accepts the end of the stream only when no byte of it is left    *)
(* over.                                                                   *)
THEOREM CleanEnd == InboundSpec => []CleanEndIsComplete
  BY InboundImplements, ParserInvariant, ParserSafe, PTL

(* Between two turns of the loop the members of the parser are in range:   *)
(* no complete header and no complete payload stays buffered.              *)
THEOREM ParserTypeOK == InboundSpec => []TypeOK
  BY InboundImplements, ParserInvariant, ParserSafe, PTL
-----------------------------------------------------------------------------

(* The event bus.  The stored events are the last ones emitted, those      *)
(* before were handed out or have MAX_STORED_EVENTS younger ones, and what *)
(* was handed out precedes what is stored.                                 *)
Stored ==
  /\ g_events \in Seq(Nat) /\ emitted \in Seq(Nat) /\ consumed \in Seq(Nat)
  /\ Len(g_events) <= MAX_STORED_EVENTS /\ Len(g_events) <= Len(emitted)
  /\ \A j \in 1 .. Len(g_events) : g_events[j] = emitted[Len(emitted) - Len(g_events) + j]
  /\ \A i \in 1 .. Len(emitted) - Len(g_events) :
       \/ \E j \in 1 .. Len(consumed) : consumed[j] = emitted[i]
       \/ Len(emitted) - i >= MAX_STORED_EVENTS

Ordered ==
  /\ \A i \in 1 .. Len(consumed) : consumed[i] \in 1 .. Len(delivered)
  /\ \A i \in 1 .. Len(g_events) : g_events[i] \in 1 .. Len(delivered)
  /\ \A i, j \in 1 .. Len(consumed) : i < j => consumed[i] < consumed[j]
  /\ \A i, j \in 1 .. Len(g_events) : i < j => g_events[i] < g_events[j]
  /\ \A i \in 1 .. Len(consumed), j \in 1 .. Len(g_events) : consumed[i] < g_events[j]

InboundInv == ParserInv /\ Stored /\ Ordered

LEMMA InitInbound == InboundInit => InboundInv
<1> SUFFICES ASSUME InboundInit PROVE Stored /\ Ordered
  BY InitParser DEF InboundInit, InboundInv
<1>1. g_events = <<>> /\ emitted = <<>> /\ consumed = <<>>
  BY DEF InboundInit, BusInit
<1>2. <<>> \in Seq(Nat) /\ Len(<<>>) = 0
  OBVIOUS
<1>3. /\ g_events \in Seq(Nat) /\ emitted \in Seq(Nat) /\ consumed \in Seq(Nat)
      /\ Len(g_events) = 0 /\ Len(emitted) = 0 /\ Len(consumed) = 0
  BY <1>1, <1>2, Zenon
<1> QED
  BY <1>3, EventBusAssumption DEF Stored, Ordered

(* Erasing from the front leaves the youngest events. *)
LEMMA NewestFacts ==
  ASSUME NEW s \in Seq(Nat)
  PROVE  \E k \in 0 .. Len(s) :
           /\ Newest(s) \in Seq(Nat) /\ Len(Newest(s)) = Len(s) - k
           /\ \A j \in 1 .. Len(s) - k : Newest(s)[j] = s[j + k]
           /\ Len(s) - k <= MAX_STORED_EVENTS
           /\ k > 0 => Len(s) - k = MAX_STORED_EVENTS
<1>1. Len(s) \in Nat /\ MAX_STORED_EVENTS \in Nat
  BY EventBusAssumption
<1>2. CASE Len(s) > MAX_STORED_EVENTS
  <2>1. PICK k : k = Len(s) - MAX_STORED_EVENTS
    OBVIOUS
  <2>2. k \in 0 .. Len(s) /\ Len(s) - k = MAX_STORED_EVENTS
    BY <1>1, <1>2, <2>1
  <2>3. PICK t : t = SubSeq(s, k + 1, Len(s))
    OBVIOUS
  <2>4. t \in Seq(Nat) /\ Len(t) = Len(s) - k /\ \A j \in 1 .. Len(s) - k : t[j] = s[j + k]
    BY <1>1, <2>2, <2>3
  <2>5. Newest(s) = t
    BY <1>2, <2>1, <2>3 DEF Newest
  <2>6. /\ Newest(s) \in Seq(Nat) /\ Len(Newest(s)) = Len(s) - k
        /\ \A j \in 1 .. Len(s) - k : Newest(s)[j] = s[j + k]
    BY <2>4, <2>5
  <2>7. Len(s) - k <= MAX_STORED_EVENTS /\ (k > 0 => Len(s) - k = MAX_STORED_EVENTS)
    BY <1>1, <2>2
  <2> QED
    BY <2>2, <2>6, <2>7, Zenon
<1>3. CASE ~(Len(s) > MAX_STORED_EVENTS)
  <2>1. Newest(s) = s
    BY <1>3 DEF Newest
  <2>2. 0 \in 0 .. Len(s) /\ \A j \in 1 .. Len(s) - 0 : s[j] = s[j + 0]
    BY <1>1
  <2> QED
    BY <1>1, <1>3, <2>1, <2>2
<1> QED
  BY <1>2, <1>3

LEMMA EmitPreserves ==
  ASSUME Stored, Ordered, NEW e \in Nat, Len(delivered) \in Nat, e > Len(delivered),
         Len(delivered') = e, EmitMessage(e)
  PROVE  Stored' /\ Ordered'
<1>1. PICK G, N, C, D : /\ G = Len(g_events) /\ N = Len(emitted) /\ C = Len(consumed)
                        /\ D = Len(delivered)
  OBVIOUS
<1>2. /\ G \in Nat /\ N \in Nat /\ C \in Nat /\ D \in Nat /\ G <= N /\ e > D
      /\ g_events \in Seq(Nat) /\ emitted \in Seq(Nat) /\ consumed \in Seq(Nat)
  BY <1>1 DEF Stored
<1>3. PICK a, b : a = Append(g_events, e) /\ b = Append(emitted, e)
  OBVIOUS
<1>4. /\ a \in Seq(Nat) /\ Len(a) = G + 1 /\ a[G + 1] = e
      /\ \A j \in 1 .. G : a[j] = g_events[j]
  BY <1>1, <1>2, <1>3, AppendProperties
<1>5. /\ b \in Seq(Nat) /\ Len(b) = N + 1 /\ b[N + 1] = e
      /\ \A j \in 1 .. N : b[j] = emitted[j]
  BY <1>1, <1>2, <1>3, AppendProperties
<1>6. PICK k \in 0 .. Len(a) :
        /\ Newest(a) \in Seq(Nat) /\ Len(Newest(a)) = Len(a) - k
        /\ \A j \in 1 .. Len(a) - k : Newest(a)[j] = a[j + k]
        /\ Len(a) - k <= MAX_STORED_EVENTS
        /\ k > 0 => Len(a) - k = MAX_STORED_EVENTS
  BY <1>4, NewestFacts, Zenon
<1>7. PICK g : g = Newest(a)
  OBVIOUS
<1>8. g_events' = g /\ emitted' = b /\ consumed' = consumed
  BY <1>3, <1>7 DEF EmitMessage
<1>9. PICK L : L = Len(a) - k
  OBVIOUS
<1>10. /\ L \in Nat /\ L <= G + 1 /\ L <= N + 1 /\ L <= MAX_STORED_EVENTS
       /\ k \in 0 .. G + 1 /\ L = G + 1 - k /\ (k > 0 => L = MAX_STORED_EVENTS)
       /\ g \in Seq(Nat) /\ Len(g) = L /\ \A j \in 1 .. L : g[j] = a[j + k]
  BY <1>2, <1>4, <1>6, <1>7, <1>9
<1>11. ASSUME NEW m \in 1 .. G + 1
       PROVE  a[m] = b[N - G + m] /\ a[m] \in 1 .. e /\ (m <= G => a[m] <= D)
  <2>1. CASE m \in 1 .. G
    <3>1. N - G + m \in 1 .. N
      BY <1>2, <2>1
    <3>2. g_events[m] = emitted[N - G + m] /\ g_events[m] \in 1 .. D
      BY <1>1, <2>1 DEF Stored, Ordered
    <3>3. a[m] = g_events[m] /\ b[N - G + m] = emitted[N - G + m]
      BY <1>4, <1>5, <2>1, <3>1
    <3>4. \A x \in 1 .. D : x \in 1 .. e /\ x <= D
      BY <1>2
    <3> QED
      BY <3>2, <3>3, <3>4
  <2>2. CASE m = G + 1
    <3>1. N - G + m = N + 1 /\ ~(m <= G)
      BY <1>2, <2>2
    <3> QED
      BY <1>2, <1>4, <1>5, <2>2, <3>1
  <2>3. m \in 1 .. G \/ m = G + 1
    BY <1>2
  <2> QED
    BY <2>1, <2>2, <2>3
<1>12. ASSUME NEW j \in 1 .. L PROVE g[j] = b[N + 1 - L + j] /\ g[j] \in 1 .. e
  <2>1. PICK m : m = j + k
    OBVIOUS
  <2>2. m \in 1 .. G + 1 /\ N - G + m = N + 1 - L + j
    BY <1>2, <1>10, <2>1
  <2>3. g[j] = a[m] /\ a[m] = b[N - G + m] /\ a[m] \in 1 .. e
    BY <1>10, <1>11, <2>1, <2>2
  <2> QED
    BY <2>2, <2>3
<1>13. ASSUME NEW i \in 1 .. N + 1 - L
       PROVE  (\E j \in 1 .. C : consumed[j] = b[i]) \/ N + 1 - i >= MAX_STORED_EVENTS
  <2>1. CASE i <= N - G
    <3>1. i \in 1 .. N - G /\ i \in 1 .. N /\ N - i \in Nat
      BY <1>2, <2>1
    <3>2. (\E j \in 1 .. C : consumed[j] = emitted[i]) \/ N - i >= MAX_STORED_EVENTS
      BY <1>1, <3>1 DEF Stored
    <3>3. b[i] = emitted[i]
      BY <1>5, <3>1
    <3>4. N - i >= MAX_STORED_EVENTS => N + 1 - i >= MAX_STORED_EVENTS
      BY <1>2, EventBusAssumption
    <3> QED
      BY <3>2, <3>3, <3>4
  <2>2. CASE ~(i <= N - G)
    <3>1. k > 0 /\ N + 1 - i >= L
      BY <1>2, <1>10, <2>2
    <3> QED
      BY <1>10, <3>1
  <2> QED
    BY <2>1, <2>2
<1>14. Stored'
  <2>1. /\ g \in Seq(Nat) /\ b \in Seq(Nat) /\ consumed \in Seq(Nat)
        /\ Len(g) <= MAX_STORED_EVENTS /\ Len(g) <= Len(b)
    BY <1>2, <1>5, <1>10
  <2>2. \A j \in 1 .. Len(g) : g[j] = b[Len(b) - Len(g) + j]
    <3>1. Len(b) = N + 1 /\ Len(g) = L
      BY <1>5, <1>10
    <3>2. ASSUME NEW j \in 1 .. Len(g) PROVE g[j] = b[Len(b) - Len(g) + j]
      <4>1. PICK x : x = N + 1 - L + j
        OBVIOUS
      <4>2. j \in 1 .. L /\ x = Len(b) - Len(g) + j
        <5>1. L \in Nat /\ N \in Nat
          BY <1>2, <1>10
        <5> QED
          BY <3>1, <4>1, <5>1
      <4>3. g[j] = b[x]
        BY <1>12, <4>1, <4>2
      <4> QED
        BY <4>2, <4>3
    <3> QED
      BY <3>2
  <2>3. \A i \in 1 .. Len(b) - Len(g) :
          (\E j \in 1 .. Len(consumed) : consumed[j] = b[i]) \/ Len(b) - i >= MAX_STORED_EVENTS
    <3>1. Len(b) = N + 1 /\ Len(g) = L /\ Len(consumed) = C
      BY <1>1, <1>5, <1>10
    <3>2. ASSUME NEW i \in 1 .. Len(b) - Len(g)
          PROVE  \/ \E j \in 1 .. Len(consumed) : consumed[j] = b[i]
                 \/ Len(b) - i >= MAX_STORED_EVENTS
      <4>1. i \in 1 .. N + 1 - L /\ Len(b) - i = N + 1 - i /\ 1 .. Len(consumed) = 1 .. C
        <5>1. L \in Nat /\ N \in Nat /\ C \in Nat
          BY <1>2, <1>10
        <5> QED
          BY <3>1, <5>1
      <4>2. (\E j \in 1 .. C : consumed[j] = b[i]) \/ N + 1 - i >= MAX_STORED_EVENTS
        BY <1>13, <4>1
      <4> QED
        BY <4>1, <4>2
    <3> QED
      BY <3>2
  <2> QED
    BY <1>8, <2>1, <2>2, <2>3 DEF Stored
<1>15. ASSUME NEW i \in 1 .. L, NEW j \in 1 .. L, i < j PROVE g[i] < g[j]
  <2>1. PICK m, n : m = i + k /\ n = j + k
    OBVIOUS
  <2>2. m \in 1 .. G + 1 /\ n \in 1 .. G + 1 /\ m < n /\ m \in 1 .. G
    BY <1>2, <1>10, <1>15, <2>1
  <2>3. g[i] = a[m] /\ g[j] = a[n]
    BY <1>10, <2>1
  <2>4. CASE n \in 1 .. G
    <3>1. g_events[m] < g_events[n]
      BY <1>1, <2>2, <2>4 DEF Ordered
    <3> QED
      BY <1>4, <2>2, <2>3, <2>4, <3>1
  <2>5. CASE n = G + 1
    <3>1. a[m] <= D /\ a[m] \in Nat /\ a[n] = e
      BY <1>4, <1>11, <2>2, <2>5
    <3> QED
      BY <1>2, <2>3, <3>1
  <2>6. n \in 1 .. G \/ n = G + 1
    BY <1>2, <2>2
  <2> QED
    BY <2>4, <2>5, <2>6
<1>16. ASSUME NEW i \in 1 .. C PROVE consumed[i] \in 1 .. e /\ consumed[i] <= D
  <2>1. consumed[i] \in 1 .. D
    BY <1>1 DEF Ordered
  <2> QED
    BY <1>2, <2>1
<1>17. ASSUME NEW i \in 1 .. C, NEW j \in 1 .. L PROVE consumed[i] < g[j]
  <2>1. PICK m : m = j + k
    OBVIOUS
  <2>2. (m \in 1 .. G \/ m = G + 1) /\ g[j] = a[m]
    BY <1>2, <1>10, <2>1
  <2>3. CASE m \in 1 .. G
    <3>1. consumed[i] < g_events[m]
      BY <1>1, <2>3 DEF Ordered
    <3> QED
      BY <1>4, <2>2, <2>3, <3>1
  <2>4. CASE m = G + 1
    BY <1>2, <1>4, <1>16, <2>2, <2>4
  <2> QED
    BY <2>2, <2>3, <2>4
<1>18. \A i, j \in 1 .. C : i < j => consumed[i] < consumed[j]
  BY <1>1 DEF Ordered
<1>19. Ordered'
  BY <1>1, <1>8, <1>10, <1>12, <1>15, <1>16, <1>17, <1>18 DEF Ordered
<1> QED
  BY <1>14, <1>19

LEMMA ConsumeEventsPreserves ==
  ASSUME Stored, Ordered, Len(delivered) \in Nat, Len(delivered') = Len(delivered), ConsumeEvents
  PROVE  Stored' /\ Ordered'
<1>1. PICK G, N, C, D, M : /\ G = Len(g_events) /\ N = Len(emitted) /\ C = Len(consumed)
                           /\ D = Len(delivered) /\ M = MAX_STORED_EVENTS
  OBVIOUS
<1>2. /\ G \in Nat /\ N \in Nat /\ C \in Nat /\ D \in Nat /\ G <= N /\ M \in Nat
      /\ g_events \in Seq(Nat) /\ emitted \in Seq(Nat) /\ consumed \in Seq(Nat)
  BY <1>1, EventBusAssumption DEF Stored
<1>3. PICK c : c = consumed \o g_events
  OBVIOUS
<1>4. /\ c \in Seq(Nat) /\ Len(c) = C + G
      /\ \A i \in 1 .. C + G : c[i] = IF i <= C THEN consumed[i] ELSE g_events[i - C]
  BY <1>1, <1>2, <1>3, ConcatProperties
<1>5. \A i \in 1 .. C : c[i] = consumed[i]
  BY <1>2, <1>4
<1>6. ASSUME NEW i \in 1 .. G PROVE C + i \in 1 .. C + G /\ c[C + i] = g_events[i]
  <2>1. PICK k : k = C + i
    OBVIOUS
  <2>2. k \in 1 .. C + G /\ ~(k <= C) /\ k - C = i
    BY <1>2, <2>1
  <2>3. c[k] = g_events[k - C]
    BY <1>4, <2>2
  <2> QED
    BY <2>1, <2>2, <2>3
<1>7. consumed' = c /\ g_events' = <<>> /\ emitted' = emitted
  BY <1>3 DEF ConsumeEvents
<1>8. g_events' \in Seq(Nat) /\ Len(g_events') = 0
  BY <1>7
<1>9. ASSUME NEW i \in 1 .. N
      PROVE  (\E j \in 1 .. C + G : c[j] = emitted[i]) \/ N - i >= M
  <2>1. CASE i \in 1 .. N - G
    <3>1. (\E j \in 1 .. C : consumed[j] = emitted[i]) \/ N - i >= M
      BY <1>1, <2>1 DEF Stored
    <3>2. \A j \in 1 .. C : j \in 1 .. C + G
      BY <1>2
    <3> QED
      BY <1>5, <3>1, <3>2
  <2>2. CASE i \notin 1 .. N - G
    <3>1. PICK j : j = i - (N - G)
      OBVIOUS
    <3>2. j \in 1 .. G /\ i = N - G + j
      BY <1>2, <2>2, <3>1
    <3>3. g_events[j] = emitted[i]
      BY <1>1, <3>2 DEF Stored
    <3> QED
      BY <1>6, <3>2, <3>3
  <2> QED
    BY <2>1, <2>2
<1>10. Stored'
  BY <1>1, <1>2, <1>4, <1>7, <1>8, <1>9 DEF Stored
<1>11. ASSUME NEW i \in 1 .. C + G
       PROVE  i \in 1 .. C \/ \E k \in 1 .. G : i = C + k
  <2>1. CASE i <= C
    BY <1>2, <2>1
  <2>2. CASE ~(i <= C)
    <3>1. PICK k : k = i - C
      OBVIOUS
    <3>2. k \in 1 .. G /\ i = C + k
      BY <1>2, <2>2, <3>1
    <3> QED
      BY <3>2
  <2> QED
    BY <2>1, <2>2
<1>12. ASSUME NEW i \in 1 .. C + G PROVE c[i] \in 1 .. D
  <2>1. /\ \A k \in 1 .. C : consumed[k] \in 1 .. D
        /\ \A k \in 1 .. G : g_events[k] \in 1 .. D
    BY <1>1 DEF Ordered
  <2>2. CASE i \in 1 .. C
    BY <1>5, <2>1, <2>2
  <2>3. ASSUME NEW k \in 1 .. G, i = C + k PROVE c[i] \in 1 .. D
    BY <1>6, <2>1, <2>3
  <2> QED
    BY <1>11, <2>2, <2>3
<1>13. ASSUME NEW i \in 1 .. C + G, NEW j \in 1 .. C + G, i < j PROVE c[i] < c[j]
  <2>1. CASE j \in 1 .. C
    <3>1. i \in 1 .. C
      BY <1>2, <1>13, <2>1
    <3>2. consumed[i] < consumed[j]
      BY <1>1, <1>13, <2>1, <3>1 DEF Ordered
    <3> QED
      BY <1>5, <2>1, <3>1, <3>2
  <2>2. ASSUME NEW k \in 1 .. G, j = C + k PROVE c[i] < c[j]
    <3>1. CASE i \in 1 .. C
      <4>1. consumed[i] < g_events[k]
        BY <1>1, <3>1 DEF Ordered
      <4> QED
        BY <1>5, <1>6, <2>2, <3>1, <4>1
    <3>2. ASSUME NEW m \in 1 .. G, i = C + m PROVE c[i] < c[j]
      <4>1. m < k
        BY <1>2, <1>13, <2>2, <3>2
      <4>2. g_events[m] < g_events[k]
        BY <1>1, <4>1 DEF Ordered
      <4> QED
        BY <1>6, <2>2, <3>2, <4>2
    <3> QED
      BY <1>11, <3>1, <3>2
  <2> QED
    BY <1>11, <2>1, <2>2
<1>14. Ordered'
  BY <1>1, <1>4, <1>7, <1>8, <1>12, <1>13 DEF Ordered
<1> QED
  BY <1>10, <1>14

LEMMA BusUnchanged ==
  ASSUME Stored, Ordered, UNCHANGED busVars, Len(delivered) \in Nat, Len(delivered') \in Nat,
         Len(delivered') >= Len(delivered)
  PROVE  Stored' /\ Ordered'
<1>1. g_events' = g_events /\ emitted' = emitted /\ consumed' = consumed
  BY DEF busVars
<1>2. Stored'
  BY <1>1 DEF Stored
<1>3. \A x \in 1 .. Len(delivered) : x \in 1 .. Len(delivered')
  OBVIOUS
<1>4. Ordered'
  BY <1>1, <1>3 DEF Ordered
<1> QED
  BY <1>2, <1>4

(* The parser only ever adds to the records it delivered. *)
LEMMA DeliveredGrows ==
  ASSUME ParserInv, [Next]_vars
  PROVE  Len(delivered) \in Nat /\ Len(delivered') \in Nat /\ Len(delivered') >= Len(delivered)
<1>1. delivered \in Seq(Seq(Byte)) /\ Len(delivered) \in Nat
  BY LenProperties DEF ParserInv, ParserTypes
<1>2. delivered' = delivered \/ \E r : delivered' = Append(delivered, r)
  BY DEF Next, vars, Consume, ConsumePreface, ConsumeHeader, ConsumePayload, Finish, Deliver
<1>3. ASSUME NEW r, delivered' = Append(delivered, r) PROVE Len(delivered') = Len(delivered) + 1
  BY <1>1, <1>3
<1> QED
  BY <1>1, <1>2, <1>3

LEMMA InboundPreserved == InboundInv /\ [InboundNext]_inboundVars => InboundInv'
<1> SUFFICES ASSUME InboundInv, [InboundNext]_inboundVars PROVE InboundInv'
  OBVIOUS
<1>1. ParserInv /\ Stored /\ Ordered /\ [Next]_vars
  BY InboundStep DEF InboundInv
<1>2. ParserInv'
  BY <1>1, ParserPreserved
<1>3. Len(delivered) \in Nat /\ Len(delivered') \in Nat /\ Len(delivered') >= Len(delivered)
  BY <1>1, DeliveredGrows
<1>4. CASE UNCHANGED busVars
  BY <1>1, <1>2, <1>3, <1>4, BusUnchanged DEF InboundInv
<1>5. CASE Len(delivered') > Len(delivered) /\ EmitMessage(Len(delivered'))
  BY <1>1, <1>2, <1>3, <1>5, EmitPreserves DEF InboundInv
<1>6. CASE ConsumeEvents /\ UNCHANGED vars
  <2>1. Len(delivered') = Len(delivered)
    BY <1>6 DEF vars
  <2> QED
    BY <1>1, <1>2, <1>3, <1>6, <2>1, ConsumeEventsPreserves DEF InboundInv
<1>7. \/ UNCHANGED busVars
      \/ Len(delivered') > Len(delivered) /\ EmitMessage(Len(delivered'))
      \/ ConsumeEvents /\ UNCHANGED vars
  <2>1. CASE UNCHANGED inboundVars
    BY <2>1 DEF inboundVars
  <2>2. CASE Worker
    BY <2>2 DEF Worker, HandleRecord
  <2>3. CASE Socket
    BY <2>3 DEF Socket
  <2>4. CASE ApiNext /\ UNCHANGED vars
    BY <2>4
       DEF ApiNext, BootstrapApiServer, Accept, HandleApiClient, RecvHttpRequest,
           HandleGetEvents, HandlePostSend, HandleOther, SendHttpResponse
  <2> QED
    BY <2>1, <2>2, <2>3, <2>4 DEF InboundNext
<1> QED
  BY <1>4, <1>5, <1>6, <1>7

(* The parser and the event bus together, the handler and the API threads  *)
(* interleaved in any way: the inductive invariant.                        *)
THEOREM InboundInvariant == InboundSpec => []InboundInv
<1>1. InboundInit => InboundInv
  BY InitInbound
<1>2. InboundInv /\ [InboundNext]_inboundVars => InboundInv'
  BY InboundPreserved
<1> QED
  BY <1>1, <1>2, PTL DEF InboundSpec

LEMMA EventsFollow == InboundInv => EventsFollowStream
<1> SUFFICES ASSUME InboundInv PROVE EventsFollowStream
  OBVIOUS
<1>1. PICK G, C, c : G = Len(g_events) /\ C = Len(consumed) /\ c = consumed \o g_events
  OBVIOUS
<1>2. G \in Nat /\ C \in Nat /\ g_events \in Seq(Nat) /\ consumed \in Seq(Nat)
  BY <1>1 DEF InboundInv, Stored
<1>3. /\ DOMAIN c = 1 .. C + G
      /\ \A i \in 1 .. C + G : c[i] = IF i <= C THEN consumed[i] ELSE g_events[i - C]
  BY <1>1, <1>2, ConcatProperties
<1>4. DOMAIN delivered = 1 .. Len(delivered)
  BY LenProperties DEF InboundInv, ParserInv, ParserTypes
<1>5. /\ \A i \in 1 .. C : consumed[i] \in 1 .. Len(delivered)
      /\ \A i \in 1 .. G : g_events[i] \in 1 .. Len(delivered)
      /\ \A i, j \in 1 .. C : i < j => consumed[i] < consumed[j]
      /\ \A i, j \in 1 .. G : i < j => g_events[i] < g_events[j]
      /\ \A i \in 1 .. C, j \in 1 .. G : consumed[i] < g_events[j]
  BY <1>1 DEF InboundInv, Ordered
<1>6. ASSUME NEW i \in 1 .. C + G
      PROVE  \/ i \in 1 .. C /\ i <= C /\ c[i] = consumed[i]
             \/ i - C \in 1 .. G /\ ~(i <= C) /\ c[i] = g_events[i - C]
  <2>1. CASE i <= C
    BY <1>2, <1>3, <2>1
  <2>2. CASE ~(i <= C)
    <3>1. i - C \in 1 .. G
      BY <1>2, <2>2
    <3> QED
      BY <1>3, <2>2, <3>1
  <2> QED
    BY <2>1, <2>2
<1>7. \A i \in 1 .. C + G : c[i] \in DOMAIN delivered
  BY <1>4, <1>5, <1>6
<1>8. ASSUME NEW i \in 1 .. C + G, NEW j \in 1 .. C + G, i < j PROVE c[i] < c[j]
  <2>1. CASE i <= C /\ j <= C
    BY <1>5, <1>6, <1>8, <2>1
  <2>2. CASE i <= C /\ ~(j <= C)
    BY <1>5, <1>6, <2>2
  <2>3. CASE ~(i <= C)
    <3>1. ~(j <= C) /\ i - C < j - C
      BY <1>2, <1>8, <2>3
    <3> QED
      BY <1>5, <1>6, <2>3, <3>1
  <2> QED
    BY <2>1, <2>2, <2>3
<1> QED
  BY <1>1, <1>3, <1>7, <1>8 DEF EventsFollowStream

LEMMA LostToNewer == InboundInv => LostOnlyToNewer
<1> SUFFICES ASSUME InboundInv, NEW i \in DOMAIN emitted
             PROVE  \/ \E j \in DOMAIN g_events : g_events[j] = emitted[i]
                    \/ \E j \in DOMAIN consumed : consumed[j] = emitted[i]
                    \/ Len(emitted) - i >= MAX_STORED_EVENTS
  BY DEF LostOnlyToNewer
<1>1. PICK G, N : G = Len(g_events) /\ N = Len(emitted)
  OBVIOUS
<1>2. /\ G \in Nat /\ N \in Nat /\ G <= N /\ i \in 1 .. N
      /\ DOMAIN g_events = 1 .. G /\ DOMAIN consumed = 1 .. Len(consumed)
  BY <1>1, LenProperties DEF InboundInv, Stored
<1>3. CASE i \in 1 .. N - G
  BY <1>1, <1>2, <1>3 DEF InboundInv, Stored
<1>4. CASE i \notin 1 .. N - G
  <2>1. PICK j : j = i - (N - G)
    OBVIOUS
  <2>2. j \in 1 .. G /\ i = N - G + j
    BY <1>2, <1>4, <2>1
  <2>3. g_events[j] = emitted[i]
    BY <1>1, <2>2 DEF InboundInv, Stored
  <2> QED
    BY <1>2, <2>2, <2>3
<1> QED
  BY <1>3, <1>4

(* What the API threads hand out, and what g_events still holds, are       *)
(* records the parser delivered, in stream order and none twice, whichever *)
(* threads call consume_events while emit_message runs.                    *)
THEOREM EventsInOrder == InboundSpec => []EventsFollowStream
  BY InboundInvariant, EventsFollow, PTL

(* emit_message erases an event from the front of g_events only for        *)
(* MAX_STORED_EVENTS younger ones.                                         *)
THEOREM LostToNewerOnly == InboundSpec => []LostOnlyToNewer
  BY InboundInvariant, LostToNewer, PTL
=============================================================================
