-------------------------- MODULE ConnectionProofs --------------------------
(***************************************************************************)
(* Proofs about one connection and the threads that use it, for every set  *)
(* of callers.  A call stack is seen through its first three entries.      *)
(***************************************************************************)
EXTENDS Connection, TLAPS

Entry(stack, i) == IF i <= Len(stack) THEN stack[i] ELSE "none"
Top(t) == Entry(pc[t], 1)
Second(t) == Entry(pc[t], 2)
Third(t) == Entry(pc[t], 3)

Local == [incoming : Received, deadline : {"handshake", "max"},
          outgoing : [{"worker", "sender"} -> Sent]]

Types ==
  /\ conn \in Fields
  /\ mutex \in [Mutex -> Thread \union {"nobody"}]
  /\ pc \in [Thread -> Seq(Point)] /\ \A t \in Thread : Len(pc[t]) <= 3
  /\ local \in Local
  /\ wire \in Wire
  /\ env \in [late : BOOLEAN, current : BOOLEAN, released : BOOLEAN]
  /\ fresh \in [Thread -> BOOLEAN] /\ ready_at_deadline \in BOOLEAN

Disconnecting == {"disconnect", "timeout", "shutdown", "shutdown_timeout"}
Resumed == {"loop", "handle", "handled"}

(* Where a thread can be: a is its point, b and c are the next points that *)
(* it returns to.  The worker is in its own code, in a call that it        *)
(* resumes from, in the request_disconnect of its end, or in that of a     *)
(* failed write, with write_mutex_ still to be released.                   *)
Legal(t, a, b, c) ==
  \/ /\ t = "worker" /\ b = "none" /\ c = "none"
     /\ a \in {"none", "preface", "loop", "wait", "poll", "consume", "handle", "parsed", "dispatch",
               "handled", "finalize", "cleanup", "cleanup_socket", "close", "unlock"}
  \/ /\ t = "worker" /\ b \in Resumed /\ c = "none"
     /\ \/ a \in {"write", "preface_sent", "unlock", "send", "send_check", "accept", "hello"}
        \/ a \in Disconnecting
  \/ t = "worker" /\ a \in Disconnecting /\ b \in {"finalize", "cleanup"} /\ c = "none"
  \/ t = "worker" /\ a \in Disconnecting /\ b = "unlock" /\ c \in Resumed
  \/ /\ t = "auth" /\ b = "none" /\ c = "none"
     /\ a \in {"none", "activate", "activate_write", "activate_lifecycle", "commit", "commit_ready"}
  \/ t = "closer" /\ a \in {"none"} \union Disconnecting /\ b = "none" /\ c = "none"
  \/ /\ t = "sender" /\ b = "none" /\ c = "none"
     /\ a \in {"none", "send", "send_check", "write", "preface_sent", "unlock"}
  \/ t = "sender" /\ a \in Disconnecting /\ b = "unlock" /\ c = "none"

(* The mutexes that a thread holds.                                        *)
HoldsWrite(a, b) ==
  \/ a \in {"write", "send_check", "preface_sent", "unlock", "cleanup_socket", "close",
            "activate_lifecycle", "commit", "commit_ready"}
  \/ b = "unlock"

HoldsLifecycle(a) == a \in {"shutdown", "shutdown_timeout", "commit", "commit_ready"}

Locks(t, a, b) ==
  /\ HoldsWrite(a, b) => mutex["write"] = t
  /\ HoldsLifecycle(a) => mutex["lifecycle"] = t

(* The points that a thread reaches only while the session stops, or only  *)
(* before it does; who can be where once the descriptor is closed.         *)
Ending(t, a, b) ==
  /\ t = "worker" /\ a # "none" => conn.started \/ env.released
  /\ a \in {"cleanup", "cleanup_socket", "close"} => conn.stopping
  /\ a = "close" => conn.cleaned_up /\ conn.fd # "closed"
  /\ a \in {"commit", "commit_ready"} => ~conn.stopping
  /\ conn.fd = "closed" =>
       /\ a \notin {"write", "send_check"}
       /\ t = "worker" => \/ a \in {"none", "finalize", "cleanup", "cleanup_socket"}
                          \/ a = "unlock" /\ b = "none"
                          \/ b = "cleanup"

(* What a trust lookup that is still to come, or has been, vouches for.    *)
Vouched(t, a) ==
  /\ a = "send_check" => conn.ready /\ conn.authorized_peer
  /\ a \in {"send_check", "parsed"} /\ env.current => fresh[t]
  /\ a = "dispatch" \/ (a = "write" /\ local.outgoing[t] = "message") =>
       conn.ready /\ conn.authorized_peer /\ fresh[t]

ThreadInv(t, a, b, c) ==
  Legal(t, a, b, c) /\ Locks(t, a, b) /\ Ending(t, a, b) /\ Vouched(t, a)

Closed ==
  conn.fd = "closed" => conn.stopping /\ conn.cleaned_up /\ (conn.started \/ env.released)

(* A thread that left a torn frame stops the session before it unlocks.    *)
Frames ==
  /\ ~wire.corrupt
  /\ wire.torn => conn.stopping \/ \E t \in Thread : Second(t) = "unlock"

ConnectionInv ==
  /\ Types
  /\ \A t \in Thread : ThreadInv(t, Top(t), Second(t), Third(t))
  /\ Closed /\ Frames
-----------------------------------------------------------------------------
LEMMA Points ==
  /\ "none" \notin Point /\ "disconnect" \in Point /\ "timeout" \in Point
  /\ "shutdown" \in Point /\ "shutdown_timeout" \in Point /\ "write" \in Point
  /\ "unlock" \in Point /\ "send" \in Point /\ "send_check" \in Point /\ "activate" \in Point
  /\ "activate_write" \in Point /\ "activate_lifecycle" \in Point /\ "commit" \in Point
  /\ "commit_ready" \in Point /\ "preface" \in Point /\ "preface_sent" \in Point
  /\ "loop" \in Point /\ "wait" \in Point /\ "poll" \in Point /\ "consume" \in Point
  /\ "accept" \in Point /\ "hello" \in Point /\ "handle" \in Point /\ "parsed" \in Point
  /\ "dispatch" \in Point /\ "handled" \in Point /\ "finalize" \in Point /\ "cleanup" \in Point
  /\ "cleanup_socket" \in Point /\ "close" \in Point
  BY DEF Point

(* What the operations on a call stack do to its first three entries.      *)
LEMMA StackFacts ==
  ASSUME NEW s \in Seq(Point), NEW p \in Point
  PROVE  /\ s # <<>> /\ Head(s) = p <=> Entry(s, 1) = p
         /\ s = <<>> <=> Entry(s, 1) = "none"
         /\ <<p>> \in Seq(Point) /\ Len(<<p>>) = 1 /\ Entry(<<p>>, 1) = p
         /\ Entry(<<p>>, 2) = "none" /\ Entry(<<p>>, 3) = "none"
<1>1. "none" \notin Point
  BY DEF Point
<1> QED
  BY <1>1 DEF Entry

LEMMA GotoFacts ==
  ASSUME NEW s \in Seq(Point), NEW p \in Point, s # <<>>, NEW g, g = <<p>> \o Tail(s)
  PROVE  /\ g \in Seq(Point) /\ Len(g) = Len(s) /\ Entry(g, 1) = p
         /\ Entry(g, 2) = Entry(s, 2) /\ Entry(g, 3) = Entry(s, 3)
  BY DEF Entry

LEMMA ReturnFacts ==
  ASSUME NEW s \in Seq(Point), s # <<>>, Len(s) <= 3, NEW g, g = Tail(s)
  PROVE  /\ g \in Seq(Point) /\ Len(g) <= 3 /\ Entry(g, 1) = Entry(s, 2)
         /\ Entry(g, 2) = Entry(s, 3) /\ Entry(g, 3) = "none"
  BY DEF Entry

(* Thread t goes to point a, with b and c as its next two points to return *)
(* to; the other threads stay.                                             *)
Moved(t, a, b, c) ==
  /\ pc' \in [Thread -> Seq(Point)] /\ \A u \in Thread : Len(pc'[u]) <= 3
  /\ Entry(pc'[t], 1) = a /\ Entry(pc'[t], 2) = b /\ Entry(pc'[t], 3) = c
  /\ \A u \in Thread \ {t} : /\ Entry(pc'[u], 1) = Top(u) /\ Entry(pc'[u], 2) = Second(u)
                             /\ Entry(pc'[u], 3) = Third(u)

LEMMA Moves ==
  ASSUME Types, NEW t \in Thread
  PROVE  /\ \A p \in Point : At(t, p) <=> Top(t) = p
         /\ Idle(t) <=> Top(t) = "none"
         /\ \A p \in Point : Begin(t, p) => Moved(t, p, "none", "none")
         /\ \A p \in Point : Goto(t, p) /\ Top(t) # "none" => Moved(t, p, Second(t), Third(t))
         /\ \A p, r \in Point : Call(t, p, r) /\ Top(t) # "none" /\ Third(t) = "none" =>
              Moved(t, p, r, Second(t))
         /\ Return(t) /\ Top(t) # "none" => Moved(t, Second(t), Third(t), "none")
<1> DEFINE s == pc[t]
<1>1. /\ pc \in [Thread -> Seq(Point)] /\ s \in Seq(Point)
      /\ \A u \in Thread : Len(pc[u]) <= 3
  BY DEF Types
<1>2. \A p \in Point : At(t, p) <=> Top(t) = p
  BY <1>1, StackFacts DEF At, Top
<1>3. Idle(t) <=> Top(t) = "none"
  <2>1. "loop" \in Point
    BY DEF Point
  <2> QED
    BY <1>1, <2>1, StackFacts DEF Idle, Top
<1>4. ASSUME NEW g \in Seq(Point), Len(g) <= 3, pc' = [pc EXCEPT ![t] = g]
      PROVE  Moved(t, Entry(g, 1), Entry(g, 2), Entry(g, 3))
  BY <1>1, <1>4 DEF Moved, Top, Second, Third
<1>5. ASSUME NEW p \in Point, Begin(t, p) PROVE Moved(t, p, "none", "none")
  <2>1. PICK g : g = <<p>>
    OBVIOUS
  <2>2. pc' = [pc EXCEPT ![t] = g]
    BY <1>5, <2>1 DEF Begin
  <2>3. /\ g \in Seq(Point) /\ Len(g) <= 3 /\ Entry(g, 1) = p
        /\ Entry(g, 2) = "none" /\ Entry(g, 3) = "none"
    BY <1>1, <2>1, StackFacts
  <2> QED
    BY <1>4, <2>2, <2>3
<1>6. ASSUME NEW p \in Point, Goto(t, p), Top(t) # "none"
      PROVE  Moved(t, p, Second(t), Third(t))
  <2>1. PICK g : g = <<p>> \o Tail(s)
    OBVIOUS
  <2>2. pc' = [pc EXCEPT ![t] = g]
    BY <1>6, <2>1 DEF Goto
  <2>3. s # <<>>
    BY <1>3, <1>6 DEF Idle
  <2>4. /\ g \in Seq(Point) /\ Len(g) <= 3 /\ Entry(g, 1) = p
        /\ Entry(g, 2) = Second(t) /\ Entry(g, 3) = Third(t)
    BY <1>1, <2>1, <2>3, GotoFacts DEF Second, Third
  <2> QED
    BY <1>4, <2>2, <2>4
<1>7. ASSUME NEW p \in Point, NEW r \in Point, Call(t, p, r), Top(t) # "none", Third(t) = "none"
      PROVE  Moved(t, p, r, Second(t))
  <2>1. PICK g : g = <<p, r>> \o Tail(s)
    OBVIOUS
  <2>2. pc' = [pc EXCEPT ![t] = g]
    BY <1>7, <2>1 DEF Call
  <2>3. s # <<>> /\ Len(s) <= 2
    BY <1>1, <1>3, <1>7 DEF Idle, Third, Entry, Point
  <2>4. /\ g \in Seq(Point) /\ Len(g) = Len(s) + 1 /\ Entry(g, 1) = p
        /\ Entry(g, 2) = r /\ Entry(g, 3) = Second(t)
    BY <1>1, <2>1, <2>3 DEF Second, Entry
  <2>5. Len(g) <= 3
    BY <1>1, <2>3, <2>4
  <2> QED
    BY <1>4, <2>2, <2>4, <2>5
<1>8. ASSUME Return(t), Top(t) # "none" PROVE Moved(t, Second(t), Third(t), "none")
  <2>1. PICK g : g = Tail(s)
    OBVIOUS
  <2>2. pc' = [pc EXCEPT ![t] = g]
    BY <1>8, <2>1 DEF Return
  <2>3. s # <<>>
    BY <1>3, <1>8 DEF Idle
  <2>4. /\ g \in Seq(Point) /\ Len(g) <= 3 /\ Entry(g, 1) = Second(t)
        /\ Entry(g, 2) = Third(t) /\ Entry(g, 3) = "none"
    BY <1>1, <2>1, <2>3, ReturnFacts DEF Second, Third
  <2> QED
    BY <1>4, <2>2, <2>4
<1> QED
  BY <1>2, <1>3, <1>5, <1>6, <1>7, <1>8
-----------------------------------------------------------------------------
(* What a step of thread t leaves to the others: flags are only set, the   *)
(* mutexes that others hold stay theirs, stopping_ is set under            *)
(* lifecycle_mutex_, and the worker closes the descriptor under            *)
(* write_mutex_.                                                           *)
Guarded(t) ==
  /\ conn.stopping => conn'.stopping
  /\ conn.ready => conn'.ready
  /\ conn.authorized_peer => conn'.authorized_peer
  /\ conn.cleaned_up => conn'.cleaned_up
  /\ conn.started \/ env.released => conn'.started \/ env'.released
  /\ env'.current => env.current
  /\ mutex'["write"] = mutex["write"] \/ mutex["write"] \in {t, "nobody"}
  /\ mutex'["lifecycle"] = mutex["lifecycle"] \/ mutex["lifecycle"] \in {t, "nobody"}
  /\ conn'.stopping => conn.stopping \/ mutex["lifecycle"] = t
  /\ conn'.fd = "closed" => conn.fd = "closed" \/ (t = "worker" /\ mutex["write"] = t)
  /\ \A u \in Thread \ {t} : fresh'[u] = fresh[u]
  /\ \A u \in {"worker", "sender"} \ {t} : local'.outgoing[u] = local.outgoing[u]

LEMMA OthersKept ==
  ASSUME Types, NEW t \in Thread, NEW u \in Thread \ {t}, NEW a, NEW b, NEW c,
         ThreadInv(u, a, b, c), Guarded(t)
  PROVE  ThreadInv(u, a, b, c)'
<1>1. u # "nobody" /\ u \in Thread
  BY DEF Thread
<1>2. Legal(u, a, b, c)'
  BY DEF ThreadInv, Legal
<1>3. Locks(u, a, b)'
  BY <1>1 DEF ThreadInv, Locks, Guarded
<1>4. Ending(u, a, b)'
  BY <1>1
     DEF ThreadInv, Legal, Locks, Ending, Guarded, HoldsWrite, HoldsLifecycle, Disconnecting
<1>5. Vouched(u, a)'
  BY <1>1 DEF ThreadInv, Legal, Vouched, Guarded, Disconnecting
<1> QED
  BY <1>2, <1>3, <1>4, <1>5 DEF ThreadInv

LEMMA Step ==
  ASSUME ConnectionInv, NEW t \in Thread, NEW a, NEW b, NEW c, Moved(t, a, b, c), Guarded(t),
         ThreadInv(t, a, b, c)', Types', Closed', Frames'
  PROVE  ConnectionInv'
<1>1. ASSUME NEW u \in Thread \ {t} PROVE ThreadInv(u, Top(u), Second(u), Third(u))'
  <2>1. PICK x, y, z : x = Top(u) /\ y = Second(u) /\ z = Third(u)
    OBVIOUS
  <2>2. ThreadInv(u, x, y, z)'
    BY <2>1, OthersKept DEF ConnectionInv
  <2>3. x = Top(u)' /\ y = Second(u)' /\ z = Third(u)'
    BY <2>1 DEF Moved, Top, Second, Third
  <2> QED
    BY <2>2, <2>3
<1>2. ThreadInv(t, Top(t), Second(t), Third(t))'
  BY DEF Moved, Top, Second, Third
<1> QED
  BY <1>1, <1>2 DEF ConnectionInv

LEMMA FramesKept ==
  ASSUME ConnectionInv, NEW t \in Thread, NEW a, NEW b, NEW c, Moved(t, a, b, c),
         ~wire'.corrupt, conn.stopping => conn'.stopping,
         wire'.torn => (wire.torn /\ Second(t) # "unlock") \/ conn'.stopping \/ b = "unlock"
  PROVE  Frames'
  BY DEF ConnectionInv, Frames, Moved, Second

LEMMA PureStep ==
  ASSUME ConnectionInv, NEW t \in Thread, NEW a, NEW b, NEW c, Moved(t, a, b, c),
         UNCHANGED <<conn, mutex, local, wire, env, history>>,
         ThreadInv(t, a, b, c), Second(t) = "unlock" => b = "unlock"
  PROVE  ConnectionInv'
<1>1. Types'
  BY DEF ConnectionInv, Types, Moved, history
<1>2. Guarded(t)
  BY DEF Guarded, history
<1>3. ThreadInv(t, a, b, c)'
  BY DEF ThreadInv, Legal, Locks, Ending, Vouched, history
<1>4. Closed'
  BY DEF ConnectionInv, Closed
<1>5. Frames'
  BY FramesKept DEF ConnectionInv, Frames
<1> QED
  BY <1>1, <1>2, <1>3, <1>4, <1>5, Step

LEMMA PureMoves ==
  ASSUME ConnectionInv, NEW t \in Thread, Top(t) # "none",
         UNCHANGED <<conn, mutex, local, wire, env, history>>
  PROVE  /\ \A a \in Point : Goto(t, a) /\ ThreadInv(t, a, Second(t), Third(t)) => ConnectionInv'
         /\ \A a, r \in Point :
              /\ Call(t, a, r) /\ Third(t) = "none" /\ Second(t) # "unlock"
              /\ ThreadInv(t, a, r, Second(t))
              => ConnectionInv'
<1>0. Types
  BY DEF ConnectionInv
<1>1. PICK b, c : b = Second(t) /\ c = Third(t)
  OBVIOUS
<1>2. ASSUME NEW a \in Point, Goto(t, a), ThreadInv(t, a, Second(t), Third(t))
      PROVE  ConnectionInv'
  <2>1. Moved(t, a, b, c)
    BY <1>0, <1>1, <1>2, Moves
  <2> QED
    BY <1>1, <1>2, <2>1, PureStep
<1>3. ASSUME NEW a \in Point, NEW r \in Point, Call(t, a, r), Third(t) = "none",
             Second(t) # "unlock", ThreadInv(t, a, r, Second(t))
      PROVE  ConnectionInv'
  <2>1. Moved(t, a, r, b)
    BY <1>0, <1>1, <1>3, Moves
  <2> QED
    BY <1>1, <1>3, <2>1, PureStep
<1> QED
  BY <1>2, <1>3

(* Steps of a thread that only move it. *)
LEMMA PureActions ==
  ASSUME ConnectionInv,
         \/ \E t \in Thread : SendCheck(t)
         \/ Authorize \/ Activate \/ CallDisconnect
         \/ Wait \/ PollTimeout \/ PollReady \/ ConsumeFails \/ ConsumeEnd
         \/ HandleRejected \/ HandleMessage \/ Dispatch \/ Handled \/ Finalize
  PROVE  ConnectionInv'
<1> USE Points
<1>0. /\ Types /\ "worker" \in Thread /\ "auth" \in Thread /\ "closer" \in Thread
      /\ \A t \in Thread : ThreadInv(t, Top(t), Second(t), Third(t))
  BY DEF ConnectionInv, Thread
<1> USE DEF ThreadInv, Legal, Locks, HoldsWrite, HoldsLifecycle, Ending, Vouched,
            Disconnecting, Resumed
<1>1. ASSUME NEW t \in Thread, SendCheck(t) PROVE ConnectionInv'
  <2>1. Top(t) = "send_check"
    BY <1>0, <1>1, Moves DEF SendCheck
  <2>2. /\ env.current => ThreadInv(t, "write", Second(t), Third(t))
        /\ ThreadInv(t, "unlock", Second(t), Third(t))
        /\ ThreadInv(t, "disconnect", "unlock", Second(t))
        /\ Third(t) = "none" /\ Second(t) # "unlock"
    BY <1>0, <2>1
  <2> HIDE DEF ThreadInv
  <2> QED
    BY <1>1, <2>1, <2>2, PureMoves DEF SendCheck
<1>2. CASE Authorize
  <2>1. Top("auth") = "none" /\ Moved("auth", "activate", "none", "none")
    BY <1>0, <1>2, Moves DEF Authorize, CanCall
  <2> QED
    BY <1>0, <1>2, <2>1, PureStep DEF Authorize
<1>3. CASE Activate
  <2>1. Top("auth") = "activate" /\ Second("auth") = "none" /\ Third("auth") = "none"
    BY <1>0, <1>3, Moves DEF Activate
  <2>2. CASE Return("auth")
    <3>1. Moved("auth", "none", "none", "none")
      BY <1>0, <2>1, <2>2, Moves
    <3> QED
      BY <1>0, <1>3, <2>1, <3>1, PureStep DEF Activate
  <2>3. CASE Goto("auth", "activate_write")
    BY <1>0, <1>3, <2>1, <2>3, PureMoves DEF Activate
  <2> QED
    BY <1>3, <2>2, <2>3 DEF Activate
<1>4. CASE CallDisconnect
  <2>1. Top("closer") = "none" /\ Moved("closer", "disconnect", "none", "none")
    BY <1>0, <1>4, Moves DEF CallDisconnect, CanCall
  <2> QED
    BY <1>0, <1>4, <2>1, PureStep DEF CallDisconnect
<1>5. CASE Wait
  <2>1. Top("worker") = "wait"
    BY <1>0, <1>5, Moves DEF Wait
  <2> QED
    BY <1>0, <1>5, <2>1, PureMoves DEF Wait
<1>6. CASE PollTimeout \/ PollReady
  <2>1. Top("worker") = "poll"
    BY <1>0, <1>6, Moves DEF PollTimeout, PollReady
  <2>2. /\ ThreadInv("worker", "loop", Second("worker"), Third("worker"))
        /\ ThreadInv("worker", "consume", Second("worker"), Third("worker"))
        /\ ThreadInv("worker", "timeout", "finalize", Second("worker"))
        /\ ThreadInv("worker", "disconnect", "finalize", Second("worker"))
        /\ Third("worker") = "none" /\ Second("worker") = "none"
    BY <1>0, <2>1
  <2> HIDE DEF ThreadInv
  <2> QED
    BY <1>0, <1>6, <2>1, <2>2, PureMoves DEF PollTimeout, PollReady
<1>7. CASE ConsumeFails \/ ConsumeEnd
  <2>1. Top("worker") = "consume"
    BY <1>0, <1>7, Moves DEF ConsumeFails, ConsumeEnd
  <2> QED
    BY <1>0, <1>7, <2>1, PureMoves DEF ConsumeFails, ConsumeEnd
<1>8. CASE HandleRejected \/ HandleMessage
  <2>1. Top("worker") = "parsed"
    BY <1>0, <1>8, Moves DEF HandleRejected, HandleMessage
  <2>2. /\ HandleMessage
          /\ env.current => ThreadInv("worker", "dispatch", Second("worker"), Third("worker"))
        /\ ThreadInv("worker", "disconnect", "loop", Second("worker"))
        /\ Third("worker") = "none" /\ Second("worker") = "none"
    BY <1>0, <2>1 DEF HandleMessage, Admitted
  <2> HIDE DEF ThreadInv
  <2> QED
    BY <1>0, <1>8, <2>1, <2>2, PureMoves DEF HandleRejected, HandleMessage
<1>9. CASE Dispatch
  <2>1. Top("worker") = "dispatch"
    BY <1>0, <1>9, Moves DEF Dispatch
  <2> QED
    BY <1>0, <1>9, <2>1, PureMoves DEF Dispatch
<1>10. CASE Handled
  <2>1. Top("worker") = "handled"
    BY <1>0, <1>10, Moves DEF Handled
  <2> QED
    BY <1>0, <1>10, <2>1, PureMoves DEF Handled
<1>11. CASE Finalize
  <2>1. Top("worker") = "finalize"
    BY <1>0, <1>11, Moves DEF Finalize
  <2> QED
    BY <1>0, <1>11, <2>1, PureMoves DEF Finalize
<1> QED
  BY <1>1, <1>2, <1>3, <1>4, <1>5, <1>6, <1>7, <1>8, <1>9, <1>10, <1>11

(* The mutexes and records after a step: w and l are the holders of        *)
(* write_mutex_ and lifecycle_mutex_, s is what thread t sends.            *)
Updated(w, l) ==
  /\ mutex' \in [Mutex -> Thread \union {"nobody"}]
  /\ mutex'["write"] = w /\ mutex'["lifecycle"] = l

Recorded(t, s) ==
  /\ local' \in Local
  /\ t \in {"worker", "sender"} => local'.outgoing[t] = s
  /\ \A u \in {"worker", "sender"} \ {t} : local'.outgoing[u] = local.outgoing[u]

LEMMA Updates ==
  ASSUME Types
  PROVE  /\ mutex' = mutex => Updated(mutex["write"], mutex["lifecycle"])
         /\ \A t \in Thread \union {"nobody"} :
              /\ mutex' = [mutex EXCEPT !["write"] = t] => Updated(t, mutex["lifecycle"])
              /\ mutex' = [mutex EXCEPT !["lifecycle"] = t] => Updated(mutex["write"], t)
              /\ mutex' = [mutex EXCEPT !["write"] = t, !["lifecycle"] = t] => Updated(t, t)
              /\ mutex' = [mutex EXCEPT !["socket"] = t] =>
                   Updated(mutex["write"], mutex["lifecycle"])
  BY DEF Types, Updated, Mutex

LEMMA Records ==
  ASSUME Types
  PROVE  /\ \A t \in Thread : local' = local => Recorded(t, local.outgoing[t])
         /\ \A t \in Thread, d \in {"handshake", "max"} :
              local' = [local EXCEPT !.deadline = d] => Recorded(t, local.outgoing[t])
         /\ \A t \in Thread, r \in Received :
              local' = [local EXCEPT !.incoming = r] => Recorded(t, local.outgoing[t])
         /\ \A t \in {"worker", "sender"}, s \in Sent :
              local' = [local EXCEPT !.outgoing[t] = s] => Recorded(t, s)
<1>1. ASSUME NEW t \in Thread, local' = local PROVE Recorded(t, local.outgoing[t])
  BY <1>1 DEF Types, Recorded
<1>2. ASSUME NEW t \in Thread, NEW d \in {"handshake", "max"},
             local' = [local EXCEPT !.deadline = d]
      PROVE  Recorded(t, local.outgoing[t])
  BY <1>2 DEF Types, Recorded, Local
<1>3. ASSUME NEW t \in Thread, NEW r \in Received, local' = [local EXCEPT !.incoming = r]
      PROVE  Recorded(t, local.outgoing[t])
  BY <1>3 DEF Types, Recorded, Local
<1>4. ASSUME NEW t \in {"worker", "sender"}, NEW s \in Sent,
             local' = [local EXCEPT !.outgoing[t] = s]
      PROVE  Recorded(t, s)
  <2>1. PICK o : o = [local.outgoing EXCEPT ![t] = s]
    OBVIOUS
  <2>2. /\ o \in [{"worker", "sender"} -> Sent] /\ o[t] = s
        /\ \A u \in {"worker", "sender"} \ {t} : o[u] = local.outgoing[u]
    BY <2>1 DEF Types, Local
  <2>3. local' = [local EXCEPT !.outgoing = o]
    BY <1>4, <2>1
  <2>4. local' \in Local /\ local'.outgoing = o
    BY <2>2, <2>3 DEF Types, Local
  <2> QED
    BY <2>2, <2>4 DEF Recorded
<1> QED
  BY <1>1, <1>2, <1>3, <1>4

LEMMA HoldStep ==
  ASSUME ConnectionInv, NEW t \in Thread, NEW a, NEW b, NEW c, Moved(t, a, b, c),
         NEW w, NEW l, Updated(w, l), NEW s, Recorded(t, s), UNCHANGED <<conn, wire, env>>,
         w = mutex["write"] \/ mutex["write"] \in {t, "nobody"},
         l = mutex["lifecycle"] \/ mutex["lifecycle"] \in {t, "nobody"},
         fresh' = fresh \/ fresh' = [fresh EXCEPT ![t] = env.current],
         ready_at_deadline' = ready_at_deadline,
         ThreadInv(t, a, b, c)', Second(t) # "unlock" \/ b = "unlock"
  PROVE  ConnectionInv'
<1>1. Types'
  BY DEF ConnectionInv, Types, Moved, Updated, Recorded
<1>2. Guarded(t)
  BY DEF ConnectionInv, Types, Guarded, Updated, Recorded
<1>3. Closed'
  BY DEF ConnectionInv, Closed
<1>4. Frames'
  BY FramesKept DEF ConnectionInv, Frames
<1> QED
  BY <1>1, <1>2, <1>3, <1>4, Step

(* Steps of a thread that take or release mutexes, or keep a record.       *)
LEMMA HoldActions ==
  ASSUME ConnectionInv,
         \/ \E t \in Thread : RequestDisconnect(t) \/ Unlock(t) \/ Send(t)
         \/ ActivateWrite \/ ActivateLifecycle \/ CommitRefused \/ CallSendPacket
         \/ SendPreface \/ Loop \/ ConsumeRecord \/ SendInitialHello
         \/ HandleRecord \/ HandleControl \/ CleanupWrite
  PROVE  ConnectionInv'
<1> USE Points
<1>0. /\ Types /\ "worker" \in Thread /\ "auth" \in Thread /\ "sender" \in Thread
      /\ "nobody" \notin Thread
      /\ \A t \in Thread : ThreadInv(t, Top(t), Second(t), Third(t))
  BY DEF ConnectionInv, Thread
<1> USE DEF ThreadInv, Legal, Locks, HoldsWrite, HoldsLifecycle, Ending, Vouched,
            Disconnecting, Resumed
<1>1. ASSUME NEW t \in Thread, RequestDisconnect(t) PROVE ConnectionInv'
  <2>1. PICK a, b, c : /\ b = Second(t) /\ c = Third(t) /\ Moved(t, a, b, c)
                       /\ \/ Top(t) = "disconnect" /\ a = "shutdown"
                          \/ Top(t) = "timeout" /\ a = "shutdown_timeout"
    BY <1>0, <1>1, Moves DEF RequestDisconnect
  <2>2. Updated(mutex["write"], t) /\ Recorded(t, local.outgoing[t])
    BY <1>0, <1>1, <2>1, Updates, Records DEF RequestDisconnect, Acquire, Free, Sent, Control
  <2>3. ThreadInv(t, a, b, c)'
    BY <1>0, <1>1, <2>1, <2>2
       DEF RequestDisconnect, Updated, Recorded, Types, Acquire, Free, history
  <2> HIDE DEF ThreadInv
  <2> QED
    BY <1>0, <1>1, <2>1, <2>2, <2>3, HoldStep DEF RequestDisconnect, Acquire, Free, history
<1>2. ASSUME NEW t \in Thread, Unlock(t) PROVE ConnectionInv'
  <2>1. PICK b : /\ b = Second(t) /\ Top(t) = "unlock" /\ Third(t) = "none"
                 /\ Moved(t, b, "none", "none")
    BY <1>0, <1>2, Moves DEF Unlock
  <2>2. Updated("nobody", mutex["lifecycle"]) /\ Recorded(t, local.outgoing[t])
    BY <1>0, <1>2, <2>1, Updates, Records DEF Unlock, Acquire, Free, Sent, Control
  <2>3. ThreadInv(t, b, "none", "none")' /\ Second(t) # "unlock" /\ mutex["write"] = t
    BY <1>0, <1>2, <2>1, <2>2 DEF Unlock, Updated, Recorded, Types, Acquire, Free, history
  <2> HIDE DEF ThreadInv
  <2> QED
    BY <1>0, <1>2, <2>1, <2>2, <2>3, HoldStep DEF Unlock, Acquire, Free, history
<1>3. ASSUME NEW t \in Thread, Send(t) PROVE ConnectionInv'
  <2>1. PICK a, b : /\ b = Second(t) /\ Top(t) = "send" /\ Moved(t, a, b, "none")
                    /\ \/ a = "unlock"
                       \/ a = "write" /\ ~conn.stopping /\ local.outgoing[t] \in Control
                       \/ /\ a = "send_check" /\ ~conn.stopping
                          /\ conn.ready /\ conn.authorized_peer
    <3>1. PICK a : a = IF conn.stopping \/ ~conn.ready \/ ~conn.authorized_peer THEN "unlock"
                       ELSE IF local.outgoing[t] \in Control THEN "write" ELSE "send_check"
      OBVIOUS
    <3>2. Goto(t, a) /\ At(t, "send")
      BY <1>3, <3>1 DEF Send
    <3>3. Top(t) = "send" /\ a \in Point
      BY <1>0, <3>1, <3>2, Moves, Points
    <3>4. Third(t) = "none"
      BY <1>0, <3>3
    <3>5. Moved(t, a, Second(t), "none")
      BY <1>0, <3>2, <3>3, <3>4, Moves
    <3> QED
      BY <3>1, <3>3, <3>5
  <2>2. Updated(t, mutex["lifecycle"]) /\ Recorded(t, local.outgoing[t])
    BY <1>0, <1>3, <2>1, Updates, Records DEF Send, Acquire, Free, Sent, Control
  <2>3. ThreadInv(t, a, b, "none")'
    <3>1. /\ mutex'["write"] = t /\ conn' = conn /\ env' = env
          /\ fresh'[t] = env.current /\ t \in {"worker", "sender"}
          /\ conn.fd = "closed" => conn.stopping
      BY <1>0, <1>3, <2>1, <2>2 DEF Send, Updated, Types, ConnectionInv, Closed
    <3>2. Legal(t, a, b, "none") /\ Ending(t, a, b)
      BY <1>0, <2>1, <3>1
    <3>3. local'.outgoing[t] = local.outgoing[t]
      BY <2>2, <3>1 DEF Recorded
    <3>4. Vouched(t, a)'
      BY <2>1, <3>1, <3>3 DEF Control
    <3>5. Locks(t, a, b)'
      BY <1>0, <2>1, <3>1
    <3> QED
      BY <3>1, <3>2, <3>4, <3>5
  <2> HIDE DEF ThreadInv
  <2> QED
    BY <1>0, <1>3, <2>1, <2>2, <2>3, HoldStep DEF Send, Acquire, Free, history
<1>4. CASE ActivateWrite
  <2>1. /\ Top("auth") = "activate_write" /\ Second("auth") = "none"
        /\ Moved("auth", "activate_lifecycle", "none", "none")
    BY <1>0, <1>4, Moves DEF ActivateWrite
  <2>2. Updated("auth", mutex["lifecycle"]) /\ Recorded("auth", local.outgoing["auth"])
    BY <1>0, <1>4, <2>1, Updates, Records DEF ActivateWrite, Acquire, Free, Sent, Control
  <2>3. ThreadInv("auth", "activate_lifecycle", "none", "none")' /\ Second("auth") # "unlock"
    BY <1>0, <1>4, <2>1, <2>2
       DEF ActivateWrite, Updated, Recorded, Types, Acquire, Free, history
  <2> HIDE DEF ThreadInv
  <2> QED
    BY <1>0, <1>4, <2>1, <2>2, <2>3, HoldStep DEF ActivateWrite, Acquire, Free, history
<1>5. CASE ActivateLifecycle /\ Refused
  <2>1. /\ Top("auth") = "activate_lifecycle" /\ Second("auth") = "none"
        /\ Moved("auth", "none", "none", "none")
    BY <1>0, <1>5, Moves DEF ActivateLifecycle
  <2>2. Updated("nobody", mutex["lifecycle"]) /\ Recorded("auth", local.outgoing["auth"])
    BY <1>0, <1>5, <2>1, Updates, Records DEF ActivateLifecycle, Acquire, Free, Sent, Control
  <2>3. ThreadInv("auth", "none", "none", "none")' /\ Second("auth") # "unlock"
          /\ mutex["write"] = "auth"
    BY <1>0, <1>5, <2>1, <2>2
       DEF ActivateLifecycle, Updated, Recorded, Types, Acquire, Free, history
  <2> HIDE DEF ThreadInv
  <2> QED
    BY <1>0, <1>5, <2>1, <2>2, <2>3, HoldStep DEF ActivateLifecycle, Acquire, Free, history
<1>6. CASE ActivateLifecycle /\ ~Refused
  <2>1. /\ Top("auth") = "activate_lifecycle" /\ Second("auth") = "none"
        /\ Moved("auth", "commit", "none", "none")
    BY <1>0, <1>6, Moves DEF ActivateLifecycle
  <2>2. Updated(mutex["write"], "auth") /\ Recorded("auth", local.outgoing["auth"])
    BY <1>0, <1>6, <2>1, Updates, Records DEF ActivateLifecycle, Acquire, Free, Sent, Control
  <2>3. ThreadInv("auth", "commit", "none", "none")' /\ Second("auth") # "unlock"
    BY <1>0, <1>6, <2>1, <2>2
       DEF ActivateLifecycle, Updated, Recorded, Types, Acquire, Free, history, Refused
  <2> HIDE DEF ThreadInv
  <2> QED
    BY <1>0, <1>6, <2>1, <2>2, <2>3, HoldStep DEF ActivateLifecycle, Acquire, Free, history
<1>7. CASE CommitRefused
  <2>1. /\ Top("auth") = "commit" /\ Second("auth") = "none"
        /\ Moved("auth", "none", "none", "none")
    BY <1>0, <1>7, Moves DEF CommitRefused, ReleaseBoth
  <2>2. Updated("nobody", "nobody") /\ Recorded("auth", local.outgoing["auth"])
    BY <1>0, <1>7, <2>1, Updates, Records
       DEF CommitRefused, ReleaseBoth, Acquire, Free, Sent, Control
  <2>3. ThreadInv("auth", "none", "none", "none")' /\ Second("auth") # "unlock"
          /\ mutex["write"] = "auth" /\ mutex["lifecycle"] = "auth"
    BY <1>0, <1>7, <2>1, <2>2
       DEF CommitRefused, ReleaseBoth, Updated, Recorded, Types, Acquire, Free, history
  <2> HIDE DEF ThreadInv
  <2> QED
    BY <1>0, <1>7, <2>1, <2>2, <2>3, HoldStep
       DEF CommitRefused, ReleaseBoth, Acquire, Free, history
<1>8. ASSUME CallSendPacket PROVE ConnectionInv'
  <2>1. /\ Top("sender") = "none" /\ Second("sender") = "none"
        /\ Moved("sender", "send", "none", "none")
    BY <1>0, <1>8, Moves DEF CallSendPacket, CanCall
  <2>2. PICK r \in Sent : Updated(mutex["write"], mutex["lifecycle"]) /\ Recorded("sender", r)
    BY <1>0, <1>8, <2>1, Updates, Records DEF CallSendPacket, Acquire, Free, Sent, Control
  <2>3. ThreadInv("sender", "send", "none", "none")' /\ Second("sender") # "unlock"
    BY <1>0, <1>8, <2>1, <2>2
       DEF CallSendPacket, Updated, Recorded, Types, Acquire, Free, history
  <2> HIDE DEF ThreadInv
  <2> QED
    BY <1>0, <1>8, <2>1, <2>2, <2>3, HoldStep DEF CallSendPacket, Acquire, Free, history
<1>9. CASE SendPreface /\ conn.stopping
  <2>1. /\ Top("worker") = "preface" /\ Second("worker") = "none"
        /\ Moved("worker", "finalize", "none", "none")
    BY <1>0, <1>9, Moves DEF SendPreface
  <2>2. Updated(mutex["write"], mutex["lifecycle"]) /\ Recorded("worker", local.outgoing["worker"])
    BY <1>0, <1>9, <2>1, Updates, Records DEF SendPreface, Acquire, Free, Sent, Control
  <2>3. ThreadInv("worker", "finalize", "none", "none")' /\ Second("worker") # "unlock"
    BY <1>0, <1>9, <2>1, <2>2 DEF SendPreface, Updated, Recorded, Types, Acquire, Free, history
  <2> HIDE DEF ThreadInv
  <2> QED
    BY <1>0, <1>9, <2>1, <2>2, <2>3, HoldStep DEF SendPreface, Acquire, Free, history
<1>10. CASE SendPreface /\ ~conn.stopping
  <2>1. /\ Top("worker") = "preface" /\ Second("worker") = "none"
        /\ Moved("worker", "write", "loop", "none")
    BY <1>0, <1>10, Moves DEF SendPreface
  <2>2. Updated("worker", mutex["lifecycle"]) /\ Recorded("worker", "preface")
    BY <1>0, <1>10, <2>1, Updates, Records DEF SendPreface, Acquire, Free, Sent, Control
  <2>3. ThreadInv("worker", "write", "loop", "none")' /\ Second("worker") # "unlock"
    BY <1>0, <1>10, <2>1, <2>2
       DEF SendPreface, Updated, Recorded, Types, Acquire, Free, history, Closed, ConnectionInv
  <2> HIDE DEF ThreadInv
  <2> QED
    BY <1>0, <1>10, <2>1, <2>2, <2>3, HoldStep DEF SendPreface, Acquire, Free, history
<1>11. CASE Loop
  <2>1. PICK a : /\ Top("worker") = "loop" /\ Second("worker") = "none"
                 /\ Moved("worker", a, "none", "none") /\ a \in {"finalize", "wait"}
    BY <1>0, <1>11, Moves DEF Loop
  <2>2. Updated(mutex["write"], mutex["lifecycle"]) /\ Recorded("worker", local.outgoing["worker"])
    BY <1>0, <1>11, <2>1, Updates, Records DEF Loop, Acquire, Free, Sent, Control
  <2>3. ThreadInv("worker", a, "none", "none")' /\ Second("worker") # "unlock"
    BY <1>0, <1>11, <2>1, <2>2 DEF Loop, Updated, Recorded, Types, Acquire, Free, history
  <2> HIDE DEF ThreadInv
  <2> QED
    BY <1>0, <1>11, <2>1, <2>2, <2>3, HoldStep DEF Loop, Acquire, Free, history
<1>12. CASE ConsumeRecord
  <2>1. /\ Top("worker") = "consume" /\ Second("worker") = "none"
        /\ Moved("worker", "accept", "handle", "none")
    BY <1>0, <1>12, Moves DEF ConsumeRecord
  <2>2. Updated(mutex["write"], mutex["lifecycle"]) /\ Recorded("worker", local.outgoing["worker"])
    BY <1>0, <1>12, <2>1, Updates, Records DEF ConsumeRecord, Acquire, Free, Sent, Control
  <2>3. ThreadInv("worker", "accept", "handle", "none")' /\ Second("worker") # "unlock"
    BY <1>0, <1>12, <2>1, <2>2
       DEF ConsumeRecord, Updated, Recorded, Types, Acquire, Free, history
  <2> HIDE DEF ThreadInv
  <2> QED
    BY <1>0, <1>12, <2>1, <2>2, <2>3, HoldStep DEF ConsumeRecord, Acquire, Free, history
<1>13. CASE SendInitialHello
  <2>1. PICK a, b : /\ Top("worker") = "hello" /\ b = Second("worker")
                    /\ Moved("worker", a, b, "none")
                    /\ \/ a = "disconnect" /\ UNCHANGED <<mutex, local>>
                       \/ /\ a = "write" /\ ~conn.stopping /\ Acquire("worker", "write")
                          /\ local' = [local EXCEPT !.outgoing["worker"] = "hello"]
    BY <1>0, <1>13, Moves DEF SendInitialHello
  <2>2. PICK w, s : Updated(w, mutex["lifecycle"]) /\ (a = "write" => w = "worker"
          /\ s = "hello") /\ w \in {mutex["write"], "worker"} /\ Recorded("worker", s)
    BY <1>0, <1>13, <2>1, Updates, Records DEF SendInitialHello, Acquire, Free, Sent, Control
  <2>3. ThreadInv("worker", a, b, "none")'
    BY <1>0, <1>13, <2>1, <2>2
       DEF SendInitialHello, Updated, Recorded, Types, Acquire, Free, history
  <2> HIDE DEF ThreadInv
  <2> QED
    BY <1>0, <1>13, <2>1, <2>2, <2>3, HoldStep DEF SendInitialHello, Acquire, Free, history
<1>14. CASE HandleRecord
  <2>1. PICK a, b : /\ Top("worker") = "handle" /\ Second("worker") = "none"
                    /\ Moved("worker", a, b, "none")
                    /\ \/ a \in {"loop", "parsed"} /\ b = "none"
                       \/ a = "timeout" /\ b = "loop"
    BY <1>0, <1>14, Moves DEF HandleRecord
  <2>2. Updated(mutex["write"], mutex["lifecycle"]) /\ Recorded("worker", local.outgoing["worker"])
    BY <1>0, <1>14, <2>1, Updates, Records DEF HandleRecord, Acquire, Free, Sent, Control
  <2>3. ThreadInv("worker", a, b, "none")' /\ Second("worker") # "unlock"
    BY <1>0, <1>14, <2>1, <2>2
       DEF HandleRecord, Updated, Recorded, Types, Acquire, Free, history
  <2> HIDE DEF ThreadInv
  <2> QED
    BY <1>0, <1>14, <2>1, <2>2, <2>3, HoldStep DEF HandleRecord, Acquire, Free, history
<1>15. CASE HandleControl
  <2>1. PICK a, b : /\ Top("worker") = "parsed" /\ Second("worker") = "none"
                    /\ Moved("worker", a, b, "none")
                    /\ \/ /\ a = "send" /\ b = "handled"
                          /\ local' = [local EXCEPT !.outgoing["worker"] = "pong"]
                       \/ a = "handled" /\ b = "none" /\ UNCHANGED local
    BY <1>0, <1>15, Moves DEF HandleControl
  <2>2. PICK s : Updated(mutex["write"], mutex["lifecycle"]) /\ Recorded("worker", s)
    BY <1>0, <1>15, <2>1, Updates, Records DEF HandleControl, Acquire, Free, Sent, Control
  <2>3. ThreadInv("worker", a, b, "none")' /\ Second("worker") # "unlock"
    BY <1>0, <1>15, <2>1, <2>2
       DEF HandleControl, Updated, Recorded, Types, Acquire, Free, history
  <2> HIDE DEF ThreadInv
  <2> QED
    BY <1>0, <1>15, <2>1, <2>2, <2>3, HoldStep DEF HandleControl, Acquire, Free, history
<1>16. CASE CleanupWrite
  <2>1. /\ Top("worker") = "cleanup" /\ Second("worker") = "none"
        /\ Moved("worker", "cleanup_socket", "none", "none")
    BY <1>0, <1>16, Moves DEF CleanupWrite
  <2>2. Updated("worker", mutex["lifecycle"]) /\ Recorded("worker", local.outgoing["worker"])
    BY <1>0, <1>16, <2>1, Updates, Records DEF CleanupWrite, Acquire, Free, Sent, Control
  <2>3. ThreadInv("worker", "cleanup_socket", "none", "none")' /\ Second("worker") # "unlock"
    BY <1>0, <1>16, <2>1, <2>2
       DEF CleanupWrite, Updated, Recorded, Types, Acquire, Free, history
  <2> HIDE DEF ThreadInv
  <2> QED
    BY <1>0, <1>16, <2>1, <2>2, <2>3, HoldStep DEF CleanupWrite, Acquire, Free, history
<1> QED
  BY <1>1, <1>2, <1>3, <1>4, <1>5, <1>6, <1>7, <1>8, <1>9, <1>10, <1>11, <1>12, <1>13, <1>14,
     <1>15, <1>16

(* The members of the connection after a step. *)
Members(stopping, ready, authorized_peer, cleaned_up, started, fd) ==
  /\ conn' \in Fields
  /\ conn'.stopping = stopping /\ conn'.ready = ready
  /\ conn'.authorized_peer = authorized_peer /\ conn'.cleaned_up = cleaned_up
  /\ conn'.started = started /\ conn'.fd = fd

LEMMA Assignments ==
  ASSUME Types
  PROVE  LET same == Members(conn.stopping, conn.ready, conn.authorized_peer, conn.cleaned_up,
                             conn.started, conn.fd)
         IN /\ conn' = conn => same
            /\ conn' = [conn EXCEPT !.local_preface_sent = TRUE] => same
            /\ conn' = [conn EXCEPT !.peer_preface_received = TRUE] => same
            /\ conn' = [conn EXCEPT !.peer_hello_received = TRUE] => same
            /\ conn' = [conn EXCEPT !.preface_complete = TRUE] => same
            /\ conn' = [conn EXCEPT !.ready = TRUE] =>
                 Members(conn.stopping, TRUE, conn.authorized_peer, conn.cleaned_up,
                         conn.started, conn.fd)
            /\ conn' = [conn EXCEPT !.authorized_peer = TRUE] =>
                 Members(conn.stopping, conn.ready, TRUE, conn.cleaned_up, conn.started, conn.fd)
            /\ conn' = [conn EXCEPT !.cleaned_up = TRUE] =>
                 Members(conn.stopping, conn.ready, conn.authorized_peer, TRUE, conn.started,
                         conn.fd)
            /\ conn' = [conn EXCEPT !.started = TRUE] =>
                 Members(conn.stopping, conn.ready, conn.authorized_peer, conn.cleaned_up,
                         TRUE, conn.fd)
            /\ conn' = [conn EXCEPT !.fd = "closed"] =>
                 Members(conn.stopping, conn.ready, conn.authorized_peer, conn.cleaned_up,
                         conn.started, "closed")
            /\ \A r \in {"handshake timeout", "other"} :
                 conn' = [conn EXCEPT !.stopping = TRUE, !.fd = "shut", !.reason = r] =>
                   Members(TRUE, conn.ready, conn.authorized_peer, conn.cleaned_up,
                           conn.started, "shut")
<1>1. conn \in Fields
  BY DEF Types
<1>2. ASSUME conn' = conn
      PROVE  Members(conn.stopping, conn.ready, conn.authorized_peer, conn.cleaned_up,
                     conn.started, conn.fd)
  BY <1>1, <1>2 DEF Members
<1>3. ASSUME conn' = [conn EXCEPT !.local_preface_sent = TRUE]
      PROVE  Members(conn.stopping, conn.ready, conn.authorized_peer, conn.cleaned_up,
                     conn.started, conn.fd)
  BY <1>1, <1>3 DEF Fields, Members
<1>4. ASSUME conn' = [conn EXCEPT !.peer_preface_received = TRUE]
      PROVE  Members(conn.stopping, conn.ready, conn.authorized_peer, conn.cleaned_up,
                     conn.started, conn.fd)
  BY <1>1, <1>4 DEF Fields, Members
<1>5. ASSUME conn' = [conn EXCEPT !.peer_hello_received = TRUE]
      PROVE  Members(conn.stopping, conn.ready, conn.authorized_peer, conn.cleaned_up,
                     conn.started, conn.fd)
  BY <1>1, <1>5 DEF Fields, Members
<1>6. ASSUME conn' = [conn EXCEPT !.preface_complete = TRUE]
      PROVE  Members(conn.stopping, conn.ready, conn.authorized_peer, conn.cleaned_up,
                     conn.started, conn.fd)
  BY <1>1, <1>6 DEF Fields, Members
<1>7. ASSUME conn' = [conn EXCEPT !.ready = TRUE]
      PROVE  Members(conn.stopping, TRUE, conn.authorized_peer, conn.cleaned_up, conn.started,
                     conn.fd)
  BY <1>1, <1>7 DEF Fields, Members
<1>8. ASSUME conn' = [conn EXCEPT !.authorized_peer = TRUE]
      PROVE  Members(conn.stopping, conn.ready, TRUE, conn.cleaned_up, conn.started, conn.fd)
  BY <1>1, <1>8 DEF Fields, Members
<1>9. ASSUME conn' = [conn EXCEPT !.cleaned_up = TRUE]
      PROVE  Members(conn.stopping, conn.ready, conn.authorized_peer, TRUE, conn.started, conn.fd)
  BY <1>1, <1>9 DEF Fields, Members
<1>10. ASSUME conn' = [conn EXCEPT !.started = TRUE]
       PROVE  Members(conn.stopping, conn.ready, conn.authorized_peer, conn.cleaned_up, TRUE,
                      conn.fd)
  BY <1>1, <1>10 DEF Fields, Members
<1>11. ASSUME conn' = [conn EXCEPT !.fd = "closed"]
       PROVE  Members(conn.stopping, conn.ready, conn.authorized_peer, conn.cleaned_up,
                      conn.started, "closed")
  BY <1>1, <1>11 DEF Fields, Members
<1>12. ASSUME NEW r \in {"handshake timeout", "other"},
             conn' = [conn EXCEPT !.stopping = TRUE, !.fd = "shut", !.reason = r]
      PROVE  Members(TRUE, conn.ready, conn.authorized_peer, conn.cleaned_up, conn.started, "shut")
  BY <1>1, <1>12 DEF Fields, Members
<1> QED
  BY <1>2, <1>3, <1>4, <1>5, <1>6, <1>7, <1>8, <1>9, <1>10, <1>11, <1>12

LEMMA AssignStep ==
  ASSUME ConnectionInv, NEW t \in Thread, NEW a, NEW b, NEW c, Moved(t, a, b, c),
         Types', Guarded(t), ThreadInv(t, a, b, c)', Closed', wire' = wire,
         Second(t) # "unlock" \/ b = "unlock" \/ conn'.stopping
  PROVE  ConnectionInv'
<1>1. Frames'
  BY FramesKept DEF ConnectionInv, Frames, Guarded
<1> QED
  BY <1>1, Step

(* Steps of a thread that assign members of the connection. *)
LEMMA AssignActions ==
  ASSUME ConnectionInv,
         \/ \E t \in Thread : Shutdown(t)
         \/ CommitPeer \/ CommitReady \/ Start \/ PrefaceSent \/ ConsumePreface
         \/ AcceptPeerPreface \/ HandleHello \/ CleanupSocket \/ Close
  PROVE  ConnectionInv'
<1> USE Points
<1>0. /\ Types /\ "worker" \in Thread /\ "auth" \in Thread
      /\ "nobody" \notin Thread
      /\ \A t \in Thread : ThreadInv(t, Top(t), Second(t), Third(t))
  BY DEF ConnectionInv, Thread
<1> USE DEF ThreadInv, Legal, Locks, HoldsWrite, HoldsLifecycle, Ending, Vouched,
            Disconnecting, Resumed
<1>1. ASSUME NEW t \in Thread, Shutdown(t) PROVE ConnectionInv'
  <2>1. PICK a, b : /\ a = Second(t) /\ b = Third(t) /\ Moved(t, a, b, "none")
                    /\ Top(t) \in {"shutdown", "shutdown_timeout"}
    BY <1>0, <1>1, Moves DEF Shutdown
  <2>2. PICK fd : /\ Members(TRUE, conn.ready, conn.authorized_peer, conn.cleaned_up,
                             conn.started, fd)
                  /\ conn.stopping => fd = conn.fd
                  /\ ~conn.stopping => fd = "shut"
                  /\ Updated(mutex["write"], "nobody")
    <3>1. Updated(mutex["write"], "nobody")
      BY <1>0, <1>1, Updates DEF Shutdown
    <3>2. CASE conn.stopping
      BY <1>0, <1>1, <3>1, <3>2 DEF Shutdown, Types, Members, Fields
    <3>3. CASE ~conn.stopping
      <4>1. PICK r \in {"handshake timeout", "other"} :
              conn' = [conn EXCEPT !.stopping = TRUE, !.fd = "shut", !.reason = r]
        BY <1>1, <3>3 DEF Shutdown
      <4>2. Members(TRUE, conn.ready, conn.authorized_peer, conn.cleaned_up, conn.started, "shut")
        BY <1>0, <4>1, Assignments
      <4> QED
        BY <3>1, <3>3, <4>2
    <3> QED
      BY <3>2, <3>3
  <2>3. mutex["lifecycle"] = t /\ (fd = "closed" => conn.fd = "closed" /\ conn.stopping)
    BY <1>0, <2>1, <2>2 DEF ConnectionInv, Closed
  <2>4. UNCHANGED <<local, wire, env, fresh>>
    BY <1>1 DEF Shutdown, history
  <2>5. Closed'
    BY <2>2, <2>3, <2>4 DEF Members, ConnectionInv, Closed
  <2>6. ThreadInv(t, a, b, "none")'
    <3>1. Legal(t, a, b, "none") /\ a \in {"none", "unlock", "finalize", "cleanup"} \union Resumed
      BY <1>0, <2>1
    <3>2. Locks(t, a, b)'
      BY <1>0, <2>1, <2>2, <3>1 DEF Updated
    <3>3. Ending(t, a, b)'
      BY <1>0, <2>1, <2>2, <2>3, <2>4, <3>1 DEF Members
    <3>4. Vouched(t, a)'
      BY <3>1
    <3> QED
      BY <3>1, <3>2, <3>3, <3>4
  <2> HIDE DEF ThreadInv
  <2>7. Types'
    BY <1>0, <1>1, <2>1, <2>2 DEF Shutdown, Members, Updated, Types, Moved, history
  <2>8. Guarded(t)
    BY <2>2, <2>3, <2>4 DEF Members, Updated, Guarded
  <2> QED
    BY <1>0, <2>1, <2>2, <2>4, <2>5, <2>6, <2>7, <2>8, AssignStep DEF Members
<1>2. CASE CommitPeer
  <2>1. /\ Top("auth") = "commit" /\ Second("auth") = "none"
        /\ Moved("auth", "commit_ready", "none", "none")
    BY <1>0, <1>2, Moves DEF CommitPeer
  <2>2. /\ Members(conn.stopping, conn.ready, TRUE, conn.cleaned_up, conn.started, conn.fd)
        /\ Updated(mutex["write"], mutex["lifecycle"])
    BY <1>0, <1>2, <2>1, Assignments, Updates DEF CommitPeer, Acquire, Free
  <2>3. ThreadInv("auth", "commit_ready", "none", "none")' /\ Second("auth") # "unlock"
    BY <1>0, <1>2, <2>1, <2>2 DEF CommitPeer, Members, Updated, Types, history
  <2>4. Closed'
    BY <1>0, <1>2, <2>1, <2>2 DEF CommitPeer, Members, ConnectionInv, Closed
  <2> HIDE DEF ThreadInv
  <2>5. Types'
    BY <1>0, <1>2, <2>1, <2>2 DEF CommitPeer, Members, Updated, Types, Moved, history
  <2>6. UNCHANGED <<local, wire, env, fresh>>
    BY <1>2 DEF CommitPeer, history
  <2>7. Guarded("auth")
    BY <2>2, <2>3, <2>6 DEF Members, Updated, Guarded
  <2> QED
    BY <1>0, <1>2, <2>1, <2>3, <2>4, <2>5, <2>6, <2>7, AssignStep
<1>3. CASE CommitReady
  <2>1. /\ Top("auth") = "commit_ready" /\ Second("auth") = "none"
        /\ Moved("auth", "none", "none", "none")
    BY <1>0, <1>3, Moves DEF CommitReady, ReleaseBoth
  <2>2. /\ Members(conn.stopping, TRUE, conn.authorized_peer, conn.cleaned_up, conn.started,
                   conn.fd)
        /\ Updated("nobody", "nobody")
    BY <1>0, <1>3, <2>1, Assignments, Updates DEF CommitReady, ReleaseBoth, Acquire, Free
  <2>3. ThreadInv("auth", "none", "none", "none")' /\ Second("auth") # "unlock"
          /\ mutex["write"] = "auth" /\ mutex["lifecycle"] = "auth"
    BY <1>0, <1>3, <2>1, <2>2 DEF CommitReady, ReleaseBoth, Members, Updated, Types, history
  <2>4. Closed'
    BY <1>0, <1>3, <2>1, <2>2 DEF CommitReady, ReleaseBoth, Members, ConnectionInv, Closed
  <2> HIDE DEF ThreadInv
  <2>5. Types'
    BY <1>0, <1>3, <2>1, <2>2
       DEF CommitReady, ReleaseBoth, Members, Updated, Types, Moved, history
  <2>6. UNCHANGED <<local, wire, env, fresh>>
    BY <1>3 DEF CommitReady, ReleaseBoth, history
  <2>7. Guarded("auth")
    BY <2>2, <2>3, <2>6 DEF Members, Updated, Guarded
  <2> QED
    BY <1>0, <1>3, <2>1, <2>3, <2>4, <2>5, <2>6, <2>7, AssignStep
<1>4. CASE Start
  <2>1. PICK a : a \in {"preface", "finalize"} /\ Moved("worker", a, "none", "none")
    BY <1>0, <1>4, Moves DEF Start
  <2>2. /\ Members(conn.stopping, conn.ready, conn.authorized_peer, conn.cleaned_up, TRUE, conn.fd)
        /\ Updated(mutex["write"], mutex["lifecycle"])
    BY <1>0, <1>4, <2>1, Assignments, Updates DEF Start, Acquire, Free
  <2>3. ThreadInv("worker", a, "none", "none")' /\ Second("worker") # "unlock"
    BY <1>0, <1>4, <2>1, <2>2 DEF Start, Members, Updated, Types, history, ConnectionInv, Closed
  <2>4. Closed'
    BY <1>0, <1>4, <2>1, <2>2 DEF Start, Members, ConnectionInv, Closed
  <2> HIDE DEF ThreadInv
  <2>5. Types'
    BY <1>0, <1>4, <2>1, <2>2 DEF Start, Members, Updated, Types, Moved, history
  <2>6. UNCHANGED <<local, wire, env, fresh>>
    BY <1>4 DEF Start, history
  <2>7. Guarded("worker")
    BY <2>2, <2>3, <2>6 DEF Members, Updated, Guarded
  <2> QED
    BY <1>0, <1>4, <2>1, <2>3, <2>4, <2>5, <2>6, <2>7, AssignStep
<1>5. CASE PrefaceSent
  <2>1. PICK b : /\ b = Second("worker") /\ Top("worker") = "preface_sent"
                 /\ Moved("worker", "unlock", b, "none")
    BY <1>0, <1>5, Moves DEF PrefaceSent
  <2>2. /\ Members(conn.stopping, conn.ready, conn.authorized_peer, conn.cleaned_up,
                   conn.started, conn.fd)
        /\ Updated(mutex["write"], mutex["lifecycle"])
    BY <1>0, <1>5, <2>1, Assignments, Updates DEF PrefaceSent, Acquire, Free
  <2>3. ThreadInv("worker", "unlock", b, "none")' /\ Second("worker") # "unlock"
    BY <1>0, <1>5, <2>1, <2>2 DEF PrefaceSent, Members, Updated, Types, history
  <2>4. Closed'
    BY <1>0, <1>5, <2>1, <2>2 DEF PrefaceSent, Members, ConnectionInv, Closed
  <2> HIDE DEF ThreadInv
  <2>5. Types'
    BY <1>0, <1>5, <2>1, <2>2 DEF PrefaceSent, Members, Updated, Types, Moved, history
  <2>6. UNCHANGED <<local, wire, env, fresh>>
    BY <1>5 DEF PrefaceSent, history
  <2>7. Guarded("worker")
    BY <2>2, <2>3, <2>6 DEF Members, Updated, Guarded
  <2> QED
    BY <1>0, <1>5, <2>1, <2>3, <2>4, <2>5, <2>6, <2>7, AssignStep
<1>6. CASE ConsumePreface
  <2>1. /\ Top("worker") = "consume" /\ Second("worker") = "none"
        /\ Moved("worker", "consume", "none", "none")
    BY <1>0, <1>6, Moves DEF ConsumePreface, Moved, Top, Second, Third, Types
  <2>2. /\ Members(conn.stopping, conn.ready, conn.authorized_peer, conn.cleaned_up,
                   conn.started, conn.fd)
        /\ Updated(mutex["write"], mutex["lifecycle"])
    BY <1>0, <1>6, <2>1, Assignments, Updates DEF ConsumePreface, Acquire, Free
  <2>3. ThreadInv("worker", "consume", "none", "none")' /\ Second("worker") # "unlock"
    BY <1>0, <1>6, <2>1, <2>2 DEF ConsumePreface, Members, Updated, Types, history
  <2>4. Closed'
    BY <1>0, <1>6, <2>1, <2>2 DEF ConsumePreface, Members, ConnectionInv, Closed
  <2> HIDE DEF ThreadInv
  <2>5. Types'
    BY <1>0, <1>6, <2>1, <2>2 DEF ConsumePreface, Members, Updated, Types, Moved, history
  <2>6. UNCHANGED <<local, wire, env, fresh>>
    BY <1>6 DEF ConsumePreface, history
  <2>7. Guarded("worker")
    BY <2>2, <2>3, <2>6 DEF Members, Updated, Guarded
  <2> QED
    BY <1>0, <1>6, <2>1, <2>3, <2>4, <2>5, <2>6, <2>7, AssignStep
<1>7. CASE AcceptPeerPreface
  <2>1. PICK a, b : /\ Top("worker") = "accept" /\ Second("worker") \in Resumed
                    /\ Moved("worker", a, b, "none")
                    /\ \/ a = Second("worker") /\ b = "none"
                       \/ a = "hello" /\ b = Second("worker")
    BY <1>0, <1>7, Moves DEF AcceptPeerPreface
  <2>2. /\ Members(conn.stopping, conn.ready, conn.authorized_peer, conn.cleaned_up,
                   conn.started, conn.fd)
        /\ Updated(mutex["write"], mutex["lifecycle"])
    BY <1>0, <1>7, <2>1, Assignments, Updates DEF AcceptPeerPreface, Acquire, Free
  <2>3. ThreadInv("worker", a, b, "none")' /\ Second("worker") # "unlock"
    BY <1>0, <1>7, <2>1, <2>2 DEF AcceptPeerPreface, Members, Updated, Types, history
  <2>4. Closed'
    BY <1>0, <1>7, <2>1, <2>2 DEF AcceptPeerPreface, Members, ConnectionInv, Closed
  <2> HIDE DEF ThreadInv
  <2>5. Types'
    BY <1>0, <1>7, <2>1, <2>2 DEF AcceptPeerPreface, Members, Updated, Types, Moved, history
  <2>6. UNCHANGED <<local, wire, env, fresh>>
    BY <1>7 DEF AcceptPeerPreface, history
  <2>7. Guarded("worker")
    BY <2>2, <2>3, <2>6 DEF Members, Updated, Guarded
  <2> QED
    BY <1>0, <1>7, <2>1, <2>3, <2>4, <2>5, <2>6, <2>7, AssignStep
<1>8. CASE HandleHello
  <2>1. /\ Top("worker") = "parsed" /\ Second("worker") = "none"
        /\ Moved("worker", "handled", "none", "none")
    BY <1>0, <1>8, Moves DEF HandleHello
  <2>2. /\ Members(conn.stopping, conn.ready, conn.authorized_peer, conn.cleaned_up,
                   conn.started, conn.fd)
        /\ Updated(mutex["write"], mutex["lifecycle"])
    BY <1>0, <1>8, <2>1, Assignments, Updates DEF HandleHello, Acquire, Free
  <2>3. ThreadInv("worker", "handled", "none", "none")' /\ Second("worker") # "unlock"
    BY <1>0, <1>8, <2>1, <2>2 DEF HandleHello, Members, Updated, Types, history
  <2>4. Closed'
    BY <1>0, <1>8, <2>1, <2>2 DEF HandleHello, Members, ConnectionInv, Closed
  <2> HIDE DEF ThreadInv
  <2>5. Types'
    BY <1>0, <1>8, <2>1, <2>2 DEF HandleHello, Members, Updated, Types, Moved, history
  <2>6. UNCHANGED <<local, wire, env, fresh>>
    BY <1>8 DEF HandleHello, history
  <2>7. Guarded("worker")
    BY <2>2, <2>3, <2>6 DEF Members, Updated, Guarded
  <2> QED
    BY <1>0, <1>8, <2>1, <2>3, <2>4, <2>5, <2>6, <2>7, AssignStep
<1>9. CASE CleanupSocket
  <2>1. PICK a : /\ Top("worker") = "cleanup_socket" /\ Second("worker") = "none"
                 /\ Moved("worker", a, "none", "none")
                 /\ a = IF conn.cleaned_up THEN "unlock" ELSE "close"
    BY <1>0, <1>9, Moves DEF CleanupSocket
  <2>2. /\ Members(conn.stopping, conn.ready, conn.authorized_peer, TRUE, conn.started, conn.fd)
        /\ Updated(mutex["write"], mutex["lifecycle"])
    BY <1>0, <1>9, <2>1, Assignments, Updates DEF CleanupSocket, Acquire, Free
  <2>3. ThreadInv("worker", a, "none", "none")' /\ Second("worker") # "unlock"
    BY <1>0, <1>9, <2>1, <2>2
       DEF CleanupSocket, Members, Updated, Types, history, ConnectionInv, Closed
  <2>4. Closed'
    BY <1>0, <1>9, <2>1, <2>2 DEF CleanupSocket, Members, ConnectionInv, Closed
  <2> HIDE DEF ThreadInv
  <2>5. Types'
    BY <1>0, <1>9, <2>1, <2>2 DEF CleanupSocket, Members, Updated, Types, Moved, history
  <2>6. UNCHANGED <<local, wire, env, fresh>>
    BY <1>9 DEF CleanupSocket, history
  <2>7. Guarded("worker")
    BY <2>2, <2>3, <2>6 DEF Members, Updated, Guarded
  <2> QED
    BY <1>0, <1>9, <2>1, <2>3, <2>4, <2>5, <2>6, <2>7, AssignStep
<1>10. CASE Close
  <2>1. /\ Top("worker") = "close" /\ Second("worker") = "none"
        /\ Moved("worker", "unlock", "none", "none")
    BY <1>0, <1>10, Moves DEF Close
  <2>2. /\ Members(conn.stopping, conn.ready, conn.authorized_peer, conn.cleaned_up,
                   conn.started, "closed")
        /\ Updated(mutex["write"], mutex["lifecycle"])
    BY <1>0, <1>10, <2>1, Assignments, Updates DEF Close, Acquire, Free
  <2>3. ThreadInv("worker", "unlock", "none", "none")' /\ Second("worker") # "unlock"
          /\ mutex["write"] = "worker"
    BY <1>0, <1>10, <2>1, <2>2 DEF Close, Members, Updated, Types, history
  <2>4. Closed'
    BY <1>0, <1>10, <2>1, <2>2 DEF Close, Members, ConnectionInv, Closed
  <2> HIDE DEF ThreadInv
  <2>5. Types'
    BY <1>0, <1>10, <2>1, <2>2 DEF Close, Members, Updated, Types, Moved, history
  <2>6. UNCHANGED <<local, wire, env, fresh>>
    BY <1>10 DEF Close, history
  <2>7. Guarded("worker")
    BY <2>2, <2>3, <2>6 DEF Members, Updated, Guarded
  <2> QED
    BY <1>0, <1>10, <2>1, <2>3, <2>4, <2>5, <2>6, <2>7, AssignStep
<1> QED
  BY <1>1, <1>2, <1>3, <1>4, <1>5, <1>6, <1>7, <1>8, <1>9, <1>10

(* Steps of a thread that write to the socket. *)
LEMMA WriteActions ==
  ASSUME ConnectionInv, NEW t \in Thread, WritePiece(t) \/ WriteAll(t) \/ WriteFails(t)
  PROVE  ConnectionInv'
<1> USE Points
<1>0. Types /\ ThreadInv(t, Top(t), Second(t), Third(t)) /\ Closed /\ Frames
  BY DEF ConnectionInv
<1> USE DEF ThreadInv, Legal, Locks, HoldsWrite, HoldsLifecycle, Ending, Vouched,
            Disconnecting, Resumed
<1>1. PICK r : r = Second(t)
  OBVIOUS
<1>2. /\ Top(t) = "write" /\ r \in Resumed \union {"none"} /\ Third(t) = "none"
      /\ t \in {"worker", "sender"} /\ mutex["write"] = t
  BY <1>0, <1>1, Moves DEF WritePiece, WriteAll, WriteFails
<1>3. wire.torn => conn.stopping
  <2>1. ASSUME NEW u \in Thread, Second(u) = "unlock" PROVE FALSE
    <3>1. mutex["write"] = u
      BY <2>1 DEF ConnectionInv
    <3> QED
      BY <1>1, <1>2, <2>1, <3>1
  <2> QED
    BY <1>0, <2>1 DEF Frames
<1>4. UNCHANGED <<conn, mutex, local, env, fresh, ready_at_deadline>>
  BY DEF WritePiece, WriteAll, WriteFails, history
<1>5. Guarded(t) /\ Closed'
  BY <1>0, <1>4 DEF Guarded, Closed
<1>6. ASSUME NEW a, NEW b, NEW c, Moved(t, a, b, c), wire' \in Wire, ThreadInv(t, a, b, c)',
             ~wire'.corrupt, wire'.torn => conn.stopping \/ b = "unlock"
      PROVE  ConnectionInv'
  <2> HIDE DEF ThreadInv
  <2>1. Types'
    BY <1>0, <1>4, <1>6 DEF Types, Moved
  <2>2. Frames'
    BY <1>4, <1>6, FramesKept
  <2> QED
    BY <1>5, <1>6, <2>1, <2>2, Step
<1>7. CASE WritePiece(t) \/ WriteAll(t)
  <2>1. ~wire.torn /\ wire \in Wire /\ ~wire.corrupt
    BY <1>0, <1>3, <1>7 DEF WritePiece, WriteAll, Types, Frames
  <2>2. PICK f \in BOOLEAN : wire' = Written(t, f)
    BY <1>7 DEF WritePiece, WriteAll
  <2>3. wire' \in Wire /\ ~wire'.corrupt /\ wire'.torn = wire.torn
    BY <2>1, <2>2 DEF Written, Wire
  <2>4. PICK a \in {"write", "preface_sent", "unlock"} :
          /\ Moved(t, a, r, "none")
          /\ a = "preface_sent" => local.outgoing[t] = "preface"
          /\ a = "write" => pc' = pc
    <3>1. CASE WritePiece(t)
      BY <1>0, <1>1, <1>2, <3>1 DEF WritePiece, Types, Moved, Top, Second, Third
    <3>2. CASE WriteAll(t)
      BY <1>0, <1>1, <1>2, <3>2, Moves DEF WriteAll
    <3> QED
      BY <1>7, <3>1, <3>2
  <2>5. ThreadInv(t, a, r, "none")'
    BY <1>0, <1>1, <1>2, <1>4, <2>4
  <2> QED
    BY <1>6, <2>1, <2>3, <2>4, <2>5
<1>8. CASE WriteFails(t)
  <2>1. Moved(t, "disconnect", "unlock", r)
    BY <1>0, <1>1, <1>2, <1>8, Moves DEF WriteFails
  <2>2. wire' \in Wire /\ ~wire'.corrupt
    BY <1>0, <1>8 DEF WriteFails, Types, Wire, Frames
  <2>3. ThreadInv(t, "disconnect", "unlock", r)'
    BY <1>0, <1>1, <1>2, <1>4
  <2> QED
    BY <1>6, <2>1, <2>2, <2>3
<1> QED
  BY <1>7, <1>8

(* The environment: the deadline passes, the trust record changes, the     *)
(* last reference is dropped.                                              *)
LEMMA EnvironmentActions ==
  ASSUME ConnectionInv, HandshakeDeadline \/ Revoke \/ Release
  PROVE  ConnectionInv'
<1>0. /\ Types /\ Closed /\ Frames /\ "worker" \in Thread
      /\ \A t \in Thread : ThreadInv(t, Top(t), Second(t), Third(t))
  BY DEF ConnectionInv, Thread
<1>1. /\ env' \in [late : BOOLEAN, current : BOOLEAN, released : BOOLEAN]
      /\ env'.current => env.current
      /\ env.released => env'.released
      /\ ready_at_deadline' \in BOOLEAN
  BY <1>0 DEF Types, HandshakeDeadline, Revoke, Release, history, Fields
<1>2. UNCHANGED <<conn, mutex, local, wire, fresh>>
  BY DEF HandshakeDeadline, Revoke, Release, history
<1>3. Guarded("worker") /\ Closed'
  BY <1>0, <1>1, <1>2 DEF Guarded, Closed
<1>4. ASSUME NEW a, NEW b, NEW c, Moved("worker", a, b, c), ThreadInv("worker", a, b, c)',
             Second("worker") # "unlock" \/ b = "unlock"
      PROVE  ConnectionInv'
  <2>1. Types'
    BY <1>0, <1>1, <1>2, <1>4 DEF Types, Moved
  <2>2. Frames'
    BY <1>0, <1>2, <1>4, FramesKept DEF Frames
  <2> QED
    BY <1>0, <1>3, <1>4, <2>1, <2>2, Step
<1>5. CASE HandshakeDeadline \/ Revoke
  <2>1. PICK a, b, c : a = Top("worker") /\ b = Second("worker") /\ c = Third("worker")
    OBVIOUS
  <2>2. Moved("worker", a, b, c)
    BY <1>0, <1>5, <2>1 DEF HandshakeDeadline, Revoke, Types, Moved, Top, Second, Third
  <2>3. ThreadInv("worker", a, b, c)'
    BY <1>0, <1>1, <1>2, <2>1 DEF ThreadInv, Legal, Locks, Ending, Vouched
  <2> QED
    BY <1>4, <2>1, <2>2, <2>3
<1>6. CASE Release
  <2>1. \A t \in Thread : Top(t) = "none"
    BY <1>0, <1>6, Moves DEF Release
  <2>2. Moved("worker", "finalize", "none", "none")
    BY <1>0, <1>6, Moves, Points DEF Release
  <2>3. env'.released
    BY <1>0, <1>6 DEF Release, Types
  <2>4. ThreadInv("worker", "finalize", "none", "none")'
    BY <2>3 DEF ThreadInv, Legal, Locks, HoldsWrite, HoldsLifecycle, Ending, Vouched
  <2>5. Second("worker") # "unlock"
    BY <1>0, <2>1 DEF ThreadInv, Legal, Disconnecting
  <2> QED
    BY <1>4, <2>2, <2>4, <2>5
<1> QED
  BY <1>5, <1>6
-----------------------------------------------------------------------------
LEMMA InitConnection == Init => ConnectionInv
<1> SUFFICES ASSUME Init PROVE ConnectionInv
  OBVIOUS
<1>1. Types
  <2>1. conn \in Fields
    BY DEF Init, Fields
  <2>2. pc \in [Thread -> Seq(Point)] /\ \A t \in Thread : Len(pc[t]) <= 3
    BY DEF Init
  <2>3. local \in Local
    BY DEF Init, Local, Received, Sent, Control
  <2>4. /\ mutex \in [Mutex -> Thread \union {"nobody"}] /\ wire \in Wire
        /\ env \in [late : BOOLEAN, current : BOOLEAN, released : BOOLEAN]
        /\ fresh \in [Thread -> BOOLEAN] /\ ready_at_deadline \in BOOLEAN
    BY DEF Init, Wire
  <2> QED
    BY <2>1, <2>2, <2>3, <2>4 DEF Types
<1>2. ASSUME NEW t \in Thread PROVE Top(t) = "none" /\ Second(t) = "none" /\ Third(t) = "none"
  <2>1. pc[t] = <<>>
    BY DEF Init
  <2> QED
    BY <2>1 DEF Top, Second, Third, Entry
<1>3. ASSUME NEW t \in Thread PROVE ThreadInv(t, "none", "none", "none")
  BY DEF Init, Thread, ThreadInv, Legal, Locks, HoldsWrite, HoldsLifecycle, Ending, Vouched
<1>4. Closed /\ Frames
  BY DEF Init, Closed, Frames
<1> QED
  BY <1>1, <1>2, <1>3, <1>4 DEF ConnectionInv

LEMMA ConnectionPreserved == ConnectionInv /\ [Next]_vars => ConnectionInv'
<1> SUFFICES ASSUME ConnectionInv, [Next]_vars PROVE ConnectionInv'
  OBVIOUS
<1>1. CASE UNCHANGED vars
  <2>1. /\ conn' = conn /\ mutex' = mutex /\ pc' = pc /\ local' = local /\ wire' = wire
        /\ env' = env /\ fresh' = fresh /\ ready_at_deadline' = ready_at_deadline
    BY <1>1 DEF vars, history
  <2>2. Types'
    BY <2>1 DEF ConnectionInv, Types
  <2>3. ASSUME NEW t \in Thread PROVE ThreadInv(t, Top(t), Second(t), Third(t))'
    BY <2>1 DEF ConnectionInv, ThreadInv, Legal, Locks, Ending, Vouched, Top, Second, Third
  <2>4. Closed' /\ Frames'
    BY <2>1 DEF ConnectionInv, Closed, Frames, Second
  <2> QED
    BY <2>2, <2>3, <2>4 DEF ConnectionInv
<1>2. CASE Next
  BY <1>2, PureActions, HoldActions, AssignActions, WriteActions, EnvironmentActions
     DEF Next, Shared, Auth, Worker
<1> QED
  BY <1>1, <1>2

(* Whatever the threads do, each one is at a legal place of the code,      *)
(* holds the mutexes that its place says, and finds the flags there that   *)
(* it has checked or set.                                                  *)
THEOREM ConnectionInvariant == Spec => []ConnectionInv
<1>1. ConnectionInv /\ [Next]_vars => ConnectionInv'
  BY ConnectionPreserved
<1> QED
  BY <1>1, InitConnection, PTL DEF Spec

(* Members, mutexes and call stacks keep their types and their depth.      *)
THEOREM ConnectionTypes == Spec => []TypeOK
<1>1. ConnectionInv => TypeOK
  BY DEF ConnectionInv, Types, TypeOK, Local
<1> QED
  BY <1>1, ConnectionInvariant, PTL

(* The descriptor is not used after it was closed: once it is, the writers *)
(* find stopping_, the worker is past its loop, and cleaned_up_ keeps the  *)
(* second cleanup from closing it again.                                   *)
THEOREM ClosedUnused == Spec => []ClosedIsUnused
<1>1. ConnectionInv => ClosedIsUnused
  <2> SUFFICES ASSUME ConnectionInv, conn.fd = "closed", NEW t \in Thread PROVE ~UsesDescriptor(t)
    BY DEF ClosedIsUnused
  <2>1. Types /\ ThreadInv(t, Top(t), Second(t), Third(t)) /\ conn.stopping
    BY DEF ConnectionInv, Closed
  <2>2. Top(t) \notin {"write", "poll", "close"}
    BY <2>1 DEF ThreadInv, Legal, Ending, Disconnecting, Resumed
  <2> QED
    BY <2>1, <2>2, Moves, Points DEF UsesDescriptor
<1> QED
  BY <1>1, ConnectionInvariant, PTL

(* Nothing is written after an abandoned frame: the thread that left it    *)
(* keeps write_mutex_ until request_disconnect has set stopping_.          *)
THEOREM FramesWhole == Spec => []FramesAreWhole
<1>1. ConnectionInv => FramesAreWhole
  BY DEF ConnectionInv, Frames, FramesAreWhole
<1> QED
  BY <1>1, ConnectionInvariant, PTL

(* Application records are written and dispatched only under an            *)
(* authorization that was looked up after the thread began with them.      *)
THEOREM PrivilegedAuthorized == Spec => []PrivilegedIsAuthorized
<1>1. ConnectionInv => PrivilegedIsAuthorized
  <2> SUFFICES ASSUME ConnectionInv, NEW t \in Thread,
                      (At(t, "write") /\ local.outgoing[t] = "message") \/ At(t, "dispatch")
               PROVE  conn.ready /\ conn.authorized_peer /\ fresh[t]
    BY DEF PrivilegedIsAuthorized
  <2>1. Types /\ Vouched(t, Top(t))
    BY DEF ConnectionInv, ThreadInv
  <2>2. (Top(t) = "write" /\ local.outgoing[t] = "message") \/ Top(t) = "dispatch"
    BY <2>1, Moves, Points
  <2> QED
    BY <2>1, <2>2 DEF Vouched
<1> QED
  BY <1>1, ConnectionInvariant, PTL

(* ready_ is set only by the commit, which holds lifecycle_mutex_ since it *)
(* read stopping_; request_disconnect waits for that mutex.                *)
THEOREM ReadyNotStopping == Spec => ReadyExcludesStopping
<1>1. ASSUME ConnectionInv, [Next]_vars, ~conn.ready, conn'.ready PROVE ~conn'.stopping
  <2>1. Types /\ "auth" \in Thread /\ ThreadInv("auth", Top("auth"), Second("auth"), Third("auth"))
    BY <1>1 DEF ConnectionInv, Thread
  <2>2. CommitReady
    <3>1. conn'.ready # conn.ready
      BY <1>1
    <3>2. ~(conn' = conn)
      BY <3>1
    <3>3. ASSUME NEW t \in Thread PROVE ~Shared(t)
      BY <2>1, <3>1
         DEF Types, Fields, Shared, RequestDisconnect, Shutdown, WritePiece, WriteAll,
             WriteFails, Unlock, Send, SendCheck
    <3>4. ~(Activate \/ ActivateWrite \/ ActivateLifecycle \/ CommitRefused \/ CommitPeer)
      BY <2>1, <3>1
         DEF Types, Fields, Activate, ActivateWrite, ActivateLifecycle, CommitRefused,
             CommitPeer
    <3>5. ~(SendPreface \/ PrefaceSent \/ AcceptPeerPreface \/ HandleHello \/ CleanupSocket \/ Close)
      BY <2>1, <3>1
         DEF Types, Fields, SendPreface, PrefaceSent, AcceptPeerPreface, HandleHello,
             CleanupSocket, Close
    <3>6. ~(Loop \/ Wait \/ PollTimeout \/ ConsumeRecord \/ ConsumeFails \/ ConsumeEnd)
      BY <3>2 DEF Loop, Wait, PollTimeout, ConsumeRecord, ConsumeFails, ConsumeEnd
    <3>7. ~ConsumePreface
      BY <2>1, <3>1 DEF Types, Fields, ConsumePreface
    <3>8. ~(SendInitialHello \/ HandleRecord \/ HandleRejected \/ HandleControl \/ HandleMessage)
      BY <3>2 DEF SendInitialHello, HandleRecord, HandleRejected, HandleControl, HandleMessage
    <3>9. ~(Dispatch \/ Handled \/ Finalize \/ CleanupWrite \/ PollReady)
      BY <3>2 DEF Dispatch, Handled, Finalize, CleanupWrite, PollReady
    <3>10. ~(Authorize \/ Start \/ CallSendPacket \/ CallDisconnect \/ Release)
      BY <2>1, <3>1 DEF Types, Fields, Authorize, Start, CallSendPacket, CallDisconnect, Release
    <3>11. ~(HandshakeDeadline \/ Revoke \/ UNCHANGED vars)
      BY <3>2 DEF HandshakeDeadline, Revoke, vars
    <3> QED
      BY <1>1, <3>3, <3>4, <3>5, <3>6, <3>7, <3>8, <3>9, <3>10, <3>11 DEF Next, Auth, Worker
  <2>3. Top("auth") = "commit_ready"
    BY <2>1, <2>2, Moves, Points DEF CommitReady
  <2>4. ~conn.stopping
    BY <2>1, <2>3 DEF ThreadInv, Ending
  <2> QED
    BY <2>1, <2>2, <2>4 DEF CommitReady, Types, Fields
<1>2. ConnectionInv /\ [Next]_vars => [~conn.ready /\ conn'.ready => ~conn'.stopping]_vars
  BY <1>1
<1> QED
  BY <1>2, ConnectionInvariant, PTL DEF Spec, ReadyExcludesStopping
=============================================================================
