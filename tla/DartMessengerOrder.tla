------------------------- MODULE DartMessengerOrder -------------------------
(***************************************************************************)
(* The order in which DartMessenger handles messages, for any number of    *)
(* threads and messages.                                                   *)
(***************************************************************************)
EXTENDS DartMessengerProofs

\* The provers of a leaf that names none, in the order they are tried.
USE SMT, Zenon, Z3T(30), SMTT(60)

Looper(h) == IF h = NoHandler THEN "platform" ELSE h

\* b may be handled after a.
MayFollow(a, b) ==
    /\ Looper(a.handler) = Looper(b.handler) /\ a.handler # "concurrent"
    /\ from[a.message] = from[b.message] /\ b.message \notin deferred
    => a.message <= b.message

\* Message m is the last one of s.
Newest(s, m) == from[m] = s /\ \A n \in 1 .. Len(from) : from[n] = s => n <= m

\* Message m is among the runnables rs.
Has(rs, m) == \E i \in DOMAIN rs : rs[i].message = m

\* Message m was deferred, or is the last one of s.
MayOvertake(s, m) == m <= Len(from) /\ (m \in deferred \/ Newest(s, m))

\* What a thread has to dispatch was deferred, or is the last of its messages.
DispatchOrder ==
    /\ \A i \in DOMAIN bufferedMessages :
          bufferedMessages[i] \in deferred /\ bufferedMessages[i] <= Len(from)
    /\ \A d \in Dispatcher, m \in Message : Has(dispatching[d], m) => MayOvertake(d, m)

\* Only messages that were sent are on their way.
SentInvariant ==
    /\ \A i \in DOMAIN platformQueue : platformQueue[i].message <= Len(from)
    /\ \A i \in DOMAIN queue : queue[i].message <= Len(from)
    /\ \A r \in concurrent : r.message <= Len(from)
    /\ \A t \in Thread : run[t] # NoRunnable => run[t].message <= Len(from)
    /\ \A i \in DOMAIN handled : handled[i].message <= Len(from)

\* The runnables s may follow those before them in s, those that rn says are
\* running and those in hd, which were handled.
FollowsAll(s, rn, hd) ==
    \A j \in DOMAIN s :
        /\ \A i \in DOMAIN s : i < j => MayFollow(s[i], s[j])
        /\ \A t \in Thread : rn[t] # NoRunnable => MayFollow(rn[t], s[j])
        /\ \A i \in DOMAIN hd : MayFollow(hd[i], s[j])

\* So may those that run and whose handler was not called yet.
RunsFollow(rn, hd) ==
    \A t \in Thread : rn[t] # NoRunnable /\ (\A i \in DOMAIN hd : hd[i] # rn[t]) =>
        \A i \in DOMAIN hd : MayFollow(hd[i], rn[t])

HandledFollow(hd) == \A i, j \in DOMAIN hd : i < j => MayFollow(hd[i], hd[j])

FollowInvariant ==
    /\ FollowsAll(platformQueue, run, handled) /\ FollowsAll(queue, run, handled)
    /\ RunsFollow(run, handled) /\ HandledFollow(handled)

\* Numbers that were given stay, and the next message gets the next one.
LEMMA FromGrows ==
    ASSUME DispatchTypeOK, NEW s \in Sender, from' = Append(from, s)
    PROVE  /\ Len(from) \in Nat /\ Len(from') = Len(from) + 1 /\ from'[Len(from) + 1] = s
           /\ \A n \in 1 .. Len(from) : from'[n] = from[n]
BY DEF DispatchTypeOK

\* What is to be dispatched stays in order.
LEMMA DispatchOrderStep ==
    DispatchTypeOK /\ DispatchOrder /\ MessageStep => DispatchOrder'
<1> SUFFICES ASSUME DispatchTypeOK, DispatchOrder, MessageStep PROVE DispatchOrder'
  OBVIOUS
<1> USE KindsOfQueues
<1>a. /\ \A i \in DOMAIN bufferedMessages : bufferedMessages[i] \in Message /\ bufferedMessages[i] \in Nat
      /\ \A d \in Dispatcher : dispatching[d] \in Seq(Runnable)
  <2>1. bufferedMessages \in Seq(Message) /\ dispatching \in [Dispatcher -> Seq(Runnable)]
    BY DEF DispatchTypeOK
  <2>2. \A i \in DOMAIN bufferedMessages : bufferedMessages[i] \in Message
    BY <2>1
  <2>3. \A m \in Message : m \in Nat
    BY DEF Message
  <2> QED BY <2>1, <2>2, <2>3
<1>1. ASSUME UNCHANGED <<bufferedMessages, deferred, from, dispatching>> PROVE DispatchOrder'
  BY <1>1, Zenon DEF DispatchOrder, MayOvertake, Newest, Has
<1>2. ASSUME NEW s \in Sender, from' = Append(from, s), deferred \subseteq deferred',
             NEW d \in Dispatcher, d # s, NEW m \in Message, MayOvertake(d, m)
      PROVE  MayOvertake(d, m)'
  <2>1. /\ Len(from) \in Nat /\ Len(from') = Len(from) + 1 /\ from'[Len(from) + 1] = s
        /\ \A n \in 1 .. Len(from) : from'[n] = from[n]
    BY <1>2, FromGrows
  <2>2. m \in Nat /\ m >= 1
    BY DEF Message
  <2>3. Newest(d, m) => Newest(d, m)'
    BY <1>2, <2>1, <2>2 DEF Newest, MayOvertake
  <2> QED BY <1>2, <2>1, <2>2, <2>3 DEF MayOvertake
<1>3. ASSUME NEW s \in Sender, Defers(s) PROVE DispatchOrder'
  <2>1. Len(from) \in Nat /\ Len(from') = Len(from) + 1
    BY <1>3, FromGrows DEF Defers
  <2>2. ASSUME NEW i \in DOMAIN bufferedMessages'
        PROVE  bufferedMessages'[i] \in deferred' /\ bufferedMessages'[i] <= Len(from')
    <3>1. /\ bufferedMessages \in Seq(Message)
          /\ bufferedMessages' = Append(bufferedMessages, Len(from) + 1)
          /\ deferred' = deferred \cup {Len(from) + 1}
      BY <1>3 DEF Defers, DispatchTypeOK
    <3>2. /\ DOMAIN bufferedMessages' = 1 .. (Len(bufferedMessages) + 1)
          /\ DOMAIN bufferedMessages = 1 .. Len(bufferedMessages) /\ Len(bufferedMessages) \in Nat
          /\ bufferedMessages'[Len(bufferedMessages) + 1] = Len(from) + 1
          /\ \A k \in 1 .. Len(bufferedMessages) : bufferedMessages'[k] = bufferedMessages[k]
      BY <3>1
    <3>3. CASE i = Len(bufferedMessages) + 1
      BY <2>1, <3>1, <3>2, <3>3
    <3>4. CASE i # Len(bufferedMessages) + 1
      <4>1. i \in DOMAIN bufferedMessages
        BY <3>2, <3>4
      <4>2. bufferedMessages[i] \in deferred /\ bufferedMessages[i] <= Len(from) /\ bufferedMessages[i] \in Nat
        BY <1>a, <4>1 DEF DispatchOrder
      <4> QED BY <2>1, <3>1, <3>2, <4>1, <4>2
    <3> QED BY <3>3, <3>4
  <2>3. ASSUME NEW d \in Dispatcher, NEW m \in Message, Has(dispatching'[d], m)
        PROVE  MayOvertake(d, m)'
    <3>1. Has(dispatching[d], m) /\ d # s
      BY <1>3, <2>3 DEF Defers, Has
    <3> QED BY <1>2, <1>3, <3>1 DEF Defers, DispatchOrder
  <2> QED BY <2>2, <2>3 DEF DispatchOrder, Has
<1>4. ASSUME NEW s \in Sender, Receives(s) PROVE DispatchOrder'
  <2>1. PICK r : r = RunnableFor(Len(from) + 1, messageHandler)
    OBVIOUS
  <2>2. /\ from' = Append(from, s) /\ deferred' = deferred /\ bufferedMessages' = bufferedMessages
        /\ dispatching' = [dispatching EXCEPT ![s] = <<r>>]
        /\ dispatching \in [Dispatcher -> Seq(Runnable)] /\ s \in Dispatcher
    BY <1>4, <2>1 DEF Receives, DispatchTypeOK
  <2>3. /\ Len(from) \in Nat /\ Len(from') = Len(from) + 1 /\ from'[Len(from) + 1] = s
    BY <2>2, FromGrows
  <2>4. ASSUME NEW i \in DOMAIN bufferedMessages'
        PROVE  bufferedMessages'[i] \in deferred' /\ bufferedMessages'[i] <= Len(from')
    BY <1>a, <2>2, <2>3, <2>4 DEF DispatchOrder
  <2>5. ASSUME NEW d \in Dispatcher, NEW m \in Message, Has(dispatching'[d], m)
        PROVE  MayOvertake(d, m)'
    <3>1. CASE d = s
      <4>1. m = r.message
        BY <2>2, <2>5, <3>1 DEF Has
      <4>2. m = Len(from) + 1
        BY <2>1, <4>1 DEF RunnableFor
      <4> QED BY <2>3, <3>1, <4>2 DEF MayOvertake, Newest
    <3>2. CASE d # s
      <4>1. dispatching'[d] = dispatching[d]
        BY <2>2, <3>2
      <4>2. MayOvertake(d, m)
        BY <2>5, <4>1 DEF DispatchOrder
      <4> QED BY <1>2, <2>2, <3>2, <4>2
    <3> QED BY <3>1, <3>2
  <2> QED BY <2>4, <2>5 DEF DispatchOrder, Has
<1>5. ASSUME UNCHANGED <<deferred, from>>, NEW d \in Dispatcher, NEW m \in Message, MayOvertake(d, m)
      PROVE  MayOvertake(d, m)'
  BY <1>5 DEF MayOvertake, Newest
<1>6. ASSUME NEW h \in Queue \cup {NoHandler}, Redispatches(h) PROVE DispatchOrder'
  <2>1. /\ bufferedMessages' = <<>> /\ UNCHANGED <<deferred, from>>
        /\ dispatching' = [dispatching EXCEPT ![Platform] =
              [i \in DOMAIN bufferedMessages |-> RunnableFor(bufferedMessages[i], h)]]
        /\ dispatching \in [Dispatcher -> Seq(Runnable)]
    BY <1>6 DEF Redispatches, Redispatch, DispatchTypeOK
  <2>2. ASSUME NEW d \in Dispatcher, NEW m \in Message, Has(dispatching'[d], m)
        PROVE  MayOvertake(d, m)'
    <3>1. CASE d = Platform
      <4>1. \E i \in DOMAIN bufferedMessages : bufferedMessages[i] = m
        BY <2>1, <2>2, <3>1 DEF RunnableFor, Has
      <4>2. MayOvertake(d, m)
        BY <4>1 DEF DispatchOrder, MayOvertake
      <4> QED BY <1>5, <2>1, <4>2
    <3>2. CASE d # Platform
      <4>1. dispatching'[d] = dispatching[d]
        BY <2>1, <3>2
      <4>2. MayOvertake(d, m)
        BY <2>2, <4>1 DEF DispatchOrder
      <4> QED BY <1>5, <2>1, <4>2
    <3> QED BY <3>1, <3>2
  <2>3. ASSUME NEW i \in DOMAIN bufferedMessages'
        PROVE  bufferedMessages'[i] \in deferred' /\ bufferedMessages'[i] <= Len(from')
    BY <2>1, <2>3
  <2> QED BY <2>2, <2>3 DEF DispatchOrder, Has
<1>7. ASSUME NEW d \in Dispatcher, NEW r \in Runnable, Dispatches(d, r) PROVE DispatchOrder'
  <2>1. /\ UNCHANGED <<bufferedMessages, deferred, from>> /\ dispatching[d] # <<>>
        /\ dispatching' = [dispatching EXCEPT ![d] = Tail(dispatching[d])]
        /\ dispatching \in [Dispatcher -> Seq(Runnable)]
    BY <1>7 DEF Dispatches, DispatchTypeOK
  <2>2. \A i \in DOMAIN Tail(dispatching[d]) :
           i + 1 \in DOMAIN dispatching[d] /\ Tail(dispatching[d])[i] = dispatching[d][i + 1]
    BY <1>a, <2>1
  <2>3. ASSUME NEW e \in Dispatcher, NEW m \in Message, Has(dispatching'[e], m)
        PROVE  MayOvertake(e, m)'
    <3>1. Has(dispatching[e], m)
      <4>1. CASE e = d
        BY <2>1, <2>2, <2>3, <4>1 DEF Has
      <4>2. CASE e # d
        BY <2>1, <2>3, <4>2
      <4> QED BY <4>1, <4>2
    <3>2. MayOvertake(e, m)
      BY <3>1 DEF DispatchOrder
    <3> QED BY <1>5, <2>1, <3>2
  <2>4. ASSUME NEW i \in DOMAIN bufferedMessages'
        PROVE  bufferedMessages'[i] \in deferred' /\ bufferedMessages'[i] <= Len(from')
    BY <2>1, <2>4 DEF DispatchOrder
  <2> QED BY <2>3, <2>4 DEF DispatchOrder, Has
<1> QED
  BY <1>1, <1>3, <1>4, <1>6, <1>7 DEF MessageStep, Takes, Handles, Frees

\* Every runnable on its way is for a message that was sent.
LEMMA SentStep ==
    DispatchTypeOK /\ QueueInvariant /\ SerialInvariant /\ DispatchOrder /\ SentInvariant /\ MessageStep
        => SentInvariant'
<1> SUFFICES ASSUME DispatchTypeOK, QueueInvariant, SerialInvariant, DispatchOrder, SentInvariant,
                    MessageStep
             PROVE  SentInvariant'
  OBVIOUS
<1> USE KindsOfQueues
<1>a. /\ platformQueue \in Seq(Runnable) /\ queue \in Seq(Runnable) /\ concurrent \subseteq Runnable
      /\ handled \in Seq(Runnable)
      /\ \A i \in DOMAIN platformQueue : platformQueue[i] \in Runnable
      /\ \A i \in DOMAIN queue : queue[i] \in Runnable
      /\ \A i \in DOMAIN handled : handled[i] \in Runnable
  BY SeqOfMore DEF QueueInvariant
<1>b. run \in [Thread -> Runnable \cup {NoRunnable}]
  BY RunType
<1>c. Len(from) \in Nat
  BY DEF DispatchTypeOK
<1>1. ASSUME UNCHANGED <<queue, platformQueue, concurrent, run, handled>>,
             Len(from') \in Nat, Len(from) <= Len(from')
      PROVE  SentInvariant'
  <2>1. \A r \in Runnable : r.message <= Len(from) => r.message <= Len(from')
    BY <1>1, <1>c, MessageOf
  <2>2. \A i \in DOMAIN platformQueue' : platformQueue'[i].message <= Len(from')
    BY <1>1, <1>a, <2>1 DEF SentInvariant
  <2>3. \A i \in DOMAIN queue' : queue'[i].message <= Len(from')
    BY <1>1, <1>a, <2>1 DEF SentInvariant
  <2>4. \A r \in concurrent' : r.message <= Len(from')
    BY <1>1, <1>a, <2>1 DEF SentInvariant
  <2>5. \A t \in Thread : run'[t] # NoRunnable => run'[t].message <= Len(from')
    BY <1>1, <1>b, <2>1 DEF SentInvariant
  <2>6. \A i \in DOMAIN handled' : handled'[i].message <= Len(from')
    BY <1>1, <1>a, <2>1 DEF SentInvariant
  <2> QED BY <2>2, <2>3, <2>4, <2>5, <2>6 DEF SentInvariant
<1>2. ASSUME NEW s \in Sender, Defers(s) \/ Receives(s) PROVE SentInvariant'
  <2>1. Len(from') = Len(from) + 1
    BY <1>2, FromGrows DEF Defers, Receives
  <2> QED BY <1>1, <1>2, <1>c, <2>1 DEF Defers, Receives
<1>3. ASSUME NEW rs \in Seq(Runnable), NEW r \in Runnable, r.message <= Len(from),
             \A i \in DOMAIN rs : rs[i].message <= Len(from)
      PROVE  \A i \in DOMAIN Append(rs, r) : Append(rs, r)[i].message <= Len(from)
  BY <1>3
<1>4. ASSUME NEW rs \in Seq(Runnable), rs # <<>>,
             \A i \in DOMAIN rs : rs[i].message <= Len(from)
      PROVE  /\ \A i \in DOMAIN Tail(rs) : Tail(rs)[i].message <= Len(from)
             /\ Head(rs).message <= Len(from)
  BY <1>4
<1>5. ASSUME NEW d \in Dispatcher, NEW r \in Runnable, Dispatches(d, r) PROVE SentInvariant'
  <2>1. UNCHANGED <<from, run, handled>>
    BY <1>5 DEF Dispatches
  <2>2. r.message <= Len(from)
    <3>1. dispatching[d] \in Seq(Runnable) /\ dispatching[d] # <<>> /\ r = Head(dispatching[d])
      BY <1>5 DEF Dispatches, DispatchTypeOK
    <3>2. Has(dispatching[d], r.message)
      BY <3>1 DEF Has
    <3> QED BY <3>2, MessageOf DEF DispatchOrder, MayOvertake
  <2>3. CASE platformQueue' = Append(platformQueue, r) /\ UNCHANGED <<queue, concurrent>>
    BY <1>3, <1>a, <2>1, <2>2, <2>3 DEF SentInvariant
  <2>4. CASE concurrent' = concurrent \cup {r} /\ UNCHANGED <<queue, platformQueue>>
    BY <2>1, <2>2, <2>4 DEF SentInvariant
  <2>5. CASE queue' = Append(queue, r) /\ UNCHANGED <<platformQueue, concurrent>>
    BY <1>3, <1>a, <2>1, <2>2, <2>5 DEF SentInvariant
  <2> QED BY <1>5, <2>3, <2>4, <2>5 DEF Dispatches
<1>6. ASSUME NEW t \in Thread, NEW r \in Runnable, Takes(t, r) PROVE SentInvariant'
  <2>1. UNCHANGED <<from, handled>> /\ run' = [run EXCEPT ![t] = r]
    BY <1>6 DEF Takes
  <2>2. r.message <= Len(from) => \A u \in Thread : run'[u] # NoRunnable => run'[u].message <= Len(from')
    BY <1>b, <2>1 DEF SentInvariant
  <2>3. CASE /\ platformQueue # <<>> /\ r = Head(platformQueue)
             /\ platformQueue' = Tail(platformQueue) /\ UNCHANGED <<queue, concurrent>>
    BY <1>4, <1>a, <2>1, <2>2, <2>3 DEF SentInvariant
  <2>4. CASE r \in concurrent /\ concurrent' = concurrent \ {r} /\ UNCHANGED <<queue, platformQueue>>
    BY <2>1, <2>2, <2>4 DEF SentInvariant
  <2>5. CASE /\ queue # <<>> /\ r = Head(queue)
             /\ queue' = Tail(queue) /\ UNCHANGED <<platformQueue, concurrent>>
    BY <1>4, <1>a, <2>1, <2>2, <2>5 DEF SentInvariant
  <2> QED BY <1>6, <2>3, <2>4, <2>5 DEF Takes
<1>7. ASSUME NEW t \in Thread, Handles(t) PROVE SentInvariant'
  <2>1. /\ UNCHANGED <<from, queue, platformQueue, concurrent, run>> /\ run[t] \in Runnable
        /\ handled' = Append(handled, run[t]) /\ run[t].message <= Len(from)
    BY <1>7, <1>b DEF Handles, SentInvariant
  <2> QED BY <1>3, <1>a, <2>1 DEF SentInvariant
<1>8. ASSUME NEW t \in Thread, Frees(t) PROVE SentInvariant'
  <2>1. /\ UNCHANGED <<from, queue, platformQueue, concurrent, handled>>
        /\ run' = [run EXCEPT ![t] = NoRunnable]
    BY <1>8 DEF Frees
  <2>2. \A u \in Thread : run'[u] # NoRunnable => run'[u].message <= Len(from)
    BY <1>b, <2>1 DEF SentInvariant
  <2> QED BY <2>1, <2>2 DEF SentInvariant
<1> QED
  BY <1>1, <1>2, <1>5, <1>6, <1>7, <1>8, <1>c DEF MessageStep, Redispatches

\* Runnables of different kinds, and concurrent ones, may follow each other.
LEMMA KindsMayFollow ==
    /\ \A a \in For({NoHandler, "platform"}), b \in For({"serial"}) : MayFollow(a, b) /\ MayFollow(b, a)
    /\ \A a \in For({"concurrent"}), b \in Runnable : MayFollow(a, b) /\ MayFollow(b, a)
<1>1. NoHandler \notin {"platform", "serial", "concurrent"}
  BY ConstantsAssumption DEF Queue
<1> QED BY <1>1 DEF For, MayFollow, Looper

\* Whatever two threads run may be handled in any order.
LEMMA RunsMayFollow ==
    ASSUME QueueInvariant, SerialInvariant, NEW t \in Thread, NEW u \in Thread, t # u,
           run[t] # NoRunnable, run[u] # NoRunnable
    PROVE  MayFollow(run[t], run[u])
<1> USE RunType, KindsOfQueues, KindsMayFollow
<1>1. CASE t = Platform
  <2>1. run[t] \in For({NoHandler, "platform"}) /\ u \in Executor
    BY <1>1 DEF Thread
  <2>2. run[u] \in For({"serial"}) \/ run[u] \in For({"concurrent"})
    BY <2>1
  <2> QED BY <2>1, <2>2, Zenon
<1>2. CASE t \in Executor /\ run[t] \in For({"concurrent"})
  BY <1>2
<1>3. CASE t \in Executor /\ run[t] \in For({"serial"})
  <2>1. CASE u = Platform
    BY <1>3, <2>1
  <2>2. CASE u \in Executor
    <3>1. run[u] \in For({"concurrent"})
      BY <1>3, <2>2
    <3> QED BY <3>1
  <2> QED BY <2>1, <2>2 DEF Thread
<1> QED BY <1>1, <1>2, <1>3 DEF Thread

\* A message that a thread dispatches may follow all that were sent.
LEMMA DispatchedMayFollow ==
    ASSUME DispatchTypeOK, DispatchOrder, NEW d \in Dispatcher, NEW r \in Runnable,
           dispatching[d] # <<>>, r = Head(dispatching[d]),
           NEW a \in Runnable, a.message <= Len(from)
    PROVE  MayFollow(a, r)
<1>1. dispatching[d] \in Seq(Runnable) /\ Len(from) \in Nat
  BY DEF DispatchTypeOK
<1>2. Has(dispatching[d], r.message)
  BY <1>1 DEF Has
<1>3. MayOvertake(d, r.message)
  BY <1>2, MessageOf DEF DispatchOrder
<1>4. a.message \in 1 .. Len(from)
  BY <1>1, MessageOf
<1> QED BY <1>3, <1>4 DEF MayOvertake, Newest, MayFollow

\* Sending changes nothing between messages that were sent.
LEMMA MayFollowKept ==
    ASSUME DispatchTypeOK, from' = from \/ \E s \in Sender : from' = Append(from, s),
           deferred \subseteq deferred',
           NEW a \in Runnable, NEW b \in Runnable,
           a.message <= Len(from), b.message <= Len(from), MayFollow(a, b)
    PROVE  MayFollow(a, b)'
<1>1. Len(from) \in Nat
  BY DEF DispatchTypeOK
<1>2. a.message \in 1 .. Len(from) /\ b.message \in 1 .. Len(from)
  BY <1>1, MessageOf
<1>3. from'[a.message] = from[a.message] /\ from'[b.message] = from[b.message]
  BY <1>2, FromGrows
<1> QED BY <1>3 DEF MayFollow

\* FollowsAll(s) for any s, and for what is running and was handled.
LEMMA FollowStep ==
    DispatchTypeOK /\ QueueInvariant /\ SerialInvariant /\ DispatchOrder /\ SentInvariant
    /\ FollowInvariant /\ MessageStep => FollowInvariant'
<1> SUFFICES ASSUME DispatchTypeOK, QueueInvariant, SerialInvariant, DispatchOrder, SentInvariant,
                    FollowInvariant, MessageStep
             PROVE  FollowInvariant'
  OBVIOUS
<1> USE KindsOfQueues
<1>a. /\ platformQueue \in Seq(Runnable) /\ queue \in Seq(Runnable) /\ concurrent \subseteq Runnable
      /\ handled \in Seq(Runnable)
      /\ \A i \in DOMAIN platformQueue : platformQueue[i] \in Runnable /\ platformQueue[i].message <= Len(from)
      /\ \A i \in DOMAIN queue : queue[i] \in Runnable /\ queue[i].message <= Len(from)
      /\ \A i \in DOMAIN handled : handled[i] \in Runnable /\ handled[i].message <= Len(from)
  BY SeqOfMore DEF QueueInvariant, SentInvariant
<1>b. /\ run \in [Thread -> Runnable \cup {NoRunnable}]
      /\ \A t \in Thread : run[t] # NoRunnable => run[t] \in Runnable /\ run[t].message <= Len(from)
  BY RunType DEF SentInvariant
<1>c. /\ \A i \in DOMAIN platformQueue : platformQueue[i] \in For({NoHandler, "platform"})
      /\ \A i \in DOMAIN queue : queue[i] \in For({"serial"})
  BY SeqOfMore DEF QueueInvariant
<1>1. ASSUME from' = from \/ \E s \in Sender : from' = Append(from, s), deferred \subseteq deferred',
             UNCHANGED <<queue, platformQueue, run, handled>>
      PROVE  FollowInvariant'
  <2>1. \A a, b \in Runnable : a.message <= Len(from) /\ b.message <= Len(from) /\ MayFollow(a, b)
            => MayFollow(a, b)'
    BY <1>1, MayFollowKept
  <2>2. FollowsAll(platformQueue, run, handled)'
    BY <1>1, <1>a, <1>b, <2>1, Zenon DEF FollowsAll, FollowInvariant
  <2>3. FollowsAll(queue, run, handled)'
    BY <1>1, <1>a, <1>b, <2>1, Zenon DEF FollowsAll, FollowInvariant
  <2>4. RunsFollow(run, handled)'
    BY <1>1, <1>a, <1>b, <2>1, Zenon DEF RunsFollow, FollowInvariant
  <2>5. HandledFollow(handled)'
    BY <1>1, <1>a, <2>1, Zenon DEF HandledFollow, FollowInvariant
  <2> QED BY <2>2, <2>3, <2>4, <2>5, Zenon DEF FollowInvariant
<1>2. ASSUME UNCHANGED <<from, deferred>>,
             FollowsAll(platformQueue', run', handled'), FollowsAll(queue', run', handled'),
             RunsFollow(run', handled'), HandledFollow(handled')
      PROVE  FollowInvariant'
  <2>1. FollowsAll(platformQueue, run, handled)'
    BY <1>2 DEF FollowsAll, MayFollow
  <2>2. FollowsAll(queue, run, handled)'
    BY <1>2 DEF FollowsAll, MayFollow
  <2>3. RunsFollow(run, handled)'
    BY <1>2 DEF RunsFollow, MayFollow
  <2>4. HandledFollow(handled)'
    BY <1>2 DEF HandledFollow, MayFollow
  <2> QED BY <2>1, <2>2, <2>3, <2>4 DEF FollowInvariant
<1>3. ASSUME NEW d \in Dispatcher, NEW r \in Runnable, Dispatches(d, r) PROVE FollowInvariant'
  <2>1. UNCHANGED <<from, deferred, run, handled>>
    BY <1>3 DEF Dispatches
  <2>2. \A a \in Runnable : a.message <= Len(from) => MayFollow(a, r)
    BY <1>3, DispatchedMayFollow DEF Dispatches
  <2>3. ASSUME NEW s \in Seq(Runnable), FollowsAll(s, run, handled),
               \A i \in DOMAIN s : s[i] \in Runnable /\ s[i].message <= Len(from)
        PROVE  FollowsAll(Append(s, r), run, handled)
    <3> DEFINE q == Append(s, r)
    <3>1. /\ DOMAIN q = 1 .. (Len(s) + 1) /\ DOMAIN s = 1 .. Len(s) /\ Len(s) \in Nat
          /\ q[Len(s) + 1] = r /\ \A i \in 1 .. Len(s) : q[i] = s[i]
      OBVIOUS
    <3> HIDE DEF q
    <3>2. ASSUME NEW j \in DOMAIN q
          PROVE  /\ \A i \in DOMAIN q : i < j => MayFollow(q[i], q[j])
                 /\ \A t \in Thread : run[t] # NoRunnable => MayFollow(run[t], q[j])
                 /\ \A i \in DOMAIN handled : MayFollow(handled[i], q[j])
      <4>1. CASE j = Len(s) + 1
        <5>1. \A i \in DOMAIN q : i < j => i \in DOMAIN s /\ q[i] = s[i]
          BY <3>1, <4>1
        <5> QED BY <1>a, <1>b, <2>2, <2>3, <3>1, <4>1, <5>1, Zenon
      <4>2. CASE j # Len(s) + 1
        <5>1. j \in DOMAIN s /\ q[j] = s[j] /\ \A i \in DOMAIN q : i < j => i \in DOMAIN s /\ q[i] = s[i]
          BY <3>1, <4>2
        <5> QED BY <2>3, <5>1, Zenon DEF FollowsAll
      <4> QED BY <4>1, <4>2
    <3> QED BY <3>2 DEF FollowsAll, q
  <2>4. FollowsAll(platformQueue', run, handled)
    BY <1>3, <1>a, <2>3, Zenon DEF Dispatches, FollowInvariant
  <2>5. FollowsAll(queue', run, handled)
    BY <1>3, <1>a, <2>3, Zenon DEF Dispatches, FollowInvariant
  <2> QED BY <1>2, <2>1, <2>4, <2>5 DEF FollowInvariant
<1>4. ASSUME NEW s \in Seq(Runnable), FollowsAll(s, run, handled), s # <<>>
      PROVE  /\ FollowsAll(Tail(s), run, handled)
             /\ \A j \in DOMAIN Tail(s) : MayFollow(Head(s), Tail(s)[j])
             /\ \A i \in DOMAIN handled : MayFollow(handled[i], Head(s))
  <2> DEFINE q == Tail(s)
  <2>1. /\ 1 \in DOMAIN s /\ Head(s) = s[1]
        /\ \A i \in DOMAIN q : i \in Nat /\ 1 < i + 1 /\ i + 1 \in DOMAIN s /\ q[i] = s[i + 1]
    BY <1>4
  <2> HIDE DEF q
  <2>2. \A i, j \in DOMAIN q : i < j => i + 1 < j + 1
    BY <2>1
  <2>3. FollowsAll(q, run, handled)
    BY <1>4, <2>1, <2>2, Zenon DEF FollowsAll
  <2>4. \A j \in DOMAIN q : MayFollow(s[1], q[j])
    BY <1>4, <2>1, Zenon DEF FollowsAll
  <2>5. \A i \in DOMAIN handled : MayFollow(handled[i], s[1])
    BY <1>4, <2>1, Zenon DEF FollowsAll
  <2> QED BY <2>1, <2>3, <2>4, <2>5 DEF q
<1>5. ASSUME NEW t \in Thread, NEW r \in Runnable, run' = [run EXCEPT ![t] = r]
      PROVE  /\ \A s : /\ FollowsAll(s, run, handled)
                       /\ \A j \in DOMAIN s : MayFollow(r, s[j])
                       => FollowsAll(s, run', handled)
             /\ (\A i \in DOMAIN handled : MayFollow(handled[i], r)) => RunsFollow(run', handled)
  <2>1. \A u \in Thread : run'[u] = IF u = t THEN r ELSE run[u]
    BY <1>5, <1>b
  <2>2. ASSUME NEW s, FollowsAll(s, run, handled), \A j \in DOMAIN s : MayFollow(r, s[j])
        PROVE  FollowsAll(s, run', handled)
    <3>1. ASSUME NEW u \in Thread, run'[u] # NoRunnable, NEW j \in DOMAIN s PROVE MayFollow(run'[u], s[j])
      BY <2>1, <2>2, <3>1 DEF FollowsAll
    <3> QED BY <2>2, <3>1 DEF FollowsAll
  <2>3. ASSUME \A i \in DOMAIN handled : MayFollow(handled[i], r) PROVE RunsFollow(run', handled)
    BY <2>1, <2>3, Zenon DEF RunsFollow, FollowInvariant
  <2> QED BY <2>2, <2>3
<1>6. ASSUME NEW t \in Thread, NEW r \in Runnable, Takes(t, r) PROVE FollowInvariant'
  <2>1. UNCHANGED <<from, deferred, handled>> /\ run' = [run EXCEPT ![t] = r]
    BY <1>6 DEF Takes
  <2>2. CASE /\ platformQueue # <<>> /\ r = Head(platformQueue)
             /\ platformQueue' = Tail(platformQueue) /\ queue' = queue
    <3>1. /\ FollowsAll(platformQueue', run, handled)
          /\ \A j \in DOMAIN platformQueue' : MayFollow(r, platformQueue'[j])
          /\ \A i \in DOMAIN handled : MayFollow(handled[i], r)
      BY <1>4, <1>a, <2>2 DEF FollowInvariant
    <3>2. \A j \in DOMAIN queue : MayFollow(r, queue[j])
      <4>1. r \in For({NoHandler, "platform"})
        BY <2>2, SeqTypes DEF QueueInvariant
      <4> QED BY <1>c, <4>1, KindsMayFollow
    <3>3. FollowsAll(platformQueue', run', handled) /\ FollowsAll(queue', run', handled)
          /\ RunsFollow(run', handled)
      BY <1>5, <2>1, <2>2, <3>1, <3>2, Zenon DEF FollowInvariant
    <3> QED BY <1>2, <2>1, <3>3 DEF FollowInvariant
  <2>3. CASE r \in concurrent /\ UNCHANGED <<queue, platformQueue>>
    <3>1. \A a \in Runnable : MayFollow(r, a) /\ MayFollow(a, r)
      BY <2>3, KindsMayFollow DEF QueueInvariant
    <3>2. /\ \A j \in DOMAIN queue : MayFollow(r, queue[j])
          /\ \A j \in DOMAIN platformQueue : MayFollow(r, platformQueue[j])
          /\ \A i \in DOMAIN handled : MayFollow(handled[i], r)
      BY <1>a, <3>1
    <3>3. FollowsAll(platformQueue', run', handled) /\ FollowsAll(queue', run', handled)
          /\ RunsFollow(run', handled)
      BY <1>5, <2>1, <2>3, <3>2, Zenon DEF FollowInvariant
    <3> QED BY <1>2, <2>1, <3>3 DEF FollowInvariant
  <2>4. CASE /\ queue # <<>> /\ r = Head(queue)
             /\ queue' = Tail(queue) /\ platformQueue' = platformQueue
    <3>1. /\ FollowsAll(queue', run, handled)
          /\ \A j \in DOMAIN queue' : MayFollow(r, queue'[j])
          /\ \A i \in DOMAIN handled : MayFollow(handled[i], r)
      BY <1>4, <1>a, <2>4 DEF FollowInvariant
    <3>2. \A j \in DOMAIN platformQueue : MayFollow(r, platformQueue[j])
      <4>1. r \in For({"serial"})
        BY <2>4, SeqTypes DEF QueueInvariant
      <4> QED BY <1>c, <4>1, KindsMayFollow
    <3>3. FollowsAll(platformQueue', run', handled) /\ FollowsAll(queue', run', handled)
          /\ RunsFollow(run', handled)
      BY <1>5, <2>1, <2>4, <3>1, <3>2, Zenon DEF FollowInvariant
    <3> QED BY <1>2, <2>1, <3>3 DEF FollowInvariant
  <2> QED BY <1>6, <2>2, <2>3, <2>4 DEF Takes
<1>7. ASSUME NEW t \in Thread, Handles(t) PROVE FollowInvariant'
  <2>1. /\ UNCHANGED <<from, deferred, queue, platformQueue, run>>
        /\ run[t] \in Runnable /\ run[t] # NoRunnable /\ handled' = Append(handled, run[t])
        /\ \A i \in DOMAIN handled : handled[i] # run[t]
    BY <1>7, <1>b, Zenon DEF Handles, WasHandled
  <2>2. /\ DOMAIN handled' = 1 .. (Len(handled) + 1)
        /\ DOMAIN handled = 1 .. Len(handled) /\ Len(handled) \in Nat
        /\ handled'[Len(handled) + 1] = run[t] /\ \A i \in 1 .. Len(handled) : handled'[i] = handled[i]
    BY <1>a, <2>1
  <2>3. \A i \in DOMAIN handled' :
           (i \in DOMAIN handled /\ handled'[i] = handled[i]) \/ (i = Len(handled) + 1 /\ handled'[i] = run[t])
    BY <2>2
  <2>4. \A s : FollowsAll(s, run, handled) => FollowsAll(s, run, handled')
    BY <2>1, <2>3, Zenon DEF FollowsAll
  <2>5. ASSUME NEW u \in Thread, run[u] # NoRunnable, \A i \in DOMAIN handled' : handled'[i] # run[u],
               NEW i \in DOMAIN handled'
        PROVE  MayFollow(handled'[i], run[u])
    <3>1. u # t /\ \A k \in DOMAIN handled : handled[k] # run[u]
      BY <2>2, <2>5
    <3>2. MayFollow(run[t], run[u])
      BY <2>1, <2>5, <3>1, RunsMayFollow
    <3>3. \A k \in DOMAIN handled : MayFollow(handled[k], run[u])
      BY <2>5, <3>1 DEF FollowInvariant, RunsFollow
    <3> QED BY <2>3, <3>2, <3>3
  <2>6. ASSUME NEW i \in DOMAIN handled', NEW j \in DOMAIN handled', i < j
        PROVE  MayFollow(handled'[i], handled'[j])
    <3>1. i \in DOMAIN handled /\ handled'[i] = handled[i]
      BY <2>2, <2>6
    <3>2. CASE j \in DOMAIN handled /\ handled'[j] = handled[j]
      BY <2>6, <3>1, <3>2 DEF FollowInvariant, HandledFollow
    <3>3. CASE handled'[j] = run[t]
      BY <2>1, <3>1, <3>3 DEF FollowInvariant, RunsFollow
    <3> QED BY <2>3, <3>2, <3>3
  <2>7. RunsFollow(run', handled') /\ HandledFollow(handled')
    BY <2>1, <2>5, <2>6 DEF RunsFollow, HandledFollow
  <2> QED BY <1>2, <2>1, <2>4, <2>7 DEF FollowInvariant
<1>8. ASSUME NEW t \in Thread, Frees(t) PROVE FollowInvariant'
  <2>1. UNCHANGED <<from, deferred, queue, platformQueue, handled>> /\ run' = [run EXCEPT ![t] = NoRunnable]
    BY <1>8 DEF Frees
  <2>2. \A u \in Thread : run'[u] # NoRunnable => run'[u] = run[u]
    BY <1>b, <2>1
  <2>3. \A s : FollowsAll(s, run, handled) => FollowsAll(s, run', handled)
    BY <2>2, Zenon DEF FollowsAll
  <2>4. RunsFollow(run', handled)
    BY <2>2, Zenon DEF RunsFollow, FollowInvariant
  <2> QED BY <1>2, <2>1, <2>3, <2>4, Zenon DEF FollowInvariant
<1> QED
  BY <1>1, <1>3, <1>6, <1>7, <1>8 DEF MessageStep, Defers, Receives, Redispatches

\* Messages of one thread to one task queue that is not concurrent are handled in
\* order but for those that were deferred, for any number of threads and messages.
THEOREM OvertakenWereBuffered == Spec => []OnlyBufferedAreOvertaken
<1> DEFINE I == DispatchOrder /\ SentInvariant /\ FollowInvariant
<1>1. Init => I
  <2> SUFFICES ASSUME Init PROVE I
    OBVIOUS
  <2>1. /\ bufferedMessages = <<>> /\ dispatching = [d \in Dispatcher |-> <<>>] /\ queue = <<>>
        /\ platformQueue = <<>> /\ concurrent = {} /\ handled = <<>> /\ deferred = {}
    BY DEF Init, SerialInit
  <2>2. \A t \in Thread : run[t] = NoRunnable
    BY Zenon DEF Init, SerialInit, run, RunnableOf, Thread
  <2>3. DispatchOrder
    BY <2>1 DEF DispatchOrder, Has
  <2>4. SentInvariant
    BY <2>1, <2>2 DEF SentInvariant
  <2>5. FollowInvariant
    BY <2>1, <2>2 DEF FollowInvariant, FollowsAll, RunsFollow, HandledFollow
  <2> QED BY <2>3, <2>4, <2>5
<1>2. DispatchTypeOK /\ QueueInvariant /\ SerialInvariant /\ I /\ [Next]_vars => I'
  <2>1. DispatchTypeOK /\ QueueInvariant /\ SerialInvariant /\ I /\ [Next]_vars
           => DispatchOrder' /\ SentInvariant' /\ FollowInvariant'
    BY StepOfMessage, DispatchOrderStep, SentStep, FollowStep
  <2> QED BY <2>1
<1>3. QueueInvariant /\ I => OnlyBufferedAreOvertaken
  <2> SUFFICES ASSUME QueueInvariant, FollowInvariant PROVE OnlyBufferedAreOvertaken
    OBVIOUS
  <2>1. ASSUME NEW i \in DOMAIN handled, NEW j \in DOMAIN handled, i < j
        PROVE  /\ MayFollow(handled[i], handled[j])
               /\ handled[i].message \in Nat /\ handled[j].message \in Nat
    <3>1. handled[i] \in Runnable /\ handled[j] \in Runnable
      BY DEF QueueInvariant
    <3> QED BY <2>1, <3>1, MessageOf DEF FollowInvariant, HandledFollow
  <2> QED BY <2>1 DEF OnlyBufferedAreOvertaken, MayFollow, Looper
<1> HIDE DEF I
<1> QED BY <1>1, <1>2, <1>3, DispatchTypes, QueuesCorrect, SerialCorrect, PTL DEF Spec

=============================================================================
