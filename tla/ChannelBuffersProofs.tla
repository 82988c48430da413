------------------------ MODULE ChannelBuffersProofs ------------------------
(***************************************************************************)
(* The channel, for all capacities and any number of messages and calls:   *)
(* it keeps to its capacity, the assertion of push holds, messages arrive  *)
(* in order, each message has one fate, and drains do not overlap.         *)
(***************************************************************************)
EXTENDS ChannelBuffers, FiniteSetTheorems, TLAPS

\* The provers of a leaf that names none, in the order they are tried.
USE SMT, Zenon, Z3T(30), SMTT(60)

\* Every message in s was pushed.
UpTo(s) == \A i \in DOMAIN s : s[i] \in 1..pushed

\* DeliveredInOrder with the two sequences apart.
Ordered ==
    /\ Increasing(delivered) /\ Increasing(queue)
    /\ \A i \in DOMAIN delivered, j \in DOMAIN queue : delivered[i] < queue[j]
    /\ UpTo(delivered) /\ UpTo(queue)

ChannelInvariant == TypeOK /\ NothingWaitsForListener /\ Ordered

-----------------------------------------------------------------------------
(* Sequences.                                                              *)

\* What a queue without its first k messages is.
LEMMA SubSeqSuffix ==
    ASSUME NEW S, NEW s \in Seq(S), NEW k \in 0..Len(s)
    PROVE  /\ SubSeq(s, k + 1, Len(s)) \in Seq(S)
           /\ Len(SubSeq(s, k + 1, Len(s))) = Len(s) - k
           /\ \A i \in 1..(Len(s) - k) : SubSeq(s, k + 1, Len(s))[i] = s[i + k]
  OBVIOUS

\* The first k messages of a queue are typed.
LEMMA SubSeqPrefix ==
    ASSUME NEW S, NEW s \in Seq(S), NEW k \in 0..Len(s)
    PROVE  SubSeq(s, 1, k) \in Seq(S)
  OBVIOUS

\* A sequence over a set is one over a larger set.
LEMMA SeqOfMore ==
    ASSUME NEW S, NEW T, S \subseteq T, NEW s \in Seq(S)
    PROVE  s \in Seq(T) /\ \A i \in DOMAIN s : s[i] \in T
<1>1. s \in [1..Len(s) -> S] /\ Len(s) \in Nat
  OBVIOUS
<1>2. s \in [1..Len(s) -> T]
  BY <1>1
<1> QED BY <1>1, <1>2

\* What _dropOverflowMessages leaves, and what it answers.
LEMMA RestFacts ==
    ASSUME TypeOK, NEW n \in Nat
    PROVE  /\ Rest(n) \in Seq(Message) /\ Dropped(n) \in Seq(Message)
           /\ Len(Rest(n)) <= n
           /\ \E k \in Nat : \A i \in DOMAIN Rest(n) :
                 i + k \in DOMAIN queue /\ Rest(n)[i] = queue[i + k]
<1>1. queue \in Seq(Message) /\ Len(queue) \in Nat
  BY DEF TypeOK
<1>2. Overflow(n) \in 0..Len(queue) /\ Len(queue) - Overflow(n) <= n
  BY <1>1 DEF Overflow
<1>3. /\ Rest(n) \in Seq(Message) /\ Len(Rest(n)) = Len(queue) - Overflow(n)
      /\ \A i \in 1..(Len(queue) - Overflow(n)) : Rest(n)[i] = queue[i + Overflow(n)]
  BY <1>1, <1>2, SubSeqSuffix DEF Rest
<1>4. Dropped(n) \in Seq(Message)
  BY <1>1, <1>2, SubSeqPrefix DEF Dropped
<1>5. /\ Overflow(n) \in Nat
      /\ \A i \in DOMAIN Rest(n) :
            i + Overflow(n) \in DOMAIN queue /\ Rest(n)[i] = queue[i + Overflow(n)]
  BY <1>1, <1>2, <1>3
<1>6. \E k \in Nat : \A i \in DOMAIN Rest(n) :
         i + k \in DOMAIN queue /\ Rest(n)[i] = queue[i + k]
  BY <1>5
<1>7. Len(Rest(n)) <= n
  BY <1>1, <1>2, <1>3
<1> QED BY <1>3, <1>4, <1>6, <1>7

\* Appending a number larger than all keeps a sequence increasing.
LEMMA AppendIncreasing ==
    ASSUME NEW s \in Seq(Nat), NEW x \in Nat, Increasing(s),
           \A i \in DOMAIN s : s[i] < x
    PROVE  Increasing(Append(s, x))
  BY DEF Increasing

\* A block cut from an increasing sequence is increasing.
LEMMA CutIncreasing ==
    ASSUME NEW s \in Seq(Nat), NEW r \in Seq(Nat), NEW k \in Nat, Increasing(s),
           \A i \in DOMAIN r : i + k \in DOMAIN s /\ r[i] = s[i + k]
    PROVE  Increasing(r)
  BY DEF Increasing

-----------------------------------------------------------------------------
\* A channel starts empty and without a listener.
LEMMA ChannelInit == Init => ChannelInvariant
<1> SUFFICES ASSUME Init PROVE ChannelInvariant
  OBVIOUS
<1>1. TypeOK
  <2>1. <<>> \in Seq(Message) /\ Len(<<>>) = 0
    OBVIOUS
  <2>2. pushed \in 0..MaxMessages /\ calls \in 0..MaxCalls /\ capacity \in Nat
    BY ChannelAssumption DEF Init
  <2>3. 0 <= capacity
    BY <2>2
  <2> QED BY <2>1, <2>2, <2>3, Zenon DEF Init, TypeOK
<1>2. NothingWaitsForListener
  BY DEF Init, NothingWaitsForListener
<1>3. Ordered
  BY DEF Init, Ordered, Increasing, UpTo
<1> QED BY <1>1, <1>2, <1>3 DEF ChannelInvariant

\* The head of the queue goes to the framework.
HandsOver ==
    /\ queue # <<>> /\ queue' = Tail(queue)
    /\ delivered' = Append(delivered, Head(queue))

\* Every step keeps the types and the capacity.
LEMMA TypeStep == TypeOK /\ NothingWaitsForListener /\ [Next]_vars => TypeOK'
<1> SUFFICES ASSUME TypeOK, NothingWaitsForListener, [Next]_vars PROVE TypeOK'
  OBVIOUS
<1> USE ChannelAssumption
<1>1. ASSUME HandsOver
      PROVE  /\ queue' \in Seq(Message) /\ delivered' \in Seq(Message)
             /\ Len(queue') <= capacity
  BY <1>1 DEF HandsOver, TypeOK
<1>2. ASSUME NewMessage PROVE pushed' \in 0..MaxMessages /\ pushed + 1 \in Message
  BY <1>2 DEF NewMessage, TypeOK, Message
<1>3. ASSUME InCall PROVE calls' \in 0..MaxCalls
  BY <1>3 DEF InCall, TypeOK
<1>4. ASSUME BeginTask \/ EndTask \/ DrainStepEnds \/ DrainStepThrows \/ ListenerEnds
      PROVE  TypeOK'
  <2>1. microtasks' \in Nat /\ depth' \in Nat
    BY <1>4 DEF TypeOK, BeginTask, EndTask, DrainStepEnds, DrainStepThrows, ListenerEnds
  <2>2. turn' \in {"idle", "task", "drainStep"}
    BY <1>4 DEF TypeOK, BeginTask, EndTask, DrainStepEnds, DrainStepThrows, ListenerEnds
  <2>3. UNCHANGED <<channelVars, awaits, pushed, calls, logVars>>
    BY <1>4 DEF BeginTask, EndTask, DrainStepEnds, DrainStepThrows, ListenerEnds
  <2> QED BY <2>1, <2>2, <2>3, Zenon DEF TypeOK, channelVars, logVars
<1>5. ASSUME DrainStep PROVE TypeOK'
  <2>1. HandsOver \/ (queue' = queue /\ delivered' = delivered)
    BY <1>5 DEF DrainStep, HandsOver
  <2>2. microtasks' \in Nat
    BY <1>5 DEF DrainStep, TypeOK
  <2>3. draining' \in BOOLEAN /\ turn' \in {"idle", "task", "drainStep"}
    BY <1>5, Zenon DEF DrainStep, TypeOK
  <2> QED BY <1>1, <1>5, <2>1, <2>2, <2>3 DEF TypeOK, DrainStep
<1>6. ASSUME DrainResumes PROVE TypeOK'
  <2>1. HandsOver \/ (queue' = queue /\ delivered' = delivered)
    BY <1>6 DEF DrainResumes, HandsOver
  <2> QED BY <1>1, <1>6, <2>1 DEF TypeOK, DrainResumes
<1>7. ASSUME PushThrough PROVE TypeOK'
  <2>1. Append(delivered, pushed + 1) \in Seq(Message)
    BY <1>2, <1>7 DEF PushThrough, TypeOK
  <2> QED BY <1>2, <1>7, <2>1 DEF TypeOK, PushThrough
<1>8. ASSUME PushIgnored PROVE TypeOK'
  BY <1>2, <1>8 DEF TypeOK, PushIgnored, turnVars
<1>9. ASSUME PushStored PROVE TypeOK'
  <2>1. capacity - 1 \in Nat
    BY <1>9 DEF PushStored, TypeOK
  <2>2. /\ Append(Rest(capacity - 1), pushed + 1) \in Seq(Message)
        /\ Len(Append(Rest(capacity - 1), pushed + 1)) <= capacity
    <3>1. Rest(capacity - 1) \in Seq(Message) /\ Len(Rest(capacity - 1)) <= capacity - 1
      BY <2>1, RestFacts
    <3>2. pushed + 1 \in Message /\ capacity \in Nat
      BY <1>2, <1>9 DEF PushStored, TypeOK
    <3> QED BY <3>1, <3>2
  <2>3. answered \o Dropped(capacity - 1) \in Seq(Message)
    BY <2>1, RestFacts DEF TypeOK
  <2> QED BY <1>2, <1>9, <2>2, <2>3 DEF TypeOK, PushStored, turnVars
<1>10. ASSUME SetListener \/ ClearListener PROVE TypeOK'
  <2>1. microtasks' \in Nat
    BY <1>10 DEF SetListener, ClearListener, TypeOK, turnVars
  <2>2. draining' \in BOOLEAN
    BY <1>10, Zenon DEF SetListener, ClearListener, TypeOK
  <2> QED BY <1>3, <1>10, <2>1, <2>2, Zenon DEF TypeOK, SetListener, ClearListener, turnVars, logVars
<1>11. ASSUME Drain PROVE TypeOK'
  <2>1. HandsOver
    BY <1>11 DEF Drain, HandsOver
  <2> QED BY <1>1, <1>3, <1>11, <2>1 DEF TypeOK, Drain
<1>12. ASSUME NEW n \in Size, Resize(n) PROVE TypeOK'
  <2>1. Rest(n) \in Seq(Message) /\ Dropped(n) \in Seq(Message) /\ Len(Rest(n)) <= n /\ n \in Nat
    BY RestFacts
  <2>2. answered \o Dropped(n) \in Seq(Message)
    BY <2>1 DEF TypeOK
  <2> QED BY <1>3, <1>12, <2>1, <2>2 DEF TypeOK, Resize, turnVars
<1>13. ASSUME NEW allowed \in BOOLEAN, AllowOverflow(allowed) PROVE TypeOK'
  <2>1. exists' \in BOOLEAN /\ warns' \in BOOLEAN
    BY <1>13, Zenon DEF AllowOverflow, TypeOK
  <2> QED BY <1>3, <1>13, <2>1 DEF TypeOK, AllowOverflow, turnVars, logVars
<1>14. ASSUME UNCHANGED vars PROVE TypeOK'
  BY <1>14 DEF TypeOK, vars, channelVars, turnVars, logVars
<1> QED
  BY <1>4, <1>5, <1>6, <1>7, <1>8, <1>9, <1>10, <1>11, <1>12, <1>13, <1>14 DEF Next, TurnStep

\* Whoever becomes the listener of a channel with messages starts a drain, and
\* a drain ends when the messages or the listener are gone.
LEMMA WaitStep == TypeOK /\ NothingWaitsForListener /\ [Next]_vars => NothingWaitsForListener'
<1> SUFFICES ASSUME TypeOK, NothingWaitsForListener, [Next]_vars PROVE NothingWaitsForListener'
  OBVIOUS
<1> USE DEF NothingWaitsForListener
<1>1. ASSUME BeginTask \/ EndTask \/ DrainStepEnds \/ DrainStepThrows \/ ListenerEnds
      PROVE  NothingWaitsForListener'
  BY <1>1, Zenon DEF BeginTask, EndTask, DrainStepEnds, DrainStepThrows, ListenerEnds, channelVars
<1>2. ASSUME DrainStep PROVE NothingWaitsForListener'
  BY <1>2 DEF DrainStep
<1>3. ASSUME DrainResumes \/ Drain PROVE NothingWaitsForListener'
  BY <1>3, Zenon DEF DrainResumes, Drain
<1>4. ASSUME PushThrough \/ PushIgnored \/ PushStored PROVE NothingWaitsForListener'
  <2>1. CASE PushThrough
    BY <2>1 DEF PushThrough
  <2>2. CASE PushIgnored \/ PushStored
    <3>1. (draining \/ ~listening) /\ draining' = draining /\ listening' = listening
      BY <2>2, Zenon DEF PushIgnored, PushStored
    <3> QED BY <3>1, Zenon
  <2> QED BY <1>4, <2>1, <2>2
<1>5. ASSUME SetListener \/ ClearListener PROVE NothingWaitsForListener'
  BY <1>5 DEF SetListener, ClearListener
<1>6. ASSUME NEW n \in Size, Resize(n) PROVE NothingWaitsForListener'
  <2>1. CASE queue = <<>>
    <3>1. Rest(n) = <<>>
      <4>1. Overflow(n) = 0
        BY <2>1, ChannelAssumption DEF Overflow
      <4> QED BY <2>1, <4>1 DEF Rest
    <3> QED BY <1>6, <3>1 DEF Resize
  <2>2. CASE queue # <<>>
    BY <1>6, <2>2 DEF Resize
  <2> QED BY <2>1, <2>2
<1>7. ASSUME NEW allowed \in BOOLEAN, AllowOverflow(allowed) PROVE NothingWaitsForListener'
  BY <1>7 DEF AllowOverflow
<1>8. ASSUME UNCHANGED vars PROVE NothingWaitsForListener'
  BY <1>8 DEF vars, channelVars
<1> QED BY <1>1, <1>2, <1>3, <1>4, <1>5, <1>6, <1>7, <1>8 DEF Next, TurnStep

\* Messages leave the queue from the front and enter it with the highest
\* number; one that passes by the queue finds it empty.
LEMMA OrderStep ==
    TypeOK /\ NothingWaitsForListener /\ Ordered /\ [Next]_vars => Ordered'
<1> SUFFICES ASSUME TypeOK, NothingWaitsForListener, Ordered, [Next]_vars PROVE Ordered'
  OBVIOUS
<1>a. /\ queue \in Seq(Nat) /\ delivered \in Seq(Nat) /\ pushed \in Nat
      /\ \A i \in DOMAIN queue : queue[i] \in Nat
      /\ \A i \in DOMAIN delivered : delivered[i] \in Nat
  <2>1. Message \subseteq Nat
    BY DEF Message
  <2>2. /\ queue \in Seq(Message) /\ delivered \in Seq(Message)
        /\ pushed \in 0..MaxMessages
    BY DEF TypeOK
  <2>3. pushed \in Nat
    BY <2>2, ChannelAssumption
  <2> QED BY <2>1, <2>2, <2>3, SeqOfMore, Zenon
<1>1. ASSUME HandsOver, pushed' = pushed PROVE Ordered'
  <2>1. Len(queue) >= 1 /\ Head(queue) = queue[1] /\ queue[1] \in Nat
    BY <1>1, <1>a DEF HandsOver
  <2>2. /\ queue' \in Seq(Nat) /\ DOMAIN queue' = 1..(Len(queue) - 1)
        /\ \A i \in 1..(Len(queue) - 1) : queue'[i] = queue[i + 1]
    BY <1>1, <1>a, <2>1 DEF HandsOver
  <2>3. Increasing(delivered')
    <3>1. \A i \in DOMAIN delivered : delivered[i] < queue[1]
      BY <1>a, <2>1 DEF Ordered
    <3> QED BY <1>1, <1>a, <2>1, <3>1, AppendIncreasing DEF HandsOver, Ordered
  <2>n. DOMAIN queue = 1..Len(queue) /\ Len(queue) \in Nat
    BY <1>a
  <2>4. Increasing(queue')
    <3>1. \A i \in DOMAIN queue' : i + 1 \in DOMAIN queue /\ queue'[i] = queue[i + 1]
      BY <2>2, <2>n
    <3> QED BY <1>a, <2>2, <3>1, CutIncreasing, Zenon DEF Ordered
  <2>5. ASSUME NEW j \in DOMAIN queue' PROVE queue[1] < queue'[j]
    <3>1. 1 \in DOMAIN queue /\ j + 1 \in DOMAIN queue /\ 1 < j + 1
      BY <2>1, <2>2, <2>5, <2>n
    <3>2. queue[1] < queue[j + 1]
      BY <3>1 DEF Ordered, Increasing
    <3> QED BY <2>2, <3>2, Zenon
  <2>6. /\ DOMAIN delivered' = 1..(Len(delivered) + 1)
        /\ \A k \in 1..Len(delivered) : delivered'[k] = delivered[k]
        /\ delivered'[Len(delivered) + 1] = queue[1]
    BY <1>1, <1>a, <2>1 DEF HandsOver
  <2>m. DOMAIN delivered = 1..Len(delivered) /\ Len(delivered) \in Nat
    BY <1>a
  <2>7. ASSUME NEW k \in DOMAIN delivered', NEW j \in DOMAIN queue'
        PROVE  delivered'[k] < queue'[j]
    <3>1. CASE k = Len(delivered) + 1
      BY <2>5, <2>6, <3>1
    <3>2. CASE k # Len(delivered) + 1
      <4>1. k \in DOMAIN delivered /\ delivered'[k] = delivered[k]
        BY <2>6, <2>m, <3>2
      <4>2. j + 1 \in DOMAIN queue /\ queue'[j] = queue[j + 1]
        BY <2>2, <2>n
      <4> QED BY <4>1, <4>2 DEF Ordered
    <3> QED BY <3>1, <3>2
  <2>8. UpTo(delivered)' /\ UpTo(queue)'
    <3>1. ASSUME NEW k \in DOMAIN delivered' PROVE delivered'[k] \in 1..pushed
      <4>1. queue[1] \in 1..pushed
        BY <2>1, <2>n DEF Ordered, UpTo
      <4>2. k = Len(delivered) + 1 \/ k \in DOMAIN delivered
        BY <2>6, <2>m
      <4> QED BY <2>6, <2>m, <4>1, <4>2 DEF Ordered, UpTo
    <3>2. ASSUME NEW j \in DOMAIN queue' PROVE queue'[j] \in 1..pushed
      <4>1. j + 1 \in DOMAIN queue /\ queue'[j] = queue[j + 1]
        BY <2>2, <2>n
      <4> QED BY <4>1 DEF Ordered, UpTo
    <3> QED BY <1>1, <3>1, <3>2 DEF UpTo
  <2> QED BY <2>3, <2>4, <2>7, <2>8 DEF Ordered
<1>2. ASSUME queue' = queue, delivered' = delivered, pushed' \in {pushed, pushed + 1}
      PROVE  Ordered'
  BY <1>2, <1>a DEF Ordered, Increasing, UpTo
<1>3. ASSUME NEW r \in Seq(Nat), NEW k \in Nat,
             \A i \in DOMAIN r : i + k \in DOMAIN queue /\ r[i] = queue[i + k]
      PROVE  /\ Increasing(r) /\ UpTo(r)
             /\ \A i \in DOMAIN delivered, j \in DOMAIN r : delivered[i] < r[j]
  <2>1. Increasing(r)
    BY <1>a, <1>3, CutIncreasing DEF Ordered
  <2>2. UpTo(r)
    BY <1>3 DEF Ordered, UpTo
  <2>3. \A i \in DOMAIN delivered, j \in DOMAIN r : delivered[i] < r[j]
    BY <1>3 DEF Ordered
  <2> QED BY <2>1, <2>2, <2>3
<1>4. ASSUME BeginTask \/ EndTask \/ DrainStepEnds \/ DrainStepThrows \/ ListenerEnds
             \/ SetListener \/ ClearListener \/ PushIgnored \/ UNCHANGED vars
      PROVE  Ordered'
  BY <1>2, <1>4 DEF BeginTask, EndTask, DrainStepEnds, DrainStepThrows, ListenerEnds,
                    SetListener, ClearListener, PushIgnored, NewMessage, vars,
                    channelVars, logVars
<1>5. ASSUME DrainStep \/ DrainResumes \/ Drain PROVE Ordered'
  <2>1. pushed' = pushed /\ (HandsOver \/ (queue' = queue /\ delivered' = delivered))
    BY <1>5 DEF DrainStep, DrainResumes, Drain, HandsOver
  <2> QED BY <1>1, <1>2, <2>1
<1>6. ASSUME PushThrough PROVE Ordered'
  <2>1. /\ queue = <<>> /\ queue' = <<>> /\ pushed' = pushed + 1
        /\ delivered' = Append(delivered, pushed + 1)
    BY <1>6 DEF PushThrough, NewMessage, NothingWaitsForListener
  <2>2. Increasing(delivered')
    <3>1. \A i \in DOMAIN delivered : delivered[i] < pushed + 1
      BY <1>a DEF Ordered, UpTo
    <3> QED BY <1>a, <2>1, <3>1, AppendIncreasing DEF Ordered
  <2>3. UpTo(delivered)'
    BY <1>a, <2>1 DEF Ordered, UpTo
  <2> QED BY <2>1, <2>2, <2>3 DEF Ordered, Increasing, UpTo
<1>7. ASSUME PushStored PROVE Ordered'
  <2>1. capacity - 1 \in Nat
    BY <1>7 DEF PushStored, TypeOK
  <2> DEFINE r == Rest(capacity - 1)
  <2>2. PICK k \in Nat : \A i \in DOMAIN r : i + k \in DOMAIN queue /\ r[i] = queue[i + k]
    BY <2>1, RestFacts, Zenon
  <2>3. r \in Seq(Nat)
    <3>1. r \in Seq(Message)
      BY <2>1, RestFacts
    <3>2. Message \subseteq Nat
      BY DEF Message
    <3> QED BY <3>1, <3>2, SeqOfMore, Zenon
  <2> HIDE DEF r
  <2>4. /\ Increasing(r) /\ UpTo(r)
        /\ \A i \in DOMAIN delivered, j \in DOMAIN r : delivered[i] < r[j]
    BY <1>3, <2>2, <2>3
  <2>5. queue' = Append(r, pushed + 1) /\ delivered' = delivered /\ pushed' = pushed + 1
    BY <1>7 DEF PushStored, NewMessage, r
  <2>6. Increasing(queue')
    <3>1. \A i \in DOMAIN r : r[i] < pushed + 1
      BY <1>a, <2>4 DEF UpTo
    <3> QED BY <1>a, <2>3, <2>4, <2>5, <3>1, AppendIncreasing
  <2>7. /\ DOMAIN queue' = 1..(Len(r) + 1) /\ queue'[Len(r) + 1] = pushed + 1
        /\ \A i \in 1..Len(r) : queue'[i] = r[i]
    BY <1>a, <2>3, <2>5
  <2>8. \A i \in DOMAIN delivered', j \in DOMAIN queue' : delivered'[i] < queue'[j]
    <3>1. \A i \in DOMAIN delivered : delivered[i] < pushed + 1
      BY <1>a DEF Ordered, UpTo
    <3> QED BY <2>3, <2>4, <2>5, <2>7, <3>1
  <2>9. UpTo(queue)' /\ UpTo(delivered)'
    BY <1>a, <2>3, <2>4, <2>5, <2>7 DEF UpTo, Ordered
  <2>10. Increasing(delivered')
    BY <2>5 DEF Ordered
  <2> QED BY <2>6, <2>8, <2>9, <2>10 DEF Ordered
<1>8. ASSUME NEW n \in Size, Resize(n) PROVE Ordered'
  <2>1. n \in Nat
    BY ChannelAssumption
  <2>2. PICK k \in Nat : \A i \in DOMAIN Rest(n) : i + k \in DOMAIN queue /\ Rest(n)[i] = queue[i + k]
    BY <2>1, RestFacts
  <2>3. Rest(n) \in Seq(Nat)
    <3>1. Rest(n) \in Seq(Message)
      BY <2>1, RestFacts
    <3>2. Message \subseteq Nat
      BY DEF Message
    <3> QED BY <3>1, <3>2, SeqOfMore, Zenon
  <2>4. /\ Increasing(Rest(n)) /\ UpTo(Rest(n))
        /\ \A i \in DOMAIN delivered, j \in DOMAIN Rest(n) : delivered[i] < Rest(n)[j]
    BY <1>3, <2>2, <2>3
  <2>5. queue' = Rest(n) /\ delivered' = delivered /\ pushed' = pushed
    BY <1>8 DEF Resize
  <2> QED BY <2>4, <2>5 DEF Ordered, UpTo
<1>9. ASSUME NEW allowed \in BOOLEAN, AllowOverflow(allowed) PROVE Ordered'
  BY <1>2, <1>9 DEF AllowOverflow, logVars
<1> QED BY <1>4, <1>5, <1>6, <1>7, <1>8, <1>9 DEF Next, TurnStep

\* Two ordered sequences, one before the other, are ordered in a row.
LEMMA OrderedDelivers == TypeOK /\ Ordered => DeliveredInOrder
<1> SUFFICES ASSUME TypeOK, Ordered PROVE DeliveredInOrder
  OBVIOUS
<1>1. queue \in Seq(Message) /\ delivered \in Seq(Message)
  BY DEF TypeOK
<1>2. /\ DOMAIN (delivered \o queue) = 1..(Len(delivered) + Len(queue))
      /\ \A i \in 1..Len(delivered) : (delivered \o queue)[i] = delivered[i]
      /\ \A i \in (Len(delivered) + 1)..(Len(delivered) + Len(queue)) :
            (delivered \o queue)[i] = queue[i - Len(delivered)]
  BY <1>1
<1>3. ASSUME NEW i \in DOMAIN (delivered \o queue), NEW j \in DOMAIN (delivered \o queue), i < j
      PROVE  (delivered \o queue)[i] < (delivered \o queue)[j]
  <2>1. CASE j <= Len(delivered)
    BY <1>1, <1>2, <1>3, <2>1 DEF Ordered, Increasing
  <2>2. CASE i <= Len(delivered) /\ j > Len(delivered)
    <3>1. i \in DOMAIN delivered /\ j - Len(delivered) \in DOMAIN queue
      BY <1>1, <1>2, <2>2
    <3>2. delivered[i] < queue[j - Len(delivered)]
      BY <3>1 DEF Ordered
    <3> QED BY <1>1, <1>2, <2>2, <3>2
  <2>3. CASE i > Len(delivered)
    <3>1. /\ i - Len(delivered) \in DOMAIN queue /\ j - Len(delivered) \in DOMAIN queue
          /\ i - Len(delivered) < j - Len(delivered)
      BY <1>1, <1>2, <1>3, <2>3
    <3>2. queue[i - Len(delivered)] < queue[j - Len(delivered)]
      BY <3>1 DEF Ordered, Increasing
    <3> QED BY <1>1, <1>2, <1>3, <2>3, <3>2
  <2> QED BY <1>1, <1>2, <2>1, <2>2, <2>3
<1> QED BY <1>3 DEF DeliveredInOrder, Increasing

-----------------------------------------------------------------------------
\* The inductive invariant holds always.
LEMMA ChannelCorrect == Spec => []ChannelInvariant
<1>1. ChannelInvariant /\ [Next]_vars => ChannelInvariant'
  BY TypeStep, WaitStep, OrderStep DEF ChannelInvariant
<1> QED BY <1>1, ChannelInit, PTL DEF Spec

\* The queue keeps to the channel's capacity through every push and resize.
THEOREM KeepsCapacity == Spec => []TypeOK
<1>1. ChannelInvariant => TypeOK
  BY DEF ChannelInvariant
<1> QED BY <1>1, ChannelCorrect, PTL

\* push's assertion that a listener has no message waiting holds, whatever
\* listeners do to the channel, and whether or not they throw.
THEOREM PushAssertion == Spec => []NothingWaitsForListener
<1>1. ChannelInvariant => NothingWaitsForListener
  BY DEF ChannelInvariant
<1> QED BY <1>1, ChannelCorrect, PTL

\* Messages reach the framework in the order the platform sent them.
THEOREM InOrder == Spec => []DeliveredInOrder
<1>1. ChannelInvariant => DeliveredInOrder
  BY OrderedDelivers DEF ChannelInvariant
<1> QED BY <1>1, ChannelCorrect, PTL

\* A drain is started only when _draining is clear, and the flag is cleared only
\* by the drain's own end: there is never a second drain.
THEOREM DrainsDoNotOverlap == Spec => []OneDrain
<1>1. Init => OneDrain
  BY DEF Init, OneDrain, Drains
<1>2. TypeOK /\ OneDrain /\ [Next]_vars => OneDrain'
  <2> SUFFICES ASSUME TypeOK, OneDrain, [Next]_vars PROVE OneDrain'
    OBVIOUS
  <2> USE DEF OneDrain, Drains
  <2>a. microtasks \in Nat /\ turn \in {"idle", "task", "drainStep"}
    BY DEF TypeOK
  <2>1. ASSUME UNCHANGED <<draining, microtasks, turn>> PROVE OneDrain'
    BY <2>1
  <2>2. ASSUME BeginTask \/ EndTask \/ DrainStepEnds \/ DrainResumes PROVE OneDrain'
    BY <2>a, <2>2 DEF BeginTask, EndTask, DrainStepEnds, DrainResumes, channelVars
  <2>3. ASSUME DrainStep PROVE OneDrain'
    BY <2>a, <2>3 DEF DrainStep
  <2>4. ASSUME SetListener PROVE OneDrain'
    BY <2>a, <2>4 DEF SetListener
  <2>5. ASSUME DrainStepThrows PROVE OneDrain'
    BY <2>a, <2>5 DEF DrainStepThrows, channelVars
  <2> QED
    BY <2>1, <2>2, <2>3, <2>4, <2>5
       DEF Next, TurnStep, ListenerEnds, PushThrough, PushIgnored, PushStored, ClearListener,
           Drain, Resize, AllowOverflow, vars, channelVars, turnVars
<1>3. ChannelInvariant => TypeOK
  BY DEF ChannelInvariant
<1> QED BY <1>1, <1>2, <1>3, ChannelCorrect, PTL DEF Spec

\* While listeners do not throw, _draining says exactly that a drain is under
\* way, so setting a listener always starts one that is missing.
THEOREM DrainIsUnderWay == ASSUME ~ListenersThrow PROVE Spec => []DrainingIsUnderWay
<1>1. Init => DrainingIsUnderWay
  BY DEF Init, DrainingIsUnderWay, Drains
<1>2. TypeOK /\ DrainingIsUnderWay /\ [Next]_vars => DrainingIsUnderWay'
  <2> SUFFICES ASSUME TypeOK, DrainingIsUnderWay, [Next]_vars PROVE DrainingIsUnderWay'
    OBVIOUS
  <2> USE DEF DrainingIsUnderWay, Drains
  <2>a. microtasks \in Nat /\ turn \in {"idle", "task", "drainStep"}
    BY DEF TypeOK
  <2>1. ASSUME UNCHANGED <<draining, microtasks, turn>> PROVE DrainingIsUnderWay'
    BY <2>1
  <2>2. ASSUME BeginTask \/ EndTask \/ DrainStepEnds \/ DrainResumes
        PROVE  DrainingIsUnderWay'
    BY <2>a, <2>2 DEF BeginTask, EndTask, DrainStepEnds, DrainResumes, channelVars
  <2>3. ASSUME DrainStep PROVE DrainingIsUnderWay'
    BY <2>a, <2>3 DEF DrainStep
  <2>4. ASSUME SetListener PROVE DrainingIsUnderWay'
    BY <2>a, <2>4 DEF SetListener
  <2>5. ~DrainStepThrows
    BY DEF DrainStepThrows
  <2> QED
    BY <2>1, <2>2, <2>3, <2>4, <2>5
       DEF Next, TurnStep, ListenerEnds, PushThrough, PushIgnored, PushStored, ClearListener,
           Drain, Resize, AllowOverflow, vars, channelVars, turnVars
<1>3. ChannelInvariant => TypeOK
  BY DEF ChannelInvariant
<1> QED BY <1>1, <1>2, <1>3, ChannelCorrect, PTL DEF Spec

-----------------------------------------------------------------------------
(* Every message has one fate.                                             *)

\* Where m is in s.
Places(m, s) == {i \in DOMAIN s : s[i] = m}

\* The number of occurrences is a natural number.
LEMMA PlacesFinite ==
    ASSUME NEW S, NEW s \in Seq(S), NEW m
    PROVE  IsFiniteSet(Places(m, s)) /\ Times(m, s) = Cardinality(Places(m, s)) /\ Times(m, s) \in Nat
<1>1. DOMAIN s = 1..Len(s) /\ Len(s) \in Int
  OBVIOUS
<1>2. IsFiniteSet(1..Len(s))
  BY <1>1, FS_Interval
<1>3. Places(m, s) \in SUBSET (1..Len(s))
  BY <1>1 DEF Places
<1>4. IsFiniteSet(Places(m, s))
  BY <1>2, <1>3, FS_Subset
<1>5. Times(m, s) = Cardinality(Places(m, s))
  BY DEF Times, Places
<1> QED BY <1>4, <1>5, FS_CardinalityType

\* Occurrences add up when sequences are put in a row.
LEMMA TimesConcat ==
    ASSUME NEW S, NEW s \in Seq(S), NEW t \in Seq(S), NEW m
    PROVE  Times(m, s \o t) = Times(m, s) + Times(m, t)
<1> DEFINE n == Len(s)
           Shifted == {i \in (n + 1)..(n + Len(t)) : t[i - n] = m}
           shift == [i \in Places(m, t) |-> i + n]
<1>1. /\ DOMAIN s = 1..n /\ n \in Nat /\ DOMAIN t = 1..Len(t) /\ Len(t) \in Nat
      /\ s \o t \in Seq(S) /\ DOMAIN (s \o t) = 1..(n + Len(t))
      /\ \A i \in 1..n : (s \o t)[i] = s[i]
      /\ \A i \in (n + 1)..(n + Len(t)) : (s \o t)[i] = t[i - n]
  OBVIOUS
<1> HIDE DEF n
<1>2. Places(m, s \o t) = Places(m, s) \cup Shifted
  <2>1. ASSUME NEW i PROVE i \in Places(m, s \o t) <=> i \in Places(m, s) \cup Shifted
    BY <1>1 DEF Places
  <2> QED BY <2>1
<1>3. Places(m, s) \cap Shifted = {}
  BY <1>1 DEF Places
<1>4. ExistsBijection(Places(m, t), Shifted)
  <2>1. shift \in [Places(m, t) -> Shifted]
    BY <1>1 DEF Places
  <2>2. \A i, j \in Places(m, t) : shift[i] = shift[j] => i = j
    BY <1>1 DEF Places
  <2>3. \A k \in Shifted : \E i \in Places(m, t) : shift[i] = k
    <3>1. ASSUME NEW k \in Shifted PROVE k - n \in Places(m, t) /\ shift[k - n] = k
      BY <1>1 DEF Places
    <3> QED BY <3>1, Zenon
  <2>4. DOMAIN shift = Places(m, t)
    OBVIOUS
  <2> HIDE DEF shift, Shifted
  <2>5. shift \in Bijection(Places(m, t), Shifted)
    BY <2>1, <2>2, <2>3, <2>4, Zenon DEF Bijection, Injection, Surjection, IsInjective
  <2> QED BY <2>5, Zenon DEF ExistsBijection
<1> HIDE DEF Shifted
<1>5. IsFiniteSet(Shifted) /\ Cardinality(Shifted) = Times(m, t)
  BY <1>4, PlacesFinite, FS_Bijection
<1>6. /\ IsFiniteSet(Places(m, s)) /\ Cardinality(Places(m, s)) = Times(m, s)
      /\ Times(m, s) \in Nat /\ Times(m, t) \in Nat
  BY PlacesFinite
<1>7. Cardinality(Places(m, s) \cup Shifted)
         = Cardinality(Places(m, s)) + Cardinality(Shifted) - Cardinality(Places(m, s) \cap Shifted)
  BY <1>5, <1>6, FS_Union
<1>8. Cardinality(Places(m, s) \cap Shifted) = 0
  BY <1>3, FS_EmptySet, Zenon
<1>9. Times(m, s \o t) = Cardinality(Places(m, s \o t))
  BY <1>1, PlacesFinite, Zenon
<1> QED BY <1>2, <1>5, <1>6, <1>7, <1>8, <1>9

\* 1 if x is m.
Is(x, m) == IF x = m THEN 1 ELSE 0

\* The occurrences in a sequence of one.
LEMMA TimesOne == ASSUME NEW x, NEW m PROVE Times(m, <<x>>) = Is(x, m)
<1>1. {i \in DOMAIN <<x>> : <<x>>[i] = m} = IF x = m THEN {1} ELSE {}
  OBVIOUS
<1>2. CASE x = m
  BY <1>1, <1>2, FS_Singleton, Zenon DEF Times, Is
<1>3. CASE x # m
  BY <1>1, <1>3, FS_EmptySet DEF Times, Is
<1> QED BY <1>2, <1>3

\* Appending adds one occurrence.
LEMMA TimesAppend ==
    ASSUME NEW S, NEW s \in Seq(S), NEW x \in S, NEW m
    PROVE  Times(m, Append(s, x)) = Times(m, s) + Is(x, m)
<1>1. <<x>> \in Seq(S) /\ Append(s, x) = s \o <<x>>
  OBVIOUS
<1>2. Times(m, s \o <<x>>) = Times(m, s) + Times(m, <<x>>)
  BY <1>1, TimesConcat, Zenon
<1> QED BY <1>1, <1>2, TimesOne

\* The first message and the others are the queue.
LEMMA TimesTail ==
    ASSUME NEW S, NEW s \in Seq(S), s # <<>>, NEW m
    PROVE  Times(m, s) = Is(Head(s), m) + Times(m, Tail(s))
<1>1. <<Head(s)>> \in Seq(S) /\ Tail(s) \in Seq(S) /\ s = <<Head(s)>> \o Tail(s)
  OBVIOUS
<1>2. Times(m, <<Head(s)>> \o Tail(s)) = Times(m, <<Head(s)>>) + Times(m, Tail(s))
  BY <1>1, TimesConcat, Zenon
<1> QED BY <1>1, <1>2, TimesOne, Zenon

\* Sequences of one length with the same elements are the same.
LEMMA SameSeq ==
    ASSUME NEW S, NEW s \in Seq(S), NEW t \in Seq(S), Len(s) = Len(t),
           \A i \in 1..Len(t) : s[i] = t[i]
    PROVE  t = s
<1>1. s \in [1..Len(t) -> S] /\ t \in [1..Len(t) -> S]
  OBVIOUS
<1> QED BY <1>1

\* What _dropOverflowMessages answers and what it leaves are the queue.
LEMMA TimesRest ==
    ASSUME TypeOK, NEW n \in Nat, NEW m
    PROVE  Times(m, queue) = Times(m, Dropped(n)) + Times(m, Rest(n))
<1>1. queue \in Seq(Message) /\ Len(queue) \in Nat
  BY DEF TypeOK
<1>2. Overflow(n) \in 0..Len(queue)
  BY <1>1 DEF Overflow
<1>3. /\ Dropped(n) \in Seq(Message) /\ Len(Dropped(n)) = Overflow(n)
      /\ \A i \in 1..Overflow(n) : Dropped(n)[i] = queue[i]
  BY <1>1, <1>2 DEF Dropped
<1>4. /\ Rest(n) \in Seq(Message) /\ Len(Rest(n)) = Len(queue) - Overflow(n)
      /\ \A i \in 1..(Len(queue) - Overflow(n)) : Rest(n)[i] = queue[i + Overflow(n)]
  BY <1>1, <1>2, SubSeqSuffix DEF Rest
<1>5. queue = Dropped(n) \o Rest(n)
  <2>1. /\ Dropped(n) \o Rest(n) \in Seq(Message) /\ Len(Dropped(n) \o Rest(n)) = Len(queue)
        /\ \A i \in 1..Overflow(n) : (Dropped(n) \o Rest(n))[i] = Dropped(n)[i]
        /\ \A i \in (Overflow(n) + 1)..Len(queue) :
              (Dropped(n) \o Rest(n))[i] = Rest(n)[i - Overflow(n)]
    BY <1>1, <1>2, <1>3, <1>4
  <2>2. ASSUME NEW i \in 1..Len(queue) PROVE (Dropped(n) \o Rest(n))[i] = queue[i]
    <3>1. CASE i <= Overflow(n)
      BY <1>2, <1>3, <2>1, <3>1
    <3>2. CASE i > Overflow(n)
      <4>1. i - Overflow(n) \in 1..(Len(queue) - Overflow(n)) /\ i - Overflow(n) + Overflow(n) = i
        BY <1>1, <1>2, <3>2
      <4>2. (Dropped(n) \o Rest(n))[i] = Rest(n)[i - Overflow(n)]
        BY <1>2, <2>1, <3>2
      <4>3. Rest(n)[i - Overflow(n)] = queue[i - Overflow(n) + Overflow(n)]
        BY <1>4, <4>1, Zenon
      <4> QED BY <4>1, <4>2, <4>3, Zenon
    <3>3. i <= Overflow(n) \/ i > Overflow(n)
      BY <1>1, <1>2
    <3> QED BY <3>1, <3>2, <3>3, Zenon
  <2> QED BY <1>1, <2>1, <2>2, SameSeq, Zenon
<1>6. Times(m, Dropped(n) \o Rest(n)) = Times(m, Dropped(n)) + Times(m, Rest(n))
  BY <1>3, <1>4, TimesConcat
<1> QED BY <1>5, <1>6

\* Accounted, for one message.
Fates(m) ==
    Times(m, delivered) + Times(m, answered) + Times(m, queue)
    + (IF m \in ignored THEN 1 ELSE 0)

\* Each step moves a message from one fate to another, or gives a new one its first.
LEMMA AccountedStep == TypeOK /\ TypeOK' /\ Accounted /\ [Next]_vars => Accounted'
<1> SUFFICES ASSUME TypeOK, TypeOK', Accounted, [Next]_vars, NEW m \in Message
             PROVE  Fates(m)' = IF m <= pushed' THEN 1 ELSE 0
  BY DEF Accounted, Fates
<1>a. Fates(m) = IF m <= pushed THEN 1 ELSE 0
  BY DEF Accounted, Fates
<1>b. /\ delivered \in Seq(Message) /\ answered \in Seq(Message) /\ queue \in Seq(Message)
      /\ pushed \in Nat /\ m \in Nat /\ capacity \in Nat
  BY ChannelAssumption DEF TypeOK, Message
<1>c. Times(m, delivered) \in Nat /\ Times(m, answered) \in Nat /\ Times(m, queue) \in Nat
  BY <1>b, PlacesFinite
<1>1. ASSUME HandsOver, UNCHANGED <<answered, ignored, pushed>> PROVE Fates(m)' = Fates(m)
  <2>1. Head(queue) \in Message /\ Tail(queue) \in Seq(Message)
    BY <1>1, <1>b DEF HandsOver
  <2>2. Times(m, queue) = Is(Head(queue), m) + Times(m, queue')
    BY <1>1, <1>b, TimesTail DEF HandsOver
  <2>3. Times(m, delivered') = Times(m, delivered) + Is(Head(queue), m)
    BY <1>1, <1>b, <2>1, TimesAppend DEF HandsOver
  <2>4. Is(Head(queue), m) \in Nat /\ Times(m, queue') \in Nat
    BY <1>1, <2>1, PlacesFinite, Zenon DEF Is, HandsOver
  <2>5. answered' = answered /\ ignored' = ignored
    BY <1>1
  <2>6. Fates(m)' = Times(m, delivered') + Times(m, answered) + Times(m, queue')
                    + (IF m \in ignored THEN 1 ELSE 0)
    BY <2>5 DEF Fates, Times
  <2> QED BY <1>c, <2>2, <2>3, <2>4, <2>6 DEF Fates
<1>2. ASSUME UNCHANGED <<delivered, answered, queue, ignored, pushed>>
      PROVE  Fates(m)' = IF m <= pushed' THEN 1 ELSE 0
  BY <1>2, <1>a DEF Fates, Times
<1>3. ASSUME DrainStep \/ DrainResumes \/ Drain PROVE Fates(m)' = IF m <= pushed' THEN 1 ELSE 0
  <2>1. /\ UNCHANGED <<answered, ignored, pushed>>
        /\ HandsOver \/ (queue' = queue /\ delivered' = delivered)
    BY <1>3 DEF DrainStep, DrainResumes, Drain, HandsOver
  <2> QED BY <1>1, <1>2, <1>a, <2>1
<1>4. ASSUME NewMessage
      PROVE  /\ pushed + 1 \in Message /\ pushed + 1 \notin ignored
             /\ (IF m <= pushed' THEN 1 ELSE 0) = (IF m <= pushed THEN 1 ELSE 0) + Is(pushed + 1, m)
  <2>1. pushed + 1 \in Message /\ pushed' = pushed + 1
    BY <1>4, <1>b, ChannelAssumption DEF NewMessage, Message, TypeOK
  <2>2. Fates(pushed + 1) = 0
    BY <1>b, <2>1 DEF Accounted, Fates
  <2>3. /\ Times(pushed + 1, delivered) \in Nat /\ Times(pushed + 1, answered) \in Nat
        /\ Times(pushed + 1, queue) \in Nat
    BY <1>b, PlacesFinite
  <2>4. pushed + 1 \notin ignored
    BY <2>2, <2>3 DEF Fates
  <2> QED BY <1>b, <2>1, <2>4 DEF Is
<1>5. ASSUME PushThrough PROVE Fates(m)' = IF m <= pushed' THEN 1 ELSE 0
  <2>1. /\ NewMessage /\ delivered' = Append(delivered, pushed + 1)
        /\ answered' = answered /\ queue' = queue /\ ignored' = ignored
    BY <1>5 DEF PushThrough
  <2>2. Times(m, delivered') = Times(m, delivered) + Is(pushed + 1, m)
    BY <1>4, <1>b, <2>1, TimesAppend
  <2>3. Fates(m)' = Times(m, delivered') + Times(m, answered) + Times(m, queue)
                    + (IF m \in ignored THEN 1 ELSE 0)
    BY <2>1 DEF Fates, Times
  <2> QED BY <1>4, <1>a, <1>c, <2>1, <2>2, <2>3 DEF Fates, Is
<1>6. ASSUME PushIgnored PROVE Fates(m)' = IF m <= pushed' THEN 1 ELSE 0
  <2>1. /\ NewMessage /\ ignored' = ignored \cup {pushed + 1}
        /\ answered' = answered /\ queue' = queue /\ delivered' = delivered
    BY <1>6 DEF PushIgnored
  <2>2. (IF m \in ignored' THEN 1 ELSE 0) = (IF m \in ignored THEN 1 ELSE 0) + Is(pushed + 1, m)
    BY <1>4, <2>1 DEF Is
  <2>3. Fates(m)' = Times(m, delivered) + Times(m, answered) + Times(m, queue)
                    + (IF m \in ignored' THEN 1 ELSE 0)
    BY <2>1 DEF Fates, Times
  <2> QED BY <1>4, <1>a, <1>c, <2>1, <2>2, <2>3 DEF Fates, Is
<1>7. ASSUME NEW n \in Nat, answered' = answered \o Dropped(n)
      PROVE  /\ Times(m, answered') = Times(m, answered) + Times(m, Dropped(n))
             /\ Times(m, queue) = Times(m, Dropped(n)) + Times(m, Rest(n))
             /\ Times(m, Dropped(n)) \in Nat /\ Times(m, Rest(n)) \in Nat
             /\ Rest(n) \in Seq(Message)
  <2>1. Dropped(n) \in Seq(Message) /\ Rest(n) \in Seq(Message)
    BY RestFacts
  <2> QED BY <1>7, <1>b, <2>1, TimesConcat, TimesRest, PlacesFinite
<1>8. ASSUME PushStored PROVE Fates(m)' = IF m <= pushed' THEN 1 ELSE 0
  <2>1. PICK n \in Nat : n = capacity - 1
    BY <1>8, <1>b DEF PushStored
  <2>2. /\ NewMessage /\ queue' = Append(Rest(n), pushed + 1)
        /\ answered' = answered \o Dropped(n) /\ delivered' = delivered /\ ignored' = ignored
    BY <1>8, <2>1 DEF PushStored
  <2>3. Times(m, queue') = Times(m, Rest(n)) + Is(pushed + 1, m)
    BY <1>4, <1>7, <2>2, TimesAppend
  <2>4. Fates(m)' = Times(m, delivered) + Times(m, answered') + Times(m, queue')
                    + (IF m \in ignored THEN 1 ELSE 0)
    BY <2>2 DEF Fates, Times
  <2>5. /\ Times(m, answered') = Times(m, answered) + Times(m, Dropped(n))
        /\ Times(m, queue) = Times(m, Dropped(n)) + Times(m, Rest(n))
        /\ Times(m, Dropped(n)) \in Nat /\ Times(m, Rest(n)) \in Nat
    BY <1>7, <2>2, Zenon
  <2>6. (IF m <= pushed' THEN 1 ELSE 0) = (IF m <= pushed THEN 1 ELSE 0) + Is(pushed + 1, m)
    BY <1>4, <2>2
  <2> QED BY <1>a, <1>c, <2>3, <2>4, <2>5, <2>6 DEF Fates, Is
<1>9. ASSUME NEW n \in Size, Resize(n) PROVE Fates(m)' = IF m <= pushed' THEN 1 ELSE 0
  <2>1. /\ n \in Nat /\ queue' = Rest(n) /\ answered' = answered \o Dropped(n)
        /\ delivered' = delivered /\ ignored' = ignored /\ pushed' = pushed
    BY <1>9, ChannelAssumption DEF Resize
  <2>2. Fates(m)' = Times(m, delivered) + Times(m, answered') + Times(m, Rest(n))
                    + (IF m \in ignored THEN 1 ELSE 0)
    BY <2>1 DEF Fates, Times
  <2>3. /\ Times(m, answered') = Times(m, answered) + Times(m, Dropped(n))
        /\ Times(m, queue) = Times(m, Dropped(n)) + Times(m, Rest(n))
        /\ Times(m, Dropped(n)) \in Nat /\ Times(m, Rest(n)) \in Nat
    BY <1>7, <2>1
  <2> QED BY <1>a, <1>c, <2>1, <2>2, <2>3 DEF Fates
<1>10. ASSUME BeginTask \/ EndTask \/ DrainStepEnds \/ DrainStepThrows \/ ListenerEnds
              \/ SetListener \/ ClearListener \/ UNCHANGED vars
       PROVE  Fates(m)' = IF m <= pushed' THEN 1 ELSE 0
  BY <1>2, <1>10 DEF BeginTask, EndTask, DrainStepEnds, DrainStepThrows, ListenerEnds,
                     SetListener, ClearListener, vars, channelVars, logVars
<1>11. ASSUME NEW allowed \in BOOLEAN, AllowOverflow(allowed)
       PROVE  Fates(m)' = IF m <= pushed' THEN 1 ELSE 0
  BY <1>2, <1>11 DEF AllowOverflow, logVars
<1> QED BY <1>3, <1>5, <1>6, <1>8, <1>9, <1>10, <1>11 DEF Next, TurnStep

\* Every message pushed is handed over, answered with null, stored or ignored by
\* a channel of capacity 0, exactly once, whatever is done to the channel.
THEOREM OneFate == Spec => []Accounted
<1>1. Init => Accounted
  <2> SUFFICES ASSUME Init, NEW m \in Message
               PROVE  Fates(m) = IF m <= pushed THEN 1 ELSE 0
    BY DEF Accounted, Fates
  <2>1. Times(m, <<>>) = 0
    <3>1. {i \in DOMAIN <<>> : <<>>[i] = m} = {}
      OBVIOUS
    <3> QED BY <3>1, FS_EmptySet DEF Times
  <2>2. m \in Nat /\ m >= 1
    BY DEF Message
  <2>3. delivered = <<>> /\ answered = <<>> /\ queue = <<>> /\ ignored = {} /\ pushed = 0
    BY DEF Init
  <2> QED BY <2>1, <2>2, <2>3 DEF Fates
<1>2. ChannelInvariant => TypeOK
  BY DEF ChannelInvariant
<1> QED BY <1>1, <1>2, AccountedStep, ChannelCorrect, PTL DEF Spec

=============================================================================
