------------------------ MODULE DartMessengerPlaces -------------------------
(***************************************************************************)
(* DartMessenger keeps every message in one place until its data is freed, *)
(* for any number of threads and messages.                                 *)
(***************************************************************************)
EXTENDS DartMessengerProofs, FiniteSetTheorems

\* The provers of a leaf that names none, in the order they are tried.
USE SMT, Zenon, Z3T(30), SMTT(60)

\* The terms of InOnePlace: messages that are buffered, held by a dispatcher, in
\* the executor's hands, and running.
BufferedIn(m, b) == Cardinality({i \in DOMAIN b : b[i] = m})
HeldIn(m, f) == Cardinality({di \in Dispatcher \X Message : di[2] \in Places(m, f[di[1]])})
ConcurrentIn(m, c) == Cardinality({r \in c : r.message = m})
RunIn(m, rn) == Cardinality({t \in Thread : rn[t] # NoRunnable /\ rn[t].message = m})
QueuedIn(m, s) == Cardinality(Places(m, s))

Total(m) ==
    BufferedIn(m, bufferedMessages) + HeldIn(m, dispatching)
    + QueuedIn(m, queue) + QueuedIn(m, platformQueue)
    + ConcurrentIn(m, concurrent) + RunIn(m, run) + freed[m]

\* 1 if message m is one of the first n.
Sent(m, n) == IF m <= n THEN 1 ELSE 0

\* InOnePlace, and that a message Dart has yet to send is nowhere.
PlaceInvariant ==
    /\ IsFiniteSet(concurrent)
    /\ Len(from) <= MaxMessages /\ Len(bufferedMessages) <= Len(from)
    /\ \A d \in Dispatcher : Len(dispatching[d]) <= MaxMessages
    /\ \A m \in Message : Total(m) = Sent(m, Len(from))

\* Message m is in one place, if it was sent, and the terms of its
\* total are numbers.
Balance(m) ==
    /\ BufferedIn(m, bufferedMessages) \in Nat /\ HeldIn(m, dispatching) \in Nat
    /\ QueuedIn(m, queue) \in Nat /\ QueuedIn(m, platformQueue) \in Nat
    /\ ConcurrentIn(m, concurrent) \in Nat /\ RunIn(m, run) \in Nat /\ freed[m] \in Nat
    /\ Total(m) = Sent(m, Len(from)) /\ Sent(m, Len(from)) \in Nat

\* 1 if r is for message m.
IsFor(r, m) == IF r.message = m THEN 1 ELSE 0

\* A message is at finitely many places of a sequence.
LEMMA QueuedType ==
    ASSUME NEW m, NEW S, NEW s \in Seq(S)
    PROVE  IsFiniteSet(Places(m, s)) /\ QueuedIn(m, s) \in Nat
<1>1. DOMAIN s = 1 .. Len(s) /\ Len(s) \in Int
  OBVIOUS
<1>2. IsFiniteSet(1 .. Len(s))
  BY <1>1, FS_Interval
<1>3. Places(m, s) \in SUBSET (1 .. Len(s))
  BY <1>1 DEF Places
<1>4. IsFiniteSet(Places(m, s))
  BY <1>2, <1>3, FS_Subset
<1> QED BY <1>4, FS_CardinalityType DEF QueuedIn

\* It is nowhere in an empty one.
LEMMA QueuedEmpty == ASSUME NEW m PROVE QueuedIn(m, <<>>) = 0
<1>1. Places(m, <<>>) = {}
  BY DEF Places
<1> QED BY <1>1, FS_EmptySet, Zenon DEF QueuedIn

\* Appending a runnable adds a place.
LEMMA QueuedAppend ==
    ASSUME NEW m, NEW S, NEW s \in Seq(S), NEW r \in S
    PROVE  QueuedIn(m, Append(s, r)) = QueuedIn(m, s) + IsFor(r, m)
<1>1. /\ DOMAIN Append(s, r) = 1 .. (Len(s) + 1) /\ DOMAIN s = 1 .. Len(s) /\ Len(s) \in Nat
      /\ Append(s, r)[Len(s) + 1] = r /\ \A i \in 1 .. Len(s) : Append(s, r)[i] = s[i]
  OBVIOUS
<1>2. IsFiniteSet(Places(m, s)) /\ QueuedIn(m, s) \in Nat
  BY QueuedType
<1>3. CASE r.message = m
  <2>1. Places(m, Append(s, r)) = Places(m, s) \cup {Len(s) + 1} /\ Len(s) + 1 \notin Places(m, s)
    BY <1>1, <1>3 DEF Places
  <2>2. Cardinality(Places(m, s) \cup {Len(s) + 1}) = Cardinality(Places(m, s)) + 1
    BY <1>2, <2>1, FS_AddElement, Zenon
  <2> QED BY <1>3, <2>1, <2>2 DEF QueuedIn, IsFor
<1>4. CASE r.message # m
  <2>1. Places(m, Append(s, r)) = Places(m, s)
    BY <1>1, <1>4 DEF Places
  <2> QED BY <1>2, <1>4, <2>1 DEF QueuedIn, IsFor
<1> QED BY <1>3, <1>4

\* Sets of numbers that differ by a shift have the same size.
LEMMA ShiftedSize ==
    ASSUME NEW A, IsFiniteSet(A), A \subseteq Int, NEW k \in Int,
           NEW B, \A i : i \in B <=> i \in Int /\ i + k \in A
    PROVE  IsFiniteSet(B) /\ Cardinality(B) = Cardinality(A)
<1> DEFINE f == [i \in A |-> i - k]
<1>1. f \in [A -> B]
  OBVIOUS
<1>2. \A i, j \in A : f[i] = f[j] => i = j
  OBVIOUS
<1>3. \A j \in B : \E i \in A : f[i] = j
  <2>1. ASSUME NEW j \in B PROVE j + k \in A /\ f[j + k] = j
    OBVIOUS
  <2> QED BY <2>1, Zenon
<1>4. DOMAIN f = A
  OBVIOUS
<1> HIDE DEF f
<1>5. f \in Bijection(A, B)
  BY <1>1, <1>2, <1>3, <1>4, Zenon DEF Bijection, Injection, Surjection, IsInjective
<1>6. ExistsBijection(A, B)
  BY <1>5, Zenon DEF ExistsBijection
<1> QED BY <1>6, FS_Bijection

\* Removing the head removes its place.
LEMMA QueuedTail ==
    ASSUME NEW m, NEW S, NEW s \in Seq(S), s # <<>>
    PROVE  QueuedIn(m, s) = IsFor(Head(s), m) + QueuedIn(m, Tail(s))
<1>1. /\ DOMAIN s = 1 .. Len(s) /\ Len(s) \in Nat /\ Len(s) >= 1 /\ Head(s) = s[1]
      /\ Tail(s) \in Seq(S) /\ DOMAIN Tail(s) = 1 .. (Len(s) - 1)
      /\ \A i \in 1 .. (Len(s) - 1) : Tail(s)[i] = s[i + 1]
  OBVIOUS
<1>2. IsFiniteSet(Places(m, s)) /\ QueuedIn(m, s) \in Nat /\ QueuedIn(m, Tail(s)) \in Nat
  BY <1>1, QueuedType, Zenon
<1> DEFINE A == Places(m, s) \ {1}
<1>3. /\ IsFiniteSet(A)
      /\ Cardinality(A) = IF 1 \in Places(m, s) THEN QueuedIn(m, s) - 1 ELSE QueuedIn(m, s)
  BY <1>2, FS_RemoveElement DEF QueuedIn
<1>4. A \subseteq Int /\ \A i : i \in Places(m, Tail(s)) <=> i \in Int /\ i + 1 \in A
  BY <1>1 DEF Places
<1> DEFINE T == Places(m, Tail(s))
<1> HIDE DEF A, T
<1>5. Cardinality(T) = Cardinality(A)
  <2>1. 1 \in Int /\ IsFiniteSet(A)
    BY <1>3
  <2>2. A \subseteq Int /\ \A i : i \in T <=> i \in Int /\ i + 1 \in A
    BY <1>4 DEF T
  <2> QED BY <2>1, <2>2, ShiftedSize, Zenon
<1>6. 1 \in Places(m, s) <=> Head(s).message = m
  BY <1>1 DEF Places
<1> QED BY <1>2, <1>3, <1>5, <1>6 DEF IsFor, QueuedIn, T

\* Messages are appended to the buffer.
LEMMA BufferedAppend ==
    ASSUME NEW m, NEW b \in Seq(Message), NEW n \in Message
    PROVE  /\ BufferedIn(m, b) \in Nat
           /\ BufferedIn(m, Append(b, n)) = BufferedIn(m, b) + IF n = m THEN 1 ELSE 0
<1> DEFINE B == {i \in DOMAIN b : b[i] = m}
<1>1. /\ DOMAIN Append(b, n) = 1 .. (Len(b) + 1) /\ DOMAIN b = 1 .. Len(b) /\ Len(b) \in Nat
      /\ Append(b, n)[Len(b) + 1] = n /\ \A i \in 1 .. Len(b) : Append(b, n)[i] = b[i]
  OBVIOUS
<1>2. IsFiniteSet(B) /\ Cardinality(B) \in Nat
  <2>1. IsFiniteSet(1 .. Len(b)) /\ B \in SUBSET (1 .. Len(b))
    BY <1>1, FS_Interval
  <2> QED BY <2>1, FS_Subset, FS_CardinalityType
<1>3. CASE n = m
  <2>1. {i \in DOMAIN Append(b, n) : Append(b, n)[i] = m} = B \cup {Len(b) + 1} /\ Len(b) + 1 \notin B
    BY <1>1, <1>3
  <2>2. Cardinality(B \cup {Len(b) + 1}) = Cardinality(B) + 1
    BY <1>2, <2>1, FS_AddElement, Zenon
  <2> QED BY <1>2, <1>3, <2>1, <2>2, Zenon DEF BufferedIn
<1>4. CASE n # m
  <2>1. {i \in DOMAIN Append(b, n) : Append(b, n)[i] = m} = B
    BY <1>1, <1>4
  <2>2. BufferedIn(m, Append(b, n)) = Cardinality(B) /\ BufferedIn(m, b) = Cardinality(B)
    BY <2>1, Zenon DEF BufferedIn
  <2> HIDE DEF B
  <2> QED BY <1>2, <1>4, <2>2
<1> QED BY <1>3, <1>4

\* A dispatcher's runnables are replaced.
LEMMA HeldReplace ==
    ASSUME NEW m, NEW f \in [Dispatcher -> Seq(Runnable)], NEW d \in Dispatcher,
           NEW s \in Seq(Runnable), Len(s) <= MaxMessages, Len(f[d]) <= MaxMessages
    PROVE  /\ HeldIn(m, f) \in Nat /\ HeldIn(m, [f EXCEPT ![d] = s]) \in Nat
           /\ HeldIn(m, [f EXCEPT ![d] = s]) + QueuedIn(m, f[d]) = HeldIn(m, f) + QueuedIn(m, s)
<1> DEFINE g == [f EXCEPT ![d] = s]
           Others == {di \in Dispatcher \X Message : di[1] # d /\ di[2] \in Places(m, f[di[1]])}
           Mine(q) == {di \in Dispatcher \X Message : di[1] = d /\ di[2] \in Places(m, q)}
           Of(h) == {di \in Dispatcher \X Message : di[2] \in Places(m, h[di[1]])}
<1>1. IsFiniteSet(Dispatcher \X Message)
  <2>1. IsFiniteSet(Message)
    BY FS_Interval, ConstantsAssumption DEF Message
  <2> QED BY <2>1, FS_Product, ConstantsAssumption
<1>2. IsFiniteSet(Others)
  <2>1. Others \in SUBSET (Dispatcher \X Message)
    OBVIOUS
  <2> QED BY <1>1, <2>1, FS_Subset
<1>3. ASSUME NEW q \in Seq(Runnable), Len(q) <= MaxMessages
      PROVE  /\ IsFiniteSet(Mine(q)) /\ Cardinality(Mine(q)) = QueuedIn(m, q) /\ QueuedIn(m, q) \in Nat
             /\ Cardinality(Others \cup Mine(q)) = Cardinality(Others) + QueuedIn(m, q)
             /\ Cardinality(Others \cup Mine(q)) \in Nat
  <2> DEFINE p == [i \in Places(m, q) |-> <<d, i>>]
  <2>1. Places(m, q) \subseteq Message
    BY <1>3, ConstantsAssumption DEF Places, Message
  <2>2. p \in [Places(m, q) -> Mine(q)]
    BY <2>1
  <2>3. \A i, j \in Places(m, q) : p[i] = p[j] => i = j
    OBVIOUS
  <2>4. \A di \in Mine(q) : di[2] \in Places(m, q) /\ p[di[2]] = di
    OBVIOUS
  <2>5. DOMAIN p = Places(m, q)
    OBVIOUS
  <2> DEFINE M == Mine(q)
  <2> HIDE DEF p, M
  <2>6. p \in Bijection(Places(m, q), M)
    BY <2>2, <2>3, <2>4, <2>5, Zenon DEF Bijection, Injection, Surjection, IsInjective, M
  <2>7. ExistsBijection(Places(m, q), M)
    BY <2>6, Zenon DEF ExistsBijection
  <2>8. IsFiniteSet(Places(m, q)) /\ QueuedIn(m, q) \in Nat
    BY QueuedType
  <2>9. IsFiniteSet(M) /\ Cardinality(M) = QueuedIn(m, q)
    BY <2>7, <2>8, FS_Bijection DEF QueuedIn
  <2>10. Others \cap M = {}
    BY DEF M
  <2> HIDE DEF Others
  <2>11. Cardinality(Others \cup M) = Cardinality(Others) + Cardinality(M) - Cardinality(Others \cap M)
    BY <1>2, <2>9, FS_Union
  <2>12. Cardinality(Others) \in Nat /\ Cardinality(Others \cap M) = 0
    BY <1>2, <2>10, FS_CardinalityType, FS_EmptySet, Zenon
  <2>13. /\ Cardinality(Others \cup M) = Cardinality(Others) + QueuedIn(m, q)
         /\ Cardinality(Others \cup M) \in Nat
    BY <2>8, <2>9, <2>11, <2>12
  <2> QED BY <2>8, <2>9, <2>13 DEF M
<1>4. Of(f) = Others \cup Mine(f[d])
  OBVIOUS
<1>5. Of(g) = Others \cup Mine(s)
  OBVIOUS
<1>6. HeldIn(m, f) = Cardinality(Of(f)) /\ HeldIn(m, g) = Cardinality(Of(g))
  BY DEF HeldIn
<1>7. f[d] \in Seq(Runnable)
  OBVIOUS
<1>8. /\ Cardinality(Others \cup Mine(f[d])) = Cardinality(Others) + QueuedIn(m, f[d])
      /\ QueuedIn(m, f[d]) \in Nat /\ Cardinality(Others \cup Mine(f[d])) \in Nat
  BY <1>3, <1>7, Zenon
<1>9. /\ Cardinality(Others \cup Mine(s)) = Cardinality(Others) + QueuedIn(m, s)
      /\ QueuedIn(m, s) \in Nat /\ Cardinality(Others \cup Mine(s)) \in Nat
  BY <1>3, Zenon
<1>10. Cardinality(Others) \in Nat
  BY <1>2, FS_CardinalityType
<1> HIDE DEF Others, Mine, Of, g
<1>11. /\ HeldIn(m, f) = Cardinality(Others) + QueuedIn(m, f[d]) /\ HeldIn(m, f) \in Nat
       /\ HeldIn(m, g) = Cardinality(Others) + QueuedIn(m, s) /\ HeldIn(m, g) \in Nat
  BY <1>4, <1>5, <1>6, <1>8, <1>9
<1>12. HeldIn(m, g) + QueuedIn(m, f[d]) = HeldIn(m, f) + QueuedIn(m, s)
  BY <1>8, <1>9, <1>10, <1>11
<1> QED BY <1>11, <1>12 DEF g

\* A thread begins or ends to run a runnable.
LEMMA RunReplace ==
    ASSUME NEW m, NEW rn \in [Thread -> Runnable \cup {NoRunnable}], NEW t \in Thread,
           NEW r \in Runnable, rn[t] = NoRunnable
    PROVE  /\ RunIn(m, rn) \in Nat
           /\ RunIn(m, [rn EXCEPT ![t] = r]) = RunIn(m, rn) + IsFor(r, m)
<1> DEFINE R == {u \in Thread : rn[u] # NoRunnable /\ rn[u].message = m}
           R2 == {u \in Thread : [rn EXCEPT ![t] = r][u] # NoRunnable /\ [rn EXCEPT ![t] = r][u].message = m}
<1>1. IsFiniteSet(R) /\ Cardinality(R) \in Nat
  <2>1. IsFiniteSet(Thread)
    BY FS_AddElement, ConstantsAssumption DEF Thread
  <2>2. R \in SUBSET Thread
    OBVIOUS
  <2> QED BY <2>1, <2>2, FS_Subset, FS_CardinalityType
<1>2. t \notin R /\ r # NoRunnable
  BY KindsOfQueues
<1>3. \A u \in Thread : [rn EXCEPT ![t] = r][u] = IF u = t THEN r ELSE rn[u]
  OBVIOUS
<1>4. CASE r.message = m
  <2>1. R2 = R \cup {t}
    BY <1>2, <1>3, <1>4
  <2>2. Cardinality(R \cup {t}) = Cardinality(R) + 1
    BY <1>1, <1>2, FS_AddElement
  <2> QED BY <1>1, <1>4, <2>1, <2>2 DEF RunIn, IsFor
<1>5. CASE r.message # m
  <2>1. R2 = R
    BY <1>2, <1>3, <1>5
  <2>2. RunIn(m, [rn EXCEPT ![t] = r]) = Cardinality(R2) /\ RunIn(m, rn) = Cardinality(R)
    BY Zenon DEF RunIn
  <2> HIDE DEF R, R2
  <2> QED BY <1>1, <1>5, <2>1, <2>2 DEF IsFor
<1> QED BY <1>4, <1>5

\* The executor is given a runnable, or one of its threads takes it.
LEMMA ConcurrentReplace ==
    ASSUME NEW m, NEW c, IsFiniteSet(c), NEW r, r \notin c
    PROVE  /\ IsFiniteSet(c \cup {r}) /\ ConcurrentIn(m, c) \in Nat
           /\ ConcurrentIn(m, c \cup {r}) = ConcurrentIn(m, c) + IsFor(r, m)
<1> DEFINE C == {x \in c : x.message = m}
<1>1. IsFiniteSet(C) /\ Cardinality(C) \in Nat /\ r \notin C
  <2>1. C \in SUBSET c
    OBVIOUS
  <2> QED BY <2>1, FS_Subset, FS_CardinalityType
<1>2. IsFiniteSet(c \cup {r})
  BY FS_AddElement
<1>3. CASE r.message = m
  <2>1. {x \in c \cup {r} : x.message = m} = C \cup {r}
    BY <1>3
  <2>2. Cardinality(C \cup {r}) = Cardinality(C) + 1
    BY <1>1, FS_AddElement, Zenon
  <2> QED BY <1>1, <1>2, <1>3, <2>1, <2>2 DEF ConcurrentIn, IsFor
<1>4. CASE r.message # m
  <2>1. {x \in c \cup {r} : x.message = m} = C
    BY <1>4
  <2>2. ConcurrentIn(m, c \cup {r}) = Cardinality(C) /\ ConcurrentIn(m, c) = Cardinality(C)
    BY <2>1, Zenon DEF ConcurrentIn
  <2> HIDE DEF C
  <2> QED BY <1>1, <1>2, <1>4, <2>2 DEF IsFor
<1> QED BY <1>3, <1>4

\* A total is a sum of numbers.
LEMMA Balanced ==
    ASSUME DispatchTypeOK, QueueInvariant, SerialInvariant, PlaceInvariant, NEW m \in Message
    PROVE  Balance(m)
<1>1. BufferedIn(m, bufferedMessages) \in Nat
  BY BufferedAppend DEF DispatchTypeOK
<1>2. HeldIn(m, dispatching) \in Nat
  <2>1. Platform \in Dispatcher /\ <<>> \in Seq(Runnable) /\ Len(<<>>) <= MaxMessages
    BY KindsOfQueues, ConstantsAssumption
  <2>2. dispatching \in [Dispatcher -> Seq(Runnable)] /\ Len(dispatching[Platform]) <= MaxMessages
    BY <2>1 DEF DispatchTypeOK, PlaceInvariant
  <2> QED BY <2>1, <2>2, HeldReplace
<1>3. QueuedIn(m, queue) \in Nat /\ QueuedIn(m, platformQueue) \in Nat
  BY QueuedType, Zenon DEF QueueInvariant
<1>4. ConcurrentIn(m, concurrent) \in Nat
  <2>1. {r \in concurrent : r.message = m} \in SUBSET concurrent /\ IsFiniteSet(concurrent)
    BY DEF PlaceInvariant
  <2> QED BY <2>1, FS_Subset, FS_CardinalityType, Zenon DEF ConcurrentIn
<1>5. RunIn(m, run) \in Nat
  <2>1. IsFiniteSet(Thread)
    BY FS_AddElement, ConstantsAssumption DEF Thread
  <2>2. {t \in Thread : run[t] # NoRunnable /\ run[t].message = m} \in SUBSET Thread
    OBVIOUS
  <2> QED BY <2>1, <2>2, FS_Subset, FS_CardinalityType, Zenon DEF RunIn
<1>6. freed[m] \in Nat
  BY DEF QueueInvariant
<1>7. Total(m) = Sent(m, Len(from)) /\ Sent(m, Len(from)) \in Nat
  BY DEF PlaceInvariant, Sent
<1> QED BY <1>1, <1>2, <1>3, <1>4, <1>5, <1>6, <1>7 DEF Balance

\* Every step moves a message from one place to the next.
LEMMA PlaceStep ==
    DispatchTypeOK /\ QueueInvariant /\ SerialInvariant /\ PlaceInvariant /\ MessageStep
        => PlaceInvariant'
<1> SUFFICES ASSUME DispatchTypeOK, QueueInvariant, SerialInvariant, PlaceInvariant, MessageStep
             PROVE  PlaceInvariant'
  OBVIOUS
<1>a. /\ platformQueue \in Seq(Runnable) /\ queue \in Seq(Runnable) /\ concurrent \subseteq Runnable
      /\ bufferedMessages \in Seq(Message) /\ dispatching \in [Dispatcher -> Seq(Runnable)]
      /\ freed \in [Message -> Nat] /\ from \in Seq(Sender)
  BY SeqOfMore, KindsOfQueues DEF QueueInvariant, DispatchTypeOK
<1>b. run \in [Thread -> Runnable \cup {NoRunnable}]
  BY RunType
<1>c. /\ Len(from) \in Nat /\ Len(bufferedMessages) \in Nat /\ MaxMessages \in Nat
      /\ Len(from) <= MaxMessages /\ Len(bufferedMessages) <= Len(from) /\ IsFiniteSet(concurrent)
      /\ \A d \in Dispatcher : Len(dispatching[d]) <= MaxMessages /\ Len(dispatching[d]) \in Nat
  BY <1>a, ConstantsAssumption DEF PlaceInvariant
<1>d. \A m \in Message : Balance(m)
  BY Balanced
<1>e. ASSUME IsFiniteSet(concurrent'), Len(from') <= MaxMessages,
             Len(bufferedMessages') <= Len(from'),
             \A d \in Dispatcher : Len(dispatching'[d]) <= MaxMessages,
             \A m \in Message : Total(m)' = Sent(m, Len(from'))
      PROVE  PlaceInvariant'
  BY <1>e DEF PlaceInvariant
<1>f. Platform \in Dispatcher /\ Sender \subseteq Dispatcher
  BY KindsOfQueues
<1>g. \A m \in Message : QueuedIn(m, <<>>) = 0 /\ m \in Nat
  BY QueuedEmpty DEF Message
<1>h. \A m \in Message, r \in Runnable : IsFor(r, m) \in Nat
  BY DEF IsFor
<1>1. CASE UNCHANGED <<bufferedMessages, from, dispatching, queue, platformQueue, concurrent, run,
                       freed>>
  <2>1. /\ bufferedMessages' = bufferedMessages /\ from' = from /\ dispatching' = dispatching
        /\ queue' = queue /\ platformQueue' = platformQueue /\ concurrent' = concurrent
        /\ run' = run /\ freed' = freed
    BY <1>1
  <2>2. ASSUME NEW m \in Message PROVE Total(m)' = Sent(m, Len(from'))
    BY <2>1 DEF PlaceInvariant, Total
  <2> QED BY <1>c, <1>e, <2>1, <2>2
<1>2. ASSUME NEW s \in Sender, Defers(s) PROVE PlaceInvariant'
  <2> DEFINE n == Len(from) + 1
             New(m) == IF n = m THEN 1 ELSE 0
  <2>0. /\ dispatching' = dispatching /\ queue' = queue /\ platformQueue' = platformQueue
        /\ concurrent' = concurrent /\ run' = run /\ freed' = freed
    BY <1>2 DEF Defers
  <2>1. /\ n \in Message /\ from' = Append(from, s)
        /\ bufferedMessages' = Append(bufferedMessages, n)
    BY <1>2 DEF Defers
  <2>2. Len(from') = n /\ Len(bufferedMessages') = Len(bufferedMessages) + 1 /\ n <= MaxMessages
    BY <1>a, <2>1 DEF Message
  <2>3. \A m \in Message : BufferedIn(m, bufferedMessages')
                              = BufferedIn(m, bufferedMessages) + New(m)
    BY <1>a, <2>1, BufferedAppend
  <2>4. \A m \in Message : Sent(m, n) = Sent(m, Len(from)) + New(m)
    BY <1>c, <1>g DEF Sent
  <2>5. ASSUME NEW m \in Message
        PROVE  Total(m)' = Sent(m, Len(from'))
    <3>1. Balance(m)
      BY <1>d
    <3>2. /\ BufferedIn(m, bufferedMessages') = BufferedIn(m, bufferedMessages) + New(m)
          /\ Sent(m, Len(from')) = Sent(m, Len(from)) + New(m) /\ New(m) \in Nat
      BY <2>2, <2>3, <2>4
    <3> HIDE DEF New
    <3> QED BY <2>0, <3>1, <3>2 DEF Balance, Total
  <2> QED BY <1>c, <1>e, <2>0, <2>1, <2>2, <2>5
<1>3. ASSUME NEW s \in Sender, Receives(s) PROVE PlaceInvariant'
  <2> DEFINE n == Len(from) + 1
             New(m) == IF n = m THEN 1 ELSE 0
             r == RunnableFor(n, messageHandler)
  <2>0. /\ bufferedMessages' = bufferedMessages /\ queue' = queue
        /\ platformQueue' = platformQueue /\ concurrent' = concurrent /\ run' = run
        /\ freed' = freed
    BY <1>3 DEF Receives
  <2>1. /\ n \in Message /\ from' = Append(from, s) /\ dispatching[s] = <<>>
        /\ dispatching' = [dispatching EXCEPT ![s] = <<r>>]
    BY <1>3 DEF Receives
  <2>2. Len(from') = n /\ n <= MaxMessages
    BY <1>a, <2>1 DEF Message
  <2>3. r \in Runnable /\ r.message = n
    BY <2>1, RunnableForType DEF DispatchTypeOK, RunnableFor
  <2> HIDE DEF r
  <2>4. <<r>> \in Seq(Runnable) /\ Len(<<r>>) = 1 /\ <<r>> = Append(<<>>, r) /\ <<>> \in Seq(Runnable)
    BY <2>3
  <2>5. ASSUME NEW m \in Message
        PROVE  HeldIn(m, dispatching') = HeldIn(m, dispatching) + New(m)
    <3>1. QueuedIn(m, <<r>>) = QueuedIn(m, <<>>) + IsFor(r, m)
      BY <2>3, <2>4, QueuedAppend, Zenon
    <3>2. /\ HeldIn(m, dispatching') \in Nat
          /\ HeldIn(m, dispatching') + QueuedIn(m, dispatching[s]) = HeldIn(m, dispatching) + QueuedIn(m, <<r>>)
      <4>1. /\ dispatching \in [Dispatcher -> Seq(Runnable)] /\ s \in Dispatcher
            /\ <<r>> \in Seq(Runnable)
            /\ Len(<<r>>) <= MaxMessages /\ Len(dispatching[s]) <= MaxMessages
        BY <1>a, <1>c, <1>f, <2>2, <2>4
      <4>2. /\ HeldIn(m, [dispatching EXCEPT ![s] = <<r>>]) \in Nat
            /\ HeldIn(m, [dispatching EXCEPT ![s] = <<r>>]) + QueuedIn(m, dispatching[s])
                  = HeldIn(m, dispatching) + QueuedIn(m, <<r>>)
        BY <4>1, HeldReplace, Zenon
      <4> QED BY <2>1, <4>2
    <3>3. HeldIn(m, dispatching) \in Nat
      BY <1>d DEF Balance
    <3> QED BY <1>g, <2>1, <2>3, <3>1, <3>2, <3>3 DEF IsFor
  <2>6. \A m \in Message : Sent(m, n) = Sent(m, Len(from)) + New(m)
    BY <1>c, <1>g DEF Sent
  <2>7. ASSUME NEW m \in Message
        PROVE  Total(m)' = Sent(m, Len(from'))
    <3>1. Balance(m)
      BY <1>d
    <3>2. /\ HeldIn(m, dispatching') = HeldIn(m, dispatching) + New(m)
          /\ Sent(m, Len(from')) = Sent(m, Len(from)) + New(m) /\ New(m) \in Nat
      BY <2>2, <2>5, <2>6
    <3> HIDE DEF New
    <3> QED BY <2>0, <3>1, <3>2 DEF Balance, Total
  <2>8. \A d \in Dispatcher : Len(dispatching'[d]) <= MaxMessages
    BY <1>a, <1>c, <2>1, <2>2, <2>4
  <2> QED BY <1>c, <1>e, <2>0, <2>1, <2>2, <2>7, <2>8
<1>4. ASSUME NEW h \in Queue \cup {NoHandler}, Redispatches(h) PROVE PlaceInvariant'
  <2> DEFINE rs == [i \in DOMAIN bufferedMessages |-> RunnableFor(bufferedMessages[i], h)]
  <2>0. /\ from' = from /\ queue' = queue /\ platformQueue' = platformQueue
        /\ concurrent' = concurrent /\ run' = run /\ freed' = freed
    BY <1>4 DEF Redispatches, Redispatch
  <2>1. /\ dispatching[Platform] = <<>>
        /\ dispatching' = [dispatching EXCEPT ![Platform] = rs] /\ bufferedMessages' = <<>>
    BY <1>4 DEF Redispatches, Redispatch
  <2>2. rs \in Seq(Runnable) /\ Len(rs) = Len(bufferedMessages)
    <3>1. \A i \in 1 .. Len(bufferedMessages) : bufferedMessages[i] \in Message
      BY <1>a
    <3>2. DOMAIN bufferedMessages = 1 .. Len(bufferedMessages) /\ Len(bufferedMessages) \in Nat
      BY <1>a
    <3>3. rs \in [1 .. Len(bufferedMessages) -> Runnable]
      BY <3>1, <3>2, RunnableForType
    <3> HIDE DEF rs
    <3> QED BY <3>2, <3>3
  <2>3. ASSUME NEW m \in Message PROVE QueuedIn(m, rs) = BufferedIn(m, bufferedMessages)
    <3>1. Places(m, rs) = {i \in DOMAIN bufferedMessages : bufferedMessages[i] = m}
      BY DEF Places, RunnableFor
    <3> QED BY <3>1, Zenon DEF QueuedIn, BufferedIn
  <2>4. ASSUME NEW m \in Message PROVE BufferedIn(m, bufferedMessages') = 0
    <3>1. {i \in DOMAIN <<>> : <<>>[i] = m} = {}
      OBVIOUS
    <3> QED BY <2>1, <3>1, FS_EmptySet, Zenon DEF BufferedIn
  <2> HIDE DEF rs
  <2>5. ASSUME NEW m \in Message
        PROVE  HeldIn(m, dispatching') = HeldIn(m, dispatching) + BufferedIn(m, bufferedMessages)
    <3>1. /\ dispatching \in [Dispatcher -> Seq(Runnable)] /\ Platform \in Dispatcher
          /\ rs \in Seq(Runnable)
          /\ Len(rs) <= MaxMessages /\ Len(dispatching[Platform]) <= MaxMessages
      BY <1>a, <1>c, <1>f, <2>2
    <3>2. /\ HeldIn(m, dispatching') \in Nat
          /\ HeldIn(m, dispatching') + QueuedIn(m, dispatching[Platform])
                = HeldIn(m, dispatching) + QueuedIn(m, rs)
      <4>1. /\ HeldIn(m, [dispatching EXCEPT ![Platform] = rs]) \in Nat
            /\ HeldIn(m, [dispatching EXCEPT ![Platform] = rs]) + QueuedIn(m, dispatching[Platform])
                  = HeldIn(m, dispatching) + QueuedIn(m, rs)
        BY <3>1, HeldReplace, Zenon
      <4> QED BY <2>1, <4>1
    <3>3. HeldIn(m, dispatching) \in Nat /\ BufferedIn(m, bufferedMessages) \in Nat
      BY <1>d DEF Balance
    <3> QED BY <1>g, <2>1, <2>3, <3>2, <3>3
  <2>6. ASSUME NEW m \in Message
        PROVE  Total(m)' = Sent(m, Len(from'))
    <3>1. Balance(m)
      BY <1>d
    <3>2. /\ BufferedIn(m, bufferedMessages') = 0
          /\ HeldIn(m, dispatching') = HeldIn(m, dispatching) + BufferedIn(m, bufferedMessages)
      BY <2>4, <2>5
    <3> QED BY <2>0, <3>1, <3>2 DEF Balance, Total
  <2>7. \A d \in Dispatcher : Len(dispatching'[d]) <= MaxMessages
    BY <1>a, <1>c, <2>1, <2>2
  <2>8. Len(bufferedMessages') <= Len(from')
    BY <1>c, <2>1
  <2> QED BY <1>c, <1>e, <2>0, <2>1, <2>6, <2>7, <2>8
<1>5. ASSUME NEW d \in Dispatcher, NEW r \in Runnable, Dispatches(d, r) PROVE PlaceInvariant'
  <2>0. /\ from' = from /\ bufferedMessages' = bufferedMessages /\ run' = run
        /\ freed' = freed
    BY <1>5 DEF Dispatches
  <2>1. /\ dispatching[d] # <<>> /\ r = Head(dispatching[d])
        /\ dispatching' = [dispatching EXCEPT ![d] = Tail(dispatching[d])]
    BY <1>5 DEF Dispatches
  <2>2. /\ dispatching[d] \in Seq(Runnable) /\ Tail(dispatching[d]) \in Seq(Runnable)
        /\ Len(Tail(dispatching[d])) <= MaxMessages
    BY <1>a, <1>c, <2>1
  <2>3. ASSUME NEW m \in Message
        PROVE  HeldIn(m, dispatching) = HeldIn(m, dispatching') + IsFor(r, m) /\ HeldIn(m, dispatching') \in Nat
    <3>1. QueuedIn(m, dispatching[d]) = IsFor(r, m) + QueuedIn(m, Tail(dispatching[d]))
      BY <2>1, <2>2, QueuedTail
    <3>2. /\ HeldIn(m, dispatching') \in Nat
          /\ HeldIn(m, dispatching') + QueuedIn(m, dispatching[d])
                = HeldIn(m, dispatching) + QueuedIn(m, Tail(dispatching[d]))
      <4>1. /\ HeldIn(m, [dispatching EXCEPT ![d] = Tail(dispatching[d])]) \in Nat
            /\ HeldIn(m, [dispatching EXCEPT ![d] = Tail(dispatching[d])]) + QueuedIn(m, dispatching[d])
                  = HeldIn(m, dispatching) + QueuedIn(m, Tail(dispatching[d]))
        <5>1. /\ dispatching \in [Dispatcher -> Seq(Runnable)]
              /\ Tail(dispatching[d]) \in Seq(Runnable)
              /\ Len(Tail(dispatching[d])) <= MaxMessages /\ Len(dispatching[d]) <= MaxMessages
          BY <1>a, <1>c, <2>2
        <5> QED BY <5>1, HeldReplace, Zenon
      <4> QED BY <2>1, <4>1
    <3>3. QueuedIn(m, Tail(dispatching[d])) \in Nat
      BY <2>2, QueuedType, Zenon
    <3>4. HeldIn(m, dispatching) \in Nat /\ IsFor(r, m) \in Nat
      BY <1>d, <1>h DEF Balance
    <3> QED BY <3>1, <3>2, <3>3, <3>4
  <2>4. \A e \in Dispatcher : Len(dispatching'[e]) <= MaxMessages
    BY <1>a, <1>c, <2>1, <2>2
  <2>5. CASE platformQueue' = Append(platformQueue, r) /\ queue' = queue /\ concurrent' = concurrent
    <3>1. \A m \in Message : QueuedIn(m, platformQueue') = QueuedIn(m, platformQueue) + IsFor(r, m)
      BY <1>a, <2>5, QueuedAppend
    <3>2. ASSUME NEW m \in Message
          PROVE  Total(m)' = Sent(m, Len(from'))
      <4>1. Balance(m)
        BY <1>d
      <4>2. /\ HeldIn(m, dispatching) = HeldIn(m, dispatching') + IsFor(r, m) /\ HeldIn(m, dispatching') \in Nat
            /\ QueuedIn(m, platformQueue') = QueuedIn(m, platformQueue) + IsFor(r, m) /\ IsFor(r, m) \in Nat
        BY <2>3, <3>1, <1>h
      <4> QED BY <2>0, <2>5, <4>1, <4>2 DEF Balance, Total
    <3> QED BY <1>c, <1>e, <2>0, <2>1, <2>4, <2>5, <3>2
  <2>6. CASE queue' = Append(queue, r) /\ platformQueue' = platformQueue /\ concurrent' = concurrent
    <3>1. \A m \in Message : QueuedIn(m, queue') = QueuedIn(m, queue) + IsFor(r, m)
      BY <1>a, <2>6, QueuedAppend
    <3>2. ASSUME NEW m \in Message
          PROVE  Total(m)' = Sent(m, Len(from'))
      <4>1. Balance(m)
        BY <1>d
      <4>2. /\ HeldIn(m, dispatching) = HeldIn(m, dispatching') + IsFor(r, m) /\ HeldIn(m, dispatching') \in Nat
            /\ QueuedIn(m, queue') = QueuedIn(m, queue) + IsFor(r, m) /\ IsFor(r, m) \in Nat
        BY <2>3, <3>1, <1>h
      <4> QED BY <2>0, <2>6, <4>1, <4>2 DEF Balance, Total
    <3> QED BY <1>c, <1>e, <2>0, <2>1, <2>4, <2>6, <3>2
  <2>7. CASE concurrent' = concurrent \cup {r} /\ queue' = queue /\ platformQueue' = platformQueue
    <3>1. r \notin concurrent
      <4> SUFFICES ASSUME r \in concurrent PROVE FALSE
        OBVIOUS
      <4> DEFINE m == r.message
                 rest == concurrent \ {r}
      <4>1. m \in Message /\ IsFor(r, m) = 1
        BY MessageOf DEF IsFor
      <4>2. IsFiniteSet(rest) /\ r \notin rest /\ concurrent = rest \cup {r}
        BY <1>c, FS_RemoveElement
      <4> HIDE DEF m, rest
      <4>3. ConcurrentIn(m, rest) \in Nat /\ ConcurrentIn(m, rest \cup {r}) = ConcurrentIn(m, rest) + IsFor(r, m)
        BY <4>2, ConcurrentReplace, Zenon
      <4>4. ConcurrentIn(m, concurrent) >= 1 /\ HeldIn(m, dispatching) >= 1
        BY <2>3, <4>1, <4>2, <4>3
      <4>5. Balance(m) /\ Sent(m, Len(from)) <= 1
        BY <1>d, <4>1 DEF Sent
      <4> QED BY <4>4, <4>5 DEF Balance, Total
    <3>2. IsFiniteSet(concurrent')
      BY <1>c, <2>7, <3>1, ConcurrentReplace
    <3>3. \A m \in Message : ConcurrentIn(m, concurrent') = ConcurrentIn(m, concurrent) + IsFor(r, m)
      BY <1>c, <2>7, <3>1, ConcurrentReplace
    <3>4. ASSUME NEW m \in Message
          PROVE  Total(m)' = Sent(m, Len(from'))
      <4>1. Balance(m)
        BY <1>d
      <4>2. /\ HeldIn(m, dispatching) = HeldIn(m, dispatching') + IsFor(r, m) /\ HeldIn(m, dispatching') \in Nat
            /\ ConcurrentIn(m, concurrent') = ConcurrentIn(m, concurrent) + IsFor(r, m) /\ IsFor(r, m) \in Nat
        BY <2>3, <3>3, <1>h
      <4> QED BY <2>0, <2>7, <4>1, <4>2 DEF Balance, Total
    <3> QED BY <1>c, <1>e, <2>0, <2>1, <2>4, <3>2, <3>4
  <2> QED BY <1>5, <2>5, <2>6, <2>7 DEF Dispatches
<1>6. ASSUME NEW t \in Thread, NEW r \in Runnable, Takes(t, r) PROVE PlaceInvariant'
  <2>0. /\ from' = from /\ dispatching' = dispatching
        /\ bufferedMessages' = bufferedMessages /\ freed' = freed
    BY <1>6 DEF Takes
  <2>1. /\ run[t] = NoRunnable /\ run' = [run EXCEPT ![t] = r]
    BY <1>6 DEF Takes
  <2>2. \A m \in Message : RunIn(m, run') = RunIn(m, run) + IsFor(r, m)
    BY <1>b, <2>1, RunReplace, Zenon
  <2>3. CASE /\ platformQueue # <<>> /\ r = Head(platformQueue)
             /\ platformQueue' = Tail(platformQueue) /\ queue' = queue /\ concurrent' = concurrent
    <3>1. \A m \in Message : QueuedIn(m, platformQueue) = IsFor(r, m) + QueuedIn(m, platformQueue')
      BY <1>a, <2>3, QueuedTail
    <3>2. platformQueue' \in Seq(Runnable)
      BY <1>a, <2>3
    <3>3. \A m \in Message : QueuedIn(m, platformQueue') \in Nat
      BY <3>2, QueuedType, Zenon
    <3>4. ASSUME NEW m \in Message
          PROVE  Total(m)' = Sent(m, Len(from'))
      <4>1. Balance(m)
        BY <1>d
      <4>2. /\ QueuedIn(m, platformQueue) = IsFor(r, m) + QueuedIn(m, platformQueue') /\ QueuedIn(m, platformQueue') \in Nat
            /\ RunIn(m, run') = RunIn(m, run) + IsFor(r, m) /\ IsFor(r, m) \in Nat
        BY <2>2, <3>1, <3>3, <1>h
      <4> QED BY <2>0, <2>3, <4>1, <4>2 DEF Balance, Total
    <3> QED BY <1>c, <1>e, <2>0, <2>1, <2>3, <3>4
  <2>4. CASE /\ queue # <<>> /\ r = Head(queue)
             /\ queue' = Tail(queue) /\ platformQueue' = platformQueue /\ concurrent' = concurrent
    <3>1. \A m \in Message : QueuedIn(m, queue) = IsFor(r, m) + QueuedIn(m, queue')
      BY <1>a, <2>4, QueuedTail
    <3>2. queue' \in Seq(Runnable)
      BY <1>a, <2>4
    <3>3. \A m \in Message : QueuedIn(m, queue') \in Nat
      BY <3>2, QueuedType, Zenon
    <3>4. ASSUME NEW m \in Message
          PROVE  Total(m)' = Sent(m, Len(from'))
      <4>1. Balance(m)
        BY <1>d
      <4>2. /\ QueuedIn(m, queue) = IsFor(r, m) + QueuedIn(m, queue') /\ QueuedIn(m, queue') \in Nat
            /\ RunIn(m, run') = RunIn(m, run) + IsFor(r, m) /\ IsFor(r, m) \in Nat
        BY <2>2, <3>1, <3>3, <1>h
      <4> QED BY <2>0, <2>4, <4>1, <4>2 DEF Balance, Total
    <3> QED BY <1>c, <1>e, <2>0, <2>1, <2>4, <3>4
  <2>5. CASE /\ r \in concurrent /\ concurrent' = concurrent \ {r}
             /\ queue' = queue /\ platformQueue' = platformQueue
    <3>1. IsFiniteSet(concurrent') /\ r \notin concurrent' /\ concurrent = concurrent' \cup {r}
      BY <1>c, <2>5, FS_RemoveElement
    <3>2. \A m \in Message :
             /\ ConcurrentIn(m, concurrent') \in Nat
             /\ ConcurrentIn(m, concurrent' \cup {r}) = ConcurrentIn(m, concurrent') + IsFor(r, m)
      BY <3>1, ConcurrentReplace
    <3>3. \A m \in Message : ConcurrentIn(m, concurrent) = ConcurrentIn(m, concurrent') + IsFor(r, m)
      BY <3>1, <3>2, Zenon
    <3>4. ASSUME NEW m \in Message
          PROVE  Total(m)' = Sent(m, Len(from'))
      <4>1. Balance(m)
        BY <1>d
      <4>2. /\ ConcurrentIn(m, concurrent) = ConcurrentIn(m, concurrent') + IsFor(r, m) /\ ConcurrentIn(m, concurrent') \in Nat
            /\ RunIn(m, run') = RunIn(m, run) + IsFor(r, m) /\ IsFor(r, m) \in Nat
        BY <2>2, <3>2, <3>3, <1>h
      <4> QED BY <2>0, <2>5, <4>1, <4>2 DEF Balance, Total
    <3> QED BY <1>c, <1>e, <2>0, <2>1, <3>1, <3>4
  <2> QED BY <1>6, <2>3, <2>4, <2>5 DEF Takes
<1>7. ASSUME NEW t \in Thread, Frees(t) PROVE PlaceInvariant'
  <2> DEFINE r == run[t]
  <2>0. /\ from' = from /\ dispatching' = dispatching
        /\ bufferedMessages' = bufferedMessages /\ queue' = queue
        /\ platformQueue' = platformQueue /\ concurrent' = concurrent
    BY <1>7 DEF Frees
  <2>1. /\ run' = [run EXCEPT ![t] = NoRunnable]
        /\ freed' = [freed EXCEPT ![r.message] = @ + 1] /\ r # NoRunnable
    BY <1>7 DEF Frees
  <2>2. r \in Runnable /\ r.message \in Message
    BY <1>b, <2>1, MessageOf
  <2>3. /\ run' \in [Thread -> Runnable \cup {NoRunnable}] /\ run'[t] = NoRunnable
        /\ run = [run' EXCEPT ![t] = r]
    BY <1>b, <2>1, Zenon
  <2>4. \A m \in Message : freed'[m] = freed[m] + IsFor(r, m)
    BY <1>a, <2>1, <2>2 DEF IsFor
  <2> HIDE DEF r
  <2>5. \A m \in Message :
           /\ RunIn(m, run') \in Nat
           /\ RunIn(m, [run' EXCEPT ![t] = r]) = RunIn(m, run') + IsFor(r, m)
    BY <2>2, <2>3, RunReplace, Zenon
  <2>6. \A m \in Message : RunIn(m, run) = RunIn(m, run') + IsFor(r, m)
    BY <2>3, <2>5, Zenon
  <2>7. ASSUME NEW m \in Message
        PROVE  Total(m)' = Sent(m, Len(from'))
    <3>1. Balance(m)
      BY <1>d
    <3>2. /\ RunIn(m, run) = RunIn(m, run') + IsFor(r, m) /\ RunIn(m, run') \in Nat
          /\ freed'[m] = freed[m] + IsFor(r, m) /\ IsFor(r, m) \in Nat
      BY <2>2, <2>4, <2>5, <2>6, <1>h
    <3> QED BY <2>0, <3>1, <3>2 DEF Balance, Total
  <2> QED BY <1>c, <1>e, <2>0, <2>1, <2>7
<1> QED
  BY <1>1, <1>2, <1>3, <1>4, <1>5, <1>6, <1>7 DEF MessageStep, Handles

\* A message that Dart sent is in one place: none is lost, duplicated, or freed
\* more than once.
THEOREM OnePlace == Spec => []InOnePlace
<1>1. Init => PlaceInvariant
  <2> SUFFICES ASSUME Init PROVE PlaceInvariant
    OBVIOUS
  <2>1. /\ bufferedMessages = <<>> /\ dispatching = [d \in Dispatcher |-> <<>>] /\ queue = <<>>
        /\ platformQueue = <<>> /\ concurrent = {} /\ from = <<>>
        /\ freed = [m \in Message |-> 0]
    BY DEF Init, SerialInit
  <2>2. \A t \in Thread : run[t] = NoRunnable
    BY Zenon DEF Init, SerialInit, run, RunnableOf, Thread
  <2>3. IsFiniteSet(concurrent) /\ Cardinality({}) = 0
    BY <2>1, FS_EmptySet
  <2>4. ASSUME NEW m \in Message PROVE Total(m) = 0
    <3>1. {i \in DOMAIN bufferedMessages : bufferedMessages[i] = m} = {}
      BY <2>1
    <3>2. {di \in Dispatcher \X Message : di[2] \in Places(m, dispatching[di[1]])} = {}
      BY <2>1 DEF Places
    <3>3. {r \in concurrent : r.message = m} = {}
      BY <2>1
    <3>4. {t \in Thread : run[t] # NoRunnable /\ run[t].message = m} = {}
      BY <2>2
    <3>5. /\ BufferedIn(m, bufferedMessages) = 0 /\ HeldIn(m, dispatching) = 0
          /\ ConcurrentIn(m, concurrent) = 0 /\ RunIn(m, run) = 0
      BY <2>3, <3>1, <3>2, <3>3, <3>4, Zenon DEF BufferedIn, HeldIn, ConcurrentIn, RunIn
    <3>6. QueuedIn(m, queue) = 0 /\ QueuedIn(m, platformQueue) = 0
      BY <2>1, QueuedEmpty
    <3>7. freed[m] = 0
      BY <2>1
    <3> QED BY <3>5, <3>6, <3>7 DEF Total
  <2>5. \A m \in Message : ~(m <= Len(from))
    BY <2>1 DEF Message
  <2>6. /\ Len(from) <= MaxMessages /\ Len(bufferedMessages) <= Len(from)
        /\ \A d \in Dispatcher : Len(dispatching[d]) <= MaxMessages
    BY <2>1, ConstantsAssumption
  <2> QED BY <2>3, <2>4, <2>5, <2>6 DEF PlaceInvariant, Sent
<1>2. DispatchTypeOK /\ QueueInvariant /\ SerialInvariant /\ PlaceInvariant /\ [Next]_vars
         => PlaceInvariant'
  BY StepOfMessage, PlaceStep
<1>3. DispatchTypeOK /\ PlaceInvariant => InOnePlace
  <2> SUFFICES ASSUME DispatchTypeOK, PlaceInvariant, NEW m \in 1 .. Len(from)
               PROVE  BufferedIn(m, bufferedMessages) + HeldIn(m, dispatching)
                      + QueuedIn(m, queue) + QueuedIn(m, platformQueue)
                      + ConcurrentIn(m, concurrent) + RunIn(m, run) + freed[m] = 1
    <3>1. \A m \in 1 .. Len(from) :
             RunIn(m, run) = Cardinality({t \in Thread : RunnableOf(t) # NoRunnable /\ RunnableOf(t).message = m})
      <4>1. \A t \in Thread : run[t] = RunnableOf(t)
        BY DEF run
      <4>2. \A m \in 1 .. Len(from) :
               {t \in Thread : run[t] # NoRunnable /\ run[t].message = m}
                  = {t \in Thread : RunnableOf(t) # NoRunnable /\ RunnableOf(t).message = m}
        BY <4>1
      <4> QED BY <4>2, Zenon DEF RunIn
    <3> QED BY <3>1, Zenon DEF InOnePlace, BufferedIn, HeldIn, QueuedIn, ConcurrentIn
  <2>1. m \in Message /\ m <= Len(from)
    BY ConstantsAssumption DEF Message, PlaceInvariant, DispatchTypeOK
  <2> QED BY <2>1 DEF PlaceInvariant, Total, Sent
<1> QED BY <1>1, <1>2, <1>3, DispatchTypes, QueuesCorrect, SerialCorrect, PTL DEF Spec

=============================================================================
