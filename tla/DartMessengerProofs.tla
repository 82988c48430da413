------------------------- MODULE DartMessengerProofs -------------------------
(***************************************************************************)
(* Proofs about DartMessenger, for any number of threads and messages: the *)
(* serial task queue keeps its promise and leaves nothing behind, Dart is  *)
(* answered at most once, and every step is a step of one message.         *)
(***************************************************************************)
EXTENDS DartMessenger, TLAPS

\* The provers of a leaf that names none, in the order they are tried.
USE SMT, Zenon, Z3T(30), SMTT(60)

-----------------------------------------------------------------------------
(* What a step of the messenger does to the serial queue.                  *)

\* What a dispatcher can dispatch is a runnable.
DispatchTypeOK ==
    /\ messageHandler \in Queue \cup {NoHandler}
    /\ bufferedMessages \in Seq(Message)
    /\ from \in Seq(Sender)
    /\ dispatching \in [Dispatcher -> Seq(Runnable)]

SerialStep ==
    \/ UNCHANGED serialVars
    \/ \E d \in Dispatcher : Execute(d) \/ \E r \in Runnable : Add(d, r)
    \/ \E t \in Executor : FlushStep(t) \/ Ran(t)

\* A message with its handler is a runnable.
LEMMA RunnableForType ==
    \A m \in Message, h \in Queue \cup {NoHandler} : RunnableFor(m, h) \in Runnable
BY DEF RunnableFor, Runnable

\* The types that dispatching needs are kept by every step.
LEMMA DispatchTypes == Spec => []DispatchTypeOK
<1>1. Init => DispatchTypeOK
  BY DEF Init, DispatchTypeOK
<1>2. DispatchTypeOK /\ [Next]_vars => DispatchTypeOK'
  <2> SUFFICES ASSUME DispatchTypeOK, [Next]_vars PROVE DispatchTypeOK'
    OBVIOUS
  <2> USE DEF DispatchTypeOK
  <2>a. Platform \in Dispatcher /\ Sender \subseteq Dispatcher
    BY ConstantsAssumption
  <2>1. ASSUME UNCHANGED <<messageHandler, bufferedMessages, from, dispatching>>
        PROVE  DispatchTypeOK'
    BY <2>1
  <2>2. ASSUME NEW s \in Sender, HandleMessageFromDart(s) PROVE DispatchTypeOK'
    <3> DEFINE m == Len(from) + 1
    <3>1. m \in Message /\ from' = Append(from, s) /\ UNCHANGED messageHandler
      BY <2>2 DEF HandleMessageFromDart
    <3>2. RunnableFor(m, messageHandler) \in Runnable
      BY <3>1, RunnableForType
    <3>3. CASE buffering /\ messageHandler = NoHandler
      <4>1. bufferedMessages' = Append(bufferedMessages, m) /\ UNCHANGED dispatching
        BY <2>2, <3>3 DEF HandleMessageFromDart
      <4>2. Append(bufferedMessages, m) \in Seq(Message)
        BY <3>1
      <4> QED BY <3>1, <4>1, <4>2
    <3>4. CASE ~(buffering /\ messageHandler = NoHandler)
      <4>1. dispatching' = [dispatching EXCEPT ![s] = <<RunnableFor(m, messageHandler)>>]
        BY <2>2, <3>4 DEF HandleMessageFromDart
      <4>2. bufferedMessages' = bufferedMessages
        BY <2>2, <3>4 DEF HandleMessageFromDart
      <4>3. <<RunnableFor(m, messageHandler)>> \in Seq(Runnable)
        BY <3>2
      <4> QED BY <2>a, <3>1, <4>1, <4>2, <4>3
    <3> QED BY <3>3, <3>4
  <2>3. ASSUME NEW d \in Dispatcher, DispatchMessageToQueue(d) PROVE DispatchTypeOK'
    <3>1. dispatching[d] \in Seq(Runnable) /\ dispatching[d] # <<>>
      BY <2>3 DEF DispatchMessageToQueue
    <3>2. Tail(dispatching[d]) \in Seq(Runnable)
      BY <3>1
    <3> QED BY <2>3, <3>2 DEF DispatchMessageToQueue, handlerVars
  <2>4. ASSUME NEW h \in Queue \cup {NoHandler}, Redispatch(h), UNCHANGED from,
               messageHandler' \in Queue \cup {NoHandler}
        PROVE  DispatchTypeOK'
    <3> DEFINE rs == [i \in DOMAIN bufferedMessages |-> RunnableFor(bufferedMessages[i], h)]
    <3>1. \A i \in DOMAIN bufferedMessages : bufferedMessages[i] \in Message
      OBVIOUS
    <3>2. \A i \in DOMAIN bufferedMessages : RunnableFor(bufferedMessages[i], h) \in Runnable
      BY <3>1, RunnableForType
    <3>3. DOMAIN bufferedMessages = 1 .. Len(bufferedMessages) /\ Len(bufferedMessages) \in Nat
      OBVIOUS
    <3>4. rs \in Seq(Runnable)
      BY <3>2, <3>3
    <3> QED BY <2>4, <2>a, <3>4 DEF Redispatch
  <2>5. ASSUME MessengerCall PROVE DispatchTypeOK'
    <3>1. ASSUME NEW q \in Queue, SetMessageHandler(q) PROVE DispatchTypeOK'
      BY <3>1, <2>4 DEF SetMessageHandler
    <3>2. ASSUME DisableBufferingIncomingMessages PROVE DispatchTypeOK'
      BY <3>2, <2>4 DEF DisableBufferingIncomingMessages
    <3> QED
      BY <2>5, <3>1, <3>2 DEF MessengerCall, RemoveMessageHandler,
         EnableBufferingIncomingMessages, DetachFromNative, handlerVars
  <2> QED
    BY <2>a, <2>1, <2>2, <2>3, <2>5
       DEF Next, vars, PlatformStep, Dispatching, Runs, ExecutorStep, DispatchEnds,
           TakePlatformRunnable, TakeConcurrentRunnable, FlushSerialQueue, InvokeHandler,
           HandlerReturns, Reply, handlerVars
<1> QED BY <1>1, <1>2, PTL DEF Spec

\* Every step of the messenger is a step of the serial queue, or none.
LEMMA StepOfQueue == DispatchTypeOK /\ [Next]_vars => SerialStep
<1> SUFFICES ASSUME DispatchTypeOK, [Next]_vars PROVE SerialStep
  OBVIOUS
<1>a. Platform \in Dispatcher /\ Sender \subseteq Dispatcher
  BY ConstantsAssumption
<1>1. ASSUME NEW d \in Dispatcher, Dispatching(d) PROVE SerialStep
  <2>1. CASE DispatchMessageToQueue(d)
    <3>1. dispatching[d] \in Seq(Runnable) /\ dispatching[d] # <<>>
      BY <2>1 DEF DispatchTypeOK, DispatchMessageToQueue
    <3>2. Head(dispatching[d]) \in Runnable
      BY <3>1
    <3> QED BY <2>1, <3>2 DEF DispatchMessageToQueue, SerialStep
  <2>2. CASE DispatchEnds(d)
    BY <2>2 DEF DispatchEnds, SerialStep
  <2> QED BY <1>1, <2>1, <2>2 DEF Dispatching
<1>2. ASSUME NEW t \in Thread, Runs(t) PROVE SerialStep
  BY <1>2 DEF Runs, InvokeHandler, HandlerReturns, SerialStep, Thread
<1>3. ASSUME NEW t \in Executor, FlushSerialQueue(t) PROVE SerialStep
  BY <1>3 DEF FlushSerialQueue, SerialStep
<1>4. ASSUME MessengerCall PROVE SerialStep
  BY <1>4 DEF MessengerCall, SetMessageHandler, RemoveMessageHandler, SerialStep,
     EnableBufferingIncomingMessages, DisableBufferingIncomingMessages, DetachFromNative
<1> QED
  BY <1>a, <1>1, <1>2, <1>3, <1>4
     DEF Next, vars, PlatformStep, ExecutorStep, TakePlatformRunnable, TakeConcurrentRunnable,
         HandleMessageFromDart, Reply, SerialStep, Thread

-----------------------------------------------------------------------------
(* The serial queue.                                                       *)

\* The inductive invariant: at most one thread has passed the test of isRunning,
\* which stays set until that thread clears it.
SerialInvariant == SerialTypeOK /\ OneFlusher /\ NoneStranded

\* The invariant of the serial queue holds always.
LEMMA SerialCorrect == Spec => []SerialInvariant
<1>1. Init => SerialInvariant
  <2> SUFFICES ASSUME SerialInit PROVE SerialInvariant
    BY DEF Init
  <2>1. SerialTypeOK
    <3>1. isRunning \in BOOLEAN /\ adding \subseteq Dispatcher
      BY Zenon DEF SerialInit
    <3>2. queue \in Seq(Runnable) /\ flushes \in Nat
      BY DEF SerialInit
    <3>3. /\ at \in [Executor -> {"idle", "polling", "running", "leaving", "checking"}]
          /\ runnable \in [Executor -> Runnable \cup {NoRunnable}]
          /\ \A t \in Executor : at[t] = "running" <=> runnable[t] # NoRunnable
      BY DEF SerialInit
    <3> QED BY <3>1, <3>2, <3>3, Zenon DEF SerialTypeOK
  <2>2. OneFlusher /\ NoneStranded
    BY DEF SerialInit, OneFlusher, NoneStranded, InFlush
  <2> QED BY <2>1, <2>2 DEF SerialInvariant
<1>2. SerialInvariant /\ SerialStep => SerialInvariant'
  <2> SUFFICES ASSUME SerialInvariant, SerialStep PROVE SerialInvariant'
    OBVIOUS
  <2> USE DEF SerialInvariant, SerialTypeOK
  <2>1. CASE UNCHANGED serialVars
    BY <2>1 DEF serialVars, OneFlusher, NoneStranded, InFlush
  <2>2. ASSUME NEW d \in Dispatcher, NEW r \in Runnable, Add(d, r) PROVE SerialInvariant'
    BY <2>2 DEF Add, OneFlusher, NoneStranded, InFlush
  <2>3. ASSUME NEW d \in Dispatcher, Execute(d) PROVE SerialInvariant'
    BY <2>3 DEF Execute, OneFlusher, NoneStranded, InFlush
  <2>4. ASSUME NEW t \in Executor, Flush(t) PROVE SerialInvariant'
    <3>1. CASE isRunning
      BY <2>4, <3>1 DEF Flush, OneFlusher, NoneStranded, InFlush
    <3>2. CASE ~isRunning
      BY <2>4, <3>2 DEF Flush, OneFlusher, NoneStranded, InFlush
    <3> QED BY <3>1, <3>2
  <2>5. ASSUME NEW t \in Executor, Poll(t) PROVE SerialInvariant'
    <3>1. CASE queue = <<>>
      BY <2>5, <3>1 DEF Poll, OneFlusher, NoneStranded, InFlush
    <3>2. CASE queue # <<>>
      <4>1. Head(queue) \in Runnable /\ Tail(queue) \in Seq(Runnable)
        BY <3>2
      <4>2. Head(queue) # NoRunnable
        BY <4>1, ConstantsAssumption
      <4>3. SerialTypeOK'
        BY <2>5, <3>2, <4>1, <4>2, Zenon DEF Poll
      <4>4. OneFlusher'
        BY <2>5, <3>2 DEF Poll, OneFlusher, InFlush
      <4>5. NoneStranded'
        BY <2>5, <3>2 DEF Poll, NoneStranded, InFlush
      <4> QED BY <4>3, <4>4, <4>5
    <3> QED BY <3>1, <3>2
  <2>6. ASSUME NEW t \in Executor, Ran(t) PROVE SerialInvariant'
    BY <2>6 DEF Ran, OneFlusher, NoneStranded, InFlush
  <2>7. ASSUME NEW t \in Executor, Leave(t) PROVE SerialInvariant'
    BY <2>7, Zenon DEF Leave, OneFlusher, NoneStranded, InFlush
  <2>8. ASSUME NEW t \in Executor, Recheck(t) PROVE SerialInvariant'
    BY <2>8 DEF Recheck, OneFlusher, NoneStranded, InFlush
  <2> QED
    BY <2>1, <2>2, <2>3, <2>4, <2>5, <2>6, <2>7, <2>8 DEF SerialStep, FlushStep
<1>3. SerialInvariant /\ DispatchTypeOK /\ [Next]_vars => SerialInvariant'
  BY <1>2, StepOfQueue
<1> QED BY <1>1, <1>3, DispatchTypes, PTL DEF Spec

\* However many executor threads call flush, one at a time gets past isRunning.
THEOREM SerialExclusion == Spec => []OneFlusher
<1>1. SerialInvariant => OneFlusher
  BY DEF SerialInvariant
<1> QED BY <1>1, SerialCorrect, PTL

\* No runnable is ever left in a serial queue that nobody will flush.
THEOREM NothingStranded == Spec => []NoneStranded
<1>1. SerialInvariant => NoneStranded
  BY DEF SerialInvariant
<1> QED BY <1>1, SerialCorrect, PTL

-----------------------------------------------------------------------------
(* The serial queue implements SerialExecution.                            *)

\* The current runnable is that of the thread that runs one.
LEMMA CurrentIs ==
    ASSUME OneFlusher, NEW t \in Executor, at[t] = "running"
    PROVE  Current = runnable[t]
<1>1. \A v \in Executor : at[v] = "running" => v = t
  BY DEF OneFlusher, InFlush
<1> QED BY <1>1 DEF Current

\* There is none when no thread runs one.
LEMMA NoCurrent ==
    ASSUME \A t \in Executor : at[t] # "running"
    PROVE  Current = NoRunnable
BY DEF Current

\* The serial queue of the messenger does what SerialExecution says.
THEOREM ImplementsSerialExecution == Spec => KeepsSerialOrder
<1>1. Init => Serial!Init
  BY DEF Init, SerialInit, Serial!Init, Current
<1>2. SerialInvariant /\ SerialInvariant' /\ SerialStep
          => [Serial!Dispatch \/ Serial!Begin \/ Serial!Complete]_<<queue, Current>>
  <2> SUFFICES ASSUME SerialInvariant, SerialInvariant', SerialStep
               PROVE  Serial!Dispatch \/ Serial!Begin \/ Serial!Complete
                         \/ UNCHANGED <<queue, Current>>
    OBVIOUS
  <2>1. ASSUME UNCHANGED <<at, runnable>> PROVE Current' = Current
    BY <2>1 DEF Current
  <2>2. CASE UNCHANGED serialVars
    BY <2>1, <2>2 DEF serialVars
  <2>3. ASSUME NEW d \in Dispatcher, NEW r \in Runnable, Add(d, r) PROVE Serial!Dispatch
    BY <2>1, <2>3 DEF Add, Serial!Dispatch
  <2>4. ASSUME NEW d \in Dispatcher, Execute(d) PROVE UNCHANGED <<queue, Current>>
    BY <2>1, <2>4 DEF Execute
  <2>5. ASSUME NEW t \in Executor, at[t] # "running",
               at' \in [Executor -> {"idle", "polling", "running", "leaving", "checking"}],
               at'[t] # "running", \A v \in Executor : v # t => at'[v] = at[v],
               UNCHANGED <<queue, runnable>>
        PROVE  UNCHANGED <<queue, Current>>
    <3>1. \A v \in Executor : at'[v] = "running" <=> at[v] = "running"
      BY <2>5
    <3> QED BY <2>5, <3>1, Zenon DEF Current
  <2>6. ASSUME NEW t \in Executor, Flush(t) \/ Leave(t) \/ Recheck(t)
        PROVE  UNCHANGED <<queue, Current>>
    BY <2>5, <2>6 DEF SerialInvariant, SerialTypeOK, Flush, Leave, Recheck
  <2>7. ASSUME NEW t \in Executor, Poll(t), queue = <<>> PROVE UNCHANGED <<queue, Current>>
    BY <2>5, <2>7 DEF SerialInvariant, SerialTypeOK, Poll
  <2>8. ASSUME NEW t \in Executor, Poll(t), queue # <<>> PROVE Serial!Begin
    <3>1. \A v \in Executor : at[v] # "running"
      BY <2>8 DEF Poll, SerialInvariant, OneFlusher, InFlush
    <3>2. Current = NoRunnable
      BY <3>1, NoCurrent
    <3>3. at'[t] = "running" /\ runnable'[t] = Head(queue) /\ queue' = Tail(queue)
      BY <2>8 DEF Poll, SerialInvariant, SerialTypeOK
    <3>4. \A v \in Executor : at'[v] = "running" => v = t
      BY <3>3 DEF SerialInvariant, OneFlusher, InFlush
    <3>5. Current' = Head(queue)
      BY <3>3, <3>4 DEF Current
    <3> QED BY <2>8, <3>2, <3>3, <3>5 DEF Serial!Begin
  <2>9. ASSUME NEW t \in Executor, Ran(t) PROVE Serial!Complete
    <3>1. Current = runnable[t] /\ runnable[t] # NoRunnable
      BY <2>9, CurrentIs DEF Ran, SerialInvariant, SerialTypeOK
    <3>2. \A v \in Executor : at'[v] # "running"
      BY <2>9 DEF Ran, SerialInvariant, SerialTypeOK, OneFlusher, InFlush
    <3>3. Current' = NoRunnable
      BY <3>2 DEF Current
    <3> QED BY <2>9, <3>1, <3>3 DEF Ran, Serial!Complete
  <2> QED
    BY <2>2, <2>3, <2>4, <2>6, <2>7, <2>8, <2>9 DEF SerialStep, FlushStep
<1>3. SerialInvariant /\ SerialInvariant' /\ DispatchTypeOK /\ [Next]_vars
          => [Serial!Dispatch \/ Serial!Begin \/ Serial!Complete]_<<queue, Current>>
  BY <1>2, StepOfQueue
<1> QED BY <1>1, <1>3, SerialCorrect, DispatchTypes, PTL DEF Spec, KeepsSerialOrder, Serial!Spec

-----------------------------------------------------------------------------
(* Answers.                                                                *)

\* AnsweredOnce is not inductive alone: a message that Dart has yet to send must
\* have neither an answer nor a pending response.
AnswerInvariant ==
    /\ from \in Seq(Sender)
    /\ answered \in [Message -> Nat]
    /\ pending \subseteq Message /\ pending \cap Unanswered = {}
    /\ \A m \in Message :
          /\ m \in pending => answered[m] = 0
          /\ answered[m] <= 1
          /\ answered[m] > 0 => m \notin Unanswered
          /\ m > Len(from) => answered[m] = 0 /\ m \notin pending

\* A response that is completed was pending, and no longer is.
LEMMA ResponseStep ==
    ASSUME AnswerInvariant, NEW m, InvokeResponseCallback(m), UNCHANGED from
    PROVE  AnswerInvariant'
<1>1. answered' \in [Message -> Nat]
  <2>1. CASE m \in Message
    BY <2>1 DEF AnswerInvariant, InvokeResponseCallback, CompleteResponse
  <2>2. CASE m \notin Message
    <3>1. answered' = answered
      BY <2>2 DEF AnswerInvariant, InvokeResponseCallback, CompleteResponse
    <3> QED BY <3>1 DEF AnswerInvariant
  <2> QED BY <2>1, <2>2
<1>2. pending' \subseteq pending
  BY DEF InvokeResponseCallback, CompleteResponse
<1>3. ASSUME NEW n \in Message
      PROVE  \/ answered'[n] = answered[n]
             \/ n \in pending /\ n \notin pending' /\ answered'[n] = answered[n] + 1
  BY <1>3 DEF AnswerInvariant, InvokeResponseCallback, CompleteResponse
<1>4. ASSUME NEW n \in Message
      PROVE  /\ n \in pending' => answered'[n] = 0
             /\ answered'[n] <= 1
             /\ answered'[n] > 0 => n \notin Unanswered
             /\ n > Len(from') => answered'[n] = 0 /\ n \notin pending'
  BY <1>1, <1>2, <1>3, <1>4 DEF AnswerInvariant
<1> QED BY <1>1, <1>2, <1>4 DEF AnswerInvariant

\* Dart is answered at most once, and only if it asked: replies, late replies and
\* the answers given for handlers that throw all take the response out of
\* pending_responses_ first.
THEOREM AnsweredAtMostOnce == Spec => []AnsweredOnce
<1>1. Init => AnswerInvariant
  <2> SUFFICES ASSUME Init PROVE AnswerInvariant
    OBVIOUS
  <2>1. from \in Seq(Sender) /\ answered = [m \in Message |-> 0] /\ pending = {}
    BY DEF Init
  <2> QED BY <2>1 DEF AnswerInvariant
<1>2. AnswerInvariant /\ [Next]_vars => AnswerInvariant'
  <2> SUFFICES ASSUME AnswerInvariant, [Next]_vars PROVE AnswerInvariant'
    OBVIOUS
  <2>1. ASSUME UNCHANGED <<from, answered, pending>> PROVE AnswerInvariant'
    BY <2>1 DEF AnswerInvariant
  <2>2. ASSUME NEW s \in Sender, HandleMessageFromDart(s) PROVE AnswerInvariant'
    <3> DEFINE m == Len(from) + 1
    <3>1. /\ m \in Message /\ from' = Append(from, s) /\ answered' = answered
          /\ pending' = IF m \in Unanswered THEN pending ELSE pending \cup {m}
      BY <2>2 DEF HandleMessageFromDart, RememberResponse
    <3>2. from' \in Seq(Sender) /\ Len(from') = Len(from) + 1 /\ Len(from) \in Nat
      BY <3>1 DEF AnswerInvariant
    <3>3. answered[m] = 0 /\ \A n \in Message : n > Len(from') => n > Len(from) /\ n # m
      BY <3>1, <3>2 DEF AnswerInvariant, Message
    <3> QED BY <3>1, <3>2, <3>3 DEF AnswerInvariant
  <2>3. ASSUME NEW m, InvokeResponseCallback(m), UNCHANGED from PROVE AnswerInvariant'
    BY <2>3, ResponseStep
  <2>4. ASSUME DetachFromNative PROVE AnswerInvariant'
    BY <2>4 DEF DetachFromNative, AnswerInvariant
  <2>5. ASSUME NEW t \in Thread, Runs(t) PROVE AnswerInvariant'
    BY <2>1, <2>3, <2>5 DEF Runs, InvokeHandler, HandlerReturns
  <2>6. ASSUME NEW m \in Message, Reply(m) PROVE AnswerInvariant'
    BY <2>3, <2>6 DEF Reply
  <2>7. ASSUME MessengerCall PROVE AnswerInvariant'
    BY <2>1, <2>4, <2>7
       DEF MessengerCall, SetMessageHandler, RemoveMessageHandler, replyVars,
           EnableBufferingIncomingMessages, DisableBufferingIncomingMessages
  <2> QED
    BY <2>1, <2>2, <2>5, <2>6, <2>7
       DEF Next, vars, PlatformStep, Dispatching, ExecutorStep, DispatchEnds, Thread,
           DispatchMessageToQueue, TakePlatformRunnable, TakeConcurrentRunnable,
           FlushSerialQueue, replyVars
<1>3. AnswerInvariant => AnsweredOnce
  BY DEF AnswerInvariant, AnsweredOnce
<1> QED BY <1>1, <1>2, <1>3, PTL DEF Spec

-----------------------------------------------------------------------------
(* The way of a message.                                                   *)

\* The runnables for a handler in K.
For(K) == {r \in Runnable : r.handler \in K}

\* Each queue has the runnables of its kind, and an executor thread that is inside
\* flush runs nothing else.
QueueInvariant ==
    /\ platformQueue \in Seq(For({NoHandler, "platform"}))
    /\ concurrent \subseteq For({"concurrent"})
    /\ queue \in Seq(For({"serial"}))
    /\ runnable \in [Executor -> For({"serial"}) \cup {NoRunnable}]
    /\ running \in [Thread -> Runnable \cup {NoRunnable}]
    /\ running[Platform] \in For({NoHandler, "platform"}) \cup {NoRunnable}
    /\ \A t \in Executor :
          /\ running[t] \in For({"concurrent"}) \cup {NoRunnable}
          /\ at[t] # "idle" => running[t] = NoRunnable
    /\ handled \in Seq(Runnable) /\ freed \in [Message -> Nat]

\* What each thread runs.
run == [t \in Thread |-> RunnableOf(t)]

\* The steps of a message: Dart sends it, and it is deferred ...
Defers(s) ==
    /\ Len(from) + 1 \in Message /\ dispatching[s] = <<>>
    /\ from' = Append(from, s)
    /\ bufferedMessages' = Append(bufferedMessages, Len(from) + 1)
    /\ deferred' = deferred \cup {Len(from) + 1}
    /\ UNCHANGED <<dispatching, queue, platformQueue, concurrent, run, handled, freed>>

\* ... or the sender has it to dispatch;
Receives(s) ==
    /\ Len(from) + 1 \in Message /\ dispatching[s] = <<>>
    /\ from' = Append(from, s)
    /\ dispatching' = [dispatching EXCEPT ![s] = <<RunnableFor(Len(from) + 1, messageHandler)>>]
    /\ UNCHANGED <<bufferedMessages, deferred, queue, platformQueue, concurrent, run, handled,
                   freed>>

\* the platform thread has what was deferred to dispatch;
Redispatches(h) ==
    /\ dispatching[Platform] = <<>> /\ Redispatch(h)
    /\ UNCHANGED <<deferred, from, queue, platformQueue, concurrent, run, handled, freed>>

\* a thread dispatches r;
Dispatches(d, r) ==
    /\ dispatching[d] # <<>> /\ r = Head(dispatching[d])
    /\ dispatching' = [dispatching EXCEPT ![d] = Tail(@)]
    /\ \/ /\ r.handler \in {NoHandler, "platform"}
          /\ platformQueue' = Append(platformQueue, r)
          /\ UNCHANGED <<queue, concurrent>>
       \/ /\ r.handler = "concurrent"
          /\ concurrent' = concurrent \cup {r}
          /\ UNCHANGED <<queue, platformQueue>>
       \/ /\ r.handler = "serial"
          /\ queue' = Append(queue, r)
          /\ UNCHANGED <<platformQueue, concurrent>>
    /\ UNCHANGED <<bufferedMessages, deferred, from, run, handled, freed>>

\* a thread begins to run r;
Takes(t, r) ==
    /\ run[t] = NoRunnable /\ run' = [run EXCEPT ![t] = r]
    /\ \/ /\ platformQueue # <<>> /\ r = Head(platformQueue)
          /\ platformQueue' = Tail(platformQueue)
          /\ UNCHANGED <<queue, concurrent>>
       \/ /\ r \in concurrent
          /\ concurrent' = concurrent \ {r}
          /\ UNCHANGED <<queue, platformQueue>>
       \/ /\ queue # <<>> /\ r = Head(queue)
          /\ queue' = Tail(queue)
          /\ UNCHANGED <<platformQueue, concurrent>>
    /\ UNCHANGED <<bufferedMessages, deferred, from, dispatching, handled, freed>>

\* the handler is called;
Handles(t) ==
    /\ run[t] # NoRunnable /\ ~WasHandled(run[t])
    /\ handled' = Append(handled, run[t])
    /\ UNCHANGED <<bufferedMessages, deferred, from, dispatching, queue, platformQueue, concurrent,
                   run, freed>>

\* and the data is freed.
Frees(t) ==
    /\ run[t] # NoRunnable
    /\ freed' = [freed EXCEPT ![run[t].message] = @ + 1]
    /\ run' = [run EXCEPT ![t] = NoRunnable]
    /\ UNCHANGED <<bufferedMessages, deferred, from, dispatching, queue, platformQueue, concurrent,
                   handled>>

MessageStep ==
    \/ UNCHANGED <<bufferedMessages, deferred, from, dispatching, queue, platformQueue, concurrent,
                   run, handled, freed>>
    \/ \E s \in Sender : Defers(s) \/ Receives(s)
    \/ \E h \in Queue \cup {NoHandler} : Redispatches(h)
    \/ \E d \in Dispatcher, r \in Runnable : Dispatches(d, r)
    \/ \E t \in Thread, r \in Runnable : Takes(t, r)
    \/ \E t \in Thread : Handles(t) \/ Frees(t)

\* A runnable is for the kind of queue it is dispatched to.
LEMMA KindsOfQueues ==
    /\ \A K : For(K) \subseteq Runnable
    /\ NoRunnable \notin Runnable
    /\ Platform \in Thread /\ Executor \subseteq Thread /\ Platform \notin Executor
    /\ Platform \in Dispatcher /\ Sender \subseteq Dispatcher
BY ConstantsAssumption DEF For, Thread

\* A sequence loses or gains a runnable and keeps its type.
LEMMA SeqTypes ==
    ASSUME NEW S, NEW s \in Seq(S)
    PROVE  /\ \A x \in S : Append(s, x) \in Seq(S)
           /\ s # <<>> => Head(s) \in S /\ Tail(s) \in Seq(S)
OBVIOUS

\* The queues keep to their kinds.
LEMMA QueuesCorrect == Spec => []QueueInvariant
<1> USE KindsOfQueues
<1>1. Init => QueueInvariant
  <2> SUFFICES ASSUME Init PROVE QueueInvariant
    OBVIOUS
  <2>1. <<>> \in Seq(For({NoHandler, "platform"})) /\ <<>> \in Seq(For({"serial"})) /\ <<>> \in Seq(Runnable)
    OBVIOUS
  <2>2. running = [t \in Thread |-> NoRunnable] /\ runnable = [t \in Executor |-> NoRunnable]
    BY DEF Init, SerialInit
  <2>3. freed \in [Message -> Nat]
    BY DEF Init
  <2> QED BY <2>1, <2>2, <2>3 DEF Init, SerialInit, QueueInvariant
<1>2. QueueInvariant /\ SerialInvariant /\ DispatchTypeOK /\ [Next]_vars => QueueInvariant'
  <2> SUFFICES ASSUME QueueInvariant, SerialInvariant, DispatchTypeOK, [Next]_vars
               PROVE  QueueInvariant'
    OBVIOUS
  <2>a. at \in [Executor -> {"idle", "polling", "running", "leaving", "checking"}]
    BY DEF SerialInvariant, SerialTypeOK
  <2>b. RunnableOf(Platform) = running[Platform]
    BY DEF RunnableOf
  <2>1. ASSUME UNCHANGED <<serialVars, queueVars, messageVars>> PROVE QueueInvariant'
    BY <2>1 DEF QueueInvariant, serialVars, queueVars, messageVars
  <2>2. ASSUME NEW d \in Dispatcher, DispatchMessageToQueue(d) PROVE QueueInvariant'
    <3>1. PICK r \in Runnable : r = Head(dispatching[d])
      BY <2>2, SeqTypes DEF DispatchMessageToQueue, DispatchTypeOK
    <3>2. UNCHANGED <<running, handled, freed>>
      BY <2>2 DEF DispatchMessageToQueue, messageVars
    <3>3. CASE /\ r.handler \in {NoHandler, "platform"}
               /\ platformQueue' = Append(platformQueue, r) /\ UNCHANGED <<serialVars, concurrent>>
      <4>1. platformQueue' \in Seq(For({NoHandler, "platform"}))
        <5>1. r \in For({NoHandler, "platform"})
          BY <3>3 DEF For
        <5> QED BY <3>3, <5>1, SeqTypes DEF QueueInvariant
      <4> QED BY <3>2, <3>3, <4>1 DEF QueueInvariant, serialVars
    <3>4. CASE /\ r.handler = "concurrent"
               /\ concurrent' = concurrent \cup {r} /\ UNCHANGED <<serialVars, platformQueue>>
      <4>1. concurrent' \subseteq For({"concurrent"})
        BY <3>4 DEF QueueInvariant, For
      <4> QED BY <3>2, <3>4, <4>1 DEF QueueInvariant, serialVars
    <3>5. CASE /\ r.handler = "serial" /\ Add(d, r) /\ UNCHANGED <<platformQueue, concurrent>>
      <4>1. queue' \in Seq(For({"serial"})) /\ UNCHANGED <<at, runnable>>
        <5>1. r \in For({"serial"})
          BY <3>5 DEF For
        <5> QED BY <3>5, <5>1, SeqTypes DEF QueueInvariant, Add
      <4> QED BY <3>2, <3>5, <4>1 DEF QueueInvariant
    <3> QED BY <2>2, <3>1, <3>3, <3>4, <3>5 DEF DispatchMessageToQueue
  <2>3. ASSUME NEW d \in Dispatcher, DispatchEnds(d) PROVE QueueInvariant'
    BY <2>3 DEF DispatchEnds, Execute, QueueInvariant, queueVars, messageVars
  <2>4. ASSUME TakePlatformRunnable PROVE QueueInvariant'
    <3>1. /\ Head(platformQueue) \in For({NoHandler, "platform"})
          /\ Tail(platformQueue) \in Seq(For({NoHandler, "platform"}))
      BY <2>4, SeqTypes DEF TakePlatformRunnable, QueueInvariant
    <3>2. /\ running' = [running EXCEPT ![Platform] = Head(platformQueue)]
          /\ platformQueue' = Tail(platformQueue)
          /\ UNCHANGED <<serialVars, concurrent, messageVars>>
      BY <2>4 DEF TakePlatformRunnable
    <3> QED BY <3>1, <3>2 DEF QueueInvariant, serialVars, messageVars
  <2>5. ASSUME NEW t \in Executor, TakeConcurrentRunnable(t) PROVE QueueInvariant'
    <3>1. PICK r \in concurrent : /\ running' = [running EXCEPT ![t] = r]
                                  /\ concurrent' = concurrent \ {r}
      BY <2>5, Zenon DEF TakeConcurrentRunnable
    <3>2. at[t] = "idle" /\ UNCHANGED <<serialVars, platformQueue, messageVars>>
      BY <2>5 DEF TakeConcurrentRunnable
    <3>3. r \in For({"concurrent"})
      BY DEF QueueInvariant
    <3> QED BY <3>1, <3>2, <3>3 DEF QueueInvariant, serialVars, messageVars
  <2>6. ASSUME NEW t \in Executor, FlushSerialQueue(t) PROVE QueueInvariant'
    <3>1. running[t] = NoRunnable /\ UNCHANGED <<queueVars, messageVars>>
      BY <2>6 DEF FlushSerialQueue
    <3>2. \A u \in Executor : u # t => at'[u] = at[u]
      BY <2>6, <2>a DEF FlushSerialQueue, FlushStep, Flush, Poll, Leave, Recheck
    <3>3. queue' \in Seq(For({"serial"})) /\ runnable' \in [Executor -> For({"serial"}) \cup {NoRunnable}]
      <4>1. CASE Poll(t) /\ queue # <<>>
        <5>1. Head(queue) \in For({"serial"}) /\ Tail(queue) \in Seq(For({"serial"}))
          BY <4>1, SeqTypes DEF QueueInvariant
        <5> QED BY <4>1, <5>1, Zenon DEF Poll, QueueInvariant
      <4>2. CASE ~(Poll(t) /\ queue # <<>>)
        BY <2>6, <4>2 DEF FlushSerialQueue, FlushStep, Flush, Poll, Leave, Recheck, QueueInvariant
      <4> QED BY <4>1, <4>2
    <3> QED BY <3>1, <3>2, <3>3, Zenon DEF QueueInvariant, queueVars, messageVars
  <2>7. ASSUME NEW t \in Thread, RunnableOf(t) # NoRunnable
        PROVE  RunnableOf(t) \in Runnable
    BY <2>7 DEF RunnableOf, QueueInvariant, Thread
  <2>8. ASSUME NEW t \in Thread, InvokeHandler(t) PROVE QueueInvariant'
    <3>1. handled' \in Seq(Runnable)
      BY <2>7, <2>8, SeqTypes DEF InvokeHandler, QueueInvariant
    <3> QED BY <2>8, <3>1 DEF InvokeHandler, QueueInvariant, serialVars, queueVars
  <2>9. ASSUME NEW t \in Thread, HandlerReturns(t) PROVE QueueInvariant'
    <3>1. freed' \in [Message -> Nat]
      BY <2>7, <2>9 DEF HandlerReturns, QueueInvariant, Runnable
    <3>2. CASE t # Platform /\ at[t] = "running"
      <4>1. t \in Executor /\ running[t] = NoRunnable
        BY <3>2 DEF Thread, QueueInvariant
      <4>2. Ran(t) /\ UNCHANGED <<running, platformQueue, concurrent, handled>>
        BY <2>9, <3>2 DEF HandlerReturns
      <4>3. /\ runnable' \in [Executor -> For({"serial"}) \cup {NoRunnable}] /\ queue' = queue
            /\ \A u \in Executor : u # t => at'[u] = at[u]
        BY <2>a, <4>1, <4>2 DEF Ran, QueueInvariant
      <4> QED BY <3>1, <4>1, <4>2, <4>3, Zenon DEF QueueInvariant
    <3>3. CASE ~(t # Platform /\ at[t] = "running")
      <4>1. /\ running' = [running EXCEPT ![t] = NoRunnable]
            /\ UNCHANGED <<serialVars, platformQueue, concurrent, handled>>
        BY <2>9, <3>3 DEF HandlerReturns
      <4> QED BY <3>1, <4>1 DEF QueueInvariant, serialVars
    <3> QED BY <3>2, <3>3
  <2>10. ASSUME MessengerCall PROVE QueueInvariant'
    BY <2>1, <2>10
       DEF MessengerCall, SetMessageHandler, RemoveMessageHandler, DetachFromNative,
           EnableBufferingIncomingMessages, DisableBufferingIncomingMessages
  <2>11. ASSUME NEW s \in Sender, HandleMessageFromDart(s) PROVE QueueInvariant'
    BY <2>1, <2>11 DEF HandleMessageFromDart
  <2>12. ASSUME NEW m \in Message, Reply(m) PROVE QueueInvariant'
    BY <2>1, <2>12 DEF Reply
  <2> QED
    BY <2>1, <2>2, <2>3, <2>4, <2>5, <2>6, <2>8, <2>9, <2>10, <2>11, <2>12
       DEF Next, vars, PlatformStep, Dispatching, Runs, ExecutorStep
<1> QED BY <1>1, <1>2, SerialCorrect, DispatchTypes, PTL DEF Spec

\* A thread runs a runnable, of its kind.
LEMMA RunType ==
    ASSUME QueueInvariant, SerialInvariant
    PROVE  /\ run \in [Thread -> Runnable \cup {NoRunnable}]
           /\ run[Platform] \in For({NoHandler, "platform"}) \cup {NoRunnable}
           /\ \A t \in Executor :
                 run[t] \in For({"serial"}) \cup For({"concurrent"}) \cup {NoRunnable}
           /\ \A t, u \in Thread :
                 run[t] \in For({"serial"}) /\ run[u] \in For({"serial"}) => t = u
<1>a. run = [t \in Thread |-> RunnableOf(t)]
  BY DEF run
<1>1. run[Platform] = running[Platform]
  BY <1>a, KindsOfQueues DEF RunnableOf
<1>2. ASSUME NEW t \in Executor
      PROVE  /\ run[t] = IF at[t] = "running" THEN runnable[t] ELSE running[t]
             /\ run[t] \in For({"serial"}) \cup For({"concurrent"}) \cup {NoRunnable}
             /\ run[t] \in For({"serial"}) => InFlush(t)
  <2>1. run[t] = IF at[t] = "running" THEN runnable[t] ELSE running[t]
    BY <1>2, <1>a, KindsOfQueues DEF RunnableOf
  <2>2. /\ runnable[t] \in For({"serial"}) \cup {NoRunnable}
        /\ running[t] \in For({"concurrent"}) \cup {NoRunnable}
    BY DEF QueueInvariant
  <2>3. For({"serial"}) \cap (For({"concurrent"}) \cup {NoRunnable}) = {}
    BY KindsOfQueues DEF For
  <2> QED BY <2>1, <2>2, <2>3 DEF InFlush
<1>3. ASSUME NEW t \in Thread PROVE run[t] \in Runnable \cup {NoRunnable}
  BY <1>1, <1>2, KindsOfQueues DEF Thread, QueueInvariant
<1>4. run[Platform] \notin For({"serial"})
  BY <1>1, KindsOfQueues, ConstantsAssumption DEF QueueInvariant, For, Queue
<1>5. ASSUME NEW t \in Thread, NEW u \in Thread,
             run[t] \in For({"serial"}), run[u] \in For({"serial"})
      PROVE  t = u
  BY <1>2, <1>4, <1>5 DEF Thread, SerialInvariant, OneFlusher
<1>6. run[Platform] \in For({NoHandler, "platform"}) \cup {NoRunnable}
  BY <1>1 DEF QueueInvariant
<1>7. run \in [Thread -> Runnable \cup {NoRunnable}]
  BY <1>a, <1>3
<1> QED BY <1>2, <1>5, <1>6, <1>7

\* Every step of the messenger is one of the steps of a message, or none.
LEMMA StepOfMessage ==
    QueueInvariant /\ SerialInvariant /\ DispatchTypeOK /\ [Next]_vars => MessageStep
<1> SUFFICES ASSUME QueueInvariant, SerialInvariant, DispatchTypeOK, [Next]_vars
             PROVE  MessageStep
  OBVIOUS
<1> USE KindsOfQueues
<1>a. at \in [Executor -> {"idle", "polling", "running", "leaving", "checking"}]
  BY DEF SerialInvariant, SerialTypeOK
<1>b. /\ running \in [Thread -> Runnable \cup {NoRunnable}]
      /\ runnable \in [Executor -> For({"serial"}) \cup {NoRunnable}]
      /\ run = [t \in Thread |-> RunnableOf(t)]
  BY DEF QueueInvariant, run
<1>c. ASSUME UNCHANGED <<at, runnable, running>> PROVE run' = run
  BY <1>c DEF run, RunnableOf
<1>d. UNCHANGED serialVars => UNCHANGED <<queue, at, runnable>>
  BY DEF serialVars
<1>1. ASSUME UNCHANGED <<serialVars, bufferedMessages, deferred, from, dispatching, queueVars,
                         messageVars>>
      PROVE  MessageStep
  BY <1>1, <1>c, <1>d DEF queueVars, messageVars, MessageStep
<1>2. ASSUME NEW s \in Sender, HandleMessageFromDart(s) PROVE MessageStep
  <2>1. UNCHANGED <<queue, platformQueue, concurrent, run, handled, freed>>
    BY <1>2, <1>c, <1>d DEF HandleMessageFromDart, queueVars, messageVars
  <2>2. Defers(s) \/ Receives(s)
    BY <1>2, <2>1 DEF HandleMessageFromDart, Defers, Receives
  <2> QED BY <2>2 DEF MessageStep
<1>3. ASSUME NEW d \in Dispatcher, DispatchMessageToQueue(d) PROVE MessageStep
  <2>1. PICK r \in Runnable : r = Head(dispatching[d])
    BY <1>3, SeqTypes DEF DispatchMessageToQueue, DispatchTypeOK
  <2>2. UNCHANGED <<at, runnable, running>>
    BY <1>3, <1>d, <2>1 DEF DispatchMessageToQueue, Add
  <2>3. UNCHANGED <<bufferedMessages, deferred, from, run, handled, freed>>
    BY <1>3, <1>c, <2>2 DEF DispatchMessageToQueue, handlerVars, messageVars
  <2>4. \/ /\ r.handler \in {NoHandler, "platform"}
           /\ platformQueue' = Append(platformQueue, r)
           /\ UNCHANGED <<queue, concurrent>>
        \/ /\ r.handler = "concurrent"
           /\ concurrent' = concurrent \cup {r}
           /\ UNCHANGED <<queue, platformQueue>>
        \/ /\ r.handler = "serial"
           /\ queue' = Append(queue, r)
           /\ UNCHANGED <<platformQueue, concurrent>>
    BY <1>3, <1>d, <2>1 DEF DispatchMessageToQueue, Add
  <2>5. Dispatches(d, r)
    BY <1>3, <2>1, <2>3, <2>4 DEF DispatchMessageToQueue, Dispatches
  <2> QED BY <2>5 DEF MessageStep
<1>4. ASSUME NEW d \in Dispatcher, DispatchEnds(d) PROVE MessageStep
  BY <1>4, <1>c DEF DispatchEnds, Execute, handlerVars, queueVars, messageVars, MessageStep
<1>5. ASSUME MessengerCall PROVE MessageStep
  <2>1. ASSUME NEW h \in Queue \cup {NoHandler}, PlatformCalls, Redispatch(h),
               UNCHANGED <<serialVars, deferred, from, queueVars, messageVars>>
        PROVE  MessageStep
    <3>1. Redispatches(h)
      BY <2>1, <1>c, <1>d DEF Redispatches, PlatformCalls, PlatformIsFree, queueVars, messageVars
    <3> QED BY <3>1 DEF MessageStep
  <2>2. ASSUME NEW q \in Queue, SetMessageHandler(q) PROVE MessageStep
    BY <2>1, <2>2 DEF SetMessageHandler
  <2>3. ASSUME DisableBufferingIncomingMessages PROVE MessageStep
    BY <2>1, <2>3 DEF DisableBufferingIncomingMessages
  <2>4. ASSUME RemoveMessageHandler \/ EnableBufferingIncomingMessages \/ DetachFromNative
        PROVE  MessageStep
    BY <1>1, <2>4 DEF RemoveMessageHandler, EnableBufferingIncomingMessages, DetachFromNative,
                      handlerVars
  <2> QED BY <1>5, <2>2, <2>3, <2>4 DEF MessengerCall
<1>6. ASSUME TakePlatformRunnable PROVE MessageStep
  <2>1. PICK r \in Runnable : r = Head(platformQueue)
    BY <1>6, SeqTypes DEF TakePlatformRunnable, QueueInvariant
  <2>2. running' = [running EXCEPT ![Platform] = r] /\ UNCHANGED <<queue, at, runnable>>
    BY <1>6, <1>d, <2>1 DEF TakePlatformRunnable
  <2>3. run[Platform] = NoRunnable /\ run' = [run EXCEPT ![Platform] = r]
    BY <1>6, <1>b, <2>2, Zenon DEF TakePlatformRunnable, PlatformIsFree, run, RunnableOf
  <2>4. Takes(Platform, r)
    BY <1>6, <2>1, <2>2, <2>3 DEF TakePlatformRunnable, Takes, handlerVars, messageVars
  <2> QED BY <2>4 DEF MessageStep
<1>7. ASSUME NEW t \in Executor, TakeConcurrentRunnable(t) PROVE MessageStep
  <2>1. PICK r \in concurrent : /\ running' = [running EXCEPT ![t] = r]
                                /\ concurrent' = concurrent \ {r}
    BY <1>7, Zenon DEF TakeConcurrentRunnable
  <2>2. r \in Runnable /\ UNCHANGED <<queue, at, runnable>>
    BY <1>7, <1>d DEF QueueInvariant, TakeConcurrentRunnable
  <2>3. run[t] = NoRunnable /\ run' = [run EXCEPT ![t] = r]
    BY <1>7, <1>b, <2>1, <2>2 DEF TakeConcurrentRunnable, run, RunnableOf
  <2>4. Takes(t, r)
    BY <1>7, <2>1, <2>2, <2>3 DEF TakeConcurrentRunnable, Takes, handlerVars, messageVars
  <2> QED BY <2>2, <2>4 DEF MessageStep
<1>8. ASSUME NEW t \in Executor, FlushSerialQueue(t) PROVE MessageStep
  <2>1. running[t] = NoRunnable /\ UNCHANGED <<bufferedMessages, deferred, from, dispatching,
                                               platformQueue, concurrent, running, handled, freed>>
    BY <1>8 DEF FlushSerialQueue, handlerVars, queueVars, messageVars
  <2>2. CASE Poll(t) /\ queue # <<>>
    <3>1. PICK r \in Runnable : r = Head(queue)
      BY <2>2, SeqTypes DEF QueueInvariant
    <3>2. /\ at[t] = "polling" /\ at' = [at EXCEPT ![t] = "running"] /\ queue' = Tail(queue)
          /\ runnable' = [runnable EXCEPT ![t] = r]
      BY <2>2, <3>1 DEF Poll
    <3>3. run[t] = NoRunnable
      BY <1>b, <2>1, <3>2 DEF RunnableOf
    <3>4. ASSUME NEW u \in Thread PROVE run'[u] = IF u = t THEN r ELSE run[u]
      BY <1>a, <1>b, <2>1, <3>2, <3>4 DEF run, RunnableOf, Thread
    <3>5. run' = [run EXCEPT ![t] = r]
      BY <1>b, <3>4, Zenon DEF run
    <3>6. Takes(t, r)
      BY <2>1, <2>2, <3>1, <3>2, <3>3, <3>5 DEF Takes
    <3> QED BY <3>6 DEF MessageStep
  <2>3. CASE ~(Poll(t) /\ queue # <<>>)
    <3>1. /\ UNCHANGED <<queue, runnable>>
          /\ at[t] # "running" /\ at'[t] # "running" /\ \A u \in Executor : u # t => at'[u] = at[u]
      BY <1>8, <1>a, <2>3, Zenon DEF FlushSerialQueue, FlushStep, Flush, Poll, Leave, Recheck
    <3>2. ASSUME NEW u \in Thread PROVE RunnableOf(u)' = RunnableOf(u)
      BY <2>1, <3>1, <3>2 DEF RunnableOf, Thread
    <3>3. run' = run
      BY <3>2 DEF run
    <3> QED BY <2>1, <3>1, <3>3, Zenon DEF MessageStep
  <2> QED BY <2>2, <2>3
<1>9. ASSUME NEW t \in Thread, InvokeHandler(t) PROVE MessageStep
  <2>1. RunnableOf(t) = run[t]
    BY <1>b
  <2>2. UNCHANGED <<queue, at, runnable, running>>
    BY <1>9, <1>d DEF InvokeHandler, queueVars
  <2>3. Handles(t)
    BY <1>9, <1>c, <2>1, <2>2 DEF InvokeHandler, Handles, handlerVars, queueVars
  <2> QED BY <2>3 DEF MessageStep
<1>10. ASSUME NEW t \in Thread, HandlerReturns(t) PROVE MessageStep
  <2>1. RunnableOf(t) = run[t] /\ run[t] # NoRunnable
    BY <1>10, <1>b DEF HandlerReturns
  <2>2. /\ UNCHANGED <<bufferedMessages, deferred, from, dispatching, platformQueue, concurrent, handled>>
        /\ freed' = [freed EXCEPT ![run[t].message] = @ + 1]
    BY <1>10, <2>1, Zenon DEF HandlerReturns, handlerVars
  <2>3. queue' = queue /\ run' = [run EXCEPT ![t] = NoRunnable]
    <3>1. CASE t # Platform /\ at[t] = "running"
      <4>1. t \in Executor /\ running[t] = NoRunnable
        BY <3>1 DEF Thread, QueueInvariant
      <4>2. /\ at' = [at EXCEPT ![t] = "leaving"] /\ queue' = queue /\ running' = running
            /\ runnable' = [runnable EXCEPT ![t] = NoRunnable]
        BY <1>10, <3>1 DEF HandlerReturns, Ran
      <4>3. ASSUME NEW u \in Thread PROVE run'[u] = IF u = t THEN NoRunnable ELSE run[u]
        BY <1>a, <1>b, <4>1, <4>2, <4>3 DEF run, RunnableOf, Thread
      <4> QED BY <1>b, <4>2, <4>3, Zenon DEF run
    <3>2. CASE ~(t # Platform /\ at[t] = "running")
      <4>1. running' = [running EXCEPT ![t] = NoRunnable] /\ UNCHANGED <<queue, at, runnable>>
        BY <1>10, <1>d, <3>2 DEF HandlerReturns
      <4>2. ASSUME NEW u \in Thread PROVE run'[u] = IF u = t THEN NoRunnable ELSE run[u]
        BY <1>b, <3>2, <4>1, <4>2 DEF run, RunnableOf
      <4> QED BY <1>b, <4>1, <4>2, Zenon DEF run
    <3> QED BY <3>1, <3>2
  <2>4. Frees(t)
    BY <2>1, <2>2, <2>3 DEF Frees
  <2> QED BY <2>4 DEF MessageStep
<1>11. ASSUME NEW m \in Message, Reply(m) PROVE MessageStep
  BY <1>1, <1>11 DEF Reply, handlerVars
<1>12. ASSUME UNCHANGED vars PROVE MessageStep
  BY <1>1, <1>12 DEF vars, handlerVars
<1> QED
  BY <1>2, <1>3, <1>4, <1>5, <1>6, <1>7, <1>8, <1>9, <1>10, <1>11, <1>12
     DEF Next, PlatformStep, Dispatching, Runs, ExecutorStep

\* A message is a positive number.
LEMMA MessageOf == \A r \in Runnable : r.message \in Message /\ r.message \in Nat /\ r.message >= 1
BY DEF Runnable, Message

\* A sequence over a set is one over any larger set.
LEMMA SeqOfMore ==
    ASSUME NEW S, NEW T, S \subseteq T, NEW s \in Seq(S)
    PROVE  s \in Seq(T) /\ \A i \in DOMAIN s : s[i] \in T
<1>1. s \in [1 .. Len(s) -> S] /\ Len(s) \in Nat
  OBVIOUS
<1>2. s \in [1 .. Len(s) -> T]
  BY <1>1
<1> QED BY <1>1, <1>2

=============================================================================
