---------------------------- MODULE DartMessenger ----------------------------
(***************************************************************************)
(* Platform messages from Dart on Android: DartMessenger.java, and         *)
(* PlatformMessageHandlerAndroid, which calls it and takes the answers.    *)
(* One channel: the maps are keyed by channel, and a serial task queue is  *)
(* the only thing that channels can share.                                 *)
(*                                                                         *)
(* Messages come from Sender, the threads that run Dart.  The platform     *)
(* thread sets the handler (BinaryMessenger says @UiThread) and runs       *)
(* PlatformTaskQueue; the executor's threads run the background queues.    *)
(* Every thread looks the handler up under handlersLock and dispatches     *)
(* after it has let go of it.                                              *)
(***************************************************************************)
EXTENDS SerialTaskQueue, FiniteSets

CONSTANTS
    Sender,
    Platform,       \* the platform thread
    NoHandler,
    Unanswered,     \* the messages that Dart sends without a callback
    MaxMessages,    \* bound: messages from Dart
    MaxCalls        \* bound: calls that change the messenger

VARIABLES
    messageHandler, \* the channel's entry of messageHandlers: the task queue of
                    \* its HandlerInfo, or NoHandler
    buffering,      \* enableBufferingIncomingMessages
    bufferedMessages,
    from,           \* the sender of each message so far; message n is from[n]
    dispatching,    \* what each thread still has to dispatch, the lock released
    platformQueue,  \* PlatformTaskQueue: the main looper
    concurrent,     \* ConcurrentTaskQueue: runnables the executor holds
    running,        \* the runnable of platformQueue or concurrent a thread runs
    handled,        \* the runnables whose handler was called, in that order
    freed,          \* how often each message's data was freed
    kept,           \* messages whose handler was given a Reply
    done,           \* Replies with done set
    pending,        \* pending_responses_
    answered,       \* how often each message's response was completed
    attached,       \* is FlutterJNI attached to native?
    deferred,       \* history: the messages that were ever buffered
    calls           \* calls so far

handlerVars == <<messageHandler, buffering, bufferedMessages, deferred>>
queueVars == <<platformQueue, concurrent, running>>
messageVars == <<handled, freed>>
replyVars == <<kept, done, pending, answered>>
vars == <<serialVars, handlerVars, from, dispatching, queueVars, messageVars, replyVars,
          attached, calls>>

Message == 1 .. MaxMessages
Thread == Executor \cup {Platform}
Queue == {"platform", "serial", "concurrent"}

\* dispatchMessageToQueue's runnable: the message and the handler it is for.
Runnable == [message : Message, handler : Queue \cup {NoHandler}]
RunnableFor(m, handler) == [message |-> m, handler |-> handler]

ASSUME ConstantsAssumption ==
    /\ Dispatcher = Sender \cup {Platform} /\ Platform \notin Executor
    /\ IsFiniteSet(Dispatcher) /\ IsFiniteSet(Executor)
    /\ NoHandler \notin Queue /\ NoRunnable \notin Runnable
    /\ MaxMessages \in Nat /\ MaxCalls \in Nat

Init ==
    /\ SerialInit
    /\ messageHandler = NoHandler /\ buffering = FALSE
    /\ bufferedMessages = <<>> /\ deferred = {}
    /\ from = <<>> /\ dispatching = [d \in Dispatcher |-> <<>>]
    /\ platformQueue = <<>> /\ concurrent = {} /\ running = [t \in Thread |-> NoRunnable]
    /\ handled = <<>> /\ freed = [m \in Message |-> 0]
    /\ kept = {} /\ done = {} /\ pending = {} /\ answered = [m \in Message |-> 0]
    /\ attached = TRUE /\ calls = 0

-----------------------------------------------------------------------------
(* From Dart to a task queue.                                              *)

\* The native HandlePlatformMessage remembers the response, if there is one.
RememberResponse(m) ==
    pending' = IF m \in Unanswered THEN pending ELSE pending \cup {m}

\* Mutant: the data of a deferred message is also dispatched.
HandleMessageTwice(s) ==
    LET m == Len(from) + 1 IN
    /\ attached /\ dispatching[s] = <<>> /\ s \notin adding /\ m \in Message
    /\ from' = Append(from, s)
    /\ RememberResponse(m)
    /\ dispatching' = [dispatching EXCEPT ![s] = <<RunnableFor(m, messageHandler)>>]
    /\ IF buffering /\ messageHandler = NoHandler
       THEN bufferedMessages' = Append(bufferedMessages, m) /\ deferred' = deferred \cup {m}
       ELSE UNCHANGED <<bufferedMessages, deferred>>
    /\ UNCHANGED <<serialVars, messageHandler, buffering, queueVars, messageVars, kept, done,
                   answered, attached, calls>>

\* handleMessageFromDart looks up the handler or defers the message, under the
\* lock.
HandleMessageFromDart(s) ==
    LET m == Len(from) + 1 IN
    /\ attached /\ dispatching[s] = <<>> /\ s \notin adding /\ m \in Message
    /\ from' = Append(from, s)
    /\ RememberResponse(m)
    /\ IF buffering /\ messageHandler = NoHandler
       THEN /\ bufferedMessages' = Append(bufferedMessages, m)
            /\ deferred' = deferred \cup {m}
            /\ UNCHANGED dispatching
       ELSE /\ dispatching' = [dispatching EXCEPT ![s] = <<RunnableFor(m, messageHandler)>>]
            /\ UNCHANGED <<bufferedMessages, deferred>>
    /\ UNCHANGED <<serialVars, messageHandler, buffering, queueVars, messageVars, kept, done,
                   answered, attached, calls>>

\* dispatchMessageToQueue: messages without a handler go to the platform thread.
DispatchMessageToQueue(d) ==
    /\ dispatching[d] # <<>> /\ d \notin adding
    /\ dispatching' = [dispatching EXCEPT ![d] = Tail(@)]
    /\ LET r == Head(dispatching[d]) IN
       \/ /\ r.handler \in {NoHandler, "platform"}
          /\ platformQueue' = Append(platformQueue, r)
          /\ UNCHANGED <<serialVars, concurrent>>
       \/ /\ r.handler = "concurrent"
          /\ concurrent' = concurrent \cup {r}
          /\ UNCHANGED <<serialVars, platformQueue>>
       \/ /\ r.handler = "serial"
          /\ Add(d, r)
          /\ UNCHANGED <<platformQueue, concurrent>>
    /\ UNCHANGED <<handlerVars, from, running, messageVars, replyVars, attached, calls>>

DispatchEnds(d) ==
    /\ Execute(d)
    /\ UNCHANGED <<handlerVars, from, dispatching, queueVars, messageVars, replyVars,
                   attached, calls>>

-----------------------------------------------------------------------------
(* The platform thread changes the messenger, between the tasks it runs.   *)

PlatformIsFree ==
    /\ running[Platform] = NoRunnable
    /\ dispatching[Platform] = <<>> /\ Platform \notin adding

PlatformCalls ==
    /\ PlatformIsFree /\ calls < MaxCalls
    /\ calls' = calls + 1

Redispatch(handler) ==
    /\ dispatching' = [dispatching EXCEPT ![Platform] =
           [i \in DOMAIN bufferedMessages |-> RunnableFor(bufferedMessages[i], handler)]]
    /\ bufferedMessages' = <<>>

\* setMessageHandler puts the handler and takes what was buffered, under the
\* lock, and dispatches that afterwards.  (It then reads the map without the
\* lock; but nobody else changes the map.)
SetMessageHandler(q) ==
    /\ PlatformCalls
    /\ messageHandler' = q
    /\ Redispatch(q)
    /\ UNCHANGED <<serialVars, buffering, deferred, from, queueVars, messageVars, replyVars,
                   attached>>

\* setMessageHandler(channel, null)
RemoveMessageHandler ==
    /\ PlatformCalls
    /\ messageHandler' = NoHandler
    /\ UNCHANGED <<serialVars, buffering, bufferedMessages, deferred, from, dispatching,
                   queueVars, messageVars, replyVars, attached>>

EnableBufferingIncomingMessages ==
    /\ PlatformCalls
    /\ buffering' = TRUE
    /\ UNCHANGED <<serialVars, messageHandler, bufferedMessages, deferred, from, dispatching,
                   queueVars, messageVars, replyVars, attached>>

\* What is still buffered gets empty answers.
DisableBufferingIncomingMessages ==
    /\ PlatformCalls
    /\ buffering' = FALSE
    /\ Redispatch(NoHandler)
    /\ UNCHANGED <<serialVars, messageHandler, deferred, from, queueVars, messageVars, replyVars,
                   attached>>

\* detachFromNativeAndReleaseResources destroys the shell, which waits for the
\* threads that run Dart; the platform message handler goes with it.
DetachFromNative ==
    /\ PlatformCalls /\ attached
    /\ \A s \in Sender : dispatching[s] = <<>> /\ s \notin adding
    /\ attached' = FALSE /\ pending' = {}
    /\ UNCHANGED <<serialVars, handlerVars, from, dispatching, queueVars, messageVars,
                   kept, done, answered>>

-----------------------------------------------------------------------------
(* Answers.                                                                *)

\* Mutant: the response stays in pending_responses_.
CompleteResponseAgain(m) ==
    /\ answered' = [answered EXCEPT ![m] = IF m \in pending THEN @ + 1 ELSE @]
    /\ UNCHANGED pending

\* The native InvokePlatformMessage(Empty)ResponseCallback: the response is taken
\* out of the map under its mutex and completed.
CompleteResponse(m) ==
    /\ answered' = [answered EXCEPT ![m] = IF m \in pending THEN @ + 1 ELSE @]
    /\ pending' = pending \ {m}

\* FlutterJNI's, on any thread, under shellHolderLock.
InvokeResponseCallback(m) ==
    IF attached THEN CompleteResponse(m) ELSE UNCHANGED <<pending, answered>>

\* Reply.reply, by whoever the handler gave its Reply to, at any time.  A second
\* call throws.
Reply(m) ==
    /\ m \in kept \ done
    /\ done' = done \cup {m}
    /\ InvokeResponseCallback(m)
    /\ UNCHANGED <<serialVars, handlerVars, from, dispatching, queueVars, messageVars, kept,
                   attached, calls>>

-----------------------------------------------------------------------------
(* The task queues run the runnables.                                      *)

WasHandled(r) == \E i \in DOMAIN handled : handled[i] = r

\* The runnable that thread t is running, whichever queue it is from.
RunnableOf(t) == IF t # Platform /\ at[t] = "running" THEN runnable[t] ELSE running[t]

\* The main looper, and the executor, take a runnable.
TakePlatformRunnable ==
    /\ PlatformIsFree /\ platformQueue # <<>>
    /\ running' = [running EXCEPT ![Platform] = Head(platformQueue)]
    /\ platformQueue' = Tail(platformQueue)
    /\ UNCHANGED <<serialVars, handlerVars, from, dispatching, concurrent, messageVars,
                   replyVars, attached, calls>>

TakeConcurrentRunnable(t) ==
    /\ at[t] = "idle" /\ running[t] = NoRunnable
    /\ \E r \in concurrent :
          /\ running' = [running EXCEPT ![t] = r]
          /\ concurrent' = concurrent \ {r}
    /\ UNCHANGED <<serialVars, handlerVars, from, dispatching, platformQueue, messageVars,
                   replyVars, attached, calls>>

FlushSerialQueue(t) ==
    /\ running[t] = NoRunnable
    /\ FlushStep(t)
    /\ UNCHANGED <<handlerVars, from, dispatching, queueVars, messageVars, replyVars, attached,
                   calls>>

\* Mutant: nobody answers a message without a handler.
InvokeHandlerSilently(t) ==
    LET r == RunnableOf(t) IN
    /\ r # NoRunnable /\ ~WasHandled(r)
    /\ handled' = Append(handled, r)
    /\ kept' = IF r.handler = NoHandler THEN kept ELSE kept \cup {r.message}
    /\ UNCHANGED <<serialVars, handlerVars, from, dispatching, queueVars, freed, done, pending,
                   answered, attached, calls>>

\* invokeHandler calls the handler with a Reply, or answers at once.
InvokeHandler(t) ==
    LET r == RunnableOf(t) IN
    /\ r # NoRunnable /\ ~WasHandled(r)
    /\ handled' = Append(handled, r)
    /\ IF r.handler = NoHandler
       THEN InvokeResponseCallback(r.message) /\ UNCHANGED kept
       ELSE kept' = kept \cup {r.message} /\ UNCHANGED <<pending, answered>>
    /\ UNCHANGED <<serialVars, handlerVars, from, dispatching, queueVars, freed, done,
                   attached, calls>>

\* Mutant: the data is freed only when the handler did not throw.
HandlerReturnsLeaking(t) ==
    LET r == RunnableOf(t) IN
    /\ r # NoRunnable /\ WasHandled(r)
    /\ \/ freed' = [freed EXCEPT ![r.message] = @ + 1] /\ UNCHANGED <<pending, answered>>
       \/ r.handler # NoHandler /\ InvokeResponseCallback(r.message) /\ UNCHANGED freed
    /\ IF t # Platform /\ at[t] = "running"
       THEN Ran(t) /\ UNCHANGED running
       ELSE running' = [running EXCEPT ![t] = NoRunnable] /\ UNCHANGED serialVars
    /\ UNCHANGED <<handlerVars, from, dispatching, platformQueue, concurrent, handled, kept,
                   done, attached, calls>>

\* The handler returns, or throws and is answered for; the data is freed.
HandlerReturns(t) ==
    LET r == RunnableOf(t) IN
    /\ r # NoRunnable /\ WasHandled(r)
    /\ \/ UNCHANGED <<pending, answered>>
       \/ r.handler # NoHandler /\ InvokeResponseCallback(r.message)
    /\ freed' = [freed EXCEPT ![r.message] = @ + 1]
    /\ IF t # Platform /\ at[t] = "running"
       THEN Ran(t) /\ UNCHANGED running
       ELSE running' = [running EXCEPT ![t] = NoRunnable] /\ UNCHANGED serialVars
    /\ UNCHANGED <<handlerVars, from, dispatching, platformQueue, concurrent, handled, kept,
                   done, attached, calls>>

-----------------------------------------------------------------------------
Dispatching(d) == DispatchMessageToQueue(d) \/ DispatchEnds(d)

Runs(t) == InvokeHandler(t) \/ HandlerReturns(t)

ExecutorStep(t) == TakeConcurrentRunnable(t) \/ FlushSerialQueue(t) \/ Runs(t)

PlatformStep == Dispatching(Platform) \/ TakePlatformRunnable \/ Runs(Platform)

MessengerCall ==
    \/ \E q \in Queue : SetMessageHandler(q)
    \/ RemoveMessageHandler
    \/ EnableBufferingIncomingMessages \/ DisableBufferingIncomingMessages
    \/ DetachFromNative

Next ==
    \/ \E s \in Sender : HandleMessageFromDart(s) \/ Dispatching(s)
    \/ PlatformStep \/ MessengerCall
    \/ \E t \in Executor : ExecutorStep(t)
    \/ \E m \in Message : Reply(m)

\* Threads that can run do run.  Nobody need send, call, or reply.
Spec == Init /\ [][Next]_vars
FairSpec ==
    /\ Spec
    /\ \A s \in Sender : WF_vars(Dispatching(s))
    /\ WF_vars(PlatformStep)
    /\ \A t \in Executor : WF_vars(ExecutorStep(t))

-----------------------------------------------------------------------------
(* Properties.                                                             *)

SerialTypeOK ==
    /\ queue \in Seq(Runnable) /\ isRunning \in BOOLEAN /\ flushes \in Nat
    /\ adding \subseteq Dispatcher
    /\ at \in [Executor -> {"idle", "polling", "running", "leaving", "checking"}]
    /\ runnable \in [Executor -> Runnable \cup {NoRunnable}]
    /\ \A t \in Executor : at[t] = "running" <=> runnable[t] # NoRunnable

TypeOK ==
    /\ SerialTypeOK
    /\ messageHandler \in Queue \cup {NoHandler} /\ buffering \in BOOLEAN
    /\ bufferedMessages \in Seq(Message) /\ deferred \subseteq Message
    /\ from \in Seq(Sender) /\ dispatching \in [Dispatcher -> Seq(Runnable)]
    /\ platformQueue \in Seq(Runnable) /\ concurrent \subseteq Runnable
    /\ running \in [Thread -> Runnable \cup {NoRunnable}]
    /\ handled \in Seq(Runnable) /\ freed \in [Message -> Nat]
    /\ kept \subseteq Message /\ done \subseteq kept /\ pending \subseteq Message
    /\ answered \in [Message -> Nat] /\ attached \in BOOLEAN /\ calls \in 0 .. MaxCalls

\* A serial task queue does what its documentation promises, although flush runs
\* on any number of threads.
Serial == INSTANCE SerialExecution WITH waiting <- queue, current <- Current
KeepsSerialOrder == Serial!Spec

\* Where message m is among the runnables rs.
Places(m, rs) == {i \in DOMAIN rs : rs[i].message = m}

\* Every message that Dart sent is in one place only: buffered, being dispatched,
\* in a queue, being run, or run with its data freed once.
InOnePlace ==
    \A m \in 1 .. Len(from) :
        Cardinality({i \in DOMAIN bufferedMessages : bufferedMessages[i] = m})
        + Cardinality({di \in Dispatcher \X Message : di[2] \in Places(m, dispatching[di[1]])})
        + Cardinality(Places(m, queue)) + Cardinality(Places(m, platformQueue))
        + Cardinality({r \in concurrent : r.message = m})
        + Cardinality({t \in Thread : RunnableOf(t) # NoRunnable /\ RunnableOf(t).message = m})
        + freed[m] = 1

\* Dart gets at most one answer to a message, and none that it did not ask for,
\* although a handler may reply, pass on its Reply and throw.
AnsweredOnce ==
    \A m \in Message :
        /\ answered[m] + (IF m \in pending THEN 1 ELSE 0) <= 1
        /\ answered[m] > 0 => m \notin Unanswered

\* Messages of one thread to one task queue that is not concurrent are handled in
\* the order they were sent, but for messages that were buffered: these are
\* dispatched after the lock was released, when newer ones no longer wait.
OnlyBufferedAreOvertaken ==
    \A i, j \in DOMAIN handled :
        LET early == handled[i].message
            late == handled[j].message
            Looper(h) == IF h = NoHandler THEN "platform" ELSE h
        IN i < j /\ late < early /\ from[late] = from[early]
              /\ Looper(handled[i].handler) = Looper(handled[j].handler)
              /\ handled[i].handler # "concurrent"
           => late \in deferred

\* Messages of one thread are handled in the order they were sent.
\* (The code does not keep this: a message sent while setMessageHandler is about
\* to dispatch what was buffered overtakes it.)
HandledInOrder ==
    \A i, j \in DOMAIN handled :
        i < j /\ handled[i].handler = handled[j].handler /\ handled[i].handler # "concurrent"
              /\ from[handled[i].message] = from[handled[j].message]
            => handled[i].message < handled[j].message

\* In the end every message has been handled and its data freed, unless it is
\* buffered, which only buffering explains; and it is answered, unless its handler
\* keeps the Reply to itself or the messenger was detached.
MessagesAreHandled ==
    <>[](\A m \in 1 .. Len(from) :
            \/ freed[m] = 1 /\ (attached /\ m \in pending => m \in kept \ done)
            \/ buffering /\ \E i \in DOMAIN bufferedMessages : bufferedMessages[i] = m)

=============================================================================
