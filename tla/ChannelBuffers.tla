--------------------------- MODULE ChannelBuffers ---------------------------
(***************************************************************************)
(* lib/ui/channel_buffers.dart: one named channel of dart:ui, which stores *)
(* the platform's messages until the framework sets a listener.  Channels  *)
(* share nothing but the map that names them.                              *)
(*                                                                         *)
(* All of it runs on the root isolate's thread, in turns: a task of the    *)
(* message loop, or a microtask.  In a turn any code may call the channel, *)
(* as often as it likes; a listener is such code too, and is called from   *)
(* push (nested in its caller) or from _drainStep.  On a merged thread     *)
(* the platform sends messages before the microtasks of the last turn ran. *)
(*                                                                         *)
(* Messages are numbered in the order they are pushed.                     *)
(***************************************************************************)
EXTENDS Integers, Sequences, FiniteSets

CONSTANTS
    Size,               \* capacities that resize asks for
    kDefaultBufferSize,
    ListenersThrow,     \* whether listeners may throw
    MaxMessages,        \* bound: messages pushed
    MaxCalls,           \* bound: other calls
    MaxDepth            \* bound: nested calls of listeners

ASSUME ChannelAssumption ==
    /\ Size \subseteq Nat /\ kDefaultBufferSize \in Nat
    /\ ListenersThrow \in BOOLEAN
    /\ MaxMessages \in Nat /\ MaxCalls \in Nat /\ MaxDepth \in Nat

VARIABLES
    exists,             \* whether _channels has the channel
    queue,              \* _queue
    capacity,           \* _capacity
    warns,              \* debugEnableDiscardWarnings
    draining,           \* _draining
    listening,          \* _channelCallbackRecord is not null
    microtasks,         \* _drainStep calls in the microtask queue
    awaits,             \* calls of drain that wait for their callback
    turn,               \* the turn that runs
    depth,              \* listeners called from push that have not returned
    pushed,             \* messages pushed
    calls,              \* other calls made
    delivered,          \* messages handed to a listener or to drain's callback
    answered,           \* messages answered with null
    ignored,            \* messages refused because the capacity is zero
    printed             \* pushes that printed a warning though none was wanted

channelVars == <<exists, queue, capacity, warns, draining, listening>>
turnVars == <<microtasks, awaits, turn, depth>>
logVars == <<delivered, answered, ignored, printed>>
vars == <<channelVars, turnVars, pushed, calls, logVars>>

Message == 1..MaxMessages

Init ==
    /\ exists = FALSE /\ queue = <<>> /\ capacity = kDefaultBufferSize
    /\ warns = TRUE /\ draining = FALSE /\ listening = FALSE
    /\ microtasks = 0 /\ awaits = 0 /\ turn = "idle" /\ depth = 0
    /\ pushed = 0 /\ calls = 0
    /\ delivered = <<>> /\ answered = <<>> /\ ignored = {} /\ printed = FALSE

-----------------------------------------------------------------------------
(* Turns.                                                                  *)

BeginTask ==
    /\ turn = "idle"
    /\ turn' = "task"
    /\ UNCHANGED <<channelVars, microtasks, awaits, depth, pushed, calls, logVars>>

EndTask ==
    /\ turn = "task" /\ depth = 0
    /\ turn' = "idle"
    /\ UNCHANGED <<channelVars, microtasks, awaits, depth, pushed, calls, logVars>>

InCall == turn # "idle" /\ calls < MaxCalls /\ calls' = calls + 1

\* Mutant: a drain that stops before the last message.
DrainStepLeavesOne ==
    /\ turn = "idle" /\ microtasks > 0
    /\ IF Len(queue) > 1 /\ listening
       THEN /\ queue' = Tail(queue)
            /\ delivered' = Append(delivered, Head(queue))
            /\ turn' = "drainStep"
            /\ UNCHANGED draining
       ELSE /\ draining' = FALSE
            /\ UNCHANGED <<queue, delivered, turn>>
    /\ microtasks' = microtasks - 1
    /\ UNCHANGED <<exists, capacity, warns, listening, awaits, depth, pushed,
                   calls, answered, ignored, printed>>

\* Mutant: a drain that is over before the queue is empty.
DrainStepReleases ==
    /\ turn = "idle" /\ microtasks > 0
    /\ IF queue # <<>> /\ listening
       THEN /\ queue' = Tail(queue)
            /\ delivered' = Append(delivered, Head(queue))
            /\ turn' = "drainStep"
       ELSE UNCHANGED <<queue, delivered, turn>>
    /\ draining' = FALSE
    /\ microtasks' = microtasks - 1
    /\ UNCHANGED <<exists, capacity, warns, listening, awaits, depth, pushed,
                   calls, answered, ignored, printed>>

\* _drainStep, up to the call of the listener.
DrainStep ==
    /\ turn = "idle" /\ microtasks > 0
    /\ IF queue # <<>> /\ listening
       THEN /\ queue' = Tail(queue)
            /\ delivered' = Append(delivered, Head(queue))
            /\ turn' = "drainStep"
            /\ UNCHANGED draining
       ELSE /\ draining' = FALSE
            /\ UNCHANGED <<queue, delivered, turn>>
    /\ microtasks' = microtasks - 1
    /\ UNCHANGED <<exists, capacity, warns, listening, awaits, depth, pushed,
                   calls, answered, ignored, printed>>

\* The listener returns to _drainStep, which schedules the next step.
DrainStepEnds ==
    /\ turn = "drainStep" /\ depth = 0
    /\ turn' = "idle"
    /\ microtasks' = microtasks + 1
    /\ UNCHANGED <<channelVars, awaits, depth, pushed, calls, logVars>>

\* The listener throws in _invoke2 and _drainStep does not catch.
DrainStepThrows ==
    /\ ListenersThrow
    /\ turn = "drainStep" /\ depth = 0
    /\ turn' = "idle"
    /\ UNCHANGED <<channelVars, microtasks, awaits, depth, pushed, calls, logVars>>

\* A listener called from push returns, or throws to push's caller.
ListenerEnds ==
    /\ depth > 0
    /\ depth' = depth - 1
    /\ UNCHANGED <<channelVars, microtasks, awaits, turn, pushed, calls, logVars>>

-----------------------------------------------------------------------------
(* The channel.                                                            *)

\* How many messages _dropOverflowMessages(limit) removes from the front.
Overflow(limit) == IF Len(queue) > limit THEN Len(queue) - limit ELSE 0

\* _dropOverflowMessages: what is left, and what is answered with null.
Rest(limit) == SubSeq(queue, Overflow(limit) + 1, Len(queue))
Dropped(limit) == SubSeq(queue, 1, Overflow(limit))

NewMessage == turn # "idle" /\ pushed < MaxMessages /\ pushed' = pushed + 1

\* Mutant: push calls the listener though older messages wait.
PushThroughWhileDraining ==
    /\ NewMessage /\ listening /\ depth < MaxDepth
    /\ exists' = TRUE
    /\ delivered' = Append(delivered, pushed + 1)
    /\ depth' = depth + 1
    /\ UNCHANGED <<queue, capacity, warns, draining, listening, microtasks,
                   awaits, turn, calls, answered, ignored, printed>>

\* push when there is a listener: it is called, inside this call.
PushThrough ==
    /\ NewMessage /\ ~draining /\ listening /\ depth < MaxDepth
    /\ exists' = TRUE
    /\ delivered' = Append(delivered, pushed + 1)
    /\ depth' = depth + 1
    /\ UNCHANGED <<queue, capacity, warns, draining, listening, microtasks,
                   awaits, turn, calls, answered, ignored, printed>>

\* push when messages are stored and the capacity is zero.
PushIgnored ==
    /\ NewMessage /\ (draining \/ ~listening) /\ capacity = 0
    /\ exists' = TRUE
    /\ ignored' = ignored \cup {pushed + 1}
    /\ UNCHANGED <<queue, capacity, warns, draining, listening, turnVars, calls,
                   delivered, answered, printed>>

\* Mutant: push drops what it has no room for without an answer.
PushStoredSilently ==
    /\ NewMessage /\ (draining \/ ~listening) /\ capacity > 0
    /\ exists' = TRUE
    /\ queue' = Append(Rest(capacity - 1), pushed + 1)
    /\ printed' = (printed \/ (Overflow(capacity - 1) > 0 /\ ~warns))
    /\ UNCHANGED <<capacity, warns, draining, listening, turnVars, calls,
                   delivered, answered, ignored>>

\* push when messages are stored: the oldest make room for it.  _Channel.push
\* returns true, and ChannelBuffers.push prints, whenever one was dropped.
PushStored ==
    /\ NewMessage /\ (draining \/ ~listening) /\ capacity > 0
    /\ exists' = TRUE
    /\ queue' = Append(Rest(capacity - 1), pushed + 1)
    /\ answered' = answered \o Dropped(capacity - 1)
    /\ printed' = (printed \/ (Overflow(capacity - 1) > 0 /\ ~warns))
    /\ UNCHANGED <<capacity, warns, draining, listening, turnVars, calls,
                   delivered, ignored>>

\* Mutant: setListener drains although a drain is under way.
SetListenerDrainsTwice ==
    /\ InCall
    /\ exists' = TRUE
    /\ listening' = TRUE
    /\ IF ~listening
       THEN draining' = TRUE /\ microtasks' = microtasks + 1
       ELSE UNCHANGED <<draining, microtasks>>
    /\ UNCHANGED <<queue, capacity, warns, awaits, turn, depth, pushed, logVars>>

\* setListener, which schedules a drain when there was no listener.
SetListener ==
    /\ InCall
    /\ exists' = TRUE
    /\ listening' = TRUE
    /\ IF ~listening /\ ~draining
       THEN draining' = TRUE /\ microtasks' = microtasks + 1
       ELSE UNCHANGED <<draining, microtasks>>
    /\ UNCHANGED <<queue, capacity, warns, awaits, turn, depth, pushed, logVars>>

ClearListener ==
    /\ InCall /\ exists
    /\ listening' = FALSE
    /\ UNCHANGED <<exists, queue, capacity, warns, draining, turnVars, pushed,
                   logVars>>

\* Mutant: resize only sets the capacity.
ResizeOnly(n) ==
    /\ InCall
    /\ exists' = TRUE /\ capacity' = n
    /\ UNCHANGED <<queue, warns, draining, listening, turnVars, pushed, logVars>>

Resize(n) ==
    /\ InCall
    /\ exists' = TRUE /\ capacity' = n
    /\ queue' = Rest(n)
    /\ answered' = answered \o Dropped(n)
    /\ UNCHANGED <<warns, draining, listening, turnVars, pushed, delivered,
                   ignored, printed>>

\* allowOverflow, in a debug build.
AllowOverflow(allowed) ==
    /\ InCall
    /\ exists' = (exists \/ allowed)
    /\ warns' = IF exists' THEN ~allowed ELSE warns
    /\ UNCHANGED <<queue, capacity, draining, listening, turnVars, pushed, logVars>>

\* drain (deprecated) hands the first message to its callback and awaits it.
Drain ==
    /\ InCall /\ exists /\ queue # <<>>
    /\ queue' = Tail(queue)
    /\ delivered' = Append(delivered, Head(queue))
    /\ awaits' = awaits + 1
    /\ UNCHANGED <<exists, capacity, warns, draining, listening, microtasks,
                   turn, depth, pushed, answered, ignored, printed>>

\* The callback's future completes and drain goes on, in a turn of its own.
DrainResumes ==
    /\ turn = "idle" /\ awaits > 0
    /\ IF queue # <<>>
       THEN /\ queue' = Tail(queue)
            /\ delivered' = Append(delivered, Head(queue))
            /\ turn' = "task"
            /\ UNCHANGED awaits
       ELSE /\ awaits' = awaits - 1
            /\ UNCHANGED <<queue, delivered, turn>>
    /\ UNCHANGED <<exists, capacity, warns, draining, listening, microtasks,
                   depth, pushed, calls, answered, ignored, printed>>

-----------------------------------------------------------------------------
TurnStep == BeginTask \/ EndTask \/ DrainStep \/ DrainStepEnds \/ DrainStepThrows
            \/ ListenerEnds \/ DrainResumes

Next ==
    \/ TurnStep
    \/ PushThrough \/ PushIgnored \/ PushStored
    \/ SetListener \/ ClearListener \/ Drain
    \/ \E n \in Size : Resize(n)
    \/ \E allowed \in BOOLEAN : AllowOverflow(allowed)

Spec == Init /\ [][Next]_vars

\* Tasks and listeners return, and the message loop's task observer runs the
\* microtasks after a task; before the next one, except on a merged thread.
FairSpec ==
    /\ Spec
    /\ WF_vars(EndTask) /\ WF_vars(DrainStepEnds) /\ WF_vars(ListenerEnds)
    /\ SF_vars(DrainStep)

-----------------------------------------------------------------------------
(* Properties.                                                             *)

Increasing(s) == \A i, j \in DOMAIN s : i < j => s[i] < s[j]
Times(m, s) == Cardinality({i \in DOMAIN s : s[i] = m})

\* The types of the variables, and the bound of the queue: "The number of
\* messages currently in the _Channel [...] is equal to or less than the
\* capacity" through every push and resize.
TypeOK ==
    /\ exists \in BOOLEAN /\ warns \in BOOLEAN /\ draining \in BOOLEAN
    /\ listening \in BOOLEAN /\ printed \in BOOLEAN
    /\ queue \in Seq(Message) /\ delivered \in Seq(Message)
    /\ answered \in Seq(Message) /\ ignored \subseteq Message
    /\ capacity \in Nat /\ Len(queue) <= capacity
    /\ microtasks \in Nat /\ awaits \in Nat /\ depth \in Nat
    /\ turn \in {"idle", "task", "drainStep"}
    /\ pushed \in 0..MaxMessages /\ calls \in 0..MaxCalls

\* The calls of _drainStep that are queued or are calling the listener.
Drains == microtasks + (IF turn = "drainStep" THEN 1 ELSE 0)

\* There is at most one drain at a time, and only while _draining is set.  The
\* listener may be set, cleared and set again before the drain gets to run, and
\* may throw.
OneDrain == Drains <= (IF draining THEN 1 ELSE 0)

\* _draining says "whether a microtask is queued to call [_drainStep]", or that
\* _drainStep is calling the listener.
\* (The code does not keep this when a listener throws: nothing clears the flag.)
DrainingIsUnderWay == Drains = (IF draining THEN 1 ELSE 0)

\* The assertion of push: a listener that is called at once has no older
\* message waiting.  It holds in every state, whatever the listeners called
\* so far did to the channel.
NothingWaitsForListener == listening /\ ~draining => queue = <<>>

\* Messages reach the framework in the order the platform sent them, across
\* direct calls, drains, nested calls and changes of listener.
DeliveredInOrder == Increasing(delivered \o queue)

\* No message is lost or handled twice: each is handed over, answered with an
\* empty reply or stored, exactly once, unless a channel of capacity 0
\* ignored it.
Accounted ==
    \A m \in Message :
       Times(m, delivered) + Times(m, answered) + Times(m, queue)
       + (IF m \in ignored THEN 1 ELSE 0) = (IF m <= pushed THEN 1 ELSE 0)

\* Messages that wait while there is a listener are delivered, unless a listener
\* threw and its drain was abandoned.
ListenerIsServed ==
    (listening /\ queue # <<>>) ~> (queue = <<>> \/ ~listening \/ ~DrainingIsUnderWay)

\* "When the flag is set, messages are discarded silently."
\* (The code does not keep this: a push that drops a message prints anyway.)
SilentWhenAllowed == ~printed

=============================================================================
