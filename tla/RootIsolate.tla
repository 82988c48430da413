---------------------------- MODULE RootIsolate -----------------------------
(***************************************************************************)
(* The root isolate of one engine: RuntimeController and DartIsolate take  *)
(* it through its phases (runtime/runtime_controller.cc, dart_isolate.cc), *)
(* tonic's DartMessageHandler handles the messages of its ports, and its   *)
(* microtasks run when the message loop notifies its task observers.       *)
(*                                                                         *)
(* All of it happens on the thread of the UI task runner; the other        *)
(* threads post tasks to it, send messages to the isolate's ports and, as  *)
(* the VM service, ask a paused isolate to resume.  With merged threads    *)
(* the embedder's calls run at once, between two tasks of the loop.        *)
(* ShellLifecycle has what the engine does with threads and the platform;  *)
(* the isolate, which is one step there, is taken apart here.              *)
(***************************************************************************)
EXTENDS Naturals, Sequences

CONSTANTS
    Locale, en,         \* the locales, and the one the engine begins with
    Flags,              \* the settings to consider, as records:
                        \*   merged: is the UI task runner the platform's?
                        \*   start_paused, exit_paused: --pause_isolates_on_*
    DirectLoadErrors,   \* may a merged embedder report failed loads?
    MaxCalls,           \* bound: calls of the embedder and the VM service
    MaxMessages,        \* bound: messages sent to ports
    MaxRequests,        \* bound: service messages for the isolate
    MaxMicrotasks       \* bound: microtasks scheduled

ASSUME LocaleAssumption == en \in Locale
ASSUME FlagsAssumption ==
    Flags \subseteq [merged : BOOLEAN, start_paused : BOOLEAN, exit_paused : BOOLEAN]
ASSUME BoundsAssumption ==
    {MaxCalls, MaxMessages, MaxRequests, MaxMicrotasks} \subseteq Nat

VARIABLES
    flags,              \* the settings, which do not change
    engine,             \* is there an engine?
    controller,         \* its runtime_controller_; sent is a history variable:
                        \*   the locales that the engine was given last
    isolate,            \* the DartIsolate made last, and its VM isolate
    tasks,              \* the tasks of the UI task runner
    at,                 \* where the thread is
    back,               \* where it goes on after a launch
    calls,              \* calls made
    used                \* how much of each bound is used

vars == <<flags, engine, controller, isolate, tasks, at, back, calls, used>>

Phase == {"Uninitialized", "Initialized", "LibrariesSetup", "Ready", "Running", "Shutdown"}
LaunchSteps == {"rerun", "create", "initialize", "libraries", "prepare", "run", "launched"}
Calls == {"run", "restart", "locales", "deliver", "destroy"}

\* The DartIsolate constructor: it adds the task observer that the destructor
\* removes, so the loop has an observer exactly while there is an object.
NewIsolate(gen) ==
    [gen |-> gen, object |-> TRUE, vm |-> FALSE, phase |-> "Uninitialized",
     first |-> FALSE, start |-> FALSE, exit |-> FALSE, exited |-> FALSE,
     should_start |-> flags.start_paused, should_exit |-> flags.exit_paused,
     ports |-> TRUE, inbox |-> 0, service |-> "none", microtasks |-> 0, locale |-> en]

\* The isolate after Dart_ShutdownIsolate: the shutdown callback has set
\* is_shutting_down_, the cleanup callback has let go of the object, and the
\* references on the stack of the thread end with the current call.  Nobody can
\* look at the phase, or at isolate_had_fatal_error_, any more.
Gone == [NewIsolate(isolate.gen) EXCEPT !.object = FALSE, !.phase = "Shutdown"]

\* DartIsolate::Shutdown, and the controller that calls it when it goes.
Shutdown == isolate' = IF isolate.object THEN Gone ELSE isolate

\* root_isolate_.lock(): the reference is weak.
HasRootIsolate == isolate.object /\ controller.root = isolate.gen
IsRootIsolateRunning == HasRootIsolate /\ isolate.phase = "Running"

Init ==
    /\ flags \in Flags
    /\ engine = TRUE
    /\ controller = [root |-> 0, flushed |-> FALSE, locale |-> en, sent |-> en]
    /\ isolate = [NewIsolate(0) EXCEPT !.object = FALSE, !.phase = "Shutdown"]
    /\ tasks = <<>> /\ at = "idle" /\ back = "idle"
    /\ calls = 0 /\ used = [messages |-> 0, requests |-> 0, microtasks |-> 0]

-----------------------------------------------------------------------------
(* Dart code, and the messages that start it                               *)

Task(what, gen) == [do |-> what, gen |-> gen]

\* The end of OnHandleMessage: an isolate without live ports would like to exit.
Epilogue(i) ==
    IF i.ports THEN i
    ELSE IF ~i.exit /\ i.should_exit THEN [i EXCEPT !.exit = TRUE]
    ELSE [i EXCEPT !.exited = TRUE]

\* Dart code runs in isolate i while the runner's tasks are ts.  It may schedule
\* a microtask, send a message to a port of its own, which notifies OnMessage,
\* and close its ports.  It may be the last thing that OnHandleMessage does.
RunDart(i, ts, handled) ==
    \E m \in 0 .. 1, n \in 0 .. 1, open \in BOOLEAN :
        /\ used.microtasks + m <= MaxMicrotasks
        /\ used.messages + n <= MaxMessages
        /\ used' = [used EXCEPT !.microtasks = @ + m, !.messages = @ + n]
        /\ LET after == [i EXCEPT !.microtasks = @ + m, !.inbox = @ + n, !.ports = @ /\ open]
           IN isolate' = IF handled THEN Epilogue(after) ELSE after
        /\ tasks' = IF n = 0 THEN ts ELSE Append(ts, Task("message", i.gen))

Quiet(i, ts) == isolate' = i /\ tasks' = ts /\ UNCHANGED used

\* Dart_HandleMessage handles the service messages and the next message of the
\* ports, whose handler returns, fails or ends the isolate: UnhandledError.
HandleMessage(i, ts) ==
    LET j == [i EXCEPT !.service = "none", !.inbox = IF @ > 0 THEN @ - 1 ELSE 0] IN
    \/ i.inbox = 0 /\ Quiet(Epilogue(j), ts)
    \/ i.inbox > 0 /\ (RunDart(j, ts, TRUE) \/ RunDart(j, ts, FALSE))
    \/ (i.inbox > 0 \/ i.service # "none") /\ Quiet(Gone, ts)

\* Mutant: an isolate paused on start stays paused.
PausedOnStartStays(i, ts) ==
    IF i.service = "resume" THEN HandleMessage([i EXCEPT !.service = "none"], ts)
    ELSE Quiet(Epilogue([i EXCEPT !.service = "none"]), ts)

\* The isolate is paused on start, and handles service messages only.
PausedOnStart(i, ts) ==
    CASE i.service = "none" -> Quiet(Epilogue(i), ts)
      [] i.service = "some" -> Quiet([i EXCEPT !.service = "none"], ts)
      [] i.service = "resume" ->
            HandleMessage([i EXCEPT !.service = "none", !.start = FALSE, !.should_start = FALSE], ts)

PausedOnExit(i, ts) ==
    CASE i.service = "none" -> Quiet(Epilogue(i), ts)
      [] i.service = "some" -> Quiet([i EXCEPT !.service = "none"], ts)
      [] i.service = "resume" ->
            Quiet(Epilogue([i EXCEPT !.service = "none", !.exit = FALSE, !.should_exit = FALSE]), ts)

OnHandleMessage(ts) ==
    LET i == IF isolate.first THEN isolate
             ELSE [isolate EXCEPT !.first = TRUE, !.start = isolate.should_start] IN
    IF i.start THEN PausedOnStart(i, ts)
    ELSE IF i.exit THEN PausedOnExit(i, ts)
    ELSE HandleMessage(i, ts)

\* The task of OnMessage.
OnMessageTask(gen, ts) ==
    IF isolate.object /\ isolate.gen = gen THEN OnHandleMessage(ts) ELSE Quiet(isolate, ts)

\* A message from another isolate or thread: MessageNotifyCallback runs there.
SendMessage ==
    /\ isolate.vm /\ isolate.phase \in {"Ready", "Running"}
    /\ used.messages < MaxMessages
    /\ used' = [used EXCEPT !.messages = @ + 1]
    /\ isolate' = [isolate EXCEPT !.inbox = @ + 1]
    /\ tasks' = Append(tasks, Task("message", isolate.gen))
    /\ UNCHANGED <<flags, engine, controller, at, back, calls>>

\* A message of the VM service; resume asks a paused isolate to go on.
SendServiceMessage ==
    /\ isolate.vm /\ isolate.phase \in {"Ready", "Running"}
    /\ used.requests < MaxRequests
    /\ used' = [used EXCEPT !.requests = @ + 1]
    /\ \E what \in {"some", "resume"} :
            isolate' = [isolate EXCEPT !.service = IF @ = "resume" THEN @ ELSE what]
    /\ tasks' = Append(tasks, Task("message", isolate.gen))
    /\ UNCHANGED <<flags, engine, controller, at, back, calls>>

-----------------------------------------------------------------------------
(* The engine's entry points; the thread goes on at next                   *)

\* Engine::Run and LaunchRootIsolate up to the new DartIsolate.  The launch is
\* refused when the configuration is invalid or there is a root isolate.
Run(ts, next) ==
    /\ tasks' = ts /\ UNCHANGED <<engine, controller, used>>
    /\ \/ at' = next /\ back' = "idle" /\ UNCHANGED isolate
       \/ /\ ~HasRootIsolate
          /\ isolate' = NewIsolate(isolate.gen + 1)
          /\ at' = "create" /\ back' = next

\* Mutant: RuntimeController::Clone forgets the locales.
CloneForgets == [controller EXCEPT !.root = 0, !.flushed = FALSE, !.locale = en]

\* RuntimeController::Clone: a new controller with the platform data of the old.
Clone == [controller EXCEPT !.root = 0, !.flushed = FALSE]

\* Engine::Restart: the controller is replaced, which shuts the isolate down with
\* all that its hot restart listeners left to do, and the engine is run.
Restart(ts, next) ==
    /\ tasks' = ts /\ UNCHANGED <<engine, used>>
    /\ \/ at' = next /\ UNCHANGED <<controller, isolate, back>>
       \/ /\ controller' = Clone /\ Shutdown
          /\ at' = "rerun" /\ back' = next

\* Engine::HandleLocalizationPlatformMessage and SetLocales.
SetLocales(ts, next) ==
    /\ \E l \in Locale :
            /\ controller' = [controller EXCEPT !.locale = l, !.sent = l]
            /\ IF HasRootIsolate
               THEN RunDart([isolate EXCEPT !.locale = l], ts, FALSE)
               ELSE Quiet(isolate, ts)
    /\ at' = next /\ UNCHANGED <<engine, back>>

\* A platform message, a loading unit, or the error that it could not be loaded:
\* Dart code runs if the isolate is running.
Deliver(ts, next) ==
    /\ IF IsRootIsolateRunning THEN RunDart(isolate, ts, FALSE) ELSE Quiet(isolate, ts)
    /\ at' = next /\ UNCHANGED <<engine, controller, back>>

\* The engine goes, and its controller with it.
Destroy(ts, next) ==
    /\ engine' = FALSE /\ Shutdown
    /\ at' = next /\ tasks' = ts /\ UNCHANGED <<controller, back, used>>

Call(what, ts, next) ==
    IF ~engine THEN Quiet(isolate, ts) /\ at' = next /\ UNCHANGED <<engine, controller, back>>
    ELSE CASE what = "run" -> Run(ts, next)
           [] what = "restart" -> Restart(ts, next)
           [] what = "locales" -> SetLocales(ts, next)
           [] what = "deliver" -> Deliver(ts, next)
           [] what = "destroy" -> Destroy(ts, next)

\* A call from another thread is posted; so are, from whatever thread, the VM
\* service's restart and a loading unit that has arrived.
PostCall ==
    /\ engine /\ calls < MaxCalls
    /\ \E what \in IF flags.merged THEN {"restart", "deliver"} ELSE Calls :
            tasks' = Append(tasks, Task(what, 0))
    /\ calls' = calls + 1
    /\ UNCHANGED <<flags, engine, controller, isolate, at, back, used>>

\* Where the thread goes on when a call ran at once.  Messages go through
\* RunNowAndFlushMessages, the error of a loading unit does not.
Behind(what) ==
    CASE what = "locales" -> {"flush"}
      [] what = "deliver" -> {"flush"} \cup (IF DirectLoadErrors THEN {"idle"} ELSE {})
      [] OTHER -> {"idle"}

\* With merged threads the embedder's calls run at once, and no observer is
\* notified.
CallNow ==
    /\ flags.merged /\ at = "idle"
    /\ engine /\ calls < MaxCalls
    /\ \E what \in Calls \ {"restart"} : \E next \in Behind(what) : Call(what, tasks, next)
    /\ calls' = calls + 1 /\ UNCHANGED flags

-----------------------------------------------------------------------------
(* The thread of the UI task runner                                        *)

\* Mutant: RunNowAndFlushMessages without the empty task.
PostNothing ==
    /\ at = "flush" /\ at' = "idle"
    /\ UNCHANGED <<flags, engine, controller, isolate, tasks, back, calls, used>>

\* The end of RunNowAndFlushMessages: an empty task, for the observers.
PostEmptyTask ==
    /\ at = "flush" /\ at' = "idle"
    /\ tasks' = Append(tasks, Task("empty", 0))
    /\ UNCHANGED <<flags, engine, controller, isolate, back, calls, used>>

\* The loop takes the next task; FlushTasks notifies the observers after it.
TakeTask ==
    /\ at = "idle" /\ tasks # <<>>
    /\ LET task == Head(tasks) IN
       IF task.do \in Calls THEN Call(task.do, Tail(tasks), "observe")
       ELSE /\ IF task.do = "message" THEN OnMessageTask(task.gen, Tail(tasks))
               ELSE Quiet(isolate, Tail(tasks))
            /\ at' = "observe" /\ UNCHANGED <<engine, controller, back>>
    /\ UNCHANGED <<flags, calls>>

\* RunMicrotasks, which the observer calls, until none is left.
RunMicrotask ==
    /\ at = "observe" /\ isolate.microtasks > 0
    /\ RunDart([isolate EXCEPT !.microtasks = @ - 1], tasks, FALSE)
    /\ UNCHANGED <<flags, engine, controller, at, back, calls>>

Observed ==
    /\ at = "observe" /\ isolate.microtasks = 0 /\ at' = "idle"
    /\ UNCHANGED <<flags, engine, controller, isolate, tasks, back, calls, used>>

\* The second half of Restart.
Rerun == at = "rerun" /\ Run(tasks, back) /\ UNCHANGED <<flags, calls>>

Launching == UNCHANGED <<flags, engine, calls>>

\* The launch fails while there is a VM isolate: CreateDartIsolateGroup and, from
\* the phase LibrariesSetup on, shutdown_on_error shut it down.
LaunchFails ==
    /\ isolate' = Gone /\ at' = back /\ back' = "idle"
    /\ UNCHANGED <<controller, tasks, used>> /\ Launching

LaunchStep(step, next) ==
    /\ isolate' = step /\ at' = next
    /\ UNCHANGED <<controller, tasks, back, used>> /\ Launching

\* CreateDartIsolateGroup: without a VM isolate the object is dropped again.
CreateRootIsolate ==
    /\ at = "create"
    /\ LaunchStep([isolate EXCEPT !.vm = TRUE], "initialize") \/ LaunchFails

Initialize ==
    /\ at = "initialize" /\ isolate.phase = "Uninitialized"
    /\ LaunchStep([isolate EXCEPT !.phase = "Initialized"], "libraries") \/ LaunchFails

LoadLibraries ==
    /\ at = "libraries" /\ isolate.phase = "Initialized"
    /\ LaunchStep([isolate EXCEPT !.phase = "LibrariesSetup"], "prepare")

\* PrepareIsolate from the kernel or the snapshot, which may be no good.
PrepareIsolate ==
    /\ at = "prepare" /\ isolate.phase = "LibrariesSetup"
    /\ LaunchStep([isolate EXCEPT !.phase = "Ready"], "run") \/ LaunchFails

\* Mutant: RunFromLibrary after shutdown_on_error was released too early.
RunFromLibraryReleased ==
    /\ at = "run" /\ isolate.phase = "Ready"
    /\ \/ /\ RunDart([isolate EXCEPT !.phase = "Running", !.inbox = @ + 1],
                     Append(tasks, Task("message", isolate.gen)), FALSE)
          /\ at' = "launched" /\ UNCHANGED <<controller, back>> /\ Launching
       \/ LaunchStep(isolate, back)

\* RunFromLibrary: the plugin registrant runs, and _runMain sends the message
\* that starts main, or the entry point is not found.
RunFromLibrary ==
    /\ at = "run" /\ isolate.phase = "Ready"
    /\ \/ /\ RunDart([isolate EXCEPT !.phase = "Running", !.inbox = @ + 1],
                     Append(tasks, Task("message", isolate.gen)), FALSE)
          /\ at' = "launched" /\ UNCHANGED <<controller, back>> /\ Launching
       \/ LaunchFails

\* The rest of LaunchRootIsolate, with FlushRuntimeStateToIsolate.
RootIsolateLaunched ==
    /\ at = "launched"
    /\ controller' = [controller EXCEPT !.root = isolate.gen, !.flushed = TRUE]
    /\ RunDart([isolate EXCEPT !.locale = controller.locale], tasks, FALSE)
    /\ at' = back /\ back' = "idle" /\ Launching

Launch ==
    Rerun \/ CreateRootIsolate \/ Initialize \/ LoadLibraries \/ PrepareIsolate
          \/ RunFromLibrary \/ RootIsolateLaunched

UIThread == TakeTask \/ RunMicrotask \/ Observed \/ PostEmptyTask \/ Launch

Next == PostCall \/ CallNow \/ SendMessage \/ SendServiceMessage \/ UIThread

Spec == Init /\ [][Next]_vars

\* The thread keeps running; Dart code returns.
FairSpec == Spec /\ WF_vars(UIThread)

-----------------------------------------------------------------------------
(* Properties                                                              *)

IsolateType ==
    [gen : Nat, object : BOOLEAN, vm : BOOLEAN, phase : Phase,
     first : BOOLEAN, start : BOOLEAN, exit : BOOLEAN, exited : BOOLEAN,
     should_start : BOOLEAN, should_exit : BOOLEAN, ports : BOOLEAN,
     inbox : Nat, service : {"none", "some", "resume"}, microtasks : Nat, locale : Locale]
ControllerType == [root : Nat, flushed : BOOLEAN, locale : Locale, sent : Locale]
TaskType == [do : Calls \cup {"message", "empty"}, gen : Nat]

TypeOK ==
    /\ flags \in Flags /\ engine \in BOOLEAN
    /\ controller \in ControllerType
    /\ isolate \in IsolateType
    /\ tasks \in Seq(TaskType)
    /\ at \in {"idle", "observe", "flush"} \cup LaunchSteps
    /\ back \in {"idle", "observe"}
    /\ calls \in Nat
    /\ used \in [messages : Nat, requests : Nat, microtasks : Nat]

\* A launch leaves all of an isolate or nothing of it.  Outside a launch there is
\* either a running root isolate that the controller knows, with its VM isolate
\* and with the locales that the engine was given last, through restarts, or
\* neither object nor VM isolate, and so no task observer; and none is left when
\* the engine is gone.
AllOrNothing ==
    at \notin LaunchSteps =>
        /\ isolate.vm <=> isolate.object
        /\ isolate.object =>
              /\ engine /\ IsRootIsolateRunning
              /\ controller.flushed /\ isolate.locale = controller.locale
              /\ isolate.locale = controller.sent

\* Microtasks run though nothing else happens; an isolate that is never paused
\* handles the messages of its ports; and a paused one goes on when it is asked.
IsolateSettles ==
    /\ isolate.microtasks > 0 ~> isolate.microtasks = 0
    /\ isolate.inbox > 0 ~> \/ isolate.inbox = 0
                            \/ flags.start_paused \/ flags.exit_paused
    /\ isolate.start /\ isolate.service = "resume" ~> ~isolate.start
    /\ isolate.exit /\ isolate.service = "resume" ~> ~isolate.exit

\* The runtime state is flushed to an isolate once: no launch finds it flushed
\* ("FlushRuntimeStateToIsolate is called more than once somehow").
\* (The code does not keep this: an isolate may end with a fatal error and the
\* engine be run again.)
FlushedOnce == at = "launched" => ~controller.flushed

\* "We've resumed, handle normal messages that are in the queue."
\* (The code does not keep this: one of them is handled, and the tasks of the
\* others are used up.)
ResumedHandlesMessages ==
    isolate.inbox > 0 ~> \/ isolate.inbox = 0 \/ isolate.start \/ flags.exit_paused

\* "We are paused on isolate exit. Only handle service messages until we are
\* requested to resume": a paused isolate has not exited.
\* (The code does not keep this: a message that is no service message marks the
\* isolate as exited while it is still paused.)
PausedOnExitStays == isolate.exit => ~isolate.exited

=============================================================================
