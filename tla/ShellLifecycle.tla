--------------------------- MODULE ShellLifecycle ---------------------------
(***************************************************************************)
(* shell/common/shell.cc and engine.cc with the parts of the runtime that  *)
(* they drive: one shell is created, runs its engine, exchanges platform   *)
(* messages, is restarted by the VM service and is destroyed, on the       *)
(* platform thread p and the UI thread u, whose task queues are those of   *)
(* MessageLoopTaskQueues.  That a loop with pending tasks wakes up is      *)
(* MessageLoop's business: here a thread with nothing to do takes its next *)
(* task.                                                                   *)
(*                                                                         *)
(* A thread's stack holds what it still has to do, innermost call first; a *)
(* task body, and a call that RunNowOrPostTask makes directly, are pushed  *)
(* on it.  Each action is the code between two operations on state that    *)
(* the other threads see.                                                  *)
(***************************************************************************)
EXTENDS MessageLoopTaskQueues, Sequences

CONSTANTS
    p, u,               \* the platform and the UI thread, and their queues
    Setting,            \* values of merged_platform_ui_thread to consider
    Embedder,           \* the embedders to consider, as records:
                        \*   handler: what GetPlatformMessageHandler returns,
                        \*     "platform" (or none) or "background" (Android's
                        \*     and iOS's);
                        \*   fails: may on_create_platform_view return null?
                        \*   patient: does it wait for the launch, and for the
                        \*     VM service, before it destroys the shell?
                        \*   runs, sends: bounds on calls of RunEngine, and on
                        \*     platform messages in either direction
    NoThread,
    MaxRequests         \* bound: requests of the VM service

VARIABLES
    setting,            \* settings_.merged_platform_ui_thread
    embedder,           \* the embedder, which does not change
    shell,              \* the embedder's unique_ptr<Shell>
    view,               \* is there a platform_view_?
    engine,             \* is there an engine_?
    isolate,            \* the root isolate of the runtime controller
    route,              \* route_messages_through_platform_thread_
    added,              \* is_added_to_service_protocol_
    handlers,           \* is the shell in ServiceProtocol::handlers_?
    service,            \* where the VM service's thread is
    latch,              \* the latches and promises that are signalled
    stack,              \* what each thread is doing
    body,               \* the closures of the registered tasks
    runs, results,      \* RunEngine calls, and result callbacks made
    requests,           \* requests of the VM service
    sent, received      \* messages from Dart, and those the platform handled

shellVars == <<shell, view, engine, isolate, route, added>>
serviceVars == <<handlers, service>>
countingVars == <<runs, results, requests, sent, received>>
vars == <<queueVars, setting, embedder, shellVars, serviceVars, latch, stack, body, countingVars>>

\* The UI task runner's queue.
ui == IF setting = "kEnabled" THEN p ELSE u

Do(what) == [do |-> what, n |-> 0]
DoWith(what, n) == [do |-> what, n |-> n]

Idle(t) == stack[t] = <<>>
At(t, what) == ~Idle(t) /\ Head(stack[t]).do = what

\* The thread's innermost call becomes the calls in next.
Step(t, next) == stack' = [stack EXCEPT ![t] = next \o Tail(@)]

Post(q, grade, closure) == RegisterTask(q, 0, grade) /\ body' = Append(body, closure)
PostTask(q, closure) == Post(q, "kUnspecified", closure)
NoPost == UNCHANGED <<queueVars, body>>

\* TaskRunner::RunNowOrPostTask(q, closure) on thread t, which then does next.
RunNowOrPostTask(t, q, closure, next) ==
    IF RunsOnTheSameThread(t, q)
    THEN Step(t, <<closure>> \o next) /\ NoPost
    ELSE Step(t, next) /\ PostTask(q, closure)

NoIsolate == [gen |-> 0, running |-> FALSE, owner |-> NoThread]

\* Both loops are running.
ShellInit ==
    /\ created = {p, u} /\ entries = {p, u}
    /\ source = [q \in QueueId |-> NewTaskSource]
    /\ owner_of = [q \in QueueId |-> {}] /\ subsumed_by = [q \in QueueId |-> kUnmerged]
    /\ observers = [q \in QueueId |-> {}]
    /\ wakeable = [q \in QueueId |-> TRUE]
    /\ order = 0 /\ registered = 0
    /\ wake = [q \in QueueId |-> NoWake] /\ fired = {}
    /\ setting \in Setting /\ embedder \in Embedder
    /\ shell = "none" /\ view = FALSE /\ engine = FALSE /\ isolate = NoIsolate
    /\ route = FALSE /\ added = FALSE
    /\ handlers = FALSE /\ service = "idle"
    /\ latch = {}
    /\ stack = [t \in {p, u} |-> <<>>] /\ body = <<>>
    /\ runs = 0 /\ results = 0 /\ requests = 0 /\ sent = 0 /\ received = <<>>

\* The loop of t, with FlushTasks' invocation.
FlushNext(t) ==
    /\ Idle(t)
    /\ TakeNextTask(t, 0)
    /\ stack' = [stack EXCEPT ![t] = <<body[PeekNextTaskUnlocked(t).task.closure + 1]>>]
    /\ UNCHANGED <<setting, embedder, shellVars, serviceVars, latch, body, countingVars>>

-----------------------------------------------------------------------------
(* Creation.                                                               *)

\* ~Shell starts with the service protocol.
Destructor == <<Do("remove_handler")>>

\* CreateShellOnPlatformThread up to the future it waits for.  Without a view
\* the shell that was just made is destroyed again.
Create ==
    /\ Idle(p) /\ shell = "none"
    /\ \/ /\ view' = TRUE /\ shell' = "creating"
          /\ LET then == <<Do("await_engine")>> IN
             IF RunsOnTheSameThread(p, ui)
             THEN stack' = [stack EXCEPT ![p] = <<Do("create_engine")>> \o then] /\ NoPost
             ELSE stack' = [stack EXCEPT ![p] = then] /\ PostTask(ui, Do("create_engine"))
       \/ /\ embedder.fails
          /\ shell' = "destroying" /\ view' = FALSE
          /\ stack' = [stack EXCEPT ![p] = Destructor] /\ NoPost
    /\ UNCHANGED <<setting, embedder, engine, isolate, route, added, serviceVars, latch, countingVars>>

CreateEngine(t) ==
    /\ At(t, "create_engine")
    /\ latch' = latch \cup {"engine_promise"}
    /\ Step(t, <<>>)
    /\ NoPost /\ UNCHANGED <<setting, embedder, shellVars, serviceVars, countingVars>>

\* Setup: the task that ends the routing is posted before anything else.
Setup ==
    /\ At(p, "await_engine") /\ "engine_promise" \in latch
    /\ latch' = latch \ {"engine_promise"}
    /\ PostTask(p, Do("clear_route"))
    /\ route' = TRUE /\ engine' = TRUE /\ shell' = "up"
    /\ Step(p, <<>>)
    /\ UNCHANGED <<setting, embedder, view, isolate, added, serviceVars, countingVars>>

ClearRoute ==
    /\ At(p, "clear_route")
    /\ route' = IF shell \in {"up", "destroying"} THEN FALSE ELSE route
    /\ Step(p, <<>>)
    /\ NoPost
    /\ UNCHANGED <<setting, embedder, shell, view, engine, isolate, added, serviceVars, latch, countingVars>>

-----------------------------------------------------------------------------
(* Launch.                                                                 *)

RunEngine ==
    /\ Idle(p) /\ shell = "up" /\ runs < embedder.runs
    /\ runs' = runs + 1
    /\ IF RunsOnTheSameThread(p, ui)
       THEN stack' = [stack EXCEPT ![p] = <<Do("engine_run")>>] /\ NoPost
       ELSE UNCHANGED stack /\ PostTask(ui, Do("engine_run"))
    /\ UNCHANGED <<setting, embedder, shellVars, serviceVars, latch, results, requests, sent, received>>

\* RunEngine's closure, on the UI task runner.
EngineRun(t) ==
    /\ At(t, "engine_run")
    /\ Step(t, (IF engine THEN <<Do("run_start")>> ELSE <<>>) \o <<Do("run_result")>>)
    /\ NoPost /\ UNCHANGED <<setting, embedder, shellVars, serviceVars, latch, countingVars>>

\* Mutant: the owner of the isolate is never set.
RunStartNoOwner(t) ==
    /\ At(t, "run_start")
    /\ Step(t, IF isolate.running THEN <<>> ELSE <<Do("run_launch")>>)
    /\ NoPost /\ UNCHANGED <<setting, embedder, shellVars, serviceVars, latch, countingVars>>

\* Mutant: a run that is refused because the isolate is running is not reported.
RunStartUnreported(t) ==
    /\ At(t, "run_start")
    /\ IF isolate.running
       THEN stack' = [stack EXCEPT ![t] = SubSeq(@, 3, Len(@))] /\ NoPost
       ELSE /\ Step(t, <<Do("run_launch")>>)
            /\ IF setting = "kMergeAfterLaunch" THEN PostTask(ui, Do("set_owner")) ELSE NoPost
    /\ UNCHANGED <<setting, embedder, shellVars, serviceVars, latch, countingVars>>

\* Engine::Run as far as the launch.
RunStart(t) ==
    /\ At(t, "run_start")
    /\ IF isolate.running
       THEN Step(t, <<>>) /\ NoPost
       ELSE /\ Step(t, <<Do("run_launch")>>)
            /\ IF setting = "kMergeAfterLaunch" THEN PostTask(ui, Do("set_owner")) ELSE NoPost
    /\ UNCHANGED <<setting, embedder, shellVars, serviceVars, latch, countingVars>>

\* Mutant: the launching thread becomes the owner whatever the setting.
RunLaunchOwns(t) ==
    /\ At(t, "run_launch")
    /\ \/ Step(t, <<>>) /\ NoPost /\ UNCHANGED isolate
       \/ LET gen == isolate.gen + 1 IN
          /\ isolate' = [gen |-> gen, running |-> TRUE, owner |-> t]
          /\ Post(ui, "kDartEventLoop", DoWith("main", gen))
          /\ Step(t, <<Do("run_created")>>)
    /\ UNCHANGED <<setting, embedder, shell, view, engine, route, added, serviceVars, latch, countingVars>>

\* LaunchRootIsolate, which may fail; main() is a message to the new isolate.
RunLaunch(t) ==
    /\ At(t, "run_launch")
    /\ \/ Step(t, <<>>) /\ NoPost /\ UNCHANGED isolate
       \/ LET gen == isolate.gen + 1 IN
          /\ isolate' = [gen |-> gen, running |-> TRUE,
                         owner |-> IF setting = "kMergeAfterLaunch" THEN NoThread ELSE t]
          /\ Post(ui, "kDartEventLoop", DoWith("main", gen))
          /\ Step(t, <<Do("run_created")>>)
    /\ UNCHANGED <<setting, embedder, shell, view, engine, route, added, serviceVars, latch, countingVars>>

\* OnRootIsolateCreated
OnRootIsolateCreated(t) ==
    /\ At(t, "run_created")
    /\ added' = TRUE
    /\ LET next == <<Do("send"), Do("run_merge")>> IN
       IF added THEN Step(t, next) /\ NoPost
       ELSE RunNowOrPostTask(t, p, Do("add_handler"), next)
    /\ UNCHANGED <<setting, embedder, shell, view, engine, isolate, route, serviceVars, latch, countingVars>>

\* The end of Engine::Run.  A merge that is already there changes nothing.
MergeAfterLaunch(t) ==
    /\ At(t, "run_merge")
    /\ Step(t, <<>>)
    /\ IF setting = "kMergeAfterLaunch" /\ ~Owns(p, u)
       THEN Merge(p, u) /\ UNCHANGED body
       ELSE NoPost
    /\ UNCHANGED <<setting, embedder, shellVars, serviceVars, latch, countingVars>>

RunResult(t) ==
    /\ At(t, "run_result")
    /\ PostTask(p, Do("result"))
    /\ Step(t, <<>>)
    /\ UNCHANGED <<setting, embedder, shellVars, serviceVars, latch, countingVars>>

ResultCallback ==
    /\ At(p, "result")
    /\ results' = results + 1
    /\ Step(p, <<>>)
    /\ NoPost /\ UNCHANGED <<setting, embedder, shellVars, serviceVars, latch, runs, requests, sent, received>>

\* SetRootIsolateOwnerToCurrentThread
SetOwner(t) ==
    /\ At(t, "set_owner")
    /\ isolate' = IF engine /\ isolate.running THEN [isolate EXCEPT !.owner = t] ELSE isolate
    /\ Step(t, <<>>)
    /\ NoPost
    /\ UNCHANGED <<setting, embedder, shell, view, engine, route, added, serviceVars, latch, countingVars>>

-----------------------------------------------------------------------------
(* Platform messages.                                                      *)

\* The app's Dart code runs; it may send a message to the platform.  A task of
\* an isolate that was shut down does nothing.
RunDart(t) ==
    /\ At(t, "main") \/ At(t, "dart")
    /\ \/ Step(t, <<>>)
       \/ /\ isolate.running /\ Head(stack[t]).n = isolate.gen
          /\ sent < embedder.sends
          /\ Step(t, <<Do("send")>>)
    /\ NoPost /\ UNCHANGED <<setting, embedder, shellVars, serviceVars, latch, countingVars>>

\* Mutant: a message sent on the platform thread is handled at once.
SendRunsNow(t) ==
    /\ At(t, "send")
    /\ sent' = sent + 1
    /\ Step(t, <<>>)
    /\ IF RunsOnTheSameThread(t, p)
       THEN received' = Append(received, sent) /\ NoPost
       ELSE PostTask(p, DoWith("view_message", sent)) /\ UNCHANGED received
    /\ UNCHANGED <<setting, embedder, shellVars, serviceVars, latch, runs, results, requests>>

\* OnEngineHandlePlatformMessage
Send(t) ==
    /\ At(t, "send")
    /\ sent' = sent + 1
    /\ Step(t, <<>>)
    /\ IF embedder.handler = "background" /\ ~route
       THEN received' = Append(received, sent) /\ NoPost
       ELSE /\ PostTask(p, DoWith(IF embedder.handler = "background" THEN "hop" ELSE "view_message", sent))
            /\ UNCHANGED received
    /\ UNCHANGED <<setting, embedder, shellVars, serviceVars, latch, runs, results, requests>>

\* Routed through the platform thread and back.
Hop ==
    /\ At(p, "hop")
    /\ PostTask(ui, DoWith("handle", Head(stack[p]).n))
    /\ Step(p, <<>>)
    /\ UNCHANGED <<setting, embedder, shellVars, serviceVars, latch, countingVars>>

\* The handler, which the shell keeps to its end, and the platform view are
\* reached through weak pointers.
HandlePlatformMessage(t) ==
    /\ At(t, "handle") \/ At(t, "view_message")
    /\ received' = IF view \/ (At(t, "handle") /\ shell # "down")
                   THEN Append(received, Head(stack[t]).n) ELSE received
    /\ Step(t, <<>>)
    /\ NoPost /\ UNCHANGED <<setting, embedder, shellVars, serviceVars, latch, runs, results, requests, sent>>

\* OnPlatformViewDispatchPlatformMessage with RunNowAndFlushMessages: run here,
\* an empty task follows so that the UI loop's observers run.
Dispatch ==
    /\ Idle(p) /\ shell = "up" /\ sent < embedder.sends
    /\ sent' = sent + 1
    /\ IF RunsOnTheSameThread(p, ui)
       THEN stack' = [stack EXCEPT ![p] = <<Do("dispatch"), Do("flush")>>] /\ NoPost
       ELSE UNCHANGED stack /\ PostTask(ui, Do("dispatch"))
    /\ UNCHANGED <<setting, embedder, shellVars, serviceVars, latch, runs, results, requests, received>>

\* Engine::DispatchPlatformMessage calls into Dart if the isolate is running.
EngineDispatch(t) ==
    /\ At(t, "dispatch")
    /\ Step(t, IF engine /\ isolate.running THEN <<DoWith("dart", isolate.gen)>> ELSE <<>>)
    /\ NoPost /\ UNCHANGED <<setting, embedder, shellVars, serviceVars, latch, countingVars>>

PostFlush(t) ==
    /\ At(t, "flush")
    /\ PostTask(ui, Do("empty"))
    /\ Step(t, <<>>)
    /\ UNCHANGED <<setting, embedder, shellVars, serviceVars, latch, countingVars>>

RunEmpty(t) ==
    /\ At(t, "empty")
    /\ Step(t, <<>>)
    /\ NoPost /\ UNCHANGED <<setting, embedder, shellVars, serviceVars, latch, countingVars>>

-----------------------------------------------------------------------------
(* The VM service.  Its thread has no message loop, so RunNowOrPostTask    *)
(* posts; it holds handlers_mutex_ shared until its latch is signalled.    *)

LockFree == service = "idle"

\* Mutant: the handler is added although the shell is gone.
AddHandlerThoughGone(t) ==
    /\ At(t, "add_handler") /\ LockFree
    /\ handlers' = TRUE
    /\ Step(t, <<>>)
    /\ NoPost /\ UNCHANGED <<setting, embedder, shellVars, service, latch, countingVars>>

\* OnRootIsolateCreated's closure; ServiceProtocol::AddHandler.
AddHandler(t) ==
    /\ At(t, "add_handler") /\ LockFree
    /\ handlers' = (handlers \/ shell # "down")
    /\ Step(t, <<>>)
    /\ NoPost /\ UNCHANGED <<setting, embedder, shellVars, service, latch, countingVars>>

\* ServiceProtocol::HandleMessage with HandleMessageOnHandler: reloading fonts is
\* for the platform task runner, running in the view for the UI task runner.
HandleMessage ==
    /\ service = "idle" /\ handlers /\ requests < MaxRequests
    /\ embedder.patient => shell # "destroying"
    /\ requests' = requests + 1
    /\ service' = "waiting"
    /\ PostTask(ui, Do("run_in_view")) \/ PostTask(p, Do("reload_fonts"))
    /\ UNCHANGED <<setting, embedder, shellVars, handlers, latch, stack, runs, results, sent, received>>

\* OnServiceProtocolRunInView calls Engine::Restart, which waits for
\* OnPreEngineRestart on the platform thread.
RunInView(t) ==
    /\ At(t, "run_in_view")
    /\ RunNowOrPostTask(t, p, Do("pre_restart"), <<Do("await_pre_restart"), Do("service_done")>>)
    /\ UNCHANGED <<setting, embedder, shellVars, serviceVars, latch, countingVars>>

OnPreEngineRestart(t) ==
    /\ At(t, "pre_restart")
    /\ latch' = latch \cup {"pre_restart"}
    /\ Step(t, <<>>)
    /\ NoPost /\ UNCHANGED <<setting, embedder, shellVars, serviceVars, countingVars>>

Shutdown == isolate' = [isolate EXCEPT !.running = FALSE, !.owner = NoThread]

\* Mutant: the latch stays signalled for the next restart.
RestartKeepsLatch(t) ==
    /\ At(t, "await_pre_restart") /\ "pre_restart" \in latch
    /\ Shutdown
    /\ Step(t, <<Do("run_start")>>)
    /\ NoPost
    /\ UNCHANGED <<setting, embedder, shell, view, engine, route, added, serviceVars, latch, countingVars>>

\* Engine::Restart replaces the runtime controller and runs again.
Restart(t) ==
    /\ At(t, "await_pre_restart") /\ "pre_restart" \in latch
    /\ latch' = latch \ {"pre_restart"}
    /\ Shutdown
    /\ Step(t, <<Do("run_start")>>)
    /\ NoPost
    /\ UNCHANGED <<setting, embedder, shell, view, engine, route, added, serviceVars, countingVars>>

\* Mutant: the restart is not answered.
AnswerFontsOnly(t) ==
    /\ At(t, "service_done") \/ At(t, "reload_fonts")
    /\ service' = IF At(t, "reload_fonts") THEN "answered" ELSE service
    /\ Step(t, <<>>)
    /\ NoPost /\ UNCHANGED <<setting, embedder, shellVars, handlers, latch, countingVars>>

Answer(t) ==
    /\ At(t, "service_done") \/ At(t, "reload_fonts")
    /\ service' = "answered"
    /\ Step(t, <<>>)
    /\ NoPost /\ UNCHANGED <<setting, embedder, shellVars, handlers, latch, countingVars>>

\* The service's thread returns from its latch and lets go of the mutex.
Answered ==
    /\ service = "answered"
    /\ service' = "idle"
    /\ NoPost /\ UNCHANGED <<setting, embedder, shellVars, handlers, latch, stack, countingVars>>

-----------------------------------------------------------------------------
(* Destruction, on the platform thread.                                    *)

Destroy ==
    /\ Idle(p) /\ shell = "up"
    /\ embedder.patient => results = runs /\ service = "idle"
    /\ shell' = "destroying"
    /\ stack' = [stack EXCEPT ![p] = Destructor]
    /\ NoPost
    /\ UNCHANGED <<setting, embedder, view, engine, isolate, route, added, serviceVars, latch, countingVars>>

RemoveHandler ==
    /\ At(p, "remove_handler") /\ LockFree
    /\ handlers' = FALSE
    /\ Step(p, <<Do("shutdown_isolates")>>)
    /\ NoPost /\ UNCHANGED <<setting, embedder, shellVars, service, latch, countingVars>>

\* engine_->ShutdownPlatformIsolates(), here and now: this is the platform thread.
ShutdownPlatformIsolates ==
    /\ At(p, "shutdown_isolates") /\ engine
    /\ Step(p, <<Do("reset_engine")>>)
    /\ NoPost /\ UNCHANGED <<setting, embedder, shellVars, serviceVars, latch, countingVars>>


\* The engine is let go of on the UI task runner ...
ResetEngine ==
    /\ At(p, "reset_engine")
    /\ RunNowOrPostTask(p, ui, Do("engine_reset"), <<Do("await_ui")>>)
    /\ UNCHANGED <<setting, embedder, shellVars, serviceVars, latch, countingVars>>

\* Mutant: the latch is not signalled.
EngineResetSilently(t) ==
    /\ At(t, "engine_reset")
    /\ engine' = FALSE /\ Shutdown
    /\ Step(t, <<>>)
    /\ NoPost
    /\ UNCHANGED <<setting, embedder, shell, view, route, added, serviceVars, latch, countingVars>>

EngineReset(t) ==
    /\ At(t, "engine_reset")
    /\ engine' = FALSE /\ Shutdown
    /\ latch' = latch \cup {"ui_latch"}
    /\ Step(t, <<>>)
    /\ NoPost
    /\ UNCHANGED <<setting, embedder, shell, view, route, added, serviceVars, countingVars>>

\* ... which ~Shell waits for before it lets go of the platform view.
ResetView ==
    /\ At(p, "await_ui") /\ "ui_latch" \in latch
    /\ latch' = latch \ {"ui_latch"}
    /\ view' = FALSE
    /\ Step(p, <<Do("unmerge")>>)
    /\ NoPost
    /\ UNCHANGED <<setting, embedder, shell, engine, isolate, route, added, serviceVars, countingVars>>

\* Mutant: the UI task runner stays on the platform thread.
DestroyedStillMerged ==
    /\ At(p, "unmerge")
    /\ shell' = "down"
    /\ Step(p, <<>>)
    /\ NoPost
    /\ UNCHANGED <<setting, embedder, view, engine, isolate, route, added, serviceVars, latch, countingVars>>

\* The end of ~Shell: the UI task runner goes back to its thread.
Destroyed ==
    /\ At(p, "unmerge")
    /\ shell' = "down"
    /\ Step(p, <<>>)
    /\ IF setting = "kMergeAfterLaunch" /\ Owns(p, u)
       THEN Unmerge(p, u) /\ UNCHANGED body
       ELSE NoPost
    /\ UNCHANGED <<setting, embedder, view, engine, isolate, route, added, serviceVars, latch, countingVars>>

-----------------------------------------------------------------------------
ThreadStep(t) ==
    \/ FlushNext(t) \/ CreateEngine(t)
    \/ EngineRun(t) \/ RunStart(t) \/ RunLaunch(t) \/ OnRootIsolateCreated(t)
    \/ MergeAfterLaunch(t) \/ RunResult(t) \/ SetOwner(t)
    \/ RunDart(t) \/ Send(t) \/ HandlePlatformMessage(t)
    \/ EngineDispatch(t) \/ PostFlush(t) \/ RunEmpty(t)
    \/ AddHandler(t) \/ RunInView(t) \/ OnPreEngineRestart(t) \/ Restart(t) \/ Answer(t)
    \/ EngineReset(t)

PlatformStep ==
    \/ Setup \/ ClearRoute \/ ResultCallback \/ Hop
    \/ RemoveHandler \/ ShutdownPlatformIsolates \/ ResetEngine \/ ResetView \/ Destroyed

EmbedderCall == Create \/ RunEngine \/ Dispatch \/ Destroy

ShellNext ==
    \/ \E t \in {p, u} : ThreadStep(t)
    \/ PlatformStep \/ EmbedderCall
    \/ HandleMessage \/ Answered

\* Threads that can run do run; the embedder and the VM service need not call.
ShellSpec == ShellInit /\ [][ShellNext]_vars
FairShellSpec ==
    ShellSpec /\ WF_vars(ThreadStep(p) \/ PlatformStep) /\ WF_vars(ThreadStep(u)) /\ WF_vars(Answered)

-----------------------------------------------------------------------------
(* Properties.                                                             *)

\* Everything has its type; no latch is signalled that nobody waits for; and ~Shell
\* has given the UI task runner back to its own thread when the shell is down.
ShellInvariant ==
    /\ shell \in {"none", "creating", "up", "destroying", "down"}
    /\ service \in {"idle", "waiting", "answered"}
    /\ isolate \in [gen : 0 .. embedder.runs + MaxRequests, running : BOOLEAN, owner : {p, u, NoThread}]
    /\ Len(body) = registered
    /\ \A waited \in {<<"engine_promise", "await_engine">>, <<"ui_latch", "await_ui">>,
                      <<"pre_restart", "await_pre_restart">>} :
          waited[1] \in latch =>
              \E t \in {p, u} : \E i \in DOMAIN stack[t] : stack[t][i].do = waited[2]
    /\ shell = "down" => ~Owns(p, u)

\* Calls that use the engine, its runtime controller or its root isolate.
InEngine(t) ==
    ~Idle(t) /\ Head(stack[t]).do \in
        {"run_start", "run_launch", "run_created", "send", "run_merge", "set_owner", "main",
         "dart", "dispatch", "run_in_view", "await_pre_restart", "engine_reset"}


\* Dart code runs, and the isolate is shut down, on the thread that owns the
\* isolate, if there is one yet.  Engine::Run: the task that sets the owner runs
\* after the merge, on the platform thread, and before any task that
\* LaunchRootIsolate queued.  (A platform message may reach the isolate earlier.)
DartRunsOnOwner ==
    \A t \in {p, u} : isolate.running =>
        /\ (\E f \in {"main", "dart", "engine_reset", "await_pre_restart"} : At(t, f))
              => isolate.owner \in {t, NoThread}
        /\ At(t, "main") /\ Head(stack[t]).n = isolate.gen
              => isolate.owner = t /\ (setting = "kMergeAfterLaunch" => t = p)

\* A request of the VM service finds the shell it was sent to, and its engine; and
\* when ~Shell looks into the engine from the platform thread, no request is
\* replacing the engine's runtime controller on the UI thread.
ServiceFindsShell ==
    /\ handlers => shell \in {"up", "destroying"}
    /\ \A t \in {p, u} :
          /\ At(t, "run_in_view") => engine
          /\ At(t, "reload_fonts") => shell # "down"
    /\ At(p, "shutdown_isolates") =>
          ~\E i \in DOMAIN stack[u] : stack[u][i].do \in {"await_pre_restart", "service_done"}

\* The platform sees the messages of the isolate in the order they were sent,
\* when they are handled on the platform thread.
MessagesInOrder ==
    embedder.handler # "background" =>
    \A i, j \in DOMAIN received : i < j => received[i] < received[j]

\* A shell that cannot be created is thrown away without touching the engine it
\* does not have: Create returns, and the embedder looks at what it returned.
\* (The code does not keep this: ~Shell uses engine_ without a test.)
CreateReturns == At(p, "shutdown_isolates") => engine

\* Destroying the shell comes to an end.
\* (The code does not keep this: shell_merge_deadlock.)
DestructionEnds == shell = "destroying" ~> shell = "down"

\* When the embedder is patient, destroying the shell comes to an end, RunEngine's
\* result callback is called once for every RunEngine, and requests of the VM
\* service are answered.
ShellSettles ==
    <>[](embedder.patient => shell # "destroying" /\ results = runs /\ service = "idle")

=============================================================================
