---------------------------- MODULE EmbedderEngine ----------------------------
(***************************************************************************)
(* The Linux embedding and the embedder API under it: FlEngine and its     *)
(* references, FlTaskRunner, which runs the engine's platform tasks from   *)
(* timeouts of the GLib main loop, EmbedderTaskRunner, which knows tasks   *)
(* by their batons, EmbedderThreadHost, and EmbedderEngine from            *)
(* Initialize to Shutdown.                                                 *)
(*                                                                         *)
(* The UI task runner is the platform task runner, or that of a thread     *)
(* that the engine manages (FlUIThreadPolicy).  Plugins answer platform    *)
(* messages on threads of their own.                                       *)
(***************************************************************************)
EXTENDS Naturals, Sequences, FiniteSets

CONSTANTS
    Plugin,         \* threads on which plugins answer platform messages
    Time,           \* bound: the times that are told apart
    MaxTasks,       \* bound: tasks posted to the platform task runner, answers aside
    MaxUiTasks,     \* bound: messages to Dart on the UI thread
    MaxAnswers,     \* bound: answers of plugins
    MaxFrames,      \* bound: fl_engine_poll_task_runner inside tasks
    DropsInTask     \* may the last owner unref the FlEngine inside a task?

VARIABLES
    policy,         \* where the UI task runner is: "platform" or "engine"
    now,
    phase,          \* how far fl_engine_start got
    shell,          \* shell_
    host,           \* thread_host_
    active,         \* is the platform runner in active_runners_?
    pending_tasks,  \* EmbedderTaskRunner: batons whose task was not run
    last_baton,
    posting,        \* what each thread is passing on to post_task_callback
    list,           \* FlTaskRunner.pending_tasks
    timeout,        \* when the source that timeout_source_id names is due; empty
                    \* when there is none or it was dispatched
    strays,         \* sources that timeout_source_id has forgotten
    dispatched,     \* a source is dispatched and is about to take the mutex
    waiting,        \* the platform thread sleeps in fl_task_runner_wait
    frames,         \* the calls of process_expired_tasks on the platform thread,
                    \* the innermost first
    locked,         \* the platform thread disposes of the engine with the mutex
    owned,          \* the application's reference to the FlEngine
    answering,      \* plugins that hold a reference, and how far they got
    idle,           \* do_unref calls that the main loop holds
    dispose,        \* how far fl_engine_dispose got
    ui,             \* the UI thread
    ui_tasks,       \* its tasks
    collecting,     \* the closure of CollectThreadHost
    microtasks,     \* microtasks that nobody ran yet (UI task runner is platform's)
    ui_posted, answers

engineVars == <<policy, phase, shell, host, active>>
runnerVars == <<pending_tasks, last_baton>>
transportVars == <<list, timeout, strays>>
referenceVars == <<owned, answering, idle, dispose, locked, answers>>
uiVars == <<ui, ui_tasks, ui_posted, collecting>>
platformVars == <<dispatched, waiting, frames>>
vars == <<engineVars, runnerVars, posting, transportVars, referenceVars, uiVars, platformVars,
          microtasks, now>>

Task == 1 .. MaxTasks + MaxAnswers
Thread == {"platform", "ui"} \cup Plugin
NoTask == [task |-> 0, time |-> 0]
Merged == policy = "platform"

ASSUME ConstantsAssumption ==
    /\ Time \subseteq Nat /\ 0 \in Time /\ DropsInTask \in BOOLEAN
    /\ {MaxTasks, MaxUiTasks, MaxAnswers, MaxFrames} \subseteq Nat

Init ==
    /\ policy \in {"platform", "engine"} /\ now = 0
    /\ phase = "new" /\ shell = FALSE /\ host = FALSE /\ active = FALSE
    /\ pending_tasks = {} /\ last_baton = 0
    /\ posting = [t \in Thread |-> NoTask]
    /\ list = <<>> /\ timeout = {} /\ strays = [t \in Time |-> 0]
    /\ dispatched = FALSE /\ waiting = FALSE /\ frames = <<>> /\ locked = FALSE
    /\ owned = TRUE /\ answering = [k \in Plugin |-> "no"] /\ idle = 0 /\ dispose = "no"
    /\ ui = "none" /\ ui_tasks = 0 /\ collecting = "no"
    /\ microtasks = FALSE /\ ui_posted = 0 /\ answers = 0

-----------------------------------------------------------------------------
(* Posting to the platform task runner.                                    *)

\* EmbedderTaskRunner::PostTaskForTime gives the task a baton, under the lock ...
TakeBaton(t) ==
    /\ posting[t] = NoTask
    /\ last_baton' = last_baton + 1
    /\ pending_tasks' = pending_tasks \cup {last_baton + 1}
    /\ \E time \in {x \in Time : x >= now} :
          posting' = [posting EXCEPT ![t] = [task |-> last_baton + 1, time |-> time]]

MayPost == last_baton < MaxTasks

MinTime(tasks) ==
    CHOOSE t \in {tasks[i].time : i \in DOMAIN tasks} :
        \A i \in DOMAIN tasks : t <= tasks[i].time

Later(t) == IF t > now THEN t ELSE now

\* Mutant: the timeout is only replaced when there is none.
TasksDidChangeOnce(tasks) ==
    timeout' = IF tasks = <<>> THEN {}
               ELSE IF timeout # {} THEN timeout ELSE {Later(MinTime(tasks))}

\* fl_task_runner_tasks_did_change_locked: the source that timeout_source_id names
\* is replaced by one for the first task that is due.
TasksDidChange(tasks) ==
    timeout' = IF tasks = <<>> THEN {} ELSE {Later(MinTime(tasks))}

\* ... and hands it to fl_task_runner_post_flutter_task when it has let go of it.
PostFlutterTask(t) ==
    /\ posting[t] # NoTask /\ ~locked
    /\ list' = Append(list, posting[t])
    /\ TasksDidChange(list')
    /\ posting' = [posting EXCEPT ![t] = NoTask]
    /\ UNCHANGED <<engineVars, runnerVars, strays, referenceVars, uiVars, platformVars,
                   microtasks, now>>

-----------------------------------------------------------------------------
(* References to the FlEngine.                                             *)

References ==
    (IF owned THEN 1 ELSE 0) + Cardinality({i \in DOMAIN frames : frames[i].engine})
    + Cardinality({k \in Plugin : answering[k] # "no"}) + idle

Alive == References > 0

\* The platform thread is in its main loop; or in a task, with no call above it.
PlatformFree ==
    /\ ~dispatched /\ ~waiting /\ posting["platform"] = NoTask
    /\ phase \in {"new", "started"} /\ dispose \in {"no", "done"}
InMainLoop == PlatformFree /\ frames = <<>>
InTask == PlatformFree /\ frames # <<>> /\ Head(frames).task # 0

DisposeIfLast == dispose' = IF References' = 0 THEN "shell" ELSE dispose

\* The application lets go of its engine.
OwnerUnref ==
    /\ owned /\ (InMainLoop \/ (DropsInTask /\ InTask))
    /\ owned' = FALSE
    /\ UNCHANGED <<answering, idle, frames>> /\ DisposeIfLast
    /\ UNCHANGED <<engineVars, runnerVars, posting, transportVars, locked, answers, uiVars,
                   dispatched, waiting, microtasks, now>>

\* do_unref, from the main loop
DoUnref ==
    /\ idle > 0 /\ InMainLoop
    /\ idle' = idle - 1
    /\ UNCHANGED <<answering, owned, frames>> /\ DisposeIfLast
    /\ UNCHANGED <<engineVars, runnerVars, posting, transportVars, locked, answers, uiVars,
                   dispatched, waiting, microtasks, now>>

-----------------------------------------------------------------------------
(* fl_engine_start and the calls of the application.                       *)

\* FlutterEngineInitialize: the thread host, whose only embedder task runner is the
\* platform's (the UI's has the same identifier or is not there).
Initialize ==
    /\ phase = "new" /\ owned /\ InMainLoop
    /\ phase' = "initialized" /\ host' = TRUE /\ active' = TRUE
    /\ ui' = IF Merged THEN ui ELSE "idle"
    /\ UNCHANGED <<policy, shell, runnerVars, posting, transportVars, referenceVars, ui_tasks,
                   ui_posted, collecting, platformVars, microtasks, now>>

\* FlutterEngineRunInitialized: Shell::Create waits for a task on the UI thread ...
LaunchShell ==
    /\ phase = "initialized" /\ phase' = "launching"
    /\ ui_tasks' = IF Merged THEN ui_tasks ELSE ui_tasks + 1
    /\ UNCHANGED <<policy, shell, host, active, runnerVars, posting, transportVars,
                   referenceVars, ui, ui_posted, collecting, platformVars, microtasks, now>>

\* ... and when it made no shell the engine's handle stays all the same.
RunRootIsolate ==
    /\ phase = "launching" /\ ui \in {"none", "idle"} /\ ui_tasks = 0
    /\ phase' = "started" /\ shell' \in BOOLEAN
    /\ UNCHANGED <<policy, host, active, runnerVars, posting, transportVars, referenceVars,
                   uiVars, platformVars, microtasks, now>>

PostToUi == ui_tasks' = ui_tasks + 1 /\ ui_posted' = ui_posted + 1


\* FlutterEngineSendPlatformMessage, and RunNowAndFlushMessages: on the thread of the
\* UI task runner Dart runs at once, and an empty task is posted that runs what
\* microtasks it leaves.
SendPlatformMessage ==
    /\ InMainLoop \/ InTask
    /\ phase = "started" /\ shell
    /\ IF Merged
       THEN MayPost /\ TakeBaton("platform") /\ microtasks' = TRUE /\ UNCHANGED uiVars
       ELSE ui_posted < MaxUiTasks /\ PostToUi /\ UNCHANGED <<runnerVars, posting, microtasks, ui, collecting>>
    /\ UNCHANGED <<engineVars, transportVars, referenceVars, platformVars, now>>

\* A task on the platform thread posts another.
PlatformPosts ==
    /\ InTask /\ MayPost /\ TakeBaton("platform")
    /\ UNCHANGED <<engineVars, transportVars, referenceVars, uiVars, platformVars, microtasks,
                   now>>

-----------------------------------------------------------------------------
(* FlTaskRunner on the platform thread.                                    *)

\* The main loop dispatches a source that is due.  (A stray source that outlives its
\* runner would be dispatched too: NoStrayTimeout.)
DispatchTimeout ==
    /\ InMainLoop /\ dispose = "no"
    /\ \/ (\E t \in timeout : t <= now) /\ timeout' = {} /\ UNCHANGED strays
       \/ \E t \in Time :
             /\ strays[t] > 0 /\ t <= now
             /\ strays' = [strays EXCEPT ![t] = @ - 1] /\ UNCHANGED timeout
    /\ dispatched' = TRUE
    /\ UNCHANGED <<engineVars, runnerVars, posting, list, referenceVars, uiVars, frames,
                   waiting, microtasks, now>>

\* fl_task_runner_process_expired_tasks_locked takes the tasks that are due, in the
\* order they were posted, and a reference to the engine.
ProcessExpiredTasks ==
    LET Expired(task) == task.time <= now
        Waits(task) == task.time > now
    IN /\ list' = SelectSeq(list, Waits)
       /\ frames' = <<[batch |-> IF Alive THEN SelectSeq(list, Expired) ELSE <<>>,
                       task |-> 0, engine |-> Alive]>> \o frames

\* fl_task_runner_on_expired_timeout clears timeout_source_id, which may by now name
\* a source that another thread has added.
OnExpiredTimeout ==
    /\ dispatched /\ dispatched' = FALSE
    /\ strays' = [t \in Time |-> strays[t] + (IF t \in timeout THEN 1 ELSE 0)]
    /\ timeout' = {}
    /\ ProcessExpiredTasks
    /\ UNCHANGED <<engineVars, runnerVars, posting, referenceVars, uiVars, waiting, microtasks,
                   now>>

\* fl_task_runner_wait, called by fl_engine_poll_task_runner, in a task or not ...
Wait ==
    /\ InMainLoop \/ InTask
    /\ Len(frames) < MaxFrames /\ owned /\ dispose = "no"
    /\ waiting' = TRUE
    /\ UNCHANGED <<engineVars, runnerVars, posting, transportVars, referenceVars, uiVars,
                   dispatched, frames, microtasks, now>>

\* ... sleeps until a task is due or is posted.
WaitEnds ==
    /\ waiting /\ list # <<>> /\ waiting' = FALSE
    /\ ProcessExpiredTasks
    /\ UNCHANGED <<engineVars, runnerVars, posting, timeout, strays, referenceVars, uiVars,
                   dispatched, microtasks, now>>

Between == PlatformFree /\ frames # <<>> /\ Head(frames).task = 0

\* FlutterEngineRunTask runs the task with the baton, if its runner is still active.
\* Where the UI task runner is the platform's the task may leave microtasks.
RunTask ==
    /\ Between /\ Head(frames).batch # <<>>
    /\ LET task == Head(Head(frames).batch).task IN
       IF active /\ task \in pending_tasks
       THEN /\ frames' = [frames EXCEPT ![1] = [@ EXCEPT !.batch = Tail(@), !.task = task]]
            /\ pending_tasks' = pending_tasks \ {task}
            /\ microtasks' \in {microtasks, Merged /\ shell}
       ELSE /\ frames' = [frames EXCEPT ![1] = [@ EXCEPT !.batch = Tail(@)]]
            /\ UNCHANGED <<pending_tasks, microtasks>>
    /\ UNCHANGED <<engineVars, last_baton, posting, transportVars, referenceVars, uiVars,
                   dispatched, waiting, now>>

\* The task returns, and EmbedderEngine::RunTask flushes the microtask queue.
TaskReturns ==
    /\ InTask
    /\ frames' = [frames EXCEPT ![1].task = 0]
    /\ microtasks' = (microtasks /\ ~(shell /\ Merged))
    /\ UNCHANGED <<engineVars, runnerVars, posting, transportVars, referenceVars, uiVars,
                   dispatched, waiting, now>>

\* After the last task the mutex is taken; the timeout is set again; and the
\* reference is dropped, still with the mutex.
BatchEnds ==
    /\ Between /\ Head(frames).batch = <<>>
    /\ frames' = Tail(frames)
    /\ UNCHANGED <<owned, answering, idle>>
    /\ DisposeIfLast /\ locked' = (References' = 0)
    /\ TasksDidChange(list)
    /\ UNCHANGED <<engineVars, runnerVars, posting, list, strays, answers, uiVars, dispatched,
                   waiting, microtasks, now>>

-----------------------------------------------------------------------------
(* The UI thread, when the engine manages it.                              *)

UiTaskBegins ==
    /\ ui = "idle" /\ ui_tasks > 0
    /\ ui' = "task" /\ ui_tasks' = ui_tasks - 1
    /\ UNCHANGED <<engineVars, runnerVars, posting, transportVars, referenceVars, ui_posted,
                   collecting, platformVars, microtasks, now>>

UiPosts ==
    /\ ui = "task" /\ MayPost /\ TakeBaton("ui")
    /\ UNCHANGED <<engineVars, transportVars, referenceVars, uiVars, platformVars, microtasks,
                   now>>

UiTaskEnds ==
    /\ ui = "task" /\ posting["ui"] = NoTask
    /\ ui' = "idle"
    /\ UNCHANGED <<engineVars, runnerVars, posting, transportVars, referenceVars, ui_tasks,
                   ui_posted, collecting, platformVars, microtasks, now>>

\* The closure of CollectThreadHost, after the tasks before it.
UiBlocks ==
    /\ collecting = "posted" /\ ui = "idle" /\ ui_tasks = 0
    /\ ui' = "blocked" /\ collecting' = "running"
    /\ UNCHANGED <<engineVars, runnerVars, posting, transportVars, referenceVars, ui_tasks,
                   ui_posted, platformVars, microtasks, now>>

UiFinishes ==
    /\ collecting = "released"
    /\ ui' = "idle" /\ collecting' = "finished"
    /\ UNCHANGED <<engineVars, runnerVars, posting, transportVars, referenceVars, ui_tasks,
                   ui_posted, platformVars, microtasks, now>>

-----------------------------------------------------------------------------
(* A plugin answers a message: send_response of FlBinaryMessenger.         *)

\* It takes a reference, if the engine is there ...
GetEngine(k) ==
    /\ answering[k] = "no" /\ answers < MaxAnswers /\ shell /\ Alive
    /\ answering' = [answering EXCEPT ![k] = "holds"] /\ answers' = answers + 1
    /\ UNCHANGED <<engineVars, runnerVars, posting, transportVars, owned, idle, dispose, locked,
                   uiVars, platformVars, microtasks, now>>

\* Mutant: the reference is dropped before the answer is posted.
SendResponseUnowned(k) ==
    /\ answering[k] = "holds" /\ answering' = [answering EXCEPT ![k] = "no"]
    /\ idle' = idle + 1
    /\ IF Merged
       THEN TakeBaton(k) /\ UNCHANGED uiVars
       ELSE PostToUi /\ UNCHANGED <<runnerVars, posting, ui, collecting>>
    /\ UNCHANGED <<engineVars, transportVars, owned, dispose, locked, answers,
                   platformVars, microtasks, now>>

\* ... posts the answer to the UI task runner ...
SendResponse(k) ==
    /\ answering[k] = "holds" /\ answering' = [answering EXCEPT ![k] = "sent"]
    /\ IF Merged
       THEN TakeBaton(k) /\ UNCHANGED uiVars
       ELSE PostToUi /\ UNCHANGED <<runnerVars, posting, ui, collecting>>
    /\ UNCHANGED <<engineVars, transportVars, owned, idle, dispose, locked, answers,
                   platformVars, microtasks, now>>

\* ... and leaves the reference to the platform thread.
ResponseSent(k) ==
    /\ answering[k] = "sent" /\ posting[k] = NoTask
    /\ answering' = [answering EXCEPT ![k] = "no"] /\ idle' = idle + 1
    /\ UNCHANGED <<engineVars, runnerVars, posting, transportVars, owned, dispose, locked,
                   answers, uiVars, platformVars, microtasks, now>>

-----------------------------------------------------------------------------
(* fl_engine_dispose: FlutterEngineShutdown, and the end of the runner.    *)

\* NotifyDestroyed and CollectShell: ~Shell waits for the UI thread and takes the
\* isolate with it.  An engine that was never started has nothing to shut down.
CollectShell ==
    /\ dispose = "shell"
    /\ shell => ui \in {"none", "idle"}
    /\ shell' = FALSE /\ microtasks' = FALSE
    /\ dispose' = IF phase = "new" THEN "runner" ELSE "host"
    /\ UNCHANGED <<policy, phase, host, active, runnerVars, posting, transportVars, owned,
                   answering, idle, locked, answers, uiVars, platformVars, now>>

\* CollectThreadHost blocks the UI thread while it invalidates the runners ...
BlockUi ==
    /\ dispose = "host" /\ ~Merged /\ collecting = "no"
    /\ collecting' = "posted"
    /\ UNCHANGED <<engineVars, runnerVars, posting, transportVars, referenceVars, ui, ui_tasks,
                   ui_posted, platformVars, microtasks, now>>

\* Mutant: the runners are invalidated while the UI thread still runs.
InvalidateAtOnce ==
    /\ dispose = "host" /\ active
    /\ active' = FALSE
    /\ UNCHANGED <<policy, phase, shell, host, runnerVars, posting, transportVars,
                   referenceVars, uiVars, platformVars, microtasks, now>>

InvalidateActiveRunners ==
    /\ dispose = "host" /\ active
    /\ Merged \/ collecting = "running"
    /\ active' = FALSE
    /\ collecting' = IF Merged THEN collecting ELSE "released"
    /\ UNCHANGED <<policy, phase, shell, host, runnerVars, posting, transportVars,
                   referenceVars, ui, ui_tasks, ui_posted, platformVars, microtasks, now>>

\* ... and then destroys the host, which joins the UI thread, and the engine.
CollectThreadHost ==
    /\ dispose = "host" /\ ~active
    /\ Merged \/ (collecting = "finished" /\ ui = "idle")
    /\ host' = FALSE /\ ui' = "none"
    /\ dispose' = "runner"
    /\ UNCHANGED <<policy, phase, shell, active, runnerVars, posting, transportVars, owned,
                   answering, idle, locked, answers, ui_tasks, ui_posted, collecting,
                   platformVars, microtasks, now>>

\* fl_task_runner_dispose removes the source that it knows of.
DisposeRunner ==
    /\ dispose = "runner" /\ dispose' = "done"
    /\ list' = <<>> /\ timeout' = {} /\ pending_tasks' = {}
    /\ UNCHANGED <<engineVars, last_baton, posting, strays, owned, answering, idle, locked,
                   answers, uiVars, platformVars, microtasks, now>>

Tick ==
    /\ \E t \in Time : t > now /\ now' = t /\ \A x \in Time : x > now => t <= x
    /\ UNCHANGED <<engineVars, runnerVars, posting, transportVars, referenceVars, uiVars,
                   platformVars, microtasks>>

-----------------------------------------------------------------------------
MainLoop == DispatchTimeout \/ DoUnref

Processing == OnExpiredTimeout \/ WaitEnds \/ RunTask \/ TaskReturns \/ BatchEnds

Starting == LaunchShell \/ RunRootIsolate

Disposing ==
    CollectShell \/ BlockUi \/ InvalidateActiveRunners \/ CollectThreadHost \/ DisposeRunner

PlatformStep == MainLoop \/ Processing \/ Starting \/ Disposing \/ PostFlutterTask("platform")

UiStep ==
    UiTaskBegins \/ UiTaskEnds \/ UiBlocks \/ UiFinishes \/ PostFlutterTask("ui")

PluginStep(k) == SendResponse(k) \/ ResponseSent(k) \/ PostFlutterTask(k)

Application ==
    Initialize \/ SendPlatformMessage \/ PlatformPosts \/ Wait \/ OwnerUnref

Next ==
    \/ PlatformStep \/ UiStep \/ UiPosts \/ Tick \/ Application
    \/ \E k \in Plugin : GetEngine(k) \/ PluginStep(k)

\* The threads that can run do run, and time passes.  The application need do
\* nothing.
Spec == Init /\ [][Next]_vars
FairSpec ==
    /\ Spec
    /\ WF_vars(PlatformStep) /\ WF_vars(UiStep) /\ WF_vars(Tick)
    /\ \A k \in Plugin : WF_vars(PluginStep(k))

-----------------------------------------------------------------------------
(* Properties.                                                             *)

TypeOK ==
    /\ policy \in {"platform", "engine"} /\ now \in Time
    /\ phase \in {"new", "initialized", "launching", "started"}
    /\ {shell, host, active, owned, dispatched, locked, waiting, microtasks} \subseteq BOOLEAN
    /\ pending_tasks \subseteq 1 .. last_baton /\ last_baton \in Task \cup {0}
    /\ timeout \subseteq Time /\ strays \in [Time -> Nat]
    /\ answering \in [Plugin -> {"no", "holds", "sent"}] /\ idle \in Nat
    /\ dispose \in {"no", "shell", "host", "runner", "done"}
    /\ ui \in {"none", "idle", "task", "blocked"} /\ ui_tasks \in Nat
    /\ collecting \in {"no", "posted", "running", "released", "finished"}

\* What a thread uses is there: nobody posts to the embedder's task runner once the
\* engine is deinitialized ("no more calls to post tasks onto custom task runners
\* specified by the embedder are made"), a task runs with its engine and thread
\* host, and the engine is disposed of when nobody has a reference to it.
UsedWhileAlive ==
    /\ (\E t \in Thread : posting[t] # NoTask) => host /\ active
    /\ (\E i \in DOMAIN frames : frames[i].task # 0) => host /\ Alive
    /\ ui \in {"task", "blocked"} => host
    /\ dispose # "no" => ~Alive

\* What waits has something on its way that will serve it.  A task in the list of
\* FlTaskRunner has a timeout that is not later than the task, or the platform thread
\* is about to set one; and where Dart runs on the platform thread, microtasks that
\* it has left have a task after which they are run.
NothingForgotten ==
    dispose = "no" =>
        /\ list # <<>> => \/ dispatched \/ waiting \/ frames # <<>>
                         \/ \E t \in timeout : t <= Later(MinTime(list))
        /\ microtasks => pending_tasks # {} \/ \E i \in DOMAIN frames : frames[i].task # 0

\* A disposed runner leaves no timeout behind.
\* (The code does not keep this: a callback forgets the source that another thread
\* added while the callback waited for the mutex.)
NoStrayTimeout == dispose = "done" => \A t \in Time : strays[t] = 0


=============================================================================
