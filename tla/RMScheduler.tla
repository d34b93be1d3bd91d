---------------------------- MODULE RMScheduler ----------------------------
(***************************************************************************)
(* mp2/mp2.c: the rate-monotonic scheduler, with the applications that use *)
(* it the way mp2/userapp.c does: register, yield, then one yield for each *)
(* job, then de-register.  These actors interleave:                         *)
(*   an application  inside mp2_write (admin_ctrl, add_process, do_yield,  *)
(*                   de_register) or computing a job,                      *)
(*   timer_handler   one for each expired wakeup_timer,                    *)
(*   the dispatcher  kernel_thread_fn,                                     *)
(*   rmmod           mp2_exit, which may come at any moment.               *)
(* Every critical section under list_lock is one assignment, so the lock   *)
(* only matters once somebody dies with it: then no step that takes it is  *)
(* possible.  The list is walked without the lock; a walk is one step.     *)
(*                                                                         *)
(* Time is relative: age is the time since start_time and a timer is the   *)
(* time left, so no bound on jiffies is needed.                            *)
(***************************************************************************)
EXTENDS AdmissionTest

CONSTANTS
  Apps,         \* the application processes, a PCB each
  NoTask,       \* NULL
  NumJobs       \* how many jobs each application runs before it de-registers

ASSUME SchedulerAssumption ==
  /\ NoTask \notin Apps
  /\ Period \in [Apps -> Nat \ {0}]
  /\ Computation \in [Apps -> Nat]
  /\ FCONV \in Nat \ {0} /\ UBBOUND \in Nat /\ IntBound \in Nat \ {0}
  /\ NumJobs \in [Apps -> Nat]

VARIABLES
  processList,  \* the registered applications
  status,       \* READY, RUNNING or SLEEPING, a field of the PCB
  age,          \* jiffies - start_time, no longer counted once a period
  timer,        \* time left on wakeup_timer, or Idle
  handler,      \* where the timer_handler of each PCB is
  app,          \* where each application is
  yields,       \* the yields it has still to make
  linux,        \* scheduling state of the application's task_struct
  policy,       \* SCHED_FIFO or SCHED_NORMAL
  disp,         \* where the dispatcher is
  nextTask, curTask,  \* its local variables
  dispState,    \* the dispatcher's own task state
  module,       \* what mp2_exit does next, or "live", "unloaded"
  overtaken     \* history: who was about to start a timer in a PCB that
                \* mp2_exit has freed

appVars == <<processList, app, yields>>
timerVars == <<age, timer, handler>>
dispVars == <<disp, nextTask, curTask>>
moduleVars == <<module, overtaken>>
vars == <<appVars, timerVars, dispVars, dispState, status, linux, policy,
          moduleVars>>

Idle == -1

\* NULL was dereferenced between spin_lock and spin_unlock.
LockDead == disp = "oops"

Init == /\ processList = {}
        /\ status = [p \in Apps |-> "SLEEPING"]
        /\ age = [p \in Apps |-> 0]
        /\ timer = [p \in Apps |-> Idle]
        /\ handler = [p \in Apps |-> "idle"]
        /\ app = [p \in Apps |-> "start"]
        /\ yields = [p \in Apps |-> NumJobs[p] + 1]
        /\ linux = [p \in Apps |-> "runnable"]
        /\ policy = [p \in Apps |-> "NORMAL"]
        /\ disp = "scan_next"
        /\ nextTask = NoTask
        /\ curTask = NoTask
        /\ dispState = "running"
        /\ module = "live"
        /\ overtaken = {}

\* mp2_exit has freed the PCBs and their cache.
CleanedUp == module \in {"remove_proc", "unloaded"}

\* The proc file takes calls.
FileThere == module # "unloaded"

-----------------------------------------------------------------------------
\* The application.  A task that set itself TASK_UNINTERRUPTIBLE goes on until
\* the kernel switches it out; then only wake_up_process brings it back.

appGoes(p, from, to) == /\ linux[p] # "blocked"
                        /\ app[p] = from
                        /\ app' = [app EXCEPT ![p] = to]

\* admin_ctrl looks at the list without the lock.
Admit(p) == /\ FileThere
            /\ appGoes(p, "start",
                       IF admin_ctrl(processList, p) THEN "admitted"
                                                     ELSE "exit")
            /\ UNCHANGED <<processList, yields, timerVars, dispVars, dispState,
                           status, linux, policy, moduleVars>>

add_process(p) == /\ ~LockDead
                  /\ ~CleanedUp
                  /\ appGoes(p, "admitted", "run")
                  /\ processList' = processList \cup {p}
                  /\ status' = [status EXCEPT ![p] = "SLEEPING"]
                  /\ age' = [age EXCEPT ![p] = 0]
                  /\ UNCHANGED <<yields, timer, handler, dispVars, dispState,
                                 linux, policy, moduleVars>>

\* kmem_cache_alloc from a cache that is gone.  What the kernel does then is
\* not modelled.
AddTooLate(p) == /\ CleanedUp
                 /\ appGoes(p, "admitted", "fault")
                 /\ UNCHANGED <<processList, yields, timerVars, dispVars,
                                dispState, status, linux, policy, moduleVars>>

\* do_yield and de_register do nothing for a process that is not in the list.
NotFound(p) == /\ FileThere
               /\ p \notin processList
               /\ \/ /\ yields[p] > 0
                     /\ appGoes(p, "run", "run")
                     /\ yields' = [yields EXCEPT ![p] = @ - 1]
                  \/ /\ yields[p] = 0
                     /\ appGoes(p, "run", "exit")
                     /\ UNCHANGED yields
               /\ UNCHANGED <<processList, timerVars, dispVars, dispState,
                              status, linux, policy, moduleVars>>

\* do_yield, first critical section.
YieldMark(p) == /\ ~LockDead
                /\ p \in processList
                /\ yields[p] > 0
                /\ appGoes(p, "run", "arm")
                /\ yields' = [yields EXCEPT ![p] = @ - 1]
                /\ status' = [status EXCEPT ![p] = "SLEEPING"]
                /\ UNCHANGED <<processList, timerVars, dispVars, dispState,
                               linux, policy, moduleVars>>

\* Faulty: the operands are swapped, the time is a negative one.
mod_timer_swapped(p) == age[p] - Period[p] - 1

\* Faulty: no timer after a missed deadline.
mod_timer_if_met(p) == IF age[p] >= Period[p] THEN Idle ELSE 0

\* mod_timer takes an absolute time.  A missed deadline gives jiffies + period;
\* a met one gives the time to the next period, a number so small that it
\* passed a period after boot: the timer is due at once.
mod_timer(p) == IF age[p] >= Period[p] THEN Period[p] ELSE 0

\* do_yield, second critical section, also if the PCB was freed meanwhile.
YieldArm(p) == /\ ~LockDead
               /\ appGoes(p, "arm", "doze")
               /\ timer' = [timer EXCEPT ![p] = mod_timer(p)]
               /\ UNCHANGED <<processList, yields, age, handler, dispVars,
                              dispState, status, linux, policy, moduleVars>>

\* Faulty: the status is set last, after the timer was started.
YieldDozeMark(p) == /\ appGoes(p, "doze", "run")
                    /\ linux' = [linux EXCEPT ![p] = "uninterruptible"]
                    /\ status' = [status EXCEPT ![p] = "SLEEPING"]
                    /\ UNCHANGED <<processList, yields, timerVars, dispVars,
                                   dispState, policy, moduleVars>>

\* set_task_state(TASK_UNINTERRUPTIBLE), and the write returns.
YieldDoze(p) == /\ appGoes(p, "doze", "run")
                /\ linux' = [linux EXCEPT ![p] = "uninterruptible"]
                /\ UNCHANGED <<processList, yields, timerVars, dispVars,
                               dispState, status, policy, moduleVars>>

\* The kernel switches a task out that is not TASK_RUNNING.  Exiting is another
\* matter: do_exit sets a state of its own.
SwitchOut(p) == /\ linux[p] = "uninterruptible"
                /\ app[p] # "exit"
                /\ linux' = [linux EXCEPT ![p] = "blocked"]
                /\ UNCHANGED <<appVars, timerVars, dispVars, dispState, status,
                               policy, moduleVars>>

\* The PCB is freed; a handler already running keeps its pointer.
de_register(p) == /\ ~LockDead
                  /\ p \in processList
                  /\ yields[p] = 0
                  /\ appGoes(p, "run", "exit")
                  /\ timer' = [timer EXCEPT ![p] = Idle]
                  /\ processList' = processList \ {p}
                  /\ age' = [age EXCEPT ![p] = 0]
                  /\ UNCHANGED <<yields, handler, dispVars, dispState,
                                 status, linux, policy, moduleVars>>

application(p) == \/ Admit(p) \/ add_process(p) \/ YieldMark(p) \/ YieldArm(p)
                  \/ YieldDoze(p) \/ de_register(p)
                  \/ AddTooLate(p) \/ NotFound(p)

-----------------------------------------------------------------------------
\* Time and the timers.

\* start_time can still be looked at.
Dated(p) == p \in processList \/ app[p] = "arm"

Tick == /\ age' = [p \in Apps |-> IF Dated(p) /\ age[p] < Period[p]
                                   THEN age[p] + 1 ELSE age[p]]
        /\ timer' = [p \in Apps |-> IF timer[p] > 0 THEN timer[p] - 1
                                                    ELSE timer[p]]
        /\ UNCHANGED <<appVars, handler, dispVars, dispState, status, linux,
                       policy, moduleVars>>

\* A timer that outlives the module runs into code that is gone, which is not
\* modelled.
Expire(p) == /\ timer[p] = 0
             /\ module # "unloaded"
             /\ handler[p] = "idle"
             /\ timer' = [timer EXCEPT ![p] = Idle]
             /\ handler' = [handler EXCEPT ![p] = "mark"]
             /\ UNCHANGED <<appVars, age, dispVars, dispState, status, linux,
                            policy, moduleVars>>

HandlerMark(p) == /\ ~LockDead
                  /\ handler[p] = "mark"
                  /\ handler' = [handler EXCEPT ![p] = "wake"]
                  /\ status' = [status EXCEPT ![p] = "READY"]
                  /\ UNCHANGED <<appVars, age, timer, dispVars, dispState,
                                 linux, policy, moduleVars>>

\* wake_up_process(mp2_dispatcher)
HandlerWake(p) == /\ handler[p] = "wake"
                  /\ handler' = [handler EXCEPT ![p] = "idle"]
                  /\ dispState' = "running"
                  /\ UNCHANGED <<appVars, age, timer, dispVars, status, linux,
                                 policy, moduleVars>>

timer_handler(p) == HandlerMark(p) \/ HandlerWake(p)

-----------------------------------------------------------------------------
\* The dispatcher.

Ready == {p \in processList : status[p] = "READY"}

Running == {p \in processList : status[p] = "RUNNING"}

\* The READY task with the shortest period, any of them when there are several.
Shortest == {p \in Ready : \A q \in Ready : Period[p] <= Period[q]}

dispGoes(from, to) == disp = from /\ disp' = to

\* The loop ends when the thread is told to stop; otherwise its next round
\* begins in the same step.
ShouldStop == module # "live"

StopThread == /\ ShouldStop
              /\ dispGoes("scan_next", "stopped")
              /\ UNCHANGED <<appVars, timerVars, nextTask, curTask, dispState,
                             status, linux, policy, moduleVars>>

getNextTask == /\ ~ShouldStop
                /\ dispGoes("scan_next", "scan_cur")
                /\ \/ nextTask' \in Shortest
                   \/ Ready = {} /\ nextTask' = NoTask
                /\ UNCHANGED <<appVars, timerVars, curTask, dispState, status,
                               linux, policy, moduleVars>>

\* Faulty: the running task is not looked for.
getNoCurrentTask == /\ dispGoes("scan_cur",
                                IF nextTask = NoTask THEN "demote" ELSE "wake")
                    /\ curTask' = NoTask
                    /\ UNCHANGED <<appVars, timerVars, nextTask, dispState,
                                   status, linux, policy, moduleVars>>

getCurrentTask == /\ dispGoes("scan_cur",
                              IF nextTask = NoTask THEN "demote" ELSE "wake")
                  /\ \/ curTask' \in Running
                     \/ Running = {} /\ curTask' = NoTask
                  /\ UNCHANGED <<appVars, timerVars, nextTask, dispState,
                                 status, linux, policy, moduleVars>>

\* wake_up_process and sched_setscheduler(SCHED_FIFO): the application may run
\* before its status says so.
Wake == /\ dispGoes("wake", "promote")
        /\ linux' = [linux EXCEPT ![nextTask] = "runnable"]
        /\ policy' = [policy EXCEPT ![nextTask] = "FIFO"]
        /\ UNCHANGED <<appVars, timerVars, nextTask, curTask, dispState,
                       status, moduleVars>>

\* The PCB was freed since the list was walked: what it says of linux_task may
\* still be there, or it may be anything.
WakeFreed == /\ nextTask \notin processList
             /\ dispGoes("wake", "crashed")
             /\ UNCHANGED <<appVars, timerVars, nextTask, curTask, dispState,
                            status, linux, policy, moduleVars>>

Promote == /\ dispGoes("promote", "demote")
           /\ status' = [status EXCEPT ![nextTask] = "RUNNING"]
           /\ age' = [age EXCEPT ![nextTask] = 0]
           /\ UNCHANGED <<appVars, timer, handler, nextTask, curTask,
                          dispState, linux, policy, moduleVars>>

\* The end of a round: nothing is remembered of it.
forget == nextTask' = NoTask /\ curTask' = NoTask

NoDemote == /\ curTask = NoTask
            /\ dispGoes("demote", "prepare")
            /\ forget
            /\ UNCHANGED <<appVars, timerVars, dispState, status, linux,
                           policy, moduleVars>>

\* curTask loses SCHED_FIFO, but it is nextTask whose status becomes READY.
Demote == /\ curTask # NoTask
          /\ nextTask # NoTask
          /\ dispGoes("demote", "prepare")
          /\ policy' = [policy EXCEPT ![curTask] = "NORMAL"]
          /\ status' = [status EXCEPT ![nextTask] = "READY"]
          /\ forget
          /\ UNCHANGED <<appVars, timerVars, dispState, linux, moduleVars>>

\* The same code with nextTask = NULL: the thread dies holding list_lock.
DemoteNull == /\ curTask # NoTask
              /\ nextTask = NoTask
              /\ dispGoes("demote", "oops")
              /\ policy' = [policy EXCEPT ![curTask] = "NORMAL"]
              /\ forget
              /\ UNCHANGED <<appVars, timerVars, dispState, status, linux,
                             moduleVars>>

\* set_current_state(TASK_INTERRUPTIBLE): a wake-up that came before is lost.
Prepare == /\ dispGoes("prepare", "schedule")
           /\ dispState' = "interruptible"
           /\ UNCHANGED <<appVars, timerVars, nextTask, curTask, status, linux,
                          policy, moduleVars>>

\* schedule() returns when a wake-up has set the state back.
Schedule == /\ dispState = "running"
            /\ dispGoes("schedule", "scan_next")
            /\ UNCHANGED <<appVars, timerVars, nextTask, curTask, dispState,
                           status, linux, policy, moduleVars>>

kernel_thread_fn == \/ StopThread \/ getNextTask \/ getCurrentTask
                    \/ Wake \/ WakeFreed \/ Promote
                    \/ NoDemote \/ Demote \/ DemoteNull \/ Prepare \/ Schedule

-----------------------------------------------------------------------------
\* mp2_exit

moduleGoes(from, to) == module = from /\ module' = to

\* kthread_stop tells the dispatcher to stop and wakes it ...
ExitStop == /\ moduleGoes("live", "list_cleanup")
            /\ dispState' = "running"
            /\ UNCHANGED <<appVars, timerVars, dispVars, status, linux, policy,
                           overtaken>>

\* Faulty: the timers stay.
list_cleanup_only == /\ ~LockDead
                     /\ disp \in {"stopped", "crashed"}
                     /\ moduleGoes("list_cleanup", "remove_proc")
                     /\ processList' = {}
                     /\ overtaken' = {p \in Apps : app[p] = "arm"}
                     /\ UNCHANGED <<app, yields, timerVars, dispVars,
                                    dispState, status, linux, policy>>

\* ... and waits until its thread has ended, one way or another.  Then the
\* timers are deleted and the PCBs freed, also that of a process in do_yield.
list_cleanup == /\ ~LockDead
                /\ disp \in {"stopped", "crashed"}
                /\ moduleGoes("list_cleanup", "remove_proc")
                /\ processList' = {}
                /\ timer' = [p \in Apps |-> IF p \in processList THEN Idle
                                                               ELSE timer[p]]
                /\ overtaken' = {p \in Apps : app[p] = "arm"}
                /\ age' = [p \in Apps |-> IF app[p] = "arm" THEN age[p] ELSE 0]
                /\ UNCHANGED <<app, yields, handler, dispVars, dispState,
                               status, linux, policy>>

\* remove_proc_entry waits for the calls under way.
ExitFile == /\ moduleGoes("remove_proc", "unloaded")
            /\ \A p \in Apps : app[p] \notin {"admitted", "arm", "doze"}
            /\ UNCHANGED <<appVars, timerVars, dispVars, dispState, status,
                           linux, policy, overtaken>>

mp2_exit == ExitStop \/ list_cleanup \/ ExitFile

-----------------------------------------------------------------------------

Next == \/ \E p \in Apps : application(p) \/ SwitchOut(p) \/ Expire(p)
                             \/ timer_handler(p)
        \/ kernel_thread_fn
        \/ mp2_exit
        \/ Tick

Spec == Init /\ [][Next]_vars

(***************************************************************************)
(* Time passes, due timers fire and their handlers run.  What the timers   *)
(* promise needs no more than that.                                        *)
(***************************************************************************)
TimersFire == /\ WF_vars(Tick)
              /\ \A p \in Apps : WF_vars(Expire(p) \/ timer_handler(p))

FairSpec == Spec /\ TimersFire

\* The kernel also runs the dispatcher and switches sleeping tasks out.
TasksRun == /\ WF_vars(kernel_thread_fn)
            /\ \A p \in Apps : WF_vars(SwitchOut(p))

RunningSpec == FairSpec /\ TasksRun

-----------------------------------------------------------------------------

\* Type of the PCBs, of the applications and of the dispatcher.
TypeOK ==
  /\ processList \subseteq Apps
  /\ status \in [Apps -> {"READY", "RUNNING", "SLEEPING"}]
  /\ age \in [Apps -> Nat]
  /\ \A p \in Apps : age[p] <= Period[p]
  /\ timer \in [Apps -> Nat \cup {Idle}]
  /\ handler \in [Apps -> {"idle", "mark", "wake"}]
  /\ app \in [Apps -> {"start", "admitted", "run", "arm", "doze", "exit",
                        "fault"}]
  /\ yields \in [Apps -> Nat]
  /\ \A p \in Apps : yields[p] <= NumJobs[p] + 1
  /\ linux \in [Apps -> {"runnable", "uninterruptible", "blocked"}]
  /\ policy \in [Apps -> {"FIFO", "NORMAL"}]
  /\ disp \in {"scan_next", "scan_cur", "wake", "promote", "demote", "prepare",
               "schedule", "oops", "crashed", "stopped"}
  /\ nextTask \in Apps \cup {NoTask}
  /\ curTask \in Apps \cup {NoTask}
  /\ dispState \in {"running", "interruptible"}
  /\ module \in {"live", "list_cleanup", "remove_proc", "unloaded"}
  /\ overtaken \subseteq Apps

\* The dispatcher has made nextTask RUNNING and not yet dealt with curTask.
Switching == disp = "demote" /\ nextTask # NoTask /\ curTask # NoTask

\* At most one task is RUNNING, but for the moment between the two critical
\* sections of the dispatcher, and then it is one of the two it looks at.
OneRunning ==
  \A p, q \in Running :
    p = q \/ (Switching /\ {p, q} = {nextTask, curTask})

Yielded(p) == yields[p] <= NumJobs[p]

\* A task that has registered and not yielded yet is left alone: no timer, no
\* handler and no dispatch concern it, and its scheduling is the normal one.
UntouchedBeforeYield ==
  \A p \in processList :
    ~Yielded(p) => /\ status[p] = "SLEEPING" /\ policy[p] = "NORMAL"
                   /\ timer[p] = Idle /\ handler[p] = "idle"
                   /\ p \notin {nextTask, curTask}

\* A task that sleeps until its next job will be made READY: its timer runs or
\* has just expired, whatever the dispatcher and the handler did while it was
\* in do_yield.
SleeperHasTimer ==
  \A p \in processList :
    (status[p] = "SLEEPING" /\ Yielded(p) /\ app[p] # "arm")
      => (timer[p] # Idle \/ handler[p] = "mark")

\* Neither de-registration nor unloading leaves a timer behind in a PCB that is
\* freed, but in that of a process whose do_yield mp2_exit has overtaken; and
\* no PCB is freed by mp2_exit under the eyes of the dispatcher.
NoTimerLeftBehind ==
  /\ \A p \in Apps : timer[p] # Idle => p \in processList \cup overtaken
  /\ CleanedUp => disp \in {"stopped", "crashed"}

\* kernel_thread_fn "prempts the currently running task with the next READY
\* task": after a round of the dispatcher no RUNNING task has lost SCHED_FIFO.
PreemptedIsNotRunning ==
  disp \in {"prepare", "schedule"} => \A p \in Running : policy[p] = "FIFO"

\* Gone for good: the dispatcher dereferenced NULL or a freed PCB, or was
\* stopped.
DispatcherDead == disp \in {"oops", "crashed", "stopped"}

\* The timer of every task that has yielded expires and makes it READY, unless
\* the task leaves before, the dispatcher has died with the lock, or the module
\* is unloaded.
YieldIsReleased ==
  \A p \in Apps :
    (app[p] = "doze")
      ~> (status[p] # "SLEEPING" \/ app[p] = "exit" \/ LockDead \/ CleanedUp)

\* The dispatcher, "when woken up", runs "the next READY task, if available":
\* a READY task that is switched out is woken, or loses its turn.
ReadyIsWoken ==
  \A p \in Apps : (linux[p] = "blocked" /\ status[p] = "READY")
    ~> (\/ linux[p] = "runnable" \/ status[p] # "READY"
        \/ DispatcherDead \/ module # "live")
=============================================================================
