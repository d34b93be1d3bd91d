------------------------- MODULE RMSchedulerProofs -------------------------
(***************************************************************************)
(* Proofs about RMScheduler for every set of applications, all periods and *)
(* any number of jobs.                                                     *)
(***************************************************************************)
EXTENDS RMScheduler, TLAPS

\* Where an application is says whether it is registered, until the list is
\* cleaned up, and whether it has yielded.
AppInv ==
  /\ CleanedUp => processList = {}
  /\ ~CleanedUp => overtaken = {}
  /\ module = "unloaded" =>
       \A p \in Apps : app[p] \notin {"admitted", "arm", "doze"}
  /\ \A p \in Apps :
       /\ ~CleanedUp =>
            (p \in processList <=> app[p] \in {"run", "arm", "doze"})
       /\ app[p] = "arm" => p \in processList \cup overtaken
       /\ app[p] \in {"start", "admitted"} => yields[p] = NumJobs[p] + 1

\* Whatever makes a task known to the timers or to the dispatcher comes after
\* its first yield.
TouchedInv ==
  /\ \A p \in Apps :
       (\/ status[p] # "SLEEPING" \/ policy[p] # "NORMAL" \/ timer[p] # Idle
        \/ handler[p] # "idle" \/ app[p] \in {"arm", "doze"})
         => Yielded(p)
  /\ nextTask # NoTask => Yielded(nextTask)
  /\ curTask # NoTask => Yielded(curTask)

\* Only the dispatcher makes a task RUNNING, and before it does it has found
\* the one that was, if any.
DispatchInv ==
  /\ disp \in {"wake", "promote"} => nextTask # NoTask
  /\ disp \in {"wake", "promote"} => Running \subseteq {curTask}
  /\ disp = "demote" => Running \subseteq {nextTask, curTask}
  /\ disp \notin {"wake", "promote", "demote"} =>
       \A p, q \in Running : p = q

IInv == /\ TypeOK
        /\ AppInv
        /\ TouchedInv
        /\ DispatchInv
        /\ SleeperHasTimer
        /\ NoTimerLeftBehind

-----------------------------------------------------------------------------

LEMMA InitIInv == Init => IInv
  BY SchedulerAssumption
  DEF Init, IInv, TypeOK, AppInv, TouchedInv, DispatchInv, SleeperHasTimer,
      NoTimerLeftBehind, Running, Yielded, Idle, CleanedUp

\* An application registers, yields or leaves.
LEMMA ApplicationStep ==
  ASSUME IInv, NEW a \in Apps, application(a) \/ SwitchOut(a)
  PROVE  IInv'
<1> USE SchedulerAssumption
    DEF IInv, TypeOK, AppInv, TouchedInv, DispatchInv, SleeperHasTimer,
        NoTimerLeftBehind, Running, Yielded, Idle, appGoes, timerVars,
        dispVars, moduleVars, CleanedUp, FileThere
<1>1. CASE Admit(a)
  BY <1>1 DEF Admit
<1>2. CASE add_process(a)
  BY <1>2 DEF add_process
<1>3. CASE YieldMark(a)
  BY <1>3 DEF YieldMark
<1>4. CASE YieldArm(a)
  BY <1>4 DEF YieldArm, mod_timer
<1>5. CASE YieldDoze(a)
  BY <1>5 DEF YieldDoze
<1>6. CASE de_register(a)
  BY <1>6 DEF de_register
<1>7. CASE SwitchOut(a)
  BY <1>7 DEF SwitchOut, appVars
<1>8. CASE AddTooLate(a)
  BY <1>8 DEF AddTooLate
<1>9. CASE NotFound(a)
  BY <1>9 DEF NotFound
<1>10. QED
  BY <1>1, <1>2, <1>3, <1>4, <1>5, <1>6, <1>7, <1>8, <1>9 DEF application

\* Time passes, a timer expires, its handler runs.
LEMMA TimerStep ==
  ASSUME IInv,
         Tick \/ \E a \in Apps : Expire(a) \/ timer_handler(a)
  PROVE  IInv'
<1> USE SchedulerAssumption
    DEF IInv, TypeOK, AppInv, TouchedInv, DispatchInv, SleeperHasTimer,
        NoTimerLeftBehind, Running, Yielded, Idle, appVars, dispVars,
        moduleVars, CleanedUp, Dated
<1>1. CASE Tick
  BY <1>1 DEF Tick
<1>2. ASSUME NEW a \in Apps, Expire(a) PROVE IInv'
  BY <1>2 DEF Expire
<1>3. ASSUME NEW a \in Apps, HandlerMark(a) PROVE IInv'
  BY <1>3 DEF HandlerMark
<1>4. ASSUME NEW a \in Apps, HandlerWake(a) PROVE IInv'
  BY <1>4 DEF HandlerWake
<1>5. QED
  BY <1>1, <1>2, <1>3, <1>4 DEF timer_handler

\* The dispatcher goes through its round.
LEMMA DispatcherStep ==
  ASSUME IInv, kernel_thread_fn
  PROVE  IInv'
<1> USE SchedulerAssumption
    DEF IInv, TypeOK, AppInv, TouchedInv, DispatchInv, SleeperHasTimer,
        NoTimerLeftBehind, Running, Yielded, Idle, appVars, timerVars,
        moduleVars, CleanedUp, ShouldStop, dispGoes, forget
<1>1. CASE getNextTask
  BY <1>1 DEF getNextTask, Shortest, Ready
<1>2. CASE getCurrentTask
  BY <1>2 DEF getCurrentTask
<1>3. CASE Wake
  BY <1>3 DEF Wake
<1>4. CASE WakeFreed
  BY <1>4 DEF WakeFreed
<1>5. CASE Promote
  BY <1>5 DEF Promote
<1>6. CASE NoDemote
  BY <1>6 DEF NoDemote
<1>7. CASE Demote
  BY <1>7 DEF Demote
<1>8. CASE DemoteNull
  BY <1>8 DEF DemoteNull
<1>9. CASE Prepare \/ Schedule \/ StopThread
  BY <1>9 DEF Prepare, Schedule, StopThread
<1>10. QED
  BY <1>1, <1>2, <1>3, <1>4, <1>5, <1>6, <1>7, <1>8, <1>9
  DEF kernel_thread_fn

\* The module is unloaded.
LEMMA UnloadStep ==
  ASSUME IInv, mp2_exit
  PROVE  IInv'
<1> USE SchedulerAssumption
    DEF IInv, TypeOK, AppInv, TouchedInv, DispatchInv, SleeperHasTimer,
        NoTimerLeftBehind, Running, Yielded, Idle, CleanedUp, appVars,
        timerVars, dispVars, moduleGoes
<1>1. CASE ExitStop
  BY <1>1 DEF ExitStop
<1>2. CASE list_cleanup
  BY <1>2 DEF list_cleanup
<1>3. CASE ExitFile
  BY <1>3 DEF ExitFile
<1>4. QED
  BY <1>1, <1>2, <1>3 DEF mp2_exit

LEMMA NextIInv == IInv /\ [Next]_vars => IInv'
<1> SUFFICES ASSUME IInv, [Next]_vars PROVE IInv'
  OBVIOUS
<1>1. CASE Next
  BY <1>1, ApplicationStep, TimerStep, DispatcherStep, UnloadStep DEF Next
<1>2. CASE UNCHANGED vars
  BY <1>2
  DEF vars, appVars, timerVars, dispVars, moduleVars, CleanedUp, IInv,
      TypeOK, AppInv, TouchedInv, DispatchInv, SleeperHasTimer,
      NoTimerLeftBehind, Running, Yielded
<1>3. QED
  BY <1>1, <1>2

LEMMA SpecIInv == Spec => []IInv
  BY InitIInv, NextIInv, PTL DEF Spec

-----------------------------------------------------------------------------

\* The PCBs, the applications and the dispatcher keep their types.
THEOREM TypeCorrect == Spec => []TypeOK
<1>1. IInv => TypeOK
  BY DEF IInv
<1>2. QED
  BY <1>1, SpecIInv, PTL

\* Two tasks are RUNNING only while the dispatcher switches between them.
THEOREM AtMostOneRunning == Spec => []OneRunning
<1>1. IInv => OneRunning
  <2> SUFFICES ASSUME IInv, NEW p \in Running, NEW q \in Running, p # q
               PROVE  Switching /\ {p, q} = {nextTask, curTask}
    BY DEF OneRunning
  <2>1. disp = "demote"
    BY DEF IInv, DispatchInv
  <2>2. p \in {nextTask, curTask} /\ q \in {nextTask, curTask}
    BY <2>1 DEF IInv, DispatchInv
  <2>3. p # NoTask /\ q # NoTask
    BY SchedulerAssumption DEF IInv, TypeOK, Running
  <2>4. QED
    BY <2>1, <2>2, <2>3 DEF Switching
<1>2. QED
  BY <1>1, SpecIInv, PTL

\* Registering alone does not subject a task to the scheduler.
THEOREM LeftAloneBeforeYield == Spec => []UntouchedBeforeYield
<1>1. IInv => UntouchedBeforeYield
  BY SchedulerAssumption
  DEF IInv, TypeOK, TouchedInv, UntouchedBeforeYield, Yielded
<1>2. QED
  BY <1>1, SpecIInv, PTL

\* No task sleeps without a timer that will make it READY.
THEOREM SleepersWillBeReady == Spec => []SleeperHasTimer
<1>1. IInv => SleeperHasTimer
  BY DEF IInv
<1>2. QED
  BY <1>1, SpecIInv, PTL

\* De-registration and unloading leave no timer pending in a freed PCB, unless
\* its process was in do_yield, and the PCBs outlive the dispatcher.
THEOREM NoTimerInFreedPCB == Spec => []NoTimerLeftBehind
<1>1. IInv => NoTimerLeftBehind
  BY DEF IInv
<1>2. QED
  BY <1>1, SpecIInv, PTL
=============================================================================
