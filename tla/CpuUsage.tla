------------------------------ MODULE CpuUsage ------------------------------
(***************************************************************************)
(* MP1/mp1.c: a kernel module that records the CPU time of the processes   *)
(* that write their pid to /proc/mp1/status.  The actors are               *)
(*   a process      registers, runs and exits (MP1/userapp.c),             *)
(*   the handler    of work_timer: queues the update and starts the timer  *)
(*                  again,                                                 *)
(*   the worker     of cpu_wq: walks the list and updates or removes,      *)
(*   readers        of the file, which share one read_end,                 *)
(*   the unloader   mp1_exit, which may come at any moment.                *)
(* What happens under list_lock is one step.  The worker follows the       *)
(* pointers between the entries without the lock.                          *)
(***************************************************************************)
EXTENDS Integers, SequencesExt

CONSTANTS
  Procs,    \* the processes that register, once each
  End,      \* the head of the list, where a walk ends
  MaxTime   \* bound on the CPU time of a process

ASSUME UsageAssumption == End \notin Procs /\ MaxTime \in Nat

VARIABLES
  processList,  \* the registered processes, in order of registration
  cpu_use,      \* the field of each entry, 0 when there is none
  proc,         \* "new", "running" or "exited"
  utime,        \* the CPU time the kernel counts for each process
  work_timer,   \* is the timer pending?
  handler,      \* where work_time_handler is
  pending,      \* is update_cpu_times queued?
  worker,       \* where cpu_time_updater_work is
  thisProcess, next,  \* its position in the list
  read_end,     \* has the file been shown to a reader that is to get 0 next?
  module        \* how far mp1_exit is

procVars == <<proc, utime>>
timerVars == <<work_timer, handler>>
workVars == <<worker, thisProcess, next>>
vars == <<processList, cpu_use, procVars, timerVars, pending, workVars,
          read_end, module>>

Listed == ToSet(processList)

\* mp1_init: the module is loaded and its timer runs.
Init == /\ processList = << >>
        /\ cpu_use = [p \in Procs |-> 0]
        /\ proc = [p \in Procs |-> "new"]
        /\ utime = [p \in Procs |-> 0]
        /\ work_timer = TRUE
        /\ handler = "idle"
        /\ pending = FALSE
        /\ worker = "idle"
        /\ thisProcess = End
        /\ next = End
        /\ read_end = FALSE
        /\ module = "loaded"

\* The proc file exists: the module is there.
HasFile == module # "removed"

HasQueue == module \in {"loaded", "timer_deleted"}

-----------------------------------------------------------------------------
\* The processes.

\* Faulty: a process can be added again and again.
add_process_again(p) == /\ HasFile
                        /\ proc[p] # "exited"
                        /\ proc' = [proc EXCEPT ![p] = "running"]
                        /\ processList' = Append(processList, p)
                        /\ UNCHANGED <<cpu_use, utime, timerVars, pending,
                                       workVars, read_end, module>>

\* mp1_write and add_process.
add_process(p) == /\ HasFile
                  /\ proc[p] = "new"
                  /\ proc' = [proc EXCEPT ![p] = "running"]
                  /\ processList' = Append(processList, p)
                  /\ UNCHANGED <<cpu_use, utime, timerVars, pending,
                                 workVars, read_end, module>>

Run(p) == /\ proc[p] = "running"
          /\ utime[p] < MaxTime
          /\ utime' = [utime EXCEPT ![p] = @ + 1]
          /\ UNCHANGED <<processList, cpu_use, proc, timerVars, pending,
                         workVars, read_end, module>>

\* The kernel's count ends with the process.
Exit(p) == /\ proc[p] = "running"
           /\ proc' = [proc EXCEPT ![p] = "exited"]
           /\ utime' = [utime EXCEPT ![p] = 0]
           /\ UNCHANGED <<processList, cpu_use, timerVars, pending,
                          workVars, read_end, module>>

-----------------------------------------------------------------------------
\* work_time_handler.

Expire == /\ work_timer /\ handler = "idle"
          /\ work_timer' = FALSE
          /\ handler' = "queue"
          /\ UNCHANGED <<processList, cpu_use, procVars, pending, workVars,
                         module, read_end>>

\* queue_work does nothing to work that is queued already.
HandlerQueue == /\ handler = "queue" /\ HasQueue
                /\ handler' = "rearm"
                /\ pending' = TRUE
                /\ UNCHANGED <<processList, cpu_use, procVars, work_timer,
                               workVars, read_end, module>>

\* Faulty: the timer runs once.
HandlerStops == /\ handler = "rearm" /\ HasFile
                /\ handler' = "idle"
                /\ UNCHANGED <<processList, cpu_use, procVars, work_timer,
                               pending, workVars, read_end, module>>

\* mod_timer starts the timer whether or not it was deleted in between.
HandlerRearm == /\ handler = "rearm" /\ HasFile
                /\ handler' = "idle"
                /\ work_timer' = TRUE
                /\ UNCHANGED <<processList, cpu_use, procVars, pending,
                               workVars, read_end, module>>

\* The work queue is destroyed, or the whole module is gone.
HandlerFault == /\ \/ handler = "queue" /\ ~HasQueue
                   \/ handler = "rearm" /\ ~HasFile
                /\ handler' = "fault"
                /\ UNCHANGED <<processList, cpu_use, procVars, work_timer,
                               pending, workVars, read_end, module>>

work_time_handler == HandlerQueue \/ HandlerRearm \/ HandlerFault

-----------------------------------------------------------------------------
\* cpu_time_updater_work.

place(e) == CHOOSE k \in DOMAIN processList : processList[k] = e

\* The entry after e, as its next pointer says.
after(e) == IF place(e) = Len(processList) THEN End
            ELSE processList[place(e) + 1]

\* Faulty: the walk begins behind the first entry.
UpdaterStartSecond == /\ HasQueue
                      /\ worker = "idle" /\ pending
                      /\ pending' = FALSE
                      /\ IF Len(processList) < 2
                           THEN UNCHANGED workVars
                           ELSE /\ worker' = "update"
                                /\ thisProcess' = processList[2]
                                /\ next' = after(processList[2])
                      /\ UNCHANGED <<processList, cpu_use, procVars, timerVars,
                                     module, read_end>>

\* list_for_each_entry_safe: the entry and its successor are read together.
UpdaterStart == /\ HasQueue
                /\ worker = "idle" /\ pending
                /\ pending' = FALSE
                /\ IF processList = << >>
                     THEN UNCHANGED workVars
                     ELSE /\ worker' = "update"
                          /\ thisProcess' = Head(processList)
                          /\ next' = after(Head(processList))
                /\ UNCHANGED <<processList, cpu_use, procVars, timerVars,
                               module, read_end>>

\* get_cpu_use succeeds: the time is stored.
UpdateTime == /\ worker = "update"
              /\ proc[thisProcess] = "running"
              /\ worker' = "advance"
              /\ cpu_use' = [cpu_use EXCEPT ![thisProcess] =
                                              utime[thisProcess]]
              /\ UNCHANGED <<processList, procVars, timerVars, pending,
                             thisProcess, next, read_end, module>>

\* Faulty: the test is the wrong way round.
RemoveRunning == /\ worker = "update"
                 /\ proc[thisProcess] = "running"
                 /\ worker' = "advance"
                 /\ processList' = RemoveAt(processList, place(thisProcess))
                 /\ UNCHANGED <<cpu_use, procVars, timerVars, pending,
                                thisProcess, next, read_end, module>>

\* get_cpu_use fails: list_del and kfree.
RemoveEntry == /\ worker = "update"
               /\ proc[thisProcess] = "exited"
               /\ worker' = "advance"
               /\ processList' = RemoveAt(processList, place(thisProcess))
               /\ cpu_use' = [cpu_use EXCEPT ![thisProcess] = 0]
               /\ UNCHANGED <<procVars, timerVars, pending,
                              thisProcess, next, read_end, module>>

\* On to the successor read before, and the walk ends at the head of the list.
Advance == /\ worker = "advance"
           /\ worker' = IF next = End THEN "idle" ELSE "update"
           /\ thisProcess' = next
           /\ next' = IF next = End THEN End ELSE after(next)
           /\ UNCHANGED <<processList, cpu_use, procVars, timerVars, pending,
                          module, read_end>>

cpu_time_updater_work == UpdaterStart \/ UpdateTime \/ RemoveEntry \/ Advance

-----------------------------------------------------------------------------
\* mp1_read: read_end belongs to all readers, so that the end of the file may
\* be told to one that has not been shown anything.  A read is one step: calls
\* that overlap only show the list once more.

\* Faulty: read_end is not reset.
ReadEndOnly == /\ HasFile /\ read_end
               /\ UNCHANGED vars

ReadEnd == /\ HasFile /\ read_end
           /\ read_end' = FALSE
           /\ UNCHANGED <<processList, cpu_use, procVars, timerVars, pending,
                          workVars, module>>

\* A reader is shown the entries.
ReadList == /\ HasFile /\ ~read_end
            /\ read_end' = TRUE
            /\ UNCHANGED <<processList, cpu_use, procVars, timerVars, pending,
                           workVars, module>>

mp1_read == ReadList \/ ReadEnd

-----------------------------------------------------------------------------
\* mp1_exit.

exitGoes(from, to) == module = from /\ module' = to

\* del_timer does not wait for a handler that runs.
DeleteTimer == /\ exitGoes("loaded", "timer_deleted")
               /\ work_timer' = FALSE
               /\ UNCHANGED <<processList, cpu_use, procVars, handler, pending,
                              workVars, read_end>>

\* Faulty: does not wait for the work.
DestroyAtOnce == /\ exitGoes("timer_deleted", "destroyed")
                 /\ UNCHANGED <<processList, cpu_use, procVars, timerVars,
                                pending, workVars, read_end>>

\* flush_workqueue and destroy_workqueue return when no work is left.
DestroyQueue == /\ exitGoes("timer_deleted", "destroyed")
                /\ ~pending /\ worker = "idle"
                /\ UNCHANGED <<processList, cpu_use, procVars, timerVars,
                               pending, workVars, read_end>>

list_cleanup == /\ exitGoes("destroyed", "cleaned")
                /\ processList' = << >>
                /\ cpu_use' = [p \in Procs |-> 0]
                /\ UNCHANGED <<procVars, timerVars, pending,
                               workVars, read_end>>

RemoveFile == /\ exitGoes("cleaned", "removed")
              /\ UNCHANGED <<processList, cpu_use, procVars, timerVars,
                             pending, workVars, read_end>>

mp1_exit == DeleteTimer \/ DestroyQueue \/ list_cleanup \/ RemoveFile

-----------------------------------------------------------------------------

Next == \/ \E p \in Procs : add_process(p) \/ Run(p) \/ Exit(p)
        \/ Expire \/ work_time_handler
        \/ cpu_time_updater_work
        \/ mp1_read
        \/ mp1_exit

Spec == Init /\ [][Next]_vars

(***************************************************************************)
(* The timer expires, its handler and the work run, and somebody looks at  *)
(* the file again and again.  Nobody has to register, to exit or to        *)
(* unload.                                                                 *)
(***************************************************************************)
Fairness == /\ WF_vars(Expire)
            /\ WF_vars(work_time_handler)
            /\ WF_vars(cpu_time_updater_work)
            /\ WF_vars(mp1_read)

FairSpec == Spec /\ Fairness

-----------------------------------------------------------------------------

\* Type of the list, of the processes and of the places of all actors.
TypeOK ==
  /\ processList \in Seq(Procs) /\ IsInjective(processList)
  /\ cpu_use \in [Procs -> 0 .. MaxTime]
  /\ proc \in [Procs -> {"new", "running", "exited"}]
  /\ utime \in [Procs -> 0 .. MaxTime]
  /\ work_timer \in BOOLEAN
  /\ handler \in {"idle", "queue", "rearm", "fault"}
  /\ pending \in BOOLEAN
  /\ worker \in {"idle", "update", "advance"}
  /\ thisProcess \in Procs \cup {End} /\ next \in Procs \cup {End}
  /\ read_end \in BOOLEAN
  /\ module \in {"loaded", "timer_deleted", "destroyed", "cleaned", "removed"}

\* The walk never follows a pointer into an entry that was freed, not even
\* while the list grows behind its back or the module is being unloaded.
WalkIsSafe ==
  /\ worker = "update" => thisProcess \in Listed
  /\ worker # "idle" => next \in Listed \cup {End}

\* A registered process is in the list for as long as it runs and the list
\* has not been cleaned up.
NobodyForgotten ==
  module \notin {"cleaned", "removed"} =>
    \A p \in Procs : proc[p] = "running" => p \in Listed

\* cpu_time_updater_work: "If a process has finished, it removes the process
\* from the list".  It takes a round of the timer, or several when the process
\* registered in the middle of a walk, unless the module is unloaded before.
FinishedIsRemoved ==
  \A p \in Procs :
    (proc[p] = "exited") ~> (p \notin Listed \/ module # "loaded")

\* The final time of a process that goes on running is recorded and shown to
\* readers for good, though they take the end of the file from each other.
UsageIsShown ==
  \A p \in Procs :
    <>[](proc[p] = "running" /\ utime[p] = MaxTime /\ module = "loaded")
      => []<><<ReadList /\ p \in Listed /\ cpu_use[p] = MaxTime>>_vars
=============================================================================
