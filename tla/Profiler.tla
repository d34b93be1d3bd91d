------------------------------ MODULE Profiler ------------------------------
(***************************************************************************)
(* MP3/mp3.c: the page fault profiler.  The actors are                     *)
(*   a process   registers, runs, and un-registers or just exits           *)
(*               (MP3/work.c),                                             *)
(*   the handler of work_timer: queues the sampling and starts the timer   *)
(*               again, as long as somebody is registered,                 *)
(*   the worker  of cpu_wq: adds up the counters of the registered         *)
(*               processes and stores a sample,                            *)
(*   the module  whose proc file is there before the buffer is, and which  *)
(*               may be unloaded at any moment.                            *)
(* What happens under list_lock or sharedmemlock is one step; the tests    *)
(* for an empty list, and the walks along the list, are not locked.        *)
(* work_timer.expires is set once, when the module is loaded: a timer that *)
(* is added later may expire at once.                                      *)
(*                                                                         *)
(* A thread that touches an entry another one has freed, adds a timer that *)
(* is pending, divides by zero, or uses a work queue, a buffer or code     *)
(* that is not there, is at "fault".  What a kernel does after that is not *)
(* modelled: nothing happens any more.                                     *)
(***************************************************************************)
EXTENDS Integers, SequencesExt

CONSTANTS
  Procs,  \* the processes that register, once each
  End     \* the head of the list, where a walk ends

ASSUME ProfilerAssumption == End \notin Procs

VARIABLES
  processList,  \* the registered processes, in order of registration
  app,          \* where each process is
  entry, after, \* what each remove_process is about to free, and the entry
                \* behind it
  work_timer,   \* is the timer pending?
  handler,      \* where work_time_handler is
  pending,      \* is profiler_struct queued?
  worker,       \* where profile_updater_work is
  thisProcess, next,  \* the entry it is about to count, and the one behind it
  lastwork,     \* does lastwork equal jiffies?
  module        \* what mp3_init or mp3_exit does next, or "live", "unloaded"

walkVars == <<entry, after>>
timerVars == <<work_timer, handler>>
workVars == <<worker, thisProcess, next>>
vars == <<processList, app, walkVars, timerVars, pending, workVars, lastwork,
          module>>

\* What mp3_init has created and mp3_exit not yet destroyed: the work queue,
\* the sample buffer, and the proc file that takes the calls.
QueueThere == module \in {"vmalloc", "live", "destroy"}
BufferThere == module \in {"live", "destroy", "list_cleanup", "vfree"}
FileThere == module \notin {"rundown", "unloaded"}

Listed == ToSet(processList)

IsEmptyList == processList = << >>

\* The next pointer of an entry in the list.
place(e) == CHOOSE k \in DOMAIN processList : processList[k] = e

following(e) == IF place(e) = Len(processList) THEN End
                ELSE processList[place(e) + 1]

Init == /\ processList = << >>
        /\ app = [p \in Procs |-> "start"]
        /\ entry = [p \in Procs |-> End]
        /\ after = [p \in Procs |-> End]
        /\ work_timer = FALSE
        /\ handler = "idle"
        /\ pending = FALSE
        /\ worker = "idle"
        /\ thisProcess = End
        /\ next = End
        /\ lastwork = FALSE
        /\ module = "vmalloc"

-----------------------------------------------------------------------------
\* add_process, called by mp3_write for "R pid".

appGoes(p, from, to) == app[p] = from /\ app' = [app EXCEPT ![p] = to]

\* Faulty: a process that is registered may register again.
AddCheckAgain(p) ==
  /\ app[p] \in {"start", "running"}
  /\ app' = [app EXCEPT ![p] = IF IsEmptyList THEN "add_timer" ELSE "insert"]
  /\ UNCHANGED <<processList, walkVars, timerVars, pending, workVars,
                 lastwork, module>>

AddCheck(p) == /\ FileThere
               /\ appGoes(p, "start", IF IsEmptyList THEN "add_timer"
                                                     ELSE "insert")
               /\ UNCHANGED <<processList, walkVars, timerVars, pending,
                              workVars, lastwork, module>>

\* add_timer is a bug when the timer is pending.
AddTimer(p) == /\ appGoes(p, "add_timer", IF work_timer THEN "fault"
                                                        ELSE "queue_work")
               /\ work_timer' = TRUE
               /\ UNCHANGED <<processList, walkVars, handler, pending,
                              workVars, lastwork, module>>

AddWork(p) == /\ appGoes(p, "queue_work", IF QueueThere THEN "lastwork"
                                                       ELSE "fault")
              /\ pending' = QueueThere
              /\ UNCHANGED <<processList, walkVars, timerVars, workVars,
                             lastwork, module>>

AddLastwork(p) == /\ appGoes(p, "lastwork", "insert")
                  /\ lastwork' = TRUE
                  /\ UNCHANGED <<processList, walkVars, timerVars, pending,
                                 workVars, module>>

AddInsert(p) == /\ appGoes(p, "insert", "running")
                /\ processList' = Append(processList, p)
                /\ UNCHANGED <<walkVars, timerVars, pending, workVars,
                               lastwork, module>>

add_process(p) == \/ AddCheck(p) \/ AddTimer(p) \/ AddWork(p)
                  \/ AddLastwork(p) \/ AddInsert(p)

\* work.c has no memory and returns, or is killed.
Quit(p) == /\ appGoes(p, "running", "quit")
           /\ UNCHANGED <<processList, walkVars, timerVars, pending, workVars,
                          lastwork, module>>

-----------------------------------------------------------------------------
\* remove_process, called by mp3_write for "U pid".  The pid is not looked at.

RemoveCall(p) ==
  /\ FileThere
  /\ IF IsEmptyList
       THEN appGoes(p, "running", "flush") /\ UNCHANGED walkVars
       ELSE /\ appGoes(p, "running", "delete")
            /\ entry' = [entry EXCEPT ![p] = Head(processList)]
            /\ after' = [after EXCEPT ![p] = following(Head(processList))]
  /\ UNCHANGED <<processList, timerVars, pending, workVars, lastwork, module>>

\* list_del and kfree under the lock, of an entry found without it.
RemoveEntry(p) ==
  /\ IF entry[p] \in Listed
       THEN /\ appGoes(p, "delete", "advance")
            /\ processList' = RemoveAt(processList, place(entry[p]))
       ELSE appGoes(p, "delete", "fault") /\ UNCHANGED processList
  /\ entry' = [entry EXCEPT ![p] = End]
  /\ UNCHANGED <<after, timerVars, pending, workVars, lastwork, module>>

RemoveAdvance(p) ==
  /\ \/ /\ after[p] = End
        /\ appGoes(p, "advance", IF IsEmptyList THEN "flush" ELSE "gone")
        /\ UNCHANGED walkVars
     \/ /\ after[p] \in Listed
        /\ appGoes(p, "advance", "delete")
        /\ entry' = [entry EXCEPT ![p] = after[p]]
        /\ after' = [after EXCEPT ![p] = following(after[p])]
     \/ /\ after[p] \notin Listed \cup {End}
        /\ appGoes(p, "advance", "fault")
        /\ UNCHANGED walkVars
  /\ UNCHANGED <<processList, timerVars, pending, workVars, lastwork, module>>

\* flush_workqueue waits for the work that is queued or runs.
RemoveFlush(p) == /\ ~pending /\ worker = "idle"
                  /\ appGoes(p, "flush", IF QueueThere THEN "gone"
                                                       ELSE "fault")
                  /\ UNCHANGED <<processList, walkVars, timerVars, pending,
                                 workVars, lastwork, module>>

remove_process(p) == \/ RemoveCall(p) \/ RemoveEntry(p) \/ RemoveAdvance(p)
                     \/ RemoveFlush(p)

-----------------------------------------------------------------------------
\* Time, and work_time_handler.

\* The next jiffy.
Tick == /\ lastwork
        /\ lastwork' = FALSE
        /\ UNCHANGED <<processList, app, walkVars, timerVars, pending,
                       workVars, module>>

Expire == /\ work_timer /\ handler = "idle"
          /\ work_timer' = FALSE
          /\ handler' = IF module = "unloaded" THEN "fault" ELSE "check"
          /\ UNCHANGED <<processList, app, walkVars, pending, workVars,
                         lastwork, module>>

handlerGoes(from, to) == handler = from /\ handler' = to

\* Faulty: the handler does not look whether anybody is left.
HandlerAlways == /\ handlerGoes("check", "queue_work")
                 /\ UNCHANGED <<processList, app, walkVars, work_timer,
                                pending, workVars, lastwork, module>>

\* Faulty: the test is the wrong way round.
HandlerInverted == /\ handlerGoes("check", IF IsEmptyList THEN "queue_work"
                                                          ELSE "idle")
                   /\ UNCHANGED <<processList, app, walkVars, work_timer,
                                  pending, workVars, lastwork, module>>

HandlerCheck == /\ handlerGoes("check", IF IsEmptyList THEN "idle"
                                                       ELSE "queue_work")
                /\ UNCHANGED <<processList, app, walkVars, work_timer, pending,
                               workVars, lastwork, module>>

HandlerWork == /\ handlerGoes("queue_work", IF QueueThere THEN "mod_timer"
                                                         ELSE "fault")
               /\ pending' = QueueThere
               /\ UNCHANGED <<processList, app, walkVars, work_timer, workVars,
                              lastwork, module>>

HandlerTimer == /\ handlerGoes("mod_timer", "idle")
                /\ work_timer' = TRUE
                /\ UNCHANGED <<processList, app, walkVars, pending, workVars,
                               lastwork, module>>

work_time_handler == HandlerCheck \/ HandlerWork \/ HandlerTimer

-----------------------------------------------------------------------------
\* profile_updater_work.

UpdaterStart == /\ worker = "idle" /\ pending
                /\ pending' = FALSE
                /\ IF IsEmptyList
                     THEN /\ worker' = "sample"
                          /\ UNCHANGED <<thisProcess, next>>
                     ELSE /\ worker' = "update"
                          /\ thisProcess' = Head(processList)
                          /\ next' = following(Head(processList))
                /\ UNCHANGED <<processList, app, walkVars, timerVars,
                               lastwork, module>>

\* The counters of an entry, under list_lock.
UpdaterCount == /\ worker = "update"
                /\ worker' = IF thisProcess \in Listed THEN "advance"
                                                       ELSE "fault"
                /\ thisProcess' = End
                /\ UNCHANGED <<processList, app, walkVars, timerVars, pending,
                               next, lastwork, module>>

UpdaterAdvance ==
  /\ worker = "advance"
  /\ \/ /\ next = End
        /\ worker' = "sample"
        /\ UNCHANGED <<thisProcess, next>>
     \/ /\ next \in Listed
        /\ worker' = "update"
        /\ thisProcess' = next
        /\ next' = following(next)
     \/ /\ next \notin Listed \cup {End}
        /\ worker' = "fault"
        /\ UNCHANGED <<thisProcess, next>>
  /\ UNCHANGED <<processList, app, walkVars, timerVars, pending, lastwork,
                 module>>

\* The utilisation is divided by the jiffies since lastwork.
UpdaterSample == /\ worker = "sample"
                 /\ worker' = IF lastwork \/ ~BufferThere THEN "fault"
                                                           ELSE "idle"
                 /\ lastwork' = TRUE
                 /\ UNCHANGED <<processList, app, walkVars, timerVars, pending,
                                thisProcess, next, module>>

profile_updater_work == \/ UpdaterStart \/ UpdaterCount \/ UpdaterAdvance
                        \/ UpdaterSample

-----------------------------------------------------------------------------

\* Loading and unloading.  The file is there before the buffer.

moduleGoes(from, to) == module = from /\ module' = to

InitBuffer == /\ moduleGoes("vmalloc", "live")
              /\ UNCHANGED <<processList, app, walkVars, timerVars, pending,
                             workVars, lastwork>>

\* del_timer does not wait for a handler that runs, and sets the timer again.
ExitTimer == /\ moduleGoes("live", "destroy")
             /\ work_timer' = FALSE
             /\ UNCHANGED <<processList, app, walkVars, handler, pending,
                            workVars, lastwork>>

\* Faulty: the work queue goes without its work being done.
DestroyAtOnce == /\ moduleGoes("destroy", "list_cleanup")
                 /\ UNCHANGED <<processList, app, walkVars, timerVars, pending,
                                workVars, lastwork>>

\* destroy_workqueue waits for the work, as flush_workqueue did before it.
ExitQueue == /\ ~pending /\ worker = "idle"
             /\ moduleGoes("destroy", "list_cleanup")
             /\ UNCHANGED <<processList, app, walkVars, timerVars, pending,
                            workVars, lastwork>>

list_cleanup == /\ moduleGoes("list_cleanup", "vfree")
                /\ processList' = << >>
                /\ UNCHANGED <<app, walkVars, timerVars, pending, workVars,
                               lastwork>>

\* vfree, and the start of remove_proc_entry: no new calls.
ExitFile == /\ \/ moduleGoes("vfree", "remove_proc")
               \/ moduleGoes("remove_proc", "rundown")
            /\ UNCHANGED <<processList, app, walkVars, timerVars, pending,
                           workVars, lastwork>>

\* remove_proc_entry waits for the calls, and the kernel for a handler that
\* runs, before the locks and the code are freed.
ExitEnd == /\ moduleGoes("rundown", "unloaded")
           /\ handler = "idle"
           /\ \A p \in Procs : app[p] \in {"start", "running", "gone", "quit"}
           /\ UNCHANGED <<processList, app, walkVars, timerVars, pending,
                          workVars, lastwork>>

mp3_exit == ExitTimer \/ ExitQueue \/ list_cleanup \/ ExitFile \/ ExitEnd

-----------------------------------------------------------------------------

Faulted == \/ worker = "fault" \/ handler = "fault"
           \/ \E p \in Procs : app[p] = "fault"

Next == /\ ~Faulted
        /\ \/ \E p \in Procs : add_process(p) \/ Quit(p) \/ remove_process(p)
           \/ Tick \/ Expire \/ work_time_handler
           \/ profile_updater_work
           \/ InitBuffer \/ mp3_exit

Spec == Init /\ [][Next]_vars

(***************************************************************************)
(* Jiffies pass, the timer expires, its handler and the work run, loading  *)
(* and unloading goes on once begun.  Nobody has to register, to leave or  *)
(* to unload the module; a queue that is destroyed is woken when idle.     *)
(***************************************************************************)
Fairness == /\ WF_vars(~Faulted /\ Tick)
            /\ WF_vars(~Faulted /\ Expire)
            /\ WF_vars(~Faulted /\ work_time_handler)
            /\ WF_vars(~Faulted /\ profile_updater_work)
            /\ WF_vars(~Faulted /\ InitBuffer)
            /\ SF_vars(~Faulted /\ ExitQueue)
            /\ WF_vars(~Faulted /\ list_cleanup)

FairSpec == Spec /\ Fairness

-----------------------------------------------------------------------------

\* Type of the list and of the places of all actors.
TypeOK ==
  /\ processList \in Seq(Procs) /\ IsInjective(processList)
  /\ app \in [Procs -> {"start", "add_timer", "queue_work", "lastwork",
                        "insert", "running", "delete", "advance", "flush",
                        "gone", "quit", "fault"}]
  /\ entry \in [Procs -> Procs \cup {End}]
  /\ after \in [Procs -> Procs \cup {End}]
  /\ work_timer \in BOOLEAN /\ pending \in BOOLEAN /\ lastwork \in BOOLEAN
  /\ handler \in {"idle", "check", "queue_work", "mod_timer", "fault"}
  /\ worker \in {"idle", "update", "advance", "sample", "fault"}
  /\ thisProcess \in Procs \cup {End} /\ next \in Procs \cup {End}
  /\ module \in {"vmalloc", "live", "destroy", "list_cleanup", "vfree",
                 "remove_proc", "rundown", "unloaded"}

\* The processes whose remove_process has begun.
Removers == {p \in Procs : app[p] \in {"delete", "advance", "flush", "gone"}}

(***************************************************************************)
(* Walking without the lock is safe while the list only grows: the worker  *)
(* meets no freed entry before the first process un-registers, and neither *)
(* does that process before a second one does or the module is unloaded.   *)
(* The worker itself has its queue: nothing is queued or runs once         *)
(* mp3_exit has begun to free what the work uses.                          *)
(***************************************************************************)
WalksAreSafe ==
  /\ Removers = {} => /\ worker = "update" => thisProcess \in Listed
                      /\ worker \in {"update", "advance"} =>
                           next \in Listed \cup {End}
  /\ \A p \in Procs : Removers = {p} /\ QueueThere =>
       /\ app[p] = "delete" => entry[p] \in Listed
       /\ app[p] \in {"delete", "advance"} => after[p] \in Listed \cup {End}
  /\ pending \/ worker # "idle" => QueueThere

Quiet == /\ ~work_timer /\ handler = "idle"
         /\ ~pending /\ worker = "idle"

\* "Unregister itself to stop the profiling" (work.c): when everybody has
\* left and the list is empty, timer and work come to rest.
QuietAfterUse ==
  ((\A p \in Procs : app[p] \in {"gone", "quit"}) /\ IsEmptyList)
    ~> (Quiet \/ Faulted)

\* While the timer ticks and somebody is registered samples are taken.
SamplesWhileTicking ==
  (~IsEmptyList /\ (work_timer \/ handler # "idle"))
    ~> (worker = "sample" \/ IsEmptyList \/ Faulted)

\* work_time_handler: "Adds the bottom half to the workqueue and resets the
\* timer".  With somebody registered, and nobody about to be, the timer ticks.
KeepsTicking ==
  (/\ ~IsEmptyList /\ ~Faulted /\ module = "live"
   /\ \A p \in Procs : app[p] \in {"start", "running"})
    => (work_timer \/ handler # "idle")
=============================================================================
