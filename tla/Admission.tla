----------------------------- MODULE Admission -----------------------------
(***************************************************************************)
(* Registration with the scheduler of mp2/mp2.c, as mp2/userapp.c does it: *)
(* a process writes "R, pid, P, C" to the proc file, then reads the file   *)
(* over and over until it finds its own pid there.                         *)
(*                                                                         *)
(* mp2_write looks at the list in admin_ctrl and changes it in             *)
(* add_process, with the list unlocked in between; it does not tell the    *)
(* process how admin_ctrl has decided.  mp2_read keeps one variable for    *)
(* all readers, read_end, from which it knows that the next read is to     *)
(* return nothing.                                                         *)
(***************************************************************************)
EXTENDS AdmissionTest

CONSTANT Tasks  \* the processes that want to register, once each

ASSUME AdmissionAssumption ==
  /\ IsFiniteSet(Tasks)
  /\ Period \in [Tasks -> Nat \ {0}]
  /\ Computation \in [Tasks -> Nat]
  /\ FCONV \in Nat \ {0} /\ UBBOUND \in Nat /\ IntBound \in Nat \ {0}

VARIABLES app,          \* where each process is
          processList,  \* the registered tasks
          read_end,     \* the next read returns 0
          disturbed     \* history: two writers have been between test and
                        \* insertion at once, or a light task has left

vars == <<app, processList, read_end, disturbed>>

Init == /\ app = [t \in Tasks |-> "start"]
        /\ processList = {}
        /\ read_end = FALSE
        /\ disturbed = FALSE

appGoes(t, from, to) == app[t] = from /\ app' = [app EXCEPT ![t] = to]

-----------------------------------------------------------------------------
\* mp2_write.

\* admin_ctrl, its result 0.  Nothing keeps other writers from testing, adding
\* or removing before this one gets to add_process.
Accept(t) == /\ admin_ctrl(processList, t)
             /\ appGoes(t, "start", "admitted")
             /\ disturbed' = \/ disturbed
                             \/ \E u \in Tasks : app[u] = "admitted"
             /\ UNCHANGED <<processList, read_end>>

\* admin_ctrl, its result -1: the write returns as if all were well.
Reject(t) == /\ ~admin_ctrl(processList, t)
             /\ appGoes(t, "start", "read")
             /\ UNCHANGED <<processList, read_end, disturbed>>

\* Faulty: the process goes on without having been added.
add_process_nothing(t) == /\ appGoes(t, "admitted", "seen")
                          /\ UNCHANGED <<processList, read_end, disturbed>>

add_process(t) == /\ appGoes(t, "admitted", "read")
                  /\ processList' = processList \cup {t}
                  /\ UNCHANGED <<read_end, disturbed>>

\* Every process does so when its jobs are done.  A task is light if it passes
\* the test alone.
de_register(t) == /\ appGoes(t, "seen", "left")
                  /\ processList' = processList \ {t}
                  /\ disturbed' = (disturbed \/ fits({t}))
                  /\ UNCHANGED read_end

mp2_write(t) == Accept(t) \/ Reject(t) \/ add_process(t) \/ de_register(t)

-----------------------------------------------------------------------------
\* mp2_read, called by a process until it sees its own pid.

ReadCall(t) == /\ appGoes(t, "read", IF read_end THEN "reset" ELSE "list")
               /\ UNCHANGED <<processList, read_end>>

\* The list is printed, nothing if there is nobody in it.
ReadList(t) == /\ appGoes(t, "list", CASE processList = {} -> "nothing"
                                       [] t \in processList -> "found"
                                       [] OTHER -> "others")
               /\ UNCHANGED <<processList, read_end>>

\* A read that printed the list returns.
ReadMark(t) == /\ \/ appGoes(t, "found", "seen")
                  \/ appGoes(t, "others", "read")
               /\ read_end' = TRUE
               /\ UNCHANGED processList

\* The same code with nothing printed: 0 is returned.
ReadNothing(t) == /\ appGoes(t, "nothing", "read")
                  /\ read_end' = TRUE
                  /\ UNCHANGED processList

\* Faulty: read_end is not reset.
ReadResetNot(t) == /\ appGoes(t, "reset", "read")
                   /\ UNCHANGED <<processList, read_end>>

\* 0 is returned, and read_end reset; the process opens the file again.
ReadReset(t) == /\ appGoes(t, "reset", "read")
                /\ read_end' = FALSE
                /\ UNCHANGED processList

mp2_read(t) == /\ \/ ReadCall(t) \/ ReadList(t) \/ ReadMark(t)
                  \/ ReadNothing(t) \/ ReadReset(t)
               /\ UNCHANGED disturbed

-----------------------------------------------------------------------------

Next == \E t \in Tasks : mp2_write(t) \/ mp2_read(t)

Spec == Init /\ [][Next]_vars

\* A write and a read that were called go on, and userapp reads in a loop.
Fairness == \A t \in Tasks : WF_vars(add_process(t)) /\ WF_vars(mp2_read(t))

FairSpec == Spec /\ Fairness

-----------------------------------------------------------------------------

\* Type of the list and of the processes.  A process takes itself for
\* registered only if it is, and leaves no entry behind.
TypeOK == /\ app \in [Tasks -> {"start", "admitted", "read", "list", "nothing",
                                "found", "others", "reset", "seen", "left"}]
          /\ processList \subseteq Tasks
          /\ read_end \in BOOLEAN
          /\ disturbed \in BOOLEAN
          /\ \A t \in Tasks :
               /\ app[t] = "seen" => t \in processList
               /\ app[t] \in {"start", "admitted", "left"} =>
                    t \notin processList

\* The product of the periods of a set of tasks.
hyperperiod(tasks) ==
  FoldSet(LAMBDA t, x : Period[t] * x, 1, tasks)

\* The utilisation of a set of tasks, the sum of C/P, times its hyperperiod.
demand(tasks) ==
  MapThenSumSet(LAMBDA t : Computation[t] * hyperperiod(tasks \ {t}), tasks)

\* The sum of C/P is above the bound UBBOUND / FCONV.
OverBound(tasks) == demand(tasks) * FCONV > UBBOUND * hyperperiod(tasks)

\* The tasks ask for more than the whole processor.
Overcommitted(tasks) == demand(tasks) > hyperperiod(tasks)

\* The sum of the periods, the divisor of the test, does not overflow.
PeriodsFit == period_sum(Tasks) < IntBound

\* A task is turned away only when the utilisation with it really is above the
\* bound of the Liu and Layland test: dividing the sums is never stricter than
\* summing the quotients, rounding included, and so is an overflow of the
\* dividend; only the divisor must not overflow (PeriodsFit).
NeverTooStrict ==
  \A t \in Tasks : (app[t] = "start" /\ ~admin_ctrl(processList, t))
                     => OverBound(processList \cup {t})

\* A registered process finds its pid in the file, although every read of
\* another process takes a turn of read_end away from it: only those that were
\* turned away, and read for ever, can keep it from doing so.
RegisteredIsSeen ==
  \A t \in Tasks :
    []<>(\/ app[t] = "seen" \/ t \notin processList
         \/ \E u \in Tasks : /\ app[u] \notin {"start", "admitted", "left"}
                              /\ u \notin processList)

\* Neither sum of the test overflows, scaled or not.
SumsFit == PeriodsFit /\ comp_sum(Tasks) * FCONV < IntBound

\* What admin_ctrl has found holds when add_process acts on it, and the list
\* passes the test at any time, until two writers are between test and
\* insertion at once or a light task leaves, which raises the average of the
\* others.  These are the only two ways to a list that fails the test; heavy
\* tasks may leave at any moment (if the sums fit).
FitsUnlessDisturbed ==
  disturbed \/ /\ processList = {} \/ fits(processList)
               /\ \A t \in Tasks : app[t] = "admitted" =>
                                     admin_ctrl(processList, t)

=============================================================================
