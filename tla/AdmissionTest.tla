--------------------------- MODULE AdmissionTest ---------------------------
(***************************************************************************)
(* admin_ctrl of mp2/mp2.c in the int arithmetic it is written in: a sum   *)
(* of computation times over a sum of periods, scaled by FCONV.            *)
(***************************************************************************)
EXTENDS Integers, FiniteSetsExt

CONSTANTS Period, Computation,  \* parameters of each task, in jiffies
          FCONV, UBBOUND,       \* the scale, and the scaled utilisation bound
          IntBound              \* ints are in -IntBound .. IntBound - 1

\* An int that overflows wraps around.
wrap(x) == ((x + IntBound) % (2 * IntBound)) - IntBound

Abs(x) == IF x < 0 THEN -x ELSE x

\* C's division rounds towards zero.
quotient(a, b) ==
  LET magnitude == Abs(a) \div Abs(b)
  IN  IF (a < 0) = (b < 0) THEN magnitude ELSE -magnitude

comp_sum(tasks) == MapThenSumSet(LAMBDA t : Computation[t], tasks)

period_sum(tasks) == MapThenSumSet(LAMBDA t : Period[t], tasks)

\* The set of registered tasks and p together are under the bound.
fits(tasks) ==
  quotient(wrap(wrap(comp_sum(tasks)) * FCONV), wrap(period_sum(tasks)))
    <= UBBOUND

\* Faulty: the new task is counted twice.
admin_ctrl_twice(list, p) ==
  quotient((comp_sum(list \cup {p}) + Computation[p]) * FCONV,
           period_sum(list \cup {p})) <= UBBOUND

\* Faulty: the new task is not counted unless it is the first.
admin_ctrl_without(list, p) == fits(IF list = {} THEN {p} ELSE list)

admin_ctrl(list, p) == fits(list \cup {p})
=============================================================================
