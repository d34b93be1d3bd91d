----------------------------- MODULE SampleRing -----------------------------
(***************************************************************************)
(* The buffer in which MP3 hands its samples to the monitor: MP3/mp3.c     *)
(* fills it sample by sample, MP3/monitor.c maps the same pages, prints    *)
(* what it finds and overwrites it by -1.  The writer holds sharedmemlock, *)
(* the monitor does not know of it: every load and every store of a word   *)
(* is a step of its own.                                                   *)
(*                                                                         *)
(* A word of the k-th sample is the pair of k and its column.              *)
(***************************************************************************)
EXTENDS Integers, SequencesExt

CONSTANTS
  Slots,       \* samples the buffer holds: 12000, BUFD_MAX / 4
  Words,       \* words of a sample: 4
  MaxSamples,  \* bound on the samples that are taken
  Empty,       \* -1
  Garbage      \* any other word that was in the memory before

ASSUME RingAssumption == /\ Slots \in Nat \ {0} /\ Words \in Nat \ {0}
                         /\ MaxSamples \in Nat

\* The counters that are sampled never get to -1.
ASSUME WordAssumption ==
  \A k \in 1 .. MaxSamples, w \in 0 .. Words - 1 :
    <<k, w>> \notin {Empty, Garbage}

VARIABLES
  mem_buf,      \* the words of the buffer
  sampleCount,  \* the slot of the next sample
  stored,       \* how many samples are complete
  column,       \* the next word of the sample under way
  monitor,      \* "idle", "find", "test", "print" or "clear"
  index,        \* its position in the buffer
  line,         \* what it has printed of the line under way
  printed,      \* the words it has printed, ever
  torn          \* have a writer and a monitor ever overlapped, or was the
                \* memory such as if they had?

writerVars == <<sampleCount, stored, column>>
monitorVars == <<monitor, index, line, printed>>
vars == <<mem_buf, writerVars, monitorVars, torn>>

Cells == 0 .. Slots * Words - 1

slotOf(c) == c \div Words

\* No slot is empty in part.
WholeSlots(b) ==
  \A c, d \in Cells : slotOf(c) = slotOf(d) => (b[c] = Empty <=> b[d] = Empty)

\* The word behind the ring is in the mapped pages, too.
Behind == Slots * Words

\* vmalloc does not clear the memory, and nobody sets it to -1.
Init == /\ mem_buf \in [Cells \cup {Behind} -> {Empty, Garbage}]
        /\ sampleCount = 0 /\ stored = 0 /\ column = 0
        /\ monitor = "idle" /\ index = 0 /\ line = << >> /\ printed = {}
        /\ torn = ~WholeSlots(mem_buf)

-----------------------------------------------------------------------------
\* The end of profile_updater_work.

\* Faulty: the last slot is left out.
NextSlotEarly == IF sampleCount + 1 = Slots - 1 THEN 0 ELSE sampleCount + 1

\* Faulty: one slot too many.
NextSlotLate == IF sampleCount = Slots THEN 0 ELSE sampleCount + 1

NextSlot == IF sampleCount + 1 = Slots THEN 0 ELSE sampleCount + 1

WriteWord ==
  /\ stored < MaxSamples /\ column < Words - 1
  /\ mem_buf' = [mem_buf EXCEPT ![sampleCount * Words + column] =
                                  <<stored + 1, column>>]
  /\ column' = column + 1
  /\ torn' = (torn \/ monitor # "idle")
  /\ UNCHANGED <<sampleCount, stored, monitorVars>>

WriteLast ==
  /\ stored < MaxSamples /\ column = Words - 1
  /\ mem_buf' = [mem_buf EXCEPT ![sampleCount * Words + column] =
                                  <<stored + 1, column>>]
  /\ column' = 0
  /\ stored' = stored + 1
  /\ sampleCount' = NextSlot
  /\ torn' = (torn \/ monitor # "idle")
  /\ UNCHANGED monitorVars

profile_updater_work == WriteWord \/ WriteLast

-----------------------------------------------------------------------------
\* MP3/monitor.c, main.

\* Faulty: the first word is left out.
StartSecond == /\ monitor = "idle"
               /\ monitor' = "find"
               /\ index' = 1
               /\ torn' = (torn \/ column # 0)
               /\ UNCHANGED <<mem_buf, writerVars, line, printed>>

Start == /\ monitor = "idle"
         /\ monitor' = "find"
         /\ index' = 0
         /\ torn' = (torn \/ column # 0)
         /\ UNCHANGED <<mem_buf, writerVars, line, printed>>

\* The scan for the first word that is not -1 may run off the end of the ring.
Find == /\ monitor = "find"
        /\ IF index \in Cells /\ mem_buf[index] = Empty
             THEN index' = index + 1 /\ UNCHANGED monitor
             ELSE monitor' = "test" /\ UNCHANGED index
        /\ UNCHANGED <<mem_buf, writerVars, line, printed, torn>>

\* The loop ends at a line that would start with -1.
Test == /\ monitor = "test"
        /\ IF mem_buf[index] # Empty
             THEN monitor' = "print" /\ UNCHANGED index
             ELSE monitor' = "idle" /\ index' = 0
        /\ UNCHANGED <<mem_buf, writerVars, line, printed, torn>>

PrintWord == /\ monitor = "print"
             /\ monitor' = "clear"
             /\ line' = Append(IF Len(line) = Words THEN << >> ELSE line,
                               mem_buf[index])
             /\ printed' = printed \cup ({mem_buf[index]} \ {Empty, Garbage})
             /\ UNCHANGED <<mem_buf, writerVars, index, torn>>

\* Faulty: the index is moved first.
ClearNext == /\ monitor = "clear"
             /\ monitor' = IF Len(line) = Words THEN "test" ELSE "print"
             /\ index' = IF index + 1 >= Behind THEN 0 ELSE index + 1
             /\ mem_buf' = [mem_buf EXCEPT ![index'] = Empty]
             /\ UNCHANGED <<writerVars, line, printed, torn>>

\* buf[index++] = -1, and back to the start of the ring at its end.
ClearWord == /\ monitor = "clear"
             /\ monitor' = IF Len(line) = Words THEN "test" ELSE "print"
             /\ mem_buf' = [mem_buf EXCEPT ![index] = Empty]
             /\ index' = IF index + 1 >= Behind THEN 0 ELSE index + 1
             /\ UNCHANGED <<writerVars, line, printed, torn>>

main == Start \/ Find \/ Test \/ PrintWord \/ ClearWord

-----------------------------------------------------------------------------

Next == profile_updater_work \/ main

Spec == Init /\ [][Next]_vars

-----------------------------------------------------------------------------

Sample(k) == [w \in 1 .. Words |-> <<k, w - 1>>]

SampleWords == (1 .. MaxSamples) \X (0 .. Words - 1)

\* Type of the buffer and of the places of its two users.
TypeOK ==
  /\ mem_buf \in [Cells \cup {Behind} ->
                    SampleWords \cup {Empty, Garbage}]
  /\ sampleCount \in 0 .. Slots - 1
  /\ stored \in 0 .. MaxSamples
  /\ column \in 0 .. Words - 1
  /\ monitor \in {"idle", "find", "test", "print", "clear"}
  /\ index \in 0 .. Behind
  /\ line \in Seq(SampleWords \cup {Empty, Garbage}) /\ Len(line) <= Words
  /\ printed \subseteq SampleWords
  /\ torn \in BOOLEAN

(***************************************************************************)
(* No word is printed twice, however writer and monitor interleave: what   *)
(* has been printed is not in the buffer, but for the word about to be     *)
(* overwritten.                                                            *)
(***************************************************************************)
PrintedOnce ==
  \A c \in Cells : mem_buf[c] \in printed => (monitor = "clear" /\ c = index)

\* "Read and print profiled data" (monitor.c): as long as the two have not
\* overlapped, a line with a word of a sample is that sample, column by column.
LinesAreSamples ==
  (~torn /\ Len(line) = Words) =>
    \/ \E k \in 1 .. stored : line = Sample(k)
    \/ ToSet(line) \subseteq {Empty, Garbage}

(***************************************************************************)
(* As long as the two have not overlapped, a sample that was not printed   *)
(* is still in the buffer until as many samples as it holds have followed. *)
(***************************************************************************)
NothingLost ==
  ~torn =>
    \A k \in 1 .. stored :
      \/ k + Slots <= stored + (IF column = 0 THEN 0 ELSE 1)
      \/ ToSet(Sample(k)) \subseteq printed \cup Range(mem_buf)
=============================================================================
