---------------------------- MODULE CpuUsageProofs ----------------------------
(***************************************************************************)
(* Proofs about CpuUsage for every set of processes: the walk that follows *)
(* the pointers without the lock, against registrations, exits and the     *)
(* unloading of the module.                                                *)
(***************************************************************************)
EXTENDS CpuUsage, SequenceTheorems, TLAPS

\* Where the walk stands, and where it will go next, are two entries.
WalkInv ==
  /\ worker = "update" => thisProcess \in Listed /\ next # thisProcess
  /\ worker # "idle" => next \in Listed \cup {End}

\* Without a work queue there is neither a walk nor work that waits.
QuietInv == ~HasQueue => worker = "idle" /\ ~pending

\* Who has not registered is not in the list.
NewInv == \A p \in Procs : proc[p] = "new" => p \notin Listed

IInv == /\ TypeOK
        /\ WalkInv
        /\ QuietInv
        /\ NewInv
        /\ NobodyForgotten

-----------------------------------------------------------------------------
\* The list

LEMMA Place ==
  ASSUME TypeOK, NEW e \in Listed
  PROVE  place(e) \in 1 .. Len(processList) /\ processList[place(e)] = e
<1>1. \E k \in DOMAIN processList : processList[k] = e
  BY DEF Listed, ToSet
<1>2. DOMAIN processList = 1 .. Len(processList)
  BY DEF TypeOK
<1>3. QED
  BY <1>1, <1>2 DEF place

LEMMA ListedProcs ==
  ASSUME TypeOK
  PROVE  Listed \subseteq Procs /\ End \notin Listed
<1>1. Listed \subseteq Procs
  BY DEF TypeOK, Listed, ToSet
<1>2. QED
  BY <1>1, UsageAssumption

\* The successor of an entry is another entry or the head of the list.
LEMMA After ==
  ASSUME TypeOK, NEW e \in Listed
  PROVE  after(e) \in (Listed \cup {End}) \ {e}
<1>1. place(e) \in 1 .. Len(processList) /\ processList[place(e)] = e
  BY Place
<1>2. CASE place(e) = Len(processList)
  BY <1>2, ListedProcs DEF after
<1>3. CASE place(e) # Len(processList)
  <2>1. place(e) + 1 \in DOMAIN processList /\ place(e) \in DOMAIN processList
    BY <1>1, <1>3 DEF TypeOK
  <2>2. after(e) = processList[place(e) + 1]
    BY <1>3 DEF after
  <2>3. after(e) \in Listed
    BY <2>1, <2>2 DEF Listed, ToSet
  <2>4. after(e) # e
    BY <1>1, <2>1, <2>2 DEF TypeOK, IsInjective
  <2>5. QED
    BY <2>3, <2>4
<1>4. QED
  BY <1>2, <1>3

\* list_add_tail
LEMMA Added ==
  ASSUME TypeOK, NEW p \in Procs, p \notin Listed
  PROVE  LET l == Append(processList, p) IN
           /\ l \in Seq(Procs) /\ IsInjective(l)
           /\ ToSet(l) = Listed \cup {p}
<1> DEFINE l == Append(processList, p)
           n == Len(processList)
<1>1. /\ n \in Nat /\ DOMAIN processList = 1 .. n
      /\ l \in Seq(Procs) /\ DOMAIN l = 1 .. n + 1
      /\ \A i \in 1 .. n : l[i] = processList[i]
      /\ l[n + 1] = p
  BY DEF TypeOK
<1>2. \A i \in 1 .. n : processList[i] # p
  BY <1>1 DEF Listed, ToSet
<1>3. IsInjective(l)
  BY <1>1, <1>2 DEF TypeOK, IsInjective
<1>4. ToSet(l) = Listed \cup {p}
  BY <1>1 DEF Listed, ToSet
<1>5. QED
  BY <1>1, <1>3, <1>4

LEMMA WithoutPlace ==
  ASSUME NEW S, NEW s \in Seq(S), NEW k \in 1 .. Len(s)
  PROVE  /\ RemoveAt(s, k) \in Seq(S)
         /\ Len(RemoveAt(s, k)) = Len(s) - 1
         /\ \A i \in 1 .. Len(s) - 1 :
              RemoveAt(s, k)[i] = IF i < k THEN s[i] ELSE s[i + 1]
<1> DEFINE front == SubSeq(s, 1, k - 1)
           back == SubSeq(s, k + 1, Len(s))
<1>1. Len(s) \in Nat /\ \A i \in 1 .. Len(s) : s[i] \in S
  OBVIOUS
<1>2. /\ front \in Seq(S) /\ Len(front) = k - 1
      /\ \A i \in 1 .. k - 1 : front[i] = s[i]
  BY <1>1, SubSeqProperties
<1>3. /\ back \in Seq(S) /\ Len(back) = Len(s) - k
      /\ \A i \in 1 .. Len(s) - k : back[i] = s[i + k]
  BY <1>1, SubSeqProperties
<1>4. RemoveAt(s, k) = front \o back
  BY DEF RemoveAt
<1> HIDE DEF front, back
<1>5. /\ front \o back \in Seq(S) /\ Len(front \o back) = Len(s) - 1
      /\ \A i \in 1 .. Len(s) - 1 :
           (front \o back)[i] = IF i <= k - 1 THEN front[i]
                                ELSE back[i - (k - 1)]
  BY <1>1, <1>2, <1>3, ConcatProperties
<1>6. QED
  BY <1>1, <1>2, <1>3, <1>4, <1>5

\* list_del
LEMMA Removed ==
  ASSUME TypeOK, NEW e \in Listed
  PROVE  LET l == RemoveAt(processList, place(e)) IN
           /\ l \in Seq(Procs) /\ IsInjective(l)
           /\ ToSet(l) = Listed \ {e}
<1> DEFINE l == RemoveAt(processList, place(e))
           n == Len(processList)
           k == place(e)
<1>1. /\ n \in Nat /\ DOMAIN processList = 1 .. n
      /\ k \in 1 .. n /\ processList[k] = e
      /\ \A i, j \in 1 .. n : processList[i] = processList[j] => i = j
  <2>1. n \in Nat /\ DOMAIN processList = 1 .. n
    BY DEF TypeOK
  <2>2. k \in 1 .. n /\ processList[k] = e
    BY Place
  <2>3. QED
    BY <2>1, <2>2 DEF TypeOK, IsInjective
<1>2. /\ l \in Seq(Procs) /\ Len(l) = n - 1
      /\ \A i \in 1 .. n - 1 :
           l[i] = IF i < k THEN processList[i] ELSE processList[i + 1]
  BY <1>1, WithoutPlace DEF TypeOK
<1> HIDE DEF l, n, k
<1>3. DOMAIN l = 1 .. n - 1
  BY <1>1, <1>2
<1>4. IsInjective(l)
  BY <1>1, <1>2, <1>3 DEF IsInjective
<1>5. ASSUME NEW i \in DOMAIN l PROVE l[i] \in Listed \ {e}
  <2>1. PICK j \in 1 .. n : l[i] = processList[j] /\ j # k
    <3>1. CASE i < k
      BY <1>1, <1>2, <1>3, <3>1
    <3>2. CASE ~(i < k)
      BY <1>1, <1>2, <1>3, <3>2
    <3>3. QED
      BY <3>1, <3>2
  <2>2. QED
    BY <1>1, <2>1 DEF Listed, ToSet
<1>6. ASSUME NEW q \in Listed \ {e} PROVE \E i \in DOMAIN l : l[i] = q
  <2>1. PICK i \in 1 .. n : processList[i] = q /\ i # k
    BY <1>1 DEF Listed, ToSet
  <2>2. CASE i < k
    BY <1>1, <1>2, <1>3, <2>1, <2>2
  <2>3. CASE i > k
    <3>1. i - 1 \in 1 .. n - 1 /\ l[i - 1] = q
      BY <1>1, <1>2, <2>1, <2>3
    <3>2. QED
      BY <1>3, <3>1
  <2>4. QED
    BY <1>1, <2>1, <2>2, <2>3
<1>7. ToSet(l) = Listed \ {e}
  BY <1>5, <1>6 DEF ToSet
<1>8. QED
  BY <1>2, <1>4, <1>7 DEF l

-----------------------------------------------------------------------------
\* The invariant

LEMMA InitIInv == Init => IInv
<1> SUFFICES ASSUME Init PROVE IInv
  OBVIOUS
<1>1. DOMAIN processList = {}
  BY DEF Init
<1>2. Listed = {} /\ IsInjective(processList)
  BY <1>1 DEF Listed, ToSet, IsInjective
<1>3. TypeOK
  <2>1. processList \in Seq(Procs) /\ IsInjective(processList)
    BY <1>2 DEF Init
  <2>2. 0 \in 0 .. MaxTime
    BY UsageAssumption
  <2>3. QED
    BY <2>1, <2>2 DEF Init, TypeOK
<1>4. QED
  BY <1>2, <1>3
  DEF Init, IInv, WalkInv, QuietInv, HasQueue, NewInv, NobodyForgotten

\* A registration extends the list behind the walk.
LEMMA AddStep ==
  ASSUME IInv, NEW p \in Procs, add_process(p)
  PROVE  IInv'
<1>1. TypeOK /\ p \notin Listed
  BY DEF IInv, NewInv, add_process
<1>2. /\ processList' \in Seq(Procs) /\ IsInjective(processList')
      /\ Listed' = Listed \cup {p}
  BY <1>1, Added DEF add_process, Listed
<1>3. proc' = [proc EXCEPT ![p] = "running"]
  BY DEF add_process
<1>4. UNCHANGED <<cpu_use, utime, timerVars, pending, workVars, read_end,
                  module>>
  BY DEF add_process
<1>5. TypeOK'
  BY <1>1, <1>2, <1>3, <1>4 DEF TypeOK, timerVars, workVars
<1>6. QED
  BY <1>1, <1>2, <1>3, <1>4, <1>5
  DEF IInv, WalkInv, QuietInv, HasQueue, NewInv, NobodyForgotten, TypeOK,
      workVars

\* What changes neither the list nor the walk.
LEMMA OtherStep ==
  ASSUME IInv,
         \/ \E p \in Procs : Run(p) \/ Exit(p)
         \/ Expire \/ work_time_handler \/ mp1_read
         \/ DeleteTimer \/ DestroyQueue \/ RemoveFile
         \/ UNCHANGED vars
  PROVE  IInv'
<1>1. UNCHANGED processList /\ Listed' = Listed
  BY DEF Run, Exit, Expire, work_time_handler, HandlerQueue, HandlerRearm,
         HandlerFault, mp1_read, ReadList, ReadEnd, DeleteTimer, DestroyQueue,
         RemoveFile, vars, Listed
<1> USE <1>1 DEF IInv, WalkInv, QuietInv, HasQueue, NewInv, NobodyForgotten,
                 TypeOK, procVars, timerVars, workVars
<1>2. ASSUME NEW p \in Procs, Run(p) PROVE IInv'
  <2>1. utime[p] + 1 \in 0 .. MaxTime
    BY <1>2, UsageAssumption DEF Run
  <2>2. utime' = [utime EXCEPT ![p] = utime[p] + 1]
    BY <1>2 DEF Run
  <2>3. utime' \in [Procs -> 0 .. MaxTime]
    BY <2>1, <2>2
  <2>4. QED
    BY <1>2, <2>3 DEF Run
<1>3. ASSUME NEW p \in Procs, Exit(p) PROVE IInv'
  <2>1. 0 \in 0 .. MaxTime
    BY UsageAssumption
  <2>2. utime' \in [Procs -> 0 .. MaxTime]
    BY <1>3, <2>1 DEF Exit
  <2>3. proc' \in [Procs -> {"new", "running", "exited"}]
    BY <1>3 DEF Exit
  <2>4. QED
    BY <1>3, <2>2, <2>3 DEF Exit
<1>4. CASE Expire
  BY <1>4 DEF Expire
<1>5. CASE work_time_handler
  <2>1. CASE HandlerQueue
    BY <2>1 DEF HandlerQueue
  <2>2. CASE HandlerRearm
    BY <2>2 DEF HandlerRearm
  <2>3. CASE HandlerFault
    BY <2>3 DEF HandlerFault
  <2>4. QED
    BY <1>5, <2>1, <2>2, <2>3 DEF work_time_handler
<1>6. CASE mp1_read
  <2>1. CASE ReadList
    BY <2>1 DEF ReadList
  <2>2. CASE ReadEnd
    BY <2>2 DEF ReadEnd
  <2>3. QED
    BY <1>6, <2>1, <2>2 DEF mp1_read
<1>7. CASE DeleteTimer
  BY <1>7 DEF DeleteTimer, exitGoes
<1>8. CASE DestroyQueue
  BY <1>8 DEF DestroyQueue, exitGoes
<1>9. CASE RemoveFile
  BY <1>9 DEF RemoveFile, exitGoes
<1>10. CASE UNCHANGED vars
  BY <1>10 DEF vars
<1>11. QED
  BY <1>2, <1>3, <1>4, <1>5, <1>6, <1>7, <1>8, <1>9, <1>10

\* The worker is in an entry that nobody else may remove.
LEMMA WalkStep ==
  ASSUME IInv, cpu_time_updater_work
  PROVE  IInv'
<1>1. TypeOK /\ Listed \subseteq Procs /\ End \notin Listed
  BY ListedProcs DEF IInv
<1>2. CASE UpdaterStart
  <2>1. /\ UNCHANGED <<processList, cpu_use, procVars, timerVars, module,
                       read_end>>
        /\ pending' = FALSE /\ HasQueue
    BY <1>2 DEF UpdaterStart
  <2>2. Listed' = Listed
    BY <2>1 DEF Listed
  <2>3. CASE processList = << >>
    BY <1>1, <1>2, <2>1, <2>2, <2>3
    DEF UpdaterStart, IInv, TypeOK, WalkInv, QuietInv, HasQueue, NewInv,
        NobodyForgotten, procVars, timerVars, workVars
  <2>4. CASE processList # << >>
    <3>1. Head(processList) \in Listed
      <4>1. 1 \in DOMAIN processList /\ Head(processList) = processList[1]
        BY <1>1, <2>4 DEF TypeOK
      <4>2. QED
        BY <4>1 DEF Listed, ToSet
    <3>2. after(Head(processList)) \in
            (Listed \cup {End}) \ {Head(processList)}
      BY <1>1, <3>1, After
    <3>3. /\ worker' = "update" /\ thisProcess' = Head(processList)
          /\ next' = after(Head(processList))
      BY <1>2, <2>4 DEF UpdaterStart
    <3>4. QED
      BY <1>1, <2>1, <2>2, <3>1, <3>2, <3>3
      DEF IInv, TypeOK, WalkInv, QuietInv, HasQueue, NewInv, NobodyForgotten,
          procVars, timerVars
  <2>5. QED
    BY <2>3, <2>4
<1>3. CASE UpdateTime
  <2>1. Listed' = Listed
    BY <1>3 DEF UpdateTime, Listed
  <2>2. QED
    BY <1>1, <1>3, <2>1
    DEF UpdateTime, IInv, TypeOK, WalkInv, QuietInv, HasQueue, NewInv,
        NobodyForgotten, procVars, timerVars
<1>4. CASE RemoveEntry
  <2>1. thisProcess \in Listed /\ next \in Listed \cup {End}
        /\ next # thisProcess /\ proc[thisProcess] = "exited"
    BY <1>4 DEF RemoveEntry, IInv, WalkInv
  <2>2. /\ processList' \in Seq(Procs) /\ IsInjective(processList')
        /\ Listed' = Listed \ {thisProcess}
    BY <1>1, <1>4, <2>1, Removed DEF RemoveEntry, Listed
  <2>3. QED
    BY <1>1, <1>4, <2>1, <2>2, UsageAssumption
    DEF RemoveEntry, IInv, TypeOK, WalkInv, QuietInv, HasQueue, NewInv,
        NobodyForgotten, procVars, timerVars
<1>5. CASE Advance
  <2>1. Listed' = Listed /\ next \in Listed \cup {End}
    BY <1>5 DEF Advance, Listed, IInv, WalkInv
  <2>2. next # End => after(next) \in (Listed \cup {End}) \ {next}
    BY <1>1, <2>1, After
  <2>3. QED
    BY <1>1, <1>5, <2>1, <2>2
    DEF Advance, IInv, TypeOK, WalkInv, QuietInv, HasQueue, NewInv,
        NobodyForgotten, procVars, timerVars
<1>6. QED
  BY <1>2, <1>3, <1>4, <1>5 DEF cpu_time_updater_work

\* The list is freed when there is no worker any more.
LEMMA CleanupStep ==
  ASSUME IInv, list_cleanup
  PROVE  IInv'
<1>1. Listed' = {}
  BY DEF list_cleanup, Listed, ToSet
<1>2. worker = "idle"
  BY DEF list_cleanup, exitGoes, IInv, QuietInv, HasQueue
<1>3. TypeOK'
  BY UsageAssumption
  DEF IInv, TypeOK, list_cleanup, exitGoes, IsInjective, procVars, timerVars,
      workVars
<1>4. QED
  BY <1>1, <1>2, <1>3
  DEF IInv, list_cleanup, exitGoes, WalkInv, QuietInv, HasQueue, NewInv,
      NobodyForgotten, procVars, workVars

LEMMA NextIInv == IInv /\ [Next]_vars => IInv'
  BY AddStep, OtherStep, WalkStep, CleanupStep DEF Next, mp1_exit

LEMMA SpecIInv == Spec => []IInv
  BY InitIInv, NextIInv, PTL DEF Spec

-----------------------------------------------------------------------------

\* The list holds each process once, and all actors keep their types.
THEOREM TypeCorrect == Spec => []TypeOK
<1>1. IInv => TypeOK
  BY DEF IInv
<1>2. QED
  BY <1>1, SpecIInv, PTL

\* The walk without the lock meets entries of the list only, however many
\* processes register, exit or are removed and whenever the module goes.
THEOREM WalkSafe == Spec => []WalkIsSafe
<1>1. IInv => WalkIsSafe
  BY DEF IInv, WalkInv, WalkIsSafe
<1>2. QED
  BY <1>1, SpecIInv, PTL

\* A process that runs is in the list until the unload frees it.
THEOREM RunningIsListed == Spec => []NobodyForgotten
<1>1. IInv => NobodyForgotten
  BY DEF IInv
<1>2. QED
  BY <1>1, SpecIInv, PTL
=============================================================================
