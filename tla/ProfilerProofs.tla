---------------------------- MODULE ProfilerProofs ----------------------------
(***************************************************************************)
(* Proofs about Profiler for every set of processes: the unlocked walks of *)
(* the worker and of un-registering processes, and the work queue when the *)
(* module is unloaded.                                                     *)
(***************************************************************************)
EXTENDS Profiler, SequenceTheorems, TLAPS

\* A process that is not in the list yet.
New(p) == app[p] \in {"start", "add_timer", "queue_work", "lastwork",
                      "insert"}

\* Nobody has a pointer to it.
Fresh ==
  \A q \in Procs : New(q) =>
    /\ q \notin Listed
    /\ \A p \in Procs : entry[p] # q /\ after[p] # q

\* All remove_process start at the head, so the one that is ahead of the
\* others is always at the head ...
Sound(p) ==
  /\ app[p] = "delete" =>
       /\ processList # << >> /\ entry[p] = Head(processList)
       /\ \/ after[p] = End
          \/ /\ Tail(processList) # << >>
             /\ after[p] = Head(Tail(processList))
  /\ app[p] = "advance" =>
       \/ after[p] = End
       \/ processList # << >> /\ after[p] = Head(processList)

\* ... and one that is not has a freed entry before it.
Doomed(p) ==
  \/ app[p] = "delete" /\ entry[p] \notin Listed
  \/ app[p] = "advance" /\ after[p] \notin Listed \cup {End}

Walks == \A p \in Procs : Sound(p) \/ Doomed(p)

\* Whoever freed what the others stumble on is not doomed itself.
Ahead == QueueThere /\ Removers # {} => \E p \in Removers : ~Doomed(p)

WorkerInv ==
  /\ Removers = {} => /\ worker = "update" => thisProcess \in Listed
                      /\ worker \in {"update", "advance"} =>
                           next \in Listed \cup {End}
  /\ pending \/ worker # "idle" => QueueThere

IInv == TypeOK /\ Fresh /\ Walks /\ Ahead /\ WorkerInv

-----------------------------------------------------------------------------
\* The list

\* What list_del of the first entry leaves, of a list without duplicates.
LEMMA HeadAndTail ==
  ASSUME NEW S, NEW s \in Seq(S), s # << >>, IsInjective(s)
  PROVE  /\ Head(s) \in S /\ Tail(s) \in Seq(S) /\ IsInjective(Tail(s))
         /\ Head(s) \in ToSet(s) /\ ToSet(Tail(s)) = ToSet(s) \ {Head(s)}
         /\ RemoveAt(s, 1) = Tail(s)
<1>1. /\ DOMAIN s = 1 .. Len(s) /\ Len(s) \in Nat /\ Len(s) >= 1
      /\ Head(s) = s[1] /\ Tail(s) \in Seq(S) /\ Head(s) \in S
      /\ Len(Tail(s)) = Len(s) - 1
      /\ \A i \in 1 .. Len(s) - 1 : Tail(s)[i] = s[i + 1]
      /\ DOMAIN Tail(s) = 1 .. Len(s) - 1
  OBVIOUS
<1>2. \A i, j \in 1 .. Len(s) : s[i] = s[j] => i = j
  BY <1>1 DEF IsInjective
<1>3. IsInjective(Tail(s))
  <2>1. \A i, j \in 1 .. Len(s) - 1 : Tail(s)[i] = Tail(s)[j] => i = j
    <3> SUFFICES ASSUME NEW i \in 1 .. Len(s) - 1, NEW j \in 1 .. Len(s) - 1,
                        Tail(s)[i] = Tail(s)[j]
                 PROVE  i = j
      OBVIOUS
    <3>1. /\ i + 1 \in 1 .. Len(s) /\ j + 1 \in 1 .. Len(s)
          /\ s[i + 1] = s[j + 1]
      BY <1>1
    <3>2. i + 1 = j + 1
      BY <1>2, <3>1
    <3>3. QED
      BY <3>2
  <2>2. QED
    BY <1>1, <2>1 DEF IsInjective
<1>4. Head(s) \in ToSet(s)
  <2>1. 1 \in DOMAIN s
    BY <1>1
  <2>2. QED
    BY <1>1, <2>1 DEF ToSet
<1>5. ASSUME NEW e PROVE e \in ToSet(Tail(s)) <=> e \in ToSet(s) \ {Head(s)}
  <2>1. ASSUME e \in ToSet(s), e # Head(s) PROVE e \in ToSet(Tail(s))
    <3>1. PICK i \in 1 .. Len(s) : e = s[i]
      BY <1>1, <2>1 DEF ToSet
    <3>2. i \in Int /\ 1 <= i /\ i <= Len(s) /\ i # 1
      BY <1>1, <2>1, <3>1
    <3>3. i - 1 \in 1 .. Len(s) - 1 /\ (i - 1) + 1 = i
      BY <1>1, <3>2
    <3>4. e = Tail(s)[i - 1]
      BY <1>1, <3>1, <3>3
    <3>5. QED
      BY <1>1, <3>3, <3>4 DEF ToSet
  <2>2. ASSUME e \in ToSet(Tail(s)) PROVE e \in ToSet(s) /\ e # Head(s)
    <3>1. PICK i \in 1 .. Len(s) - 1 : e = Tail(s)[i]
      BY <1>1, <2>2 DEF ToSet
    <3>2. /\ i + 1 \in 1 .. Len(s) /\ 1 \in 1 .. Len(s) /\ e = s[i + 1]
          /\ i + 1 # 1
      BY <1>1, <3>1
    <3>3. e # s[1]
      BY <1>2, <3>2
    <3>4. QED
      BY <1>1, <3>2, <3>3 DEF ToSet
  <2>3. QED
    BY <2>1, <2>2
<1>6. RemoveAt(s, 1) = Tail(s)
  <2> DEFINE front == SubSeq(s, 1, 1 - 1)
             back == SubSeq(s, 1 + 1, Len(s))
  <2>1. /\ front \in Seq(S) /\ Len(front) = 0
    BY <1>1, SubSeqProperties
  <2>2. /\ back \in Seq(S) /\ Len(back) = Len(s) - 1
        /\ \A i \in 1 .. Len(s) - 1 : back[i] = s[i + 1]
    BY <1>1, SubSeqProperties
  <2>3. RemoveAt(s, 1) = front \o back
    BY DEF RemoveAt
  <2> HIDE DEF front, back
  <2>4. /\ front \o back \in Seq(S) /\ Len(front \o back) = Len(s) - 1
        /\ \A i \in 1 .. Len(s) - 1 : (front \o back)[i] = back[i]
    <3>1. /\ front \o back \in Seq(S)
          /\ Len(front \o back) = Len(front) + Len(back)
          /\ \A i \in 1 .. Len(front) + Len(back) :
               (front \o back)[i] = IF i <= Len(front) THEN front[i]
                                    ELSE back[i - Len(front)]
      BY <2>1, <2>2, ConcatProperties
    <3>2. QED
      BY <1>1, <2>1, <2>2, <3>1
  <2>5. front \o back = Tail(s)
    BY <1>1, <2>2, <2>4, SeqEqual
  <2>6. QED
    BY <2>3, <2>5
<1>7. ToSet(Tail(s)) = ToSet(s) \ {Head(s)}
  BY <1>5
<1>8. QED
  BY <1>1, <1>3, <1>4, <1>6, <1>7

\* list_add_tail
LEMMA Added ==
  ASSUME NEW S, NEW s \in Seq(S), NEW p \in S, p \notin ToSet(s),
         IsInjective(s)
  PROVE  /\ Append(s, p) \in Seq(S) /\ IsInjective(Append(s, p))
         /\ ToSet(Append(s, p)) = ToSet(s) \cup {p}
         /\ s # << >> => /\ Append(s, p) # << >>
                         /\ Head(Append(s, p)) = Head(s)
                         /\ Tail(Append(s, p)) = Append(Tail(s), p)
<1> DEFINE l == Append(s, p)
           n == Len(s)
<1>1. /\ n \in Nat /\ DOMAIN s = 1 .. n
      /\ l \in Seq(S) /\ DOMAIN l = 1 .. n + 1 /\ Len(l) = n + 1
      /\ \A i \in 1 .. n : l[i] = s[i]
      /\ l[n + 1] = p
  OBVIOUS
<1>2. \A i \in 1 .. n : s[i] # p
  BY <1>1 DEF ToSet
<1>3. IsInjective(l)
  BY <1>1, <1>2 DEF IsInjective
<1>4. ToSet(l) = ToSet(s) \cup {p}
  BY <1>1 DEF ToSet
<1>5. ASSUME s # << >>
      PROVE  l # << >> /\ Head(l) = Head(s) /\ Tail(l) = Append(Tail(s), p)
  <2>1. n >= 1 /\ l # << >> /\ Head(l) = l[1] /\ Head(s) = s[1] /\ l[1] = s[1]
    BY <1>1, <1>5
  <2>2. /\ Tail(l) \in Seq(S) /\ Len(Tail(l)) = n
        /\ \A i \in 1 .. n : Tail(l)[i] = l[i + 1]
    BY <1>1, <2>1
  <2>3. /\ Tail(s) \in Seq(S) /\ Len(Tail(s)) = n - 1
        /\ \A i \in 1 .. n - 1 : Tail(s)[i] = s[i + 1]
    BY <1>1, <1>5, <2>1
  <2>4. /\ Append(Tail(s), p) \in Seq(S) /\ Len(Append(Tail(s), p)) = n
        /\ \A i \in 1 .. n - 1 : Append(Tail(s), p)[i] = s[i + 1]
        /\ Append(Tail(s), p)[n] = p
    BY <1>1, <2>1, <2>3
  <2>5. ASSUME NEW i \in 1 .. n PROVE Tail(l)[i] = Append(Tail(s), p)[i]
    <3>1. CASE i = n
      BY <1>1, <2>2, <2>4, <3>1
    <3>2. CASE i # n
      <4>1. i \in 1 .. n - 1 /\ i + 1 \in 1 .. n
        <5>1. n \in Nat /\ i \in 1 .. n /\ i # n
          BY <1>1, <3>2
        <5> HIDE DEF n
        <5>2. QED
          BY <5>1
      <4>2. QED
        BY <1>1, <2>2, <2>4, <4>1
    <3>3. QED
      BY <3>1, <3>2
  <2>6. Tail(l) = Append(Tail(s), p)
    BY <2>2, <2>4, <2>5, SeqEqual
  <2>7. QED
    BY <2>1, <2>6
<1>6. QED
  BY <1>1, <1>3, <1>4, <1>5

\* What the walks read of the list: its first entry and the one behind it.
LEMMA ListFacts ==
  ASSUME TypeOK
  PROVE  /\ Listed \subseteq Procs /\ End \notin Listed
         /\ processList # << >> =>
              /\ Head(processList) \in Listed
              /\ place(Head(processList)) = 1
              /\ \/ following(Head(processList)) = End
                 \/ /\ Tail(processList) # << >>
                    /\ following(Head(processList)) = Head(Tail(processList))
         /\ \A e \in Listed : following(e) \in Listed \cup {End}
         /\ Tail(processList) # << >> /\ processList # << >>
              => Head(Tail(processList)) \in Listed
<1>1. /\ DOMAIN processList = 1 .. Len(processList)
      /\ Len(processList) \in Nat
      /\ \A i \in 1 .. Len(processList) : processList[i] \in Procs
      /\ \A i, j \in 1 .. Len(processList) :
           processList[i] = processList[j] => i = j
  BY DEF TypeOK, IsInjective
<1>2. Listed \subseteq Procs /\ End \notin Listed
  BY <1>1, ProfilerAssumption DEF Listed, ToSet
<1>3. \A e \in Listed : /\ place(e) \in 1 .. Len(processList)
                        /\ processList[place(e)] = e
  <2> SUFFICES ASSUME NEW e \in Listed
               PROVE  /\ place(e) \in 1 .. Len(processList)
                      /\ processList[place(e)] = e
    OBVIOUS
  <2>1. \E k \in DOMAIN processList : processList[k] = e
    BY DEF Listed, ToSet
  <2>2. QED
    BY <1>1, <2>1 DEF place
<1>4. \A e \in Listed : following(e) \in Listed \cup {End}
  <2> SUFFICES ASSUME NEW e \in Listed, place(e) # Len(processList)
               PROVE  processList[place(e) + 1] \in Listed
    BY DEF following
  <2>1. place(e) + 1 \in DOMAIN processList
    BY <1>1, <1>3
  <2>2. QED
    BY <2>1 DEF Listed, ToSet
<1>5. processList # << >> =>
        /\ Head(processList) = processList[1] /\ 1 \in 1 .. Len(processList)
        /\ Head(processList) \in Listed
  BY <1>1 DEF TypeOK, Listed, ToSet
<1>6. processList # << >> => place(Head(processList)) = 1
  BY <1>1, <1>3, <1>5
<1>7. processList # << >> =>
        /\ Len(processList) # 1 =>
             /\ Tail(processList) # << >>
             /\ Head(Tail(processList)) = processList[2]
        /\ Tail(processList) # << >> => /\ Len(processList) # 1
                                        /\ 2 \in 1 .. Len(processList)
  <2> SUFFICES ASSUME processList # << >>
               PROVE  /\ Len(processList) # 1 =>
                           /\ Tail(processList) # << >>
                           /\ Head(Tail(processList)) = processList[2]
                      /\ Tail(processList) # << >> =>
                           /\ Len(processList) # 1
                           /\ 2 \in 1 .. Len(processList)
    OBVIOUS
  <2>1. /\ Len(processList) >= 1 /\ Tail(processList) \in Seq(Procs)
        /\ Len(Tail(processList)) = Len(processList) - 1
        /\ \A i \in 1 .. Len(processList) - 1 :
             Tail(processList)[i] = processList[i + 1]
    BY <1>1 DEF TypeOK
  <2>2. Tail(processList) # << >> => Len(Tail(processList)) >= 1
    BY <2>1
  <2>3. Len(processList) # 1 =>
          /\ Tail(processList) # << >>
          /\ Head(Tail(processList)) = Tail(processList)[1]
          /\ 1 \in 1 .. Len(processList) - 1
    <3> SUFFICES ASSUME Len(processList) # 1
                 PROVE  /\ Tail(processList) # << >>
                        /\ Head(Tail(processList)) = Tail(processList)[1]
                        /\ 1 \in 1 .. Len(processList) - 1
      OBVIOUS
    <3>1. Len(processList) >= 2 /\ Len(Tail(processList)) >= 1
      BY <1>1, <2>1
    <3>2. Tail(processList) # << >>
      <4>1. PICK t : t = Tail(processList)
        OBVIOUS
      <4>2. t = << >> => Len(t) = 0
        OBVIOUS
      <4>3. Len(t) >= 1
        BY <3>1, <4>1
      <4>4. t # << >>
        BY <4>2, <4>3
      <4>5. QED
        BY <4>1, <4>4
    <3>3. QED
      BY <2>1, <3>1, <3>2
  <2>4. QED
    BY <1>1, <2>1, <2>2, <2>3
<1>8. QED
  BY <1>1, <1>2, <1>4, <1>5, <1>6, <1>7 DEF following, Listed, ToSet

LEMMA InitIInv == Init => IInv
<1> SUFFICES ASSUME Init PROVE IInv
  OBVIOUS
<1>1. Listed = {} /\ IsInjective(processList) /\ processList \in Seq(Procs)
  <2>1. DOMAIN processList = {}
    BY DEF Init
  <2>2. QED
    BY <2>1 DEF Init, Listed, ToSet, IsInjective
<1>2. TypeOK
  BY <1>1 DEF Init, TypeOK
<1>3. Removers = {}
  BY DEF Init, Removers
<1>4. Fresh /\ Walks /\ Ahead /\ WorkerInv
  BY <1>1, <1>3, ProfilerAssumption
  DEF Init, Fresh, Walks, Sound, Ahead, WorkerInv
<1>5. QED
  BY <1>2, <1>4 DEF IInv

-----------------------------------------------------------------------------
\* Steps that leave the list and the processes that un-register alone

LEMMA WalksRest ==
  ASSUME IInv, UNCHANGED <<processList, entry, after>>,
         \A p \in Procs :
           \/ app'[p] = app[p]
           \/ /\ app[p] \notin {"delete", "advance", "flush", "gone"}
              /\ app'[p] \notin {"delete", "advance", "flush", "gone"},
         \A p \in Procs : New(p)' => New(p),
         QueueThere' => QueueThere
  PROVE  /\ Fresh' /\ Walks' /\ Ahead'
         /\ Listed' = Listed /\ Removers' = Removers
<1>1. Listed' = Listed
  BY DEF Listed
<1>2. \A p \in Procs : /\ Doomed(p)' <=> Doomed(p)
                       /\ Sound(p)' <=> Sound(p)
  BY <1>1 DEF Doomed, Sound
<1>3. Removers' = Removers
  BY DEF Removers
<1>4. Fresh'
  BY <1>1 DEF IInv, Fresh
<1>5. Walks'
  BY <1>2 DEF IInv, Walks
<1>6. Ahead'
  <2>1. \A p \in Removers : p \in Procs
    BY DEF Removers
  <2>2. QED
    BY <1>2, <1>3, <2>1 DEF IInv, Ahead
<1>7. QED
  BY <1>1, <1>3, <1>4, <1>5, <1>6

\* A process registers, up to the insertion, or ends.
LEMMA RegisterStep ==
  ASSUME IInv, NEW p \in Procs,
         AddCheck(p) \/ AddTimer(p) \/ AddWork(p) \/ AddLastwork(p) \/ Quit(p)
  PROVE  IInv'
<1>1. PICK from, to :
        /\ appGoes(p, from, to)
        /\ \/ /\ from \in {"start", "add_timer", "queue_work", "lastwork"}
              /\ to \in {"add_timer", "queue_work", "lastwork", "insert",
                         "fault"}
           \/ from = "running" /\ to = "quit"
  BY DEF AddCheck, AddTimer, AddWork, AddLastwork, Quit
<1>2. /\ UNCHANGED <<processList, walkVars, workVars, handler, module>>
      /\ work_timer' \in BOOLEAN /\ pending' \in BOOLEAN
      /\ lastwork' \in BOOLEAN
      /\ pending' => pending \/ QueueThere
  <2> /\ work_timer \in BOOLEAN /\ pending \in BOOLEAN
      /\ lastwork \in BOOLEAN /\ QueueThere \in BOOLEAN
    BY DEF IInv, TypeOK, QueueThere
  <2>1. CASE AddCheck(p)
    BY <2>1 DEF AddCheck, timerVars
  <2>2. CASE AddTimer(p)
    BY <2>2 DEF AddTimer
  <2>3. CASE AddWork(p)
    BY <2>3 DEF AddWork, timerVars
  <2>4. CASE AddLastwork(p)
    BY <2>4 DEF AddLastwork, timerVars
  <2>5. CASE Quit(p)
    BY <2>5 DEF Quit, timerVars
  <2>6. QED
    BY <2>1, <2>2, <2>3, <2>4, <2>5
<1>3. UNCHANGED <<processList, entry, after, worker, thisProcess, next,
                  handler, module>>
  BY <1>2 DEF walkVars, workVars
<1>4. /\ app' \in [Procs -> {"start", "add_timer", "queue_work", "lastwork",
                             "insert", "running", "delete", "advance",
                             "flush", "gone", "quit", "fault"}]
      /\ app[p] = from /\ app'[p] = to
      /\ \A q \in Procs : q # p => app'[q] = app[q]
  BY <1>1 DEF appGoes, IInv, TypeOK
<1>5. \A q \in Procs :
        /\ \/ app'[q] = app[q]
           \/ /\ app[q] \notin {"delete", "advance", "flush", "gone"}
              /\ app'[q] \notin {"delete", "advance", "flush", "gone"}
        /\ New(q)' => New(q)
  BY <1>1, <1>4 DEF New
<1>6. QueueThere' <=> QueueThere
  BY <1>3 DEF QueueThere
<1>7. /\ Fresh' /\ Walks' /\ Ahead'
      /\ Listed' = Listed /\ Removers' = Removers
  BY <1>3, <1>5, <1>6, WalksRest
<1>8. TypeOK'
  BY <1>2, <1>3, <1>4 DEF IInv, TypeOK
<1>9. WorkerInv'
  BY <1>2, <1>3, <1>6, <1>7 DEF IInv, WorkerInv
<1>10. QED
  BY <1>7, <1>8, <1>9 DEF IInv

\* Time, the timer and its handler, and the module but for list_cleanup; the
\* work queue goes only when it has nothing to do.
LEMMA QuietStep ==
  ASSUME IInv,
         \/ Tick \/ Expire \/ work_time_handler \/ InitBuffer
         \/ ExitTimer \/ ExitQueue \/ ExitFile \/ ExitEnd
         \/ UNCHANGED vars
  PROVE  IInv'
<1>1. /\ UNCHANGED <<processList, app, walkVars, workVars>>
      /\ work_timer' \in BOOLEAN /\ pending' \in BOOLEAN
      /\ lastwork' \in BOOLEAN
      /\ handler' \in {"idle", "check", "queue_work", "mod_timer", "fault"}
      /\ pending' => pending \/ QueueThere
  <2>1. UNCHANGED <<processList, app, walkVars, workVars>>
    BY DEF Tick, Expire, work_time_handler, HandlerCheck, HandlerWork,
           HandlerTimer, InitBuffer, ExitTimer, ExitQueue, ExitFile, ExitEnd,
           vars
  <2>2. handler' \in {"idle", "check", "queue_work", "mod_timer", "fault"}
    BY DEF Tick, Expire, work_time_handler, HandlerCheck, HandlerWork,
           HandlerTimer, handlerGoes, InitBuffer, ExitTimer, ExitQueue,
           ExitFile, ExitEnd, timerVars, vars, IInv, TypeOK
  <2>3. work_timer' \in {TRUE, FALSE, work_timer}
    BY DEF Tick, Expire, work_time_handler, HandlerCheck, HandlerWork,
           HandlerTimer, InitBuffer, ExitTimer, ExitQueue, ExitFile, ExitEnd,
           timerVars, vars
  <2>4. lastwork' \in {FALSE, lastwork} /\ pending' \in {QueueThere, pending}
    BY DEF Tick, Expire, work_time_handler, HandlerCheck, HandlerWork,
           HandlerTimer, InitBuffer, ExitTimer, ExitQueue, ExitFile, ExitEnd,
           timerVars, vars
  <2>5. /\ work_timer \in BOOLEAN /\ pending \in BOOLEAN
        /\ lastwork \in BOOLEAN /\ QueueThere \in BOOLEAN
    BY DEF IInv, TypeOK, QueueThere
  <2>6. /\ work_timer' \in BOOLEAN /\ lastwork' \in BOOLEAN
        /\ pending' \in BOOLEAN
    BY <2>3, <2>4, <2>5
  <2>7. pending' => pending \/ QueueThere
    <3>1. pending' = QueueThere \/ pending' = pending
      BY <2>4
    <3>2. CASE pending' = QueueThere
      BY <3>2
    <3>3. CASE pending' = pending
      BY <3>3
    <3>4. QED
      BY <3>1, <3>2, <3>3
  <2>8. QED
    BY <2>1, <2>2, <2>6, <2>7
<1>2. UNCHANGED <<processList, app, entry, after, worker, thisProcess, next>>
  BY <1>1 DEF walkVars, workVars
<1>3. /\ module' \in {"vmalloc", "live", "destroy", "list_cleanup", "vfree",
                      "remove_proc", "rundown", "unloaded"}
      /\ QueueThere' => QueueThere
      /\ QueueThere /\ ~QueueThere' => ~pending' /\ worker = "idle"
  BY DEF Tick, Expire, work_time_handler, HandlerCheck, HandlerWork,
         HandlerTimer, InitBuffer, ExitTimer, ExitQueue,
         ExitFile, ExitEnd, moduleGoes, vars, IInv, TypeOK, QueueThere
<1>4. \A q \in Procs : New(q)' => New(q)
  BY <1>2 DEF New
<1>5. /\ Fresh' /\ Walks' /\ Ahead'
      /\ Listed' = Listed /\ Removers' = Removers
  BY <1>2, <1>3, <1>4, WalksRest
<1>6. TypeOK'
  BY <1>1, <1>2, <1>3 DEF IInv, TypeOK
<1>7. WorkerInv'
  BY <1>1, <1>2, <1>3, <1>5 DEF IInv, WorkerInv
<1>8. QED
  BY <1>5, <1>6, <1>7 DEF IInv

\* The worker walks the list.
LEMMA WorkerStep ==
  ASSUME IInv, profile_updater_work
  PROVE  IInv'
<1>1. /\ UNCHANGED <<processList, app, walkVars, timerVars, module>>
      /\ lastwork' \in BOOLEAN /\ pending' \in BOOLEAN
      /\ pending' => pending
  <2> pending \in BOOLEAN /\ lastwork \in BOOLEAN
    BY DEF IInv, TypeOK
  <2>1. CASE UpdaterStart
    BY <2>1 DEF UpdaterStart
  <2>2. CASE UpdaterCount \/ UpdaterAdvance
    BY <2>2 DEF UpdaterCount, UpdaterAdvance
  <2>3. CASE UpdaterSample
    BY <2>3 DEF UpdaterSample
  <2>4. QED
    BY <2>1, <2>2, <2>3 DEF profile_updater_work
<1>2. UNCHANGED <<processList, app, entry, after, work_timer, handler, module>>
  BY <1>1 DEF walkVars, timerVars
<1>3. \A q \in Procs : New(q)' => New(q)
  BY <1>2 DEF New
<1>4. QueueThere' <=> QueueThere
  BY <1>2 DEF QueueThere
<1>5. /\ Fresh' /\ Walks' /\ Ahead'
      /\ Listed' = Listed /\ Removers' = Removers
  BY <1>2, <1>3, <1>4, WalksRest
<1>6. /\ Listed \subseteq Procs /\ End \notin Listed
      /\ processList # << >> => Head(processList) \in Listed
      /\ \A e \in Listed : following(e) \in Listed \cup {End}
  BY ListFacts DEF IInv
<1>7. worker # "idle" \/ pending => QueueThere
  BY DEF IInv, WorkerInv
<1>8. /\ worker' \in {"idle", "update", "advance", "sample", "fault"}
      /\ thisProcess' \in Procs \cup {End} /\ next' \in Procs \cup {End}
      /\ worker' # "idle" => worker # "idle" \/ pending
      /\ Removers = {} => /\ worker' = "update" => thisProcess' \in Listed
                          /\ worker' \in {"update", "advance"} =>
                               next' \in Listed \cup {End}
  <2>1. CASE UpdaterStart
    <3>1. CASE processList = << >>
      BY <2>1, <3>1 DEF UpdaterStart, IsEmptyList, IInv, TypeOK
    <3>2. CASE processList # << >>
      <4>1. /\ worker' = "update" /\ pending
            /\ thisProcess' = Head(processList)
            /\ next' = following(Head(processList))
        BY <2>1, <3>2 DEF UpdaterStart, IsEmptyList
      <4>2. QED
        BY <1>6, <3>2, <4>1
    <3>3. QED
      BY <3>1, <3>2
  <2>2. CASE UpdaterCount
    BY <2>2 DEF UpdaterCount, IInv, TypeOK, WorkerInv
  <2>3. CASE UpdaterAdvance
    BY <1>6, <2>3 DEF UpdaterAdvance, IInv, TypeOK, WorkerInv
  <2>4. CASE UpdaterSample
    BY <2>4 DEF UpdaterSample, IInv, TypeOK, WorkerInv
  <2>5. QED
    BY <2>1, <2>2, <2>3, <2>4 DEF profile_updater_work
<1>9. TypeOK'
  BY <1>1, <1>2, <1>8 DEF IInv, TypeOK
<1>10. WorkerInv'
  BY <1>1, <1>4, <1>5, <1>7, <1>8 DEF WorkerInv
<1>11. QED
  BY <1>5, <1>9, <1>10 DEF IInv

-----------------------------------------------------------------------------
\* Steps that change the list, and the walks of those that un-register

LEMMA InsertStep ==
  ASSUME IInv, NEW p \in Procs, AddInsert(p)
  PROVE  IInv'
<1>1. /\ app[p] = "insert" /\ app' = [app EXCEPT ![p] = "running"]
      /\ processList' = Append(processList, p)
      /\ UNCHANGED <<entry, after, work_timer, handler, pending, worker,
                     thisProcess, next, lastwork, module>>
  BY DEF AddInsert, appGoes, walkVars, timerVars, workVars
<1>2. /\ processList \in Seq(Procs) /\ IsInjective(processList)
      /\ p \notin Listed /\ ToSet(processList) = Listed
      /\ \A q \in Procs : entry[q] # p /\ after[q] # p
  BY <1>1 DEF IInv, TypeOK, Fresh, New, Listed
<1>3. /\ processList' \in Seq(Procs) /\ IsInjective(processList')
      /\ Listed' = Listed \cup {p}
      /\ processList # << >> =>
           /\ processList' # << >> /\ Head(processList') = Head(processList)
           /\ Tail(processList') = Append(Tail(processList), p)
  <2>1. p \notin ToSet(processList)
    BY <1>2
  <2>2. /\ Append(processList, p) \in Seq(Procs)
        /\ IsInjective(Append(processList, p))
        /\ ToSet(Append(processList, p)) = ToSet(processList) \cup {p}
        /\ processList # << >> =>
             /\ Append(processList, p) # << >>
             /\ Head(Append(processList, p)) = Head(processList)
             /\ Tail(Append(processList, p)) = Append(Tail(processList), p)
    BY <1>2, <2>1, Added
  <2>3. QED
    BY <1>1, <1>2, <2>2 DEF Listed
<1>4. processList # << >> /\ Tail(processList) # << >> =>
        /\ Append(Tail(processList), p) # << >>
        /\ Head(Append(Tail(processList), p)) = Head(Tail(processList))
  <2> SUFFICES ASSUME processList # << >>, Tail(processList) # << >>
               PROVE  /\ Append(Tail(processList), p) # << >>
                      /\ Head(Append(Tail(processList), p))
                           = Head(Tail(processList))
    OBVIOUS
  <2>1. PICK t : t = Tail(processList)
    OBVIOUS
  <2>2. /\ t \in Seq(Procs) /\ IsInjective(t) /\ p \notin ToSet(t)
        /\ t # << >>
    BY <1>2, <2>1, HeadAndTail
  <2>3. Append(t, p) # << >> /\ Head(Append(t, p)) = Head(t)
    BY <2>2, Added
  <2>4. QED
    BY <2>1, <2>3
<1>5. /\ app'[p] = "running"
      /\ \A q \in Procs : q # p => app'[q] = app[q]
      /\ app' \in [Procs -> {"start", "add_timer", "queue_work", "lastwork",
                             "insert", "running", "delete", "advance",
                             "flush", "gone", "quit", "fault"}]
  BY <1>1 DEF IInv, TypeOK
<1>6. TypeOK'
  BY <1>1, <1>3, <1>5 DEF IInv, TypeOK
<1>7. Fresh'
  BY <1>1, <1>3, <1>5 DEF IInv, Fresh, New
<1>8. Removers' = Removers
  BY <1>1, <1>5 DEF Removers
<1>9. ASSUME NEW q \in Procs
      PROVE  /\ Sound(q) => Sound(q)'
             /\ Doomed(q)' <=> Doomed(q)
  <2>1. CASE q = p
    BY <1>1, <1>5, <2>1 DEF Sound, Doomed
  <2>2. CASE q # p
    <3>1. Doomed(q)' <=> Doomed(q)
      BY <1>1, <1>2, <1>3, <1>5, <2>2 DEF Doomed
    <3>2. Sound(q) => Sound(q)'
      BY <1>1, <1>3, <1>4, <1>5, <2>2 DEF Sound
    <3>3. QED
      BY <3>1, <3>2
  <2>3. QED
    BY <2>1, <2>2
<1>10. Walks'
  BY <1>9 DEF IInv, Walks
<1>11. QueueThere' <=> QueueThere
  BY <1>1 DEF QueueThere
<1>12. Ahead'
  <2>1. \A q \in Removers : q \in Procs
    BY DEF Removers
  <2>2. QED
    BY <1>8, <1>9, <1>11, <2>1 DEF IInv, Ahead
<1>13. WorkerInv'
  BY <1>1, <1>3, <1>8, <1>11 DEF IInv, WorkerInv
<1>14. QED
  BY <1>6, <1>7, <1>10, <1>12, <1>13 DEF IInv

\* A process that un-registers looks for the next entry, and then is at the
\* head of the list, or meets a freed one.
Moves(p, from, to, e, f) ==
  /\ appGoes(p, from, to)
  /\ from \in {"running", "delete", "advance", "flush"}
  /\ to \in {"delete", "flush", "gone", "fault"}
  /\ UNCHANGED <<processList, timerVars, pending, workVars, lastwork, module>>
  /\ e \in Listed \cup {End, entry[p]} /\ entry' = [entry EXCEPT ![p] = e]
  /\ f \in Listed \cup {End, after[p]} /\ after' = [after EXCEPT ![p] = f]
  /\ to = "delete" => /\ processList # << >> /\ e = Head(processList)
                      /\ f = following(Head(processList))
  /\ to = "fault" /\ QueueThere => Doomed(p)

LEMMA RemoverMoves ==
  ASSUME IInv, NEW p \in Procs, NEW from, NEW to, NEW e, NEW f,
         Moves(p, from, to, e, f)
  PROVE  IInv'
<1>1. /\ UNCHANGED <<processList, work_timer, handler, pending, worker,
                     thisProcess, next, lastwork, module>>
      /\ Listed' = Listed
  BY DEF Moves, timerVars, workVars, Listed
<1>2. /\ Listed \subseteq Procs /\ End \notin Listed
      /\ processList # << >> =>
           /\ Head(processList) \in Listed
           /\ \/ following(Head(processList)) = End
              \/ /\ Tail(processList) # << >>
                 /\ following(Head(processList)) = Head(Tail(processList))
  BY ListFacts DEF IInv
<1>3. /\ app[p] = from /\ app'[p] = to
      /\ \A q \in Procs : q # p => app'[q] = app[q]
      /\ app' \in [Procs -> {"start", "add_timer", "queue_work", "lastwork",
                             "insert", "running", "delete", "advance",
                             "flush", "gone", "quit", "fault"}]
  BY DEF Moves, appGoes, IInv, TypeOK
<1>4. /\ entry'[p] = e /\ after'[p] = f
      /\ \A q \in Procs : q # p => /\ entry'[q] = entry[q]
                                  /\ after'[q] = after[q]
      /\ e \in Procs \cup {End} /\ f \in Procs \cup {End}
      /\ entry' \in [Procs -> Procs \cup {End}]
      /\ after' \in [Procs -> Procs \cup {End}]
  BY <1>2 DEF Moves, IInv, TypeOK
<1>5. TypeOK'
  BY <1>1, <1>3, <1>4 DEF IInv, TypeOK
<1>6. Fresh'
  <2> SUFFICES ASSUME NEW q \in Procs, New(q)', NEW r \in Procs
               PROVE  q \notin Listed /\ entry'[r] # q /\ after'[r] # q
    BY <1>1 DEF Fresh
  <2>1. New(q)
    BY <1>3 DEF Moves, New
  <2>2. q \notin Listed /\ q # End
    BY <2>1, ProfilerAssumption DEF IInv, Fresh
  <2>3. entry[r] # q /\ after[r] # q
    BY <2>1 DEF IInv, Fresh
  <2>4. CASE r = p
    BY <1>4, <2>2, <2>3, <2>4 DEF Moves
  <2>5. CASE r # p
    BY <1>4, <2>2, <2>3, <2>5
  <2>6. QED
    BY <2>4, <2>5
<1>7. ASSUME NEW q \in Procs, q # p
      PROVE  (Sound(q)' <=> Sound(q)) /\ (Doomed(q)' <=> Doomed(q))
  BY <1>7, <1>1, <1>3, <1>4 DEF Sound, Doomed
<1>8. Sound(p)' /\ ~Doomed(p)'
  BY <1>1, <1>2, <1>3, <1>4 DEF Moves, Sound, Doomed
<1>9. Walks'
  <2> SUFFICES ASSUME NEW q \in Procs PROVE Sound(q)' \/ Doomed(q)'
    BY DEF Walks
  <2>1. Sound(q) \/ Doomed(q)
    BY DEF IInv, Walks
  <2>2. CASE q = p
    BY <1>8, <2>2
  <2>3. CASE q # p
    BY <1>7, <2>1, <2>3
  <2>4. QED
    BY <2>2, <2>3
<1>10. QueueThere' <=> QueueThere
  BY <1>1 DEF QueueThere
<1>11. /\ \A q \in Procs : q # p => (q \in Removers' <=> q \in Removers)
       /\ p \in Removers' <=> to # "fault"
       /\ \A q \in Removers : q \in Procs
  BY <1>3 DEF Moves, Removers
<1>12. CASE to # "fault"
  <2>1. Ahead'
    BY <1>8, <1>11, <1>12 DEF Ahead
  <2>2. WorkerInv'
    BY <1>1, <1>10, <1>11, <1>12 DEF IInv, WorkerInv
  <2>3. QED
    BY <1>5, <1>6, <1>9, <2>1, <2>2 DEF IInv
<1>13. CASE to = "fault"
  <2>1. ASSUME QueueThere, Removers # {}
        PROVE  \E q \in Removers' : ~Doomed(q)'
    <3>1. PICK q \in Removers : ~Doomed(q)
      BY <2>1 DEF IInv, Ahead
    <3>2. q # p
      BY <1>13, <2>1, <3>1 DEF Moves
    <3>3. q \in Procs /\ q \in Removers'
      BY <1>11, <3>1, <3>2
    <3>4. ~Doomed(q)'
      BY <1>7, <3>1, <3>2, <3>3
    <3>5. QED
      BY <3>3, <3>4
  <2>2. QueueThere => p \in Removers
    BY <1>13 DEF Moves, Doomed, Removers
  <2>3. Ahead'
    BY <1>10, <2>1, <2>2 DEF Ahead
  <2>4. QueueThere => Removers' # {}
    BY <2>1, <2>2
  <2>5. ~QueueThere => worker = "idle" /\ ~pending
    BY DEF IInv, WorkerInv
  <2>6. WorkerInv'
    BY <1>1, <1>10, <2>4, <2>5 DEF IInv, WorkerInv
  <2>7. QED
    BY <1>5, <1>6, <1>9, <2>3, <2>6 DEF IInv
<1>14. QED
  BY <1>12, <1>13

\* The first entry goes: who had it before him is doomed.
LEMMA DeleteStep ==
  ASSUME IInv, NEW p \in Procs, RemoveEntry(p), entry[p] \in Listed
  PROVE  IInv'
<1>1. /\ app[p] = "delete" /\ app' = [app EXCEPT ![p] = "advance"]
      /\ processList' = RemoveAt(processList, place(entry[p]))
      /\ entry' = [entry EXCEPT ![p] = End]
      /\ UNCHANGED <<after, work_timer, handler, pending, worker,
                     thisProcess, next, lastwork, module>>
  BY DEF RemoveEntry, appGoes, timerVars, workVars
<1>2. /\ processList # << >> /\ entry[p] = Head(processList)
      /\ \/ after[p] = End
         \/ /\ Tail(processList) # << >>
            /\ after[p] = Head(Tail(processList))
  BY <1>1 DEF IInv, Walks, Sound, Doomed
<1>3. /\ Listed \subseteq Procs /\ End \notin Listed
      /\ place(Head(processList)) = 1
  BY <1>2, ListFacts DEF IInv
<1>4. /\ processList' = Tail(processList) /\ processList' \in Seq(Procs)
      /\ IsInjective(processList') /\ Listed' = Listed \ {Head(processList)}
  <2>1. /\ Tail(processList) \in Seq(Procs)
        /\ IsInjective(Tail(processList))
        /\ ToSet(Tail(processList)) = ToSet(processList) \ {Head(processList)}
        /\ RemoveAt(processList, 1) = Tail(processList)
    BY <1>2, HeadAndTail DEF IInv, TypeOK
  <2>2. processList' = Tail(processList)
    BY <1>1, <1>2, <1>3, <2>1
  <2>3. QED
    BY <2>1, <2>2 DEF Listed
<1>5. /\ app'[p] = "advance" /\ entry'[p] = End
      /\ \A q \in Procs : q # p => app'[q] = app[q] /\ entry'[q] = entry[q]
      /\ app' \in [Procs -> {"start", "add_timer", "queue_work", "lastwork",
                             "insert", "running", "delete", "advance",
                             "flush", "gone", "quit", "fault"}]
      /\ entry' \in [Procs -> Procs \cup {End}]
  BY <1>1 DEF IInv, TypeOK
<1>6. TypeOK'
  BY <1>1, <1>4, <1>5 DEF IInv, TypeOK
<1>7. Fresh'
  BY <1>1, <1>4, <1>5, ProfilerAssumption DEF IInv, Fresh, New
<1>8. after[p] = End \/ after[p] \in Listed'
  <2>1. Tail(processList) # << >>
          => Head(Tail(processList)) \in ToSet(Tail(processList))
    <3>1. PICK t : t = Tail(processList)
      OBVIOUS
    <3>2. t \in Seq(Procs) /\ IsInjective(t)
      BY <1>4, <3>1
    <3>3. t # << >> => Head(t) \in ToSet(t)
      BY <3>2, HeadAndTail
    <3>4. QED
      BY <3>1, <3>3
  <2>2. QED
    BY <1>2, <1>4, <2>1 DEF Listed
<1>9. Sound(p)' /\ ~Doomed(p)'
  BY <1>1, <1>2, <1>4, <1>5, <1>8 DEF Sound, Doomed
<1>10. ASSUME NEW q \in Procs, q # p PROVE Sound(q)' \/ Doomed(q)'
  <2>1. Sound(q) \/ Doomed(q)
    BY DEF IInv, Walks
  <2>2. CASE app[q] = "delete"
    BY <1>2, <1>4, <1>5, <1>10, <2>1, <2>2 DEF Sound, Doomed
  <2>3. CASE app[q] = "advance"
    <3>1. Head(processList) # End
      BY <1>2, <1>3
    <3>2. QED
      BY <1>1, <1>4, <1>5, <1>10, <2>1, <2>3, <3>1 DEF Sound, Doomed
  <2>4. CASE app[q] \notin {"delete", "advance"}
    BY <1>5, <1>10, <2>4 DEF Sound
  <2>5. QED
    BY <2>2, <2>3, <2>4
<1>11. Walks'
  BY <1>9, <1>10 DEF Walks
<1>12. p \in Removers' /\ p \in Removers
  BY <1>1, <1>5 DEF Removers
<1>13. Ahead'
  BY <1>9, <1>12 DEF Ahead
<1>14. WorkerInv'
  BY <1>1, <1>12 DEF IInv, WorkerInv, QueueThere
<1>15. QED
  BY <1>6, <1>7, <1>11, <1>13, <1>14 DEF IInv

\* A process un-registers.
LEMMA RemoveStep ==
  ASSUME IInv, NEW p \in Procs, remove_process(p)
  PROVE  IInv'
<1>1. /\ entry \in [Procs -> Procs \cup {End}]
      /\ after \in [Procs -> Procs \cup {End}]
      /\ processList # << >> => Head(processList) \in Listed
      /\ \A e \in Listed : following(e) \in Listed \cup {End}
  BY ListFacts DEF IInv, TypeOK
<1>2. /\ entry = [entry EXCEPT ![p] = entry[p]]
      /\ after = [after EXCEPT ![p] = after[p]]
  BY <1>1
<1>3. CASE RemoveCall(p)
  <2>1. UNCHANGED <<processList, timerVars, pending, workVars, lastwork,
                    module>>
    BY <1>3 DEF RemoveCall
  <2>2. CASE processList = << >>
    <3>1. appGoes(p, "running", "flush") /\ UNCHANGED <<entry, after>>
      BY <1>3, <2>2 DEF RemoveCall, IsEmptyList, walkVars
    <3>2. Moves(p, "running", "flush", entry[p], after[p])
      BY <1>2, <2>1, <3>1 DEF Moves
    <3>3. QED
      BY <3>2, RemoverMoves
  <2>3. CASE processList # << >>
    <3>1. /\ appGoes(p, "running", "delete")
          /\ entry' = [entry EXCEPT ![p] = Head(processList)]
          /\ after' = [after EXCEPT ![p] = following(Head(processList))]
      BY <1>3, <2>3 DEF RemoveCall, IsEmptyList
    <3>2. Moves(p, "running", "delete", Head(processList),
                following(Head(processList)))
      BY <1>1, <2>1, <2>3, <3>1 DEF Moves
    <3>3. QED
      BY <3>2, RemoverMoves
  <2>4. QED
    BY <2>2, <2>3
<1>4. CASE RemoveEntry(p)
  <2>1. CASE entry[p] \in Listed
    BY <1>4, <2>1, DeleteStep
  <2>2. CASE entry[p] \notin Listed
    <3>1. /\ appGoes(p, "delete", "fault")
          /\ UNCHANGED <<processList, timerVars, pending, workVars, lastwork,
                         module, after>>
          /\ entry' = [entry EXCEPT ![p] = End]
      BY <1>4, <2>2 DEF RemoveEntry
    <3>2. Doomed(p)
      BY <2>2, <3>1 DEF Doomed, appGoes
    <3>3. Moves(p, "delete", "fault", End, after[p])
      BY <1>2, <3>1, <3>2 DEF Moves
    <3>4. QED
      BY <3>3, RemoverMoves
  <2>3. QED
    BY <2>1, <2>2
<1>5. CASE RemoveAdvance(p)
  <2>1. UNCHANGED <<processList, timerVars, pending, workVars, lastwork,
                    module>>
    BY <1>5 DEF RemoveAdvance
  <2>2. CASE after[p] = End
    <3>1. /\ \/ appGoes(p, "advance", "flush")
             \/ appGoes(p, "advance", "gone")
          /\ UNCHANGED <<entry, after>>
      BY <1>1, <1>5, <2>2, ListFacts
      DEF RemoveAdvance, walkVars, IsEmptyList, IInv
    <3>2. \/ Moves(p, "advance", "flush", entry[p], after[p])
          \/ Moves(p, "advance", "gone", entry[p], after[p])
      BY <1>2, <2>1, <3>1 DEF Moves
    <3>3. QED
      BY <3>2, RemoverMoves
  <2>3. CASE after[p] \in Listed
    <3>1. End \notin Listed
      BY ListFacts DEF IInv
    <3>2. /\ appGoes(p, "advance", "delete")
          /\ entry' = [entry EXCEPT ![p] = after[p]]
          /\ after' = [after EXCEPT ![p] = following(after[p])]
      BY <1>5, <2>3, <3>1 DEF RemoveAdvance
    <3>3. processList # << >> /\ after[p] = Head(processList)
      BY <2>3, <3>1, <3>2 DEF IInv, Walks, Sound, Doomed, appGoes
    <3>4. Moves(p, "advance", "delete", after[p], following(after[p]))
      BY <1>1, <2>1, <3>2, <3>3 DEF Moves
    <3>5. QED
      BY <3>4, RemoverMoves
  <2>4. CASE after[p] \notin Listed \cup {End}
    <3>1. appGoes(p, "advance", "fault") /\ UNCHANGED <<entry, after>>
      BY <1>5, <2>4 DEF RemoveAdvance, walkVars
    <3>2. Doomed(p)
      BY <2>4, <3>1 DEF Doomed, appGoes
    <3>3. Moves(p, "advance", "fault", entry[p], after[p])
      BY <1>2, <2>1, <3>1, <3>2 DEF Moves
    <3>4. QED
      BY <3>3, RemoverMoves
  <2>5. QED
    BY <2>2, <2>3, <2>4
<1>6. CASE RemoveFlush(p)
  <2>1. /\ UNCHANGED <<processList, timerVars, pending, workVars, lastwork,
                       module>>
        /\ UNCHANGED <<entry, after>>
    BY <1>6 DEF RemoveFlush, walkVars
  <2>2. CASE QueueThere
    <3>1. appGoes(p, "flush", "gone")
      BY <1>6, <2>2 DEF RemoveFlush
    <3>2. Moves(p, "flush", "gone", entry[p], after[p])
      BY <1>2, <2>1, <3>1 DEF Moves
    <3>3. QED
      BY <3>2, RemoverMoves
  <2>3. CASE ~QueueThere
    <3>1. appGoes(p, "flush", "fault")
      BY <1>6, <2>3 DEF RemoveFlush
    <3>2. Moves(p, "flush", "fault", entry[p], after[p])
      BY <1>2, <2>1, <2>3, <3>1 DEF Moves
    <3>3. QED
      BY <3>2, RemoverMoves
  <2>4. QED
    BY <2>2, <2>3
<1>7. QED
  BY <1>3, <1>4, <1>5, <1>6 DEF remove_process

\* mp3_exit frees all entries; the worker has ended before.
LEMMA CleanupStep ==
  ASSUME IInv, list_cleanup
  PROVE  IInv'
<1>1. /\ processList' = << >> /\ ~QueueThere /\ ~QueueThere'
      /\ UNCHANGED <<app, entry, after, work_timer, handler, pending, worker,
                     thisProcess, next, lastwork>>
      /\ module' \in {"vmalloc", "live", "destroy", "list_cleanup", "vfree",
                      "remove_proc", "rundown", "unloaded"}
  BY DEF list_cleanup, moduleGoes, QueueThere, walkVars, timerVars, workVars
<1>2. /\ Listed' = {} /\ IsInjective(processList')
      /\ processList' \in Seq(Procs)
  <2>1. DOMAIN processList' = {}
    BY <1>1
  <2>2. QED
    BY <1>1, <2>1 DEF Listed, ToSet, IsInjective
<1>3. TypeOK'
  BY <1>1, <1>2 DEF IInv, TypeOK
<1>4. Fresh'
  BY <1>1, <1>2 DEF IInv, Fresh, New
<1>5. Walks'
  BY <1>1, <1>2 DEF Walks, Sound, Doomed
<1>6. Ahead' /\ WorkerInv'
  BY <1>1 DEF IInv, Ahead, WorkerInv
<1>7. QED
  BY <1>3, <1>4, <1>5, <1>6 DEF IInv

-----------------------------------------------------------------------------

LEMMA NextIInv == IInv /\ [Next]_vars => IInv'
<1> SUFFICES ASSUME IInv, [Next]_vars PROVE IInv'
  OBVIOUS
<1>1. ASSUME NEW p \in Procs, add_process(p) \/ Quit(p) PROVE IInv'
  BY <1>1, RegisterStep, InsertStep DEF add_process
<1>2. ASSUME NEW p \in Procs, remove_process(p) PROVE IInv'
  BY <1>2, RemoveStep
<1>3. QED
  BY <1>1, <1>2, QuietStep, WorkerStep, CleanupStep DEF Next, mp3_exit

LEMMA SpecIInv == Spec => []IInv
  BY InitIInv, NextIInv, PTL DEF Spec

\* The list holds each process once, and all actors keep their types.
THEOREM TypeCorrect == Spec => []TypeOK
  BY SpecIInv, PTL DEF IInv

\* Without the lock, the worker meets no freed entry before somebody
\* un-registers, nor does who un-registers alone before the unload, and no
\* work outlives its queue: for any number of processes.
THEOREM WalksSafe == Spec => []WalksAreSafe
<1>1. IInv => WalksAreSafe
  <2> SUFFICES ASSUME IInv PROVE WalksAreSafe
    OBVIOUS
  <2>1. ASSUME NEW p \in Procs, Removers = {p}, QueueThere
        PROVE  /\ app[p] = "delete" => entry[p] \in Listed
               /\ app[p] \in {"delete", "advance"} =>
                    after[p] \in Listed \cup {End}
    <3>1. ~Doomed(p) /\ Sound(p)
      BY <2>1 DEF IInv, Ahead, Walks
    <3>2. app[p] = "delete" /\ after[p] # End => after[p] \in Listed
      BY <3>1, ListFacts DEF Sound, IInv
    <3>3. QED
      BY <3>1, <3>2 DEF Doomed
  <2>2. QED
    BY <2>1 DEF IInv, WorkerInv, WalksAreSafe
<1>2. QED
  BY <1>1, SpecIInv, PTL
=============================================================================
