--------------------------- MODULE AdmissionProofs ---------------------------
(***************************************************************************)
(* Proofs about Admission for every set of tasks: what a process believes  *)
(* of its registration, how long the list passes the test, whom the test    *)
(* turns away and whom it never does.                                      *)
(***************************************************************************)
EXTENDS Admission, FiniteSetTheorems, TLAPS

States == {"start", "admitted", "read", "list", "nothing", "found", "others",
           "reset", "seen", "left"}

\* What a step of one process does to the places of all.
LEMMA AppMoves ==
  ASSUME TypeOK, NEW t \in Tasks, NEW from \in States, NEW to \in States,
         appGoes(t, from, to)
  PROVE  /\ app[t] = from /\ app'[t] = to
         /\ \A u \in Tasks : u # t => app'[u] = app[u]
         /\ app' \in [Tasks -> States]
  BY DEF appGoes, TypeOK, States

\* A read, or a write that is turned away, leaves the list alone.  It ends in
\* "seen" only from "found", where the pid was in the list; "found" itself is
\* reached only with the pid there.
Reads(t) ==
  \E from \in States \ {"admitted", "seen", "left"},
     to \in States \ {"start", "admitted", "left"} :
    /\ appGoes(t, from, to)
    /\ to = "found" => t \in processList
    /\ to = "seen" => from = "found"
    /\ UNCHANGED <<processList, disturbed>>
    /\ read_end' \in BOOLEAN

LEMMA ReadsOrRejected ==
  ASSUME TypeOK, NEW t \in Tasks, mp2_read(t) \/ Reject(t)
  PROVE  Reads(t)
<1>1. read_end \in BOOLEAN /\ UNCHANGED disturbed
  BY DEF TypeOK, mp2_read, Reject
<1>2. CASE Reject(t)
  BY <1>1, <1>2 DEF Reject, Reads, States
<1>3. CASE ReadCall(t)
  BY <1>1, <1>3 DEF ReadCall, Reads, States
<1>4. CASE ReadList(t)
  <2>1. CASE processList = {}
    <3>1. appGoes(t, "list", "nothing")
      BY <1>4, <2>1 DEF ReadList
    <3>2. QED
      BY <1>1, <1>4, <3>1 DEF ReadList, Reads, States
  <2>2. CASE t \in processList
    <3>1. appGoes(t, "list", "found")
      BY <1>4, <2>2 DEF ReadList
    <3>2. QED
      BY <1>1, <1>4, <2>2, <3>1 DEF ReadList, Reads, States
  <2>3. CASE processList # {} /\ t \notin processList
    <3>1. appGoes(t, "list", "others")
      BY <1>4, <2>3 DEF ReadList
    <3>2. QED
      BY <1>1, <1>4, <3>1 DEF ReadList, Reads, States
  <2>4. QED
    BY <2>1, <2>2, <2>3
<1>5. CASE ReadMark(t)
  BY <1>1, <1>5 DEF ReadMark, Reads, States
<1>6. CASE ReadNothing(t)
  BY <1>1, <1>6 DEF ReadNothing, Reads, States
<1>7. CASE ReadReset(t)
  BY <1>1, <1>7 DEF ReadReset, Reads, States
<1>8. QED
  BY <1>2, <1>3, <1>4, <1>5, <1>6, <1>7 DEF mp2_read

-----------------------------------------------------------------------------
\* Types, and who is in the list

\* A process that has read its pid is still in the list when its read returns.
IInv == TypeOK /\ \A t \in Tasks : app[t] = "found" => t \in processList

LEMMA InitIInv == Init => IInv
  BY DEF Init, IInv, TypeOK

LEMMA NextIInv == IInv /\ [Next]_vars => IInv'
<1> SUFFICES ASSUME IInv, [Next]_vars PROVE IInv'
  OBVIOUS
<1>1. TypeOK
  BY DEF IInv
<1>2. ASSUME NEW t \in Tasks, Reads(t) PROVE IInv'
  <2>1. PICK from \in States \ {"admitted", "seen", "left"},
             to \in States \ {"start", "admitted", "left"} :
               /\ appGoes(t, from, to)
               /\ to = "found" => t \in processList
               /\ to = "seen" => from = "found"
               /\ UNCHANGED <<processList, disturbed>>
               /\ read_end' \in BOOLEAN
    BY <1>2 DEF Reads
  <2>2. /\ app[t] = from /\ app'[t] = to
        /\ \A u \in Tasks : u # t => app'[u] = app[u]
        /\ app' \in [Tasks -> States]
    BY <1>1, <2>1, AppMoves DEF States
  <2>3. \A u \in Tasks : app'[u] \in {"found", "seen"} => u \in processList
    BY <2>1, <2>2 DEF IInv, TypeOK
  <2>4. \A u \in Tasks : app'[u] \in {"start", "admitted", "left"}
                           => u \notin processList
    BY <2>1, <2>2 DEF IInv, TypeOK
  <2>5. QED
    BY <2>1, <2>2, <2>3, <2>4 DEF IInv, TypeOK, States
<1>3. ASSUME NEW t \in Tasks, Accept(t) PROVE IInv'
  <2>1. /\ appGoes(t, "start", "admitted")
        /\ UNCHANGED <<processList, read_end>>
    BY <1>3 DEF Accept
  <2>2. disturbed' \in BOOLEAN
    BY <1>3 DEF Accept
  <2>3. /\ app[t] = "start" /\ app'[t] = "admitted"
        /\ \A u \in Tasks : u # t => app'[u] = app[u]
        /\ app' \in [Tasks -> States]
    BY <1>1, <2>1, AppMoves DEF States
  <2>4. QED
    BY <2>1, <2>2, <2>3 DEF IInv, TypeOK, States
<1>4. ASSUME NEW t \in Tasks, add_process(t) PROVE IInv'
  <2>1. /\ appGoes(t, "admitted", "read")
        /\ processList' = processList \cup {t} /\ UNCHANGED read_end
    BY <1>4 DEF add_process
  <2>2. disturbed' \in BOOLEAN
    BY <1>1, <1>4 DEF add_process, TypeOK
  <2>3. /\ app[t] = "admitted" /\ app'[t] = "read"
        /\ \A u \in Tasks : u # t => app'[u] = app[u]
        /\ app' \in [Tasks -> States]
    BY <1>1, <2>1, AppMoves DEF States
  <2>4. QED
    BY <2>1, <2>2, <2>3 DEF IInv, TypeOK, States
<1>5. ASSUME NEW t \in Tasks, de_register(t) PROVE IInv'
  <2>1. /\ appGoes(t, "seen", "left")
        /\ processList' = processList \ {t} /\ UNCHANGED read_end
    BY <1>5 DEF de_register
  <2>2. disturbed' \in BOOLEAN
    BY <1>5 DEF de_register
  <2>3. /\ app[t] = "seen" /\ app'[t] = "left"
        /\ \A u \in Tasks : u # t => app'[u] = app[u]
        /\ app' \in [Tasks -> States]
    BY <1>1, <2>1, AppMoves DEF States
  <2>4. QED
    BY <2>1, <2>2, <2>3 DEF IInv, TypeOK, States
<1>6. CASE UNCHANGED vars
  BY <1>6 DEF vars, IInv, TypeOK
<1>7. QED
  BY <1>1, <1>2, <1>3, <1>4, <1>5, <1>6, ReadsOrRejected
  DEF Next, mp2_write

\* Processes and the list keep their types; a process that takes itself for
\* registered is in the list, although its read looked before it returned, and
\* one that is only about to be added, or has left, is not.
THEOREM TypeCorrect == Spec => []TypeOK
<1>1. IInv => TypeOK
  BY DEF IInv
<1>2. QED
  BY <1>1, InitIInv, NextIInv, PTL DEF Spec

-----------------------------------------------------------------------------
\* Sums and products over finite sets

\* What holds of a set as soon as it holds of its proper subsets holds of all
\* subsets of a finite set.
LEMMA Smallest ==
  ASSUME NEW S, IsFiniteSet(S), NEW good,
         \A T \in SUBSET S : (\A U \in SUBSET T : U # T => U \in good)
                               => T \in good
  PROVE  \A T \in SUBSET S : T \in good
<1> DEFINE bad == {T \in SUBSET S : T \notin good}
<1>1. bad \subseteq SUBSET S
  OBVIOUS
<1> HIDE DEF bad
<1>2. ASSUME bad # {} PROVE FALSE
  <2>1. IsWellFoundedOn(StrictSubsetOrdering(S), SUBSET S)
    BY FS_StrictSubsetOrderingWellFounded, FS_FiniteSubsetsOfFinite
  <2>2. PICK T \in bad : \A U \in bad : <<U, T>> \notin StrictSubsetOrdering(S)
    BY <1>1, <1>2, <2>1, WFMin
  <2>3. ASSUME NEW U \in SUBSET T, U # T PROVE U \in good
    <3>1. U \in SUBSET S /\ T \in SUBSET S
      BY <1>1
    <3>2. <<U, T>> \in StrictSubsetOrdering(S)
      BY <2>3, <3>1 DEF StrictSubsetOrdering
    <3>3. U \notin bad
      BY <2>2, <3>2
    <3>4. QED
      BY <3>1, <3>3 DEF bad
  <2>4. T \in SUBSET S /\ T \notin good
    BY DEF bad
  <2>5. QED
    BY <2>3, <2>4
<1>3. QED
  BY <1>2 DEF bad

\* A fold picks the elements of a set one by one, and adds or multiplies.
Pick(s) == CHOOSE x \in s : TRUE

Base(mul) == IF mul THEN 1 ELSE 0

Combine(mul, x, y) == IF mul THEN x * y ELSE x + y

IsFold(g, mul, f, S) ==
  g = [s \in SUBSET S |-> IF s = {} THEN Base(mul)
                          ELSE Combine(mul, f[Pick(s)], g[s \ {Pick(s)}])]

Fold(mul, f, S) == CHOOSE g : IsFold(g, mul, f, S)

LEMMA Picked ==
  ASSUME NEW s, s # {}
  PROVE  Pick(s) \in s /\ s \ {Pick(s)} \in SUBSET s /\ s \ {Pick(s)} # s
<1>1. \E x \in s : TRUE
  OBVIOUS
<1>2. Pick(s) \in s
  BY <1>1 DEF Pick
<1>3. QED
  BY <1>2

LEMMA Algebra ==
  ASSUME NEW mul \in BOOLEAN
  PROVE  /\ Base(mul) \in Nat
         /\ \A x, y \in Nat : Combine(mul, x, y) \in Nat
         /\ \A x, y, z \in Nat : Combine(mul, x, Combine(mul, y, z))
                                   = Combine(mul, y, Combine(mul, x, z))
<1>1. CASE mul
  BY <1>1 DEF Base, Combine
<1>2. CASE ~mul
  BY <1>2 DEF Base, Combine
<1>3. QED
  BY <1>1, <1>2

LEMMA FoldAt ==
  ASSUME NEW mul, NEW f, NEW S, NEW g, IsFold(g, mul, f, S)
  PROVE  /\ g[{}] = Base(mul)
         /\ \A s \in SUBSET S : s # {} =>
              g[s] = Combine(mul, f[Pick(s)], g[s \ {Pick(s)}])
<1>1. \A s \in SUBSET S :
        g[s] = IF s = {} THEN Base(mul)
               ELSE Combine(mul, f[Pick(s)], g[s \ {Pick(s)}])
  BY DEF IsFold
<1>2. QED
  BY <1>1

LEMMA FoldUnique ==
  ASSUME NEW mul, NEW f, NEW A, NEW B, IsFiniteSet(A), A \subseteq B,
         NEW g, IsFold(g, mul, f, A), NEW h, IsFold(h, mul, f, B)
  PROVE  \A s \in SUBSET A : g[s] = h[s]
<1> DEFINE good == {s \in SUBSET A : g[s] = h[s]}
<1>1. ASSUME NEW T \in SUBSET A, \A U \in SUBSET T : U # T => U \in good
      PROVE  T \in good
  <2>1. CASE T = {}
    <3>1. g[{}] = Base(mul) /\ h[{}] = Base(mul)
      BY FoldAt
    <3>2. QED
      BY <2>1, <3>1
  <2>2. CASE T # {}
    <3>1. T \ {Pick(T)} \in good
      BY <1>1, <2>2, Picked
    <3>2. /\ g[T] = Combine(mul, f[Pick(T)], g[T \ {Pick(T)}])
          /\ h[T] = Combine(mul, f[Pick(T)], h[T \ {Pick(T)}])
      <4>1. T \in SUBSET B
        OBVIOUS
      <4>2. QED
        BY <2>2, <4>1, FoldAt
    <3>3. QED
      BY <3>1, <3>2
  <2>3. QED
    BY <2>1, <2>2
<1> HIDE DEF good
<1>2. \A s \in SUBSET A : s \in good
  BY <1>1, Smallest
<1>3. QED
  BY <1>2 DEF good

LEMMA FoldTyped ==
  ASSUME NEW mul \in BOOLEAN, NEW S, IsFiniteSet(S),
         NEW f, \A x \in S : f[x] \in Nat, NEW g, IsFold(g, mul, f, S)
  PROVE  \A s \in SUBSET S : g[s] \in Nat
<1>0. \A s \in SUBSET S : s # {} =>
        g[s] = Combine(mul, f[Pick(s)], g[s \ {Pick(s)}])
  BY FoldAt
<1> DEFINE good == {s \in SUBSET S : g[s] \in Nat}
<1>1. ASSUME NEW T \in SUBSET S, \A U \in SUBSET T : U # T => U \in good
      PROVE  T \in good
  <2>1. CASE T = {}
    <3>1. g[{}] = Base(mul) /\ Base(mul) \in Nat
      BY FoldAt, Algebra
    <3>2. QED
      BY <2>1, <3>1
  <2>2. CASE T # {}
    <3>1. Pick(T) \in T /\ T \ {Pick(T)} \in good
      BY <1>1, <2>2, Picked
    <3>4. g[T \ {Pick(T)}] \in Nat /\ f[Pick(T)] \in Nat
      BY <3>1
    <3>2. g[T] = Combine(mul, f[Pick(T)], g[T \ {Pick(T)}])
      BY <1>0, <2>2
    <3>3. QED
      <4>1. Combine(mul, f[Pick(T)], g[T \ {Pick(T)}]) \in Nat
        BY <3>4, Algebra
      <4>2. QED
        BY <3>2, <4>1
  <2>3. QED
    BY <2>1, <2>2
<1> HIDE DEF good
<1>2. \A s \in SUBSET S : s \in good
  BY <1>1, Smallest
<1>3. QED
  BY <1>2 DEF good

LEMMA FoldExists ==
  ASSUME NEW mul, NEW f, NEW S, IsFiniteSet(S)
  PROVE  IsFold(Fold(mul, f, S), mul, f, S)
<1> DEFINE good == {T \in SUBSET S : \E g : IsFold(g, mul, f, T)}
           val(T) == Fold(mul, f, T)[T]
<1>1. ASSUME NEW T \in SUBSET S, \A U \in SUBSET T : U # T => U \in good
      PROVE  T \in good
  <2> DEFINE g == [s \in SUBSET T |->
                     IF s = {} THEN Base(mul)
                     ELSE Combine(mul, f[Pick(s)], val(s \ {Pick(s)}))]
  <2>1. ASSUME NEW U \in SUBSET T, U # T
        PROVE  IsFold(Fold(mul, f, U), mul, f, U) /\ IsFiniteSet(U)
    <3>1. \E h : IsFold(h, mul, f, U)
      BY <1>1, <2>1
    <3>2. IsFiniteSet(U)
      BY FS_Subset
    <3>3. QED
      BY <3>1, <3>2 DEF Fold
  <2>2. ASSUME NEW U \in SUBSET T, U # T
        PROVE  g[U] = val(U)
    <3>1. CASE U = {}
      BY <2>1, <2>2, <3>1, FoldAt
    <3>2. CASE U # {}
      <4>1. /\ U \ {Pick(U)} \in SUBSET U /\ U \ {Pick(U)} # T
            /\ U \ {Pick(U)} \in SUBSET T
        BY <2>2, <3>2, Picked
      <4>2. val(U) = Combine(mul, f[Pick(U)],
                             Fold(mul, f, U)[U \ {Pick(U)}])
        BY <2>1, <2>2, <3>2, FoldAt
      <4>3. val(U \ {Pick(U)}) = Fold(mul, f, U)[U \ {Pick(U)}]
        <5> DEFINE V == U \ {Pick(U)}
                   G == Fold(mul, f, V)
                   H == Fold(mul, f, U)
        <5>1. /\ IsFold(H, mul, f, U) /\ IsFold(G, mul, f, V)
              /\ IsFiniteSet(V) /\ V \subseteq U
          BY <2>1, <2>2, <4>1
        <5> HIDE DEF V, G, H
        <5>2. \A s \in SUBSET V : G[s] = H[s]
          BY <5>1, FoldUnique
        <5>3. G[V] = H[V]
          BY <5>2
        <5>4. QED
          BY <5>3 DEF V, G, H
      <4>4. QED
        BY <3>2, <4>2, <4>3
    <3>3. QED
      BY <3>1, <3>2
  <2>3. ASSUME NEW s \in SUBSET T
        PROVE  g[s] = IF s = {} THEN Base(mul)
                      ELSE Combine(mul, f[Pick(s)], g[s \ {Pick(s)}])
    <3>1. CASE s = {}
      BY <3>1
    <3>2. CASE s # {}
      <4>1. s \ {Pick(s)} \in SUBSET T /\ s \ {Pick(s)} # T
        BY <3>2, Picked
      <4>2. g[s \ {Pick(s)}] = val(s \ {Pick(s)})
        BY <2>2, <4>1
      <4>3. g[s] = Combine(mul, f[Pick(s)], val(s \ {Pick(s)}))
        BY <3>2
      <4>4. QED
        BY <3>2, <4>2, <4>3
    <3>3. QED
      BY <3>1, <3>2
  <2>4. g = [s \in SUBSET T |-> g[s]]
    OBVIOUS
  <2> HIDE DEF g
  <2>5. g = [s \in SUBSET T |->
               IF s = {} THEN Base(mul)
               ELSE Combine(mul, f[Pick(s)], g[s \ {Pick(s)}])]
    BY <2>3, <2>4
  <2>6. QED
    BY <2>5 DEF IsFold
<1> HIDE DEF good
<1>2. \A s \in SUBSET S : s \in good
  BY <1>1, Smallest
<1>3. \E g : IsFold(g, mul, f, S)
  BY <1>2 DEF good
<1>4. QED
  BY <1>3 DEF Fold

\* The order in which the elements are picked does not matter.
LEMMA FoldTakes ==
  ASSUME NEW mul \in BOOLEAN, NEW S, IsFiniteSet(S),
         NEW f, \A x \in S : f[x] \in Nat, NEW g, IsFold(g, mul, f, S)
  PROVE  \A s \in SUBSET S, a \in S :
           a \in s => g[s] = Combine(mul, f[a], g[s \ {a}])
<1>0. \A s \in SUBSET S : s # {} =>
        g[s] = Combine(mul, f[Pick(s)], g[s \ {Pick(s)}])
  BY FoldAt
<1> DEFINE good == {s \in SUBSET S : \A a \in S :
                      a \in s => g[s] = Combine(mul, f[a], g[s \ {a}])}
<1>1. ASSUME NEW T \in SUBSET S, \A U \in SUBSET T : U # T => U \in good
      PROVE  T \in good
  <2> SUFFICES ASSUME NEW a \in S, a \in T
               PROVE  g[T] = Combine(mul, f[a], g[T \ {a}])
    OBVIOUS
  <2> DEFINE p == Pick(T)
  <2>1. p \in T /\ g[T] = Combine(mul, f[p], g[T \ {p}])
    BY <1>0, Picked
  <2> HIDE DEF p
  <2>2. CASE a = p
    BY <2>1, <2>2
  <2>3. CASE a # p
    <3>1. /\ T \ {p} \in good /\ a \in T \ {p}
          /\ T \ {a} \in good /\ p \in T \ {a} /\ p \in S
          /\ (T \ {p}) \ {a} = (T \ {a}) \ {p}
      <4>1. /\ T \ {p} \in SUBSET T /\ T \ {p} # T
            /\ T \ {a} \in SUBSET T /\ T \ {a} # T
        BY <2>1
      <4>2. T \ {p} \in good /\ T \ {a} \in good
        BY <1>1, <4>1
      <4>3. (T \ {p}) \ {a} = (T \ {a}) \ {p}
        OBVIOUS
      <4>4. QED
        BY <2>1, <2>3, <4>2, <4>3
    <3> DEFINE r == g[(T \ {a}) \ {p}]
    <3>2. /\ g[T \ {p}] = Combine(mul, f[a], r)
          /\ g[T \ {a}] = Combine(mul, f[p], r)
      BY <3>1
    <3>3. r \in Nat /\ f[a] \in Nat /\ f[p] \in Nat
      <4>1. (T \ {a}) \ {p} \in SUBSET S
        OBVIOUS
      <4>2. r \in Nat
        BY <4>1, FoldTyped
      <4>3. QED
        BY <3>1, <4>2
    <3> HIDE DEF r
    <3>4. Combine(mul, f[p], Combine(mul, f[a], r))
            = Combine(mul, f[a], Combine(mul, f[p], r))
      <4>1. \A x, y, z \in Nat : Combine(mul, x, Combine(mul, y, z))
                                  = Combine(mul, y, Combine(mul, x, z))
        BY Algebra
      <4>2. QED
        BY <3>3, <4>1
    <3>5. QED
      BY <2>1, <3>2, <3>4
  <2>4. QED
    BY <2>2, <2>3
<1> HIDE DEF good
<1>2. \A s \in SUBSET S : s \in good
  BY <1>1, Smallest
<1>3. QED
  BY <1>2 DEF good

\* The value of a fold.
Total(mul, f, S) == Fold(mul, f, S)[S]

LEMMA TotalFacts ==
  ASSUME NEW mul \in BOOLEAN, NEW S, IsFiniteSet(S),
         NEW f, \A x \in S : f[x] \in Nat
  PROVE  /\ Total(mul, f, S) \in Nat
         /\ S = {} => Total(mul, f, S) = Base(mul)
         /\ \A a \in S : Total(mul, f, S)
                           = Combine(mul, f[a], Total(mul, f, S \ {a}))
         /\ \A g : IsFold(g, mul, f, S) => g[S] = Total(mul, f, S)
<1> DEFINE F == Fold(mul, f, S)
<1>1. IsFold(F, mul, f, S)
  BY FoldExists
<1>2. \A g : IsFold(g, mul, f, S) => g[S] = F[S]
  BY <1>1, FoldUnique
<1>3. F[S] \in Nat
  BY <1>1, FoldTyped
<1>4. F[{}] = Base(mul)
  BY <1>1, FoldAt
<1>5. ASSUME NEW a \in S
      PROVE  F[S] = Combine(mul, f[a], Total(mul, f, S \ {a}))
  <2> DEFINE A == S \ {a}
             G == Fold(mul, f, A)
  <2>1. F[S] = Combine(mul, f[a], F[A])
    BY <1>1, FoldTakes
  <2>2. IsFiniteSet(A) /\ A \subseteq S
    BY FS_Subset
  <2> HIDE DEF A
  <2>3. IsFold(G, mul, f, A)
    BY <2>2, FoldExists
  <2> HIDE DEF G, F
  <2>4. \A s \in SUBSET A : G[s] = F[s]
    BY <1>1, <2>2, <2>3, FoldUnique
  <2>5. G[A] = F[A]
    BY <2>4
  <2>6. QED
    BY <2>1, <2>5 DEF A, G, Total
<1>6. QED
  BY <1>2, <1>3, <1>4, <1>5 DEF Total

\* What a set demands, task by task.
shares(S) == [t \in S |-> Computation[t] * hyperperiod(S \ {t})]

LEMMA TaskTotals ==
  ASSUME NEW mul \in BOOLEAN, NEW S \in SUBSET Tasks,
         NEW f, \A x \in S : f[x] \in Nat
  PROVE  /\ \E g : IsFold(g, mul, f, S)
         /\ \A g : IsFold(g, mul, f, S) => g[S] = Total(mul, f, S)
         /\ Total(mul, f, S) \in Nat
         /\ S = {} => Total(mul, f, S) = Base(mul)
         /\ \A a \in S : Total(mul, f, S)
                           = Combine(mul, f[a], Total(mul, f, S \ {a}))
<1>1. IsFiniteSet(S)
  BY AdmissionAssumption, FS_Subset
<1>2. \E g : IsFold(g, mul, f, S)
  BY <1>1, FoldExists
<1>3. /\ \A g : IsFold(g, mul, f, S) => g[S] = Total(mul, f, S)
      /\ Total(mul, f, S) \in Nat
      /\ S = {} => Total(mul, f, S) = Base(mul)
  BY <1>1, TotalFacts, SMTT(20)
<1>4. \A a \in S : Total(mul, f, S)
                     = Combine(mul, f[a], Total(mul, f, S \ {a}))
  BY <1>1, TotalFacts, SMTT(20)
<1>5. QED
  BY <1>2, <1>3, <1>4

LEMMA SumsAreTotals ==
  ASSUME NEW S \in SUBSET Tasks
  PROVE  /\ comp_sum(S) = Total(FALSE, Computation, S)
         /\ period_sum(S) = Total(FALSE, Period, S)
         /\ hyperperiod(S) = Total(TRUE, Period, S)
<1>1. Computation \in [Tasks -> Nat] /\ Period \in [Tasks -> Nat]
  BY AdmissionAssumption
<1>2. comp_sum(S) = Total(FALSE, Computation, S)
  <2> DEFINE it == CHOOSE g : g = [s \in SUBSET S |->
               IF s = {} THEN 0
               ELSE Computation[Pick(s)] + g[s \ {Pick(s)}]]
  <2>1. \E g : IsFold(g, FALSE, Computation, S)
    BY <1>1, TaskTotals
  <2>2. \E g : g = [s \in SUBSET S |->
               IF s = {} THEN 0
               ELSE Computation[Pick(s)] + g[s \ {Pick(s)}]]
    BY <2>1 DEF IsFold, Base, Combine
  <2>3. IsFold(it, FALSE, Computation, S)
    BY <2>2 DEF IsFold, Base, Combine
  <2>4. comp_sum(S) = it[S]
    BY DEF comp_sum, MapThenSumSet, MapThenFoldSet, Pick
  <2> HIDE DEF it
  <2>5. \A g : IsFold(g, FALSE, Computation, S)
                 => g[S] = Total(FALSE, Computation, S)
    BY <1>1, TaskTotals
  <2>6. QED
    BY <2>3, <2>4, <2>5
<1>3. period_sum(S) = Total(FALSE, Period, S)
  <2> DEFINE it == CHOOSE g : g = [s \in SUBSET S |->
               IF s = {} THEN 0
               ELSE Period[Pick(s)] + g[s \ {Pick(s)}]]
  <2>1. \E g : IsFold(g, FALSE, Period, S)
    BY <1>1, TaskTotals
  <2>2. \E g : g = [s \in SUBSET S |->
               IF s = {} THEN 0
               ELSE Period[Pick(s)] + g[s \ {Pick(s)}]]
    BY <2>1 DEF IsFold, Base, Combine
  <2>3. IsFold(it, FALSE, Period, S)
    BY <2>2 DEF IsFold, Base, Combine
  <2>4. period_sum(S) = it[S]
    BY DEF period_sum, MapThenSumSet, MapThenFoldSet, Pick
  <2> HIDE DEF it
  <2>5. \A g : IsFold(g, FALSE, Period, S) => g[S] = Total(FALSE, Period, S)
    BY <1>1, TaskTotals
  <2>6. QED
    BY <2>3, <2>4, <2>5
<1>4. hyperperiod(S) = Total(TRUE, Period, S)
  <2> DEFINE it == CHOOSE g : g = [s \in SUBSET S |->
               IF s = {} THEN 1
               ELSE Period[Pick(s)] * g[s \ {Pick(s)}]]
  <2>1. \E g : IsFold(g, TRUE, Period, S)
    BY <1>1, TaskTotals
  <2>2. \E g : g = [s \in SUBSET S |->
               IF s = {} THEN 1
               ELSE Period[Pick(s)] * g[s \ {Pick(s)}]]
    BY <2>1 DEF IsFold, Base, Combine
  <2>3. IsFold(it, TRUE, Period, S)
    BY <2>2 DEF IsFold, Base, Combine
  <2>4. hyperperiod(S) = it[S]
    BY DEF hyperperiod, FoldSet, MapThenFoldSet, Pick
  <2> HIDE DEF it
  <2>5. \A g : IsFold(g, TRUE, Period, S) => g[S] = Total(TRUE, Period, S)
    BY <1>1, TaskTotals
  <2>6. QED
    BY <2>3, <2>4, <2>5
<1>5. QED
  BY <1>2, <1>3, <1>4

\* What the proof needs of the three sums and products of the model.
LEMMA SumFacts ==
  ASSUME NEW S \in SUBSET Tasks
  PROVE  /\ comp_sum(S) \in Nat /\ period_sum(S) \in Nat
         /\ hyperperiod(S) \in Nat
         /\ S = {} => /\ comp_sum(S) = 0 /\ period_sum(S) = 0
                       /\ hyperperiod(S) = 1
         /\ \A a \in S :
              /\ comp_sum(S) = Computation[a] + comp_sum(S \ {a})
              /\ period_sum(S) = Period[a] + period_sum(S \ {a})
              /\ hyperperiod(S) = Period[a] * hyperperiod(S \ {a})
<1>1. Computation \in [Tasks -> Nat] /\ Period \in [Tasks -> Nat]
  BY AdmissionAssumption
<1>2. /\ Total(FALSE, Computation, S) \in Nat
      /\ S = {} => Total(FALSE, Computation, S) = 0
      /\ \A a \in S : Total(FALSE, Computation, S)
           = Computation[a] + Total(FALSE, Computation, S \ {a})
  BY <1>1, TaskTotals DEF Base, Combine
<1>3. /\ Total(FALSE, Period, S) \in Nat
      /\ S = {} => Total(FALSE, Period, S) = 0
      /\ \A a \in S : Total(FALSE, Period, S)
           = Period[a] + Total(FALSE, Period, S \ {a})
  BY <1>1, TaskTotals DEF Base, Combine
<1>4. /\ Total(TRUE, Period, S) \in Nat
      /\ S = {} => Total(TRUE, Period, S) = 1
      /\ \A a \in S : Total(TRUE, Period, S)
           = Period[a] * Total(TRUE, Period, S \ {a})
  BY <1>1, TaskTotals DEF Base, Combine
<1>5. \A a \in S : S \ {a} \in SUBSET Tasks
  OBVIOUS
<1>6. QED
  BY <1>2, <1>3, <1>4, <1>5, SumsAreTotals

LEMMA DemandIsTotal ==
  ASSUME NEW S \in SUBSET Tasks
  PROVE  /\ \A x \in S : shares(S)[x] \in Nat
         /\ demand(S) = Total(FALSE, shares(S), S)
<1>1. \A x \in S : shares(S)[x] \in Nat
  <2>1. ASSUME NEW t \in S
        PROVE  Computation[t] * hyperperiod(S \ {t}) \in Nat
    <3>1. Computation[t] \in Nat
      BY AdmissionAssumption
    <3>2. hyperperiod(S \ {t}) \in Nat
      BY SumFacts
    <3>3. QED
      BY <3>1, <3>2
  <2>2. QED
    BY <2>1 DEF shares
<1>2. IsFiniteSet(S)
  BY AdmissionAssumption, FS_Subset
<1> DEFINE it == CHOOSE g : g = [s \in SUBSET S |->
             IF s = {} THEN 0
             ELSE Computation[Pick(s)] * hyperperiod(S \ {Pick(s)})
                    + g[s \ {Pick(s)}]]
<1>3. \E g : IsFold(g, FALSE, shares(S), S)
  BY <1>1, <1>2, FoldExists
<1>4. ASSUME NEW g
      PROVE  IsFold(g, FALSE, shares(S), S) <=>
               g = [s \in SUBSET S |->
                 IF s = {} THEN 0
                 ELSE Computation[Pick(s)] * hyperperiod(S \ {Pick(s)})
                        + g[s \ {Pick(s)}]]
  <2>1. \A s \in SUBSET S : s # {} =>
          shares(S)[Pick(s)]
            = Computation[Pick(s)] * hyperperiod(S \ {Pick(s)})
    BY Picked DEF shares
  <2>2. QED
    BY <2>1 DEF IsFold, Base, Combine
<1>5. IsFold(it, FALSE, shares(S), S)
  BY <1>3, <1>4
<1>6. demand(S) = it[S]
  BY DEF demand, MapThenSumSet, MapThenFoldSet, Pick
<1> HIDE DEF it
<1>7. \A g : IsFold(g, FALSE, shares(S), S)
               => g[S] = Total(FALSE, shares(S), S)
  <2>1. S \in SUBSET S /\ FALSE \in BOOLEAN
    OBVIOUS
  <2>2. QED
    BY <1>1, <1>2, <2>1, TotalFacts
<1>8. QED
  BY <1>1, <1>5, <1>6, <1>7

\* A sum over more tasks is no smaller.
LEMMA SumGrows ==
  ASSUME NEW f, \A t \in Tasks : f[t] \in Nat, NEW S \in SUBSET Tasks
  PROVE  Total(FALSE, f, S) <= Total(FALSE, f, Tasks)
<1> DEFINE sum(T) == Total(FALSE, f, T)
           good == {T \in SUBSET Tasks :
                      \A U \in SUBSET T : sum(U) <= sum(T)}
<1>1. ASSUME NEW T \in SUBSET Tasks
      PROVE  /\ sum(T) \in Nat
             /\ \A a \in T : sum(T) = f[a] + sum(T \ {a})
  BY TaskTotals DEF Combine
<1>2. ASSUME NEW T \in SUBSET Tasks, \A U \in SUBSET T : U # T => U \in good
      PROVE  T \in good
  <2> SUFFICES ASSUME NEW U \in SUBSET T PROVE sum(U) <= sum(T)
    OBVIOUS
  <2> HIDE DEF sum
  <2>1. CASE U = T
    BY <1>1, <2>1
  <2>2. CASE U # T
    <3>1. PICK a \in T : a \notin U
      BY <2>2
    <3>2. T \ {a} \in good /\ U \in SUBSET (T \ {a})
      BY <1>2, <3>1
    <3>3. sum(U) <= sum(T \ {a})
      BY <3>2
    <3>4. /\ sum(T) = f[a] + sum(T \ {a}) /\ f[a] \in Nat
          /\ sum(T \ {a}) \in Nat /\ sum(U) \in Nat
      BY <1>1
    <3>5. QED
      BY <3>3, <3>4
  <2>3. QED
    BY <2>1, <2>2
<1>3. \A T \in SUBSET Tasks : T \in good
  <2> HIDE DEF good
  <2>1. QED
    BY <1>2, AdmissionAssumption, Smallest
<1>4. QED
  BY <1>3

LEMMA SumsGrow ==
  ASSUME NEW S \in SUBSET Tasks
  PROVE  /\ comp_sum(S) <= comp_sum(Tasks)
         /\ period_sum(S) <= period_sum(Tasks)
<1>1. /\ \A t \in Tasks : Computation[t] \in Nat
      /\ \A t \in Tasks : Period[t] \in Nat
  BY AdmissionAssumption
<1>2. /\ Total(FALSE, Computation, S) <= Total(FALSE, Computation, Tasks)
      /\ Total(FALSE, Period, S) <= Total(FALSE, Period, Tasks)
  BY <1>1, SumGrows
<1>3. QED
  BY <1>2, SumsAreTotals

LEMMA HyperperiodPositive ==
  ASSUME NEW S \in SUBSET Tasks
  PROVE  hyperperiod(S) \in Nat \ {0}
<1> DEFINE good == {T \in SUBSET Tasks : hyperperiod(T) \in Nat \ {0}}
<1>1. ASSUME NEW T \in SUBSET Tasks, \A U \in SUBSET T : U # T => U \in good
      PROVE  T \in good
  <2>1. CASE T = {}
    BY <2>1, SumFacts
  <2>2. CASE T # {}
    <3>1. PICK a \in T : TRUE
      BY <2>2
    <3>2. T \ {a} \in good
      BY <1>1, <3>1
    <3>3. hyperperiod(T) = Period[a] * hyperperiod(T \ {a})
      BY <3>1, SumFacts
    <3>4. Period[a] \in Nat \ {0} /\ hyperperiod(T \ {a}) \in Nat \ {0}
      BY <3>1, <3>2, AdmissionAssumption
    <3>5. \A x, y \in Nat \ {0} : x * y \in Nat \ {0}
      OBVIOUS
    <3>6. hyperperiod(T) \in Nat \ {0}
      BY <3>3, <3>4, <3>5
    <3>7. QED
      BY <3>6
  <2>3. QED
    BY <2>1, <2>2
<1> HIDE DEF good
<1>2. \A T \in SUBSET Tasks : T \in good
  BY <1>1, AdmissionAssumption, Smallest
<1>3. QED
  BY <1>2 DEF good

LEMMA WeighOne ==
  ASSUME NEW c \in Nat, NEW h \in Nat, NEW p \in Nat, NEW r \in Nat,
         NEW d \in Nat, NEW k \in Nat,
         d * (p + r) >= k * (p * h)
  PROVE  (c * h + d) * (p + r) >= (c + k) * (p * h)
<1>1. (c * h + d) * (p + r) = c * h * p + c * h * r + d * (p + r)
  OBVIOUS
<1>2. (c + k) * (p * h) = c * h * p + k * (p * h)
  OBVIOUS
<1>3. c * h * r \in Nat /\ c * h * p \in Nat
  OBVIOUS
<1>4. /\ d * (p + r) \in Nat /\ k * (p * h) \in Nat
  OBVIOUS
<1>5. QED
  BY <1>1, <1>2, <1>3, <1>4

\* Dividing the sums never gives more than summing the quotients:
\* sum C / sum P <= sum (C / P), here multiplied by all denominators.
LEMMA Averages ==
  ASSUME NEW S \in SUBSET Tasks
  PROVE  /\ demand(S) \in Nat
         /\ demand(S) * period_sum(S) >= comp_sum(S) * hyperperiod(S)
<1> DEFINE D(T) == Total(FALSE, shares(S), T)
           good == {T \in SUBSET S :
                      D(T) * period_sum(S) >= comp_sum(T) * hyperperiod(S)}
<1>1. /\ \A x \in S : shares(S)[x] \in Nat
      /\ demand(S) = D(S) /\ IsFiniteSet(S)
  BY AdmissionAssumption, FS_Subset, DemandIsTotal
<1>2. ASSUME NEW T \in SUBSET S
      PROVE  /\ D(T) \in Nat /\ (T = {} => D(T) = 0)
             /\ \A a \in T : D(T) = shares(S)[a] + D(T \ {a})
  <2>1. IsFiniteSet(T) /\ FALSE \in BOOLEAN
    BY <1>1, FS_Subset
  <2>2. /\ D(T) \in Nat /\ (T = {} => D(T) = Base(FALSE))
        /\ \A a \in T : D(T) = Combine(FALSE, shares(S)[a], D(T \ {a}))
    BY <1>1, <2>1, TotalFacts
  <2>3. QED
    BY <2>2 DEF Base, Combine
<1>3. ASSUME NEW T \in SUBSET S, \A U \in SUBSET T : U # T => U \in good
      PROVE  T \in good
  <2>1. CASE T = {}
    <3>1. D(T) = 0 /\ comp_sum(T) = 0
      BY <1>2, <2>1, SumFacts
    <3>2. period_sum(S) \in Nat /\ hyperperiod(S) \in Nat
      BY SumFacts
    <3> HIDE DEF D
    <3>3. QED
      BY <3>1, <3>2
  <2>2. CASE T # {}
    <3>1. PICK a \in T : TRUE
      BY <2>2
    <3>2. T \ {a} \in good
      BY <1>3, <3>1
    <3>3. /\ D(T) = Computation[a] * hyperperiod(S \ {a}) + D(T \ {a})
          /\ D(T \ {a}) \in Nat
      BY <1>2, <3>1 DEF shares
    <3> DEFINE c == Computation[a]
               h == hyperperiod(S \ {a})
               p == Period[a]
               r == period_sum(S \ {a})
               d == D(T \ {a})
               k == comp_sum(T \ {a})
    <3>4. c \in Nat /\ p \in Nat
      BY AdmissionAssumption
    <3>5. h \in Nat /\ r \in Nat /\ k \in Nat
      BY SumFacts
    <3>6. /\ comp_sum(T) = c + k /\ period_sum(S) = p + r
          /\ hyperperiod(S) = p * h
      BY <3>1, SumFacts
    <3>7. d * (p + r) >= k * (p * h)
      BY <3>2, <3>6
    <3>8. D(T) = c * h + d /\ d \in Nat
      BY <3>3
    <3> HIDE DEF D, c, h, p, r, d, k
    <3>9. (c * h + d) * (p + r) >= (c + k) * (p * h)
      BY <3>4, <3>5, <3>7, <3>8, WeighOne
    <3>10. QED
      BY <3>6, <3>8, <3>9
  <2>3. QED
    BY <2>1, <2>2
<1>4. \A T \in SUBSET S : T \in good
  <2> HIDE DEF good
  <2>1. QED
    BY <1>1, <1>3, Smallest
<1>5. D(S) * period_sum(S) >= comp_sum(S) * hyperperiod(S)
  BY <1>4
<1>6. D(S) \in Nat
  BY <1>2
<1> HIDE DEF D
<1>7. QED
  BY <1>1, <1>5, <1>6

-----------------------------------------------------------------------------
\* Nobody is turned away below the bound

\* An int is no larger than the natural number it stands for.
LEMMA Wrapped ==
  ASSUME NEW x \in Int
  PROVE  /\ wrap(x) \in Int /\ wrap(x) < IntBound
         /\ x >= 0 => wrap(x) <= x
         /\ x >= 0 /\ x < IntBound => wrap(x) = x
<1>1. IntBound \in Nat \ {0}
  BY AdmissionAssumption
<1> DEFINE y == x + IntBound
           m == 2 * IntBound
<1>2. y \in Int /\ m \in Nat \ {0}
  BY <1>1
<1> HIDE DEF y, m
<1>3. y % m \in 0 .. m - 1
  BY <1>2
<1>4. y >= 0 => y % m <= y /\ (y < m => y % m = y)
  BY <1>2
<1>5. QED
  BY <1>1, <1>3, <1>4 DEF wrap, y, m

\* The dividend of the test is never above the number it stands for, whether
\* it overflows or not.
LEMMA Dividend ==
  ASSUME NEW c \in Nat
  PROVE  LET n == wrap(wrap(c) * FCONV)
         IN  n \in Int /\ (n >= 0 => n <= c * FCONV)
<1> DEFINE w == wrap(c)
           n == wrap(w * FCONV)
<1>1. FCONV \in Nat \ {0} /\ IntBound \in Nat \ {0}
  BY AdmissionAssumption
<1>2. /\ w \in Int /\ w <= c
      /\ c < IntBound => w = c
  BY Wrapped
<1> HIDE DEF w
<1>3. w * FCONV \in Int
  BY <1>1, <1>2
<1>4. /\ n \in Int /\ n < IntBound
      /\ w * FCONV >= 0 => n <= w * FCONV
  BY <1>3, Wrapped
<1> HIDE DEF n
<1>5. CASE w >= 0
  <2>1. w * FCONV >= 0 /\ w * FCONV <= c * FCONV
    BY <1>1, <1>2, <1>5
  <2>2. c * FCONV \in Int
    BY <1>1
  <2>3. QED
    BY <1>3, <1>4, <2>1, <2>2 DEF n, w
<1>6. CASE w < 0
  <2>1. c >= IntBound
    BY <1>1, <1>2, <1>6
  <2>2. c * FCONV \in Int /\ c * FCONV >= c
    BY <1>1
  <2>3. QED
    BY <1>1, <1>4, <2>1, <2>2 DEF n, w
<1>7. QED
  BY <1>2, <1>5, <1>6

\* A quotient above a bound that is not negative.
LEMMA AboveBound ==
  ASSUME NEW n \in Int, NEW p \in Nat \ {0}, NEW b \in Nat,
         quotient(n, p) > b
  PROVE  n >= 0 /\ n > b * p
<1>1. CASE n < 0
  <2>1. (-n) \div p \in Nat
    BY <1>1
  <2>2. quotient(n, p) = -((-n) \div p)
    BY <1>1 DEF quotient, Abs
  <2>3. QED
    BY <2>1, <2>2
<1>2. CASE n >= 0
  <2>1. quotient(n, p) = n \div p
    BY <1>2 DEF quotient, Abs
  <2> DEFINE q == n \div p
  <2>2. q \in Int /\ p * q <= n /\ q > b
    BY <1>2, <2>1
  <2> HIDE DEF q
  <2>3. p * q > b * p
    BY <2>2
  <2>4. p * q \in Int /\ b * p \in Int
    BY <2>2
  <2>5. QED
    BY <1>2, <2>2, <2>3, <2>4
<1>3. QED
  BY <1>1, <1>2

LEMMA Scaled ==
  ASSUME NEW d \in Nat, NEW p \in Nat \ {0}, NEW c \in Nat,
         NEW h \in Nat \ {0}, NEW f \in Nat \ {0}, NEW b \in Nat,
         d * p >= c * h, c * f > b * p
  PROVE  d * f > b * h
<1>1. (d * f) * p >= (c * f) * h
  <2>1. f * (d * p) >= f * (c * h)
    <3> DEFINE x == d * p
               y == c * h
    <3>1. x \in Int /\ y \in Int /\ x >= y
      OBVIOUS
    <3> HIDE DEF x, y
    <3>2. f * x >= f * y
      BY <3>1
    <3>3. QED
      BY <3>2 DEF x, y
  <2>2. (d * f) * p = f * (d * p) /\ (c * f) * h = f * (c * h)
    OBVIOUS
  <2>3. QED
    BY <2>1, <2>2
<1>2. (c * f) * h > (b * p) * h
  <2> DEFINE x == c * f
             y == b * p
  <2>1. x \in Int /\ y \in Int /\ x > y
    OBVIOUS
  <2> HIDE DEF x, y
  <2>2. x * h > y * h
    BY <2>1
  <2>3. QED
    BY <2>2 DEF x, y
<1>3. (b * p) * h = (b * h) * p
  OBVIOUS
<1> DEFINE x == d * f
           y == b * h
<1>4. x \in Int /\ y \in Int
  OBVIOUS
<1>5. x * p > y * p
  <2>1. /\ (d * f) * p \in Int /\ (c * f) * h \in Int
        /\ (b * h) * p \in Int
    OBVIOUS
  <2>2. QED
    BY <1>1, <1>2, <1>3, <2>1
<1> HIDE DEF x, y
<1>6. x > y
  BY <1>4, <1>5
<1>7. QED
  BY <1>6 DEF x, y

\* The divisor of the test is the sum of the periods.
LEMMA PeriodSumInt ==
  ASSUME PeriodsFit, NEW S \in SUBSET Tasks, S # {}
  PROVE  period_sum(S) \in Nat \ {0} /\ wrap(period_sum(S)) = period_sum(S)
<1> DEFINE p == period_sum(S)
<1>1. p \in Nat \ {0}
  <2>1. PICK a \in S : TRUE
    OBVIOUS
  <2>2. /\ period_sum(S) = Period[a] + period_sum(S \ {a})
        /\ period_sum(S \ {a}) \in Nat
    BY SumFacts
  <2>3. Period[a] \in Nat \ {0}
    BY AdmissionAssumption
  <2>4. QED
    BY <2>2, <2>3
<1>2. p < IntBound
  <2>1. p <= period_sum(Tasks) /\ period_sum(Tasks) \in Nat
    BY SumFacts, SumsGrow
  <2>2. QED
    BY <1>1, <2>1, AdmissionAssumption DEF PeriodsFit
<1>3. QED
  BY <1>1, <1>2, Wrapped

\* A set that fails the test is above the bound of Liu and Layland.
LEMMA FailsOverBound ==
  ASSUME PeriodsFit, NEW S \in SUBSET Tasks, S # {}, ~fits(S)
  PROVE  OverBound(S)
<1> DEFINE n == wrap(wrap(comp_sum(S)) * FCONV)
           p == period_sum(S)
<1>1. FCONV \in Nat \ {0} /\ UBBOUND \in Nat /\ IntBound \in Nat \ {0}
  BY AdmissionAssumption
<1>2. comp_sum(S) \in Nat /\ hyperperiod(S) \in Nat \ {0}
  BY SumFacts, HyperperiodPositive
<1>3. p \in Nat \ {0} /\ wrap(p) = p
  BY PeriodSumInt
<1>4. n \in Int /\ (n >= 0 => n <= comp_sum(S) * FCONV)
  BY <1>2, Dividend
<1>5. quotient(n, p) > UBBOUND
  <2>1. ~(quotient(n, p) <= UBBOUND)
    BY <1>3 DEF fits
  <2> HIDE DEF n, p
  <2>2. quotient(n, p) \in Int
    BY <1>3, <1>4 DEF quotient, Abs
  <2>3. QED
    BY <1>1, <2>1, <2>2
<1> HIDE DEF n
<1>6. comp_sum(S) * FCONV > UBBOUND * p
  <2>1. n >= 0 /\ n > UBBOUND * p
    BY <1>1, <1>3, <1>4, <1>5, AboveBound
  <2>2. comp_sum(S) * FCONV \in Int /\ UBBOUND * p \in Int
    BY <1>1, <1>2, <1>3
  <2>3. QED
    BY <1>4, <2>1, <2>2
<1>7. QED
  BY <1>1, <1>2, <1>3, <1>6, Averages, Scaled DEF OverBound

\* admin_ctrl turns nobody away whose set is within the bound of Liu and
\* Layland, for all tasks and all bounds: neither the division of the sums nor
\* its rounding nor an overflow of the dividend makes the test stricter, as
\* long as the sum of the periods is an int.
THEOREM TurnedAwayIsOverBound ==
  ASSUME PeriodsFit
  PROVE  Spec => []NeverTooStrict
<1>1. TypeOK => NeverTooStrict
  <2> SUFFICES ASSUME TypeOK, NEW t \in Tasks, ~admin_ctrl(processList, t)
               PROVE  OverBound(processList \cup {t})
    BY DEF NeverTooStrict
  <2>1. processList \cup {t} \in SUBSET Tasks
    BY DEF TypeOK
  <2>2. QED
    BY <2>1, FailsOverBound DEF admin_ctrl
<1>2. QED
  BY <1>1, TypeCorrect, PTL

-----------------------------------------------------------------------------
\* What the test is worth

\* A task by itself within the bound of the test.
Light(t) == Computation[t] * FCONV <= UBBOUND * Period[t]

LEMMA LightSums ==
  ASSUME \A t \in Tasks : Light(t), NEW S \in SUBSET Tasks
  PROVE  comp_sum(S) * FCONV <= UBBOUND * period_sum(S)
<1> DEFINE good == {T \in SUBSET Tasks :
                      comp_sum(T) * FCONV <= UBBOUND * period_sum(T)}
<1>1. ASSUME NEW T \in SUBSET Tasks, \A U \in SUBSET T : U # T => U \in good
      PROVE  T \in good
  <2>1. CASE T = {}
    BY <2>1, SumFacts, AdmissionAssumption
  <2>2. CASE T # {}
    <3>1. PICK a \in T : TRUE
      BY <2>2
    <3> DEFINE c == Computation[a]
               p == Period[a]
               k == comp_sum(T \ {a})
               r == period_sum(T \ {a})
    <3>2. T \ {a} \in good
      BY <1>1, <3>1
    <3>3. k * FCONV <= UBBOUND * r
      BY <3>2
    <3>4. c * FCONV <= UBBOUND * p
      BY <3>1 DEF Light
    <3>5. /\ c \in Nat /\ p \in Nat /\ FCONV \in Nat /\ UBBOUND \in Nat
      BY <3>1, AdmissionAssumption
    <3>6. k \in Nat /\ r \in Nat
      BY SumFacts
    <3>7. comp_sum(T) = c + k /\ period_sum(T) = p + r
      BY <3>1, SumFacts
    <3> HIDE DEF c, p, k, r
    <3>8. (c + k) * FCONV <= UBBOUND * (p + r)
      <4>1. /\ (c + k) * FCONV = c * FCONV + k * FCONV
            /\ UBBOUND * (p + r) = UBBOUND * p + UBBOUND * r
        BY <3>5, <3>6
      <4>2. /\ c * FCONV \in Int /\ k * FCONV \in Int
            /\ UBBOUND * p \in Int /\ UBBOUND * r \in Int
        BY <3>5, <3>6
      <4>3. QED
        BY <3>3, <3>4, <4>1, <4>2
    <3>9. QED
      BY <3>7, <3>8
  <2>3. QED
    BY <2>1, <2>2
<1> HIDE DEF good
<1>2. \A T \in SUBSET Tasks : T \in good
  BY <1>1, AdmissionAssumption, Smallest
<1>3. QED
  BY <1>2 DEF good

\* Tasks that are within the bound one by one pass the test, however many of
\* them there are and whatever they ask for together.
THEOREM LightNeverTurnedAway ==
  ASSUME PeriodsFit, \A t \in Tasks : Light(t)
  PROVE  Spec => [](\A t \in Tasks : admin_ctrl(processList, t))
<1>1. ASSUME NEW S \in SUBSET Tasks, S # {} PROVE fits(S)
  <2> DEFINE n == wrap(wrap(comp_sum(S)) * FCONV)
             p == period_sum(S)
  <2>1. p \in Nat \ {0} /\ wrap(p) = p /\ UBBOUND \in Nat
    BY <1>1, PeriodSumInt, AdmissionAssumption
  <2>2. n \in Int /\ (n >= 0 => n <= comp_sum(S) * FCONV)
    BY SumFacts, Dividend
  <2>3. comp_sum(S) * FCONV <= UBBOUND * p /\ comp_sum(S) * FCONV \in Int
    BY LightSums, SumFacts, AdmissionAssumption
  <2>4. fits(S) <=> quotient(n, p) <= UBBOUND
    BY <2>1 DEF fits
  <2> HIDE DEF n, p
  <2>5. quotient(n, p) \in Int
    BY <2>1, <2>2 DEF quotient, Abs
  <2>6. ~(quotient(n, p) > UBBOUND)
    <3>1. UBBOUND * p \in Int
      BY <2>1
    <3>2. ~(n >= 0 /\ n > UBBOUND * p)
      BY <2>2, <2>3, <3>1
    <3>3. QED
      BY <2>1, <2>2, <3>2, AboveBound
  <2>7. QED
    BY <2>1, <2>4, <2>5, <2>6
<1>2. TypeOK => \A t \in Tasks : admin_ctrl(processList, t)
  BY <1>1 DEF TypeOK, admin_ctrl
<1>3. QED
  BY <1>2, TypeCorrect, PTL

-----------------------------------------------------------------------------
\* How long the list passes the test

\* The division of the test, for a sum of periods p that does not overflow.
LEMMA Quotient ==
  ASSUME NEW n \in Nat, NEW p \in Nat \ {0}, NEW b \in Nat
  PROVE  quotient(n, p) <= b <=> n < (b + 1) * p
<1> DEFINE q == n \div p
           r == n % p
<1>1. quotient(n, p) = q
  BY DEF quotient, Abs
<1>2. q \in Nat /\ r \in Nat /\ n = p * q + r /\ r < p
  OBVIOUS
<1> HIDE DEF q, r
<1>3. CASE q <= b
  <2>1. p * q <= p * b
    BY <1>2, <1>3
  <2>2. (b + 1) * p = p * b + p /\ p * q \in Int /\ p * b \in Int
    BY <1>2
  <2>3. QED
    BY <1>1, <1>2, <1>3, <2>1, <2>2
<1>4. CASE q > b
  <2>1. q >= b + 1
    BY <1>2, <1>4
  <2>2. p * q >= p * (b + 1)
    BY <1>2, <2>1
  <2>3. (b + 1) * p = p * (b + 1) /\ p * q \in Int /\ p * (b + 1) \in Int
    BY <1>2
  <2>4. QED
    BY <1>1, <1>2, <1>4, <2>2, <2>3
<1>5. QED
  BY <1>2, <1>3, <1>4

\* If the sums fit, the test is what it looks like.
LEMMA Exactly ==
  ASSUME SumsFit, NEW S \in SUBSET Tasks, S # {}
  PROVE  fits(S) <=> comp_sum(S) * FCONV < (UBBOUND + 1) * period_sum(S)
<1> DEFINE c == comp_sum(S)
<1>1. c \in Nat /\ comp_sum(Tasks) \in Nat /\ c <= comp_sum(Tasks)
  BY SumFacts, SumsGrow
<1>2. FCONV \in Nat \ {0} /\ UBBOUND \in Nat /\ IntBound \in Nat \ {0}
  BY AdmissionAssumption
<1> HIDE DEF c
<1>3. c * FCONV \in Nat /\ c <= c * FCONV /\ c * FCONV < IntBound
  <2> DEFINE d == comp_sum(Tasks)
  <2>1. d \in Nat /\ c <= d /\ d * FCONV < IntBound
    BY <1>1 DEF SumsFit
  <2> HIDE DEF d
  <2>2. c * FCONV <= d * FCONV
    BY <1>1, <1>2, <2>1
  <2>3. c * FCONV \in Nat /\ d * FCONV \in Nat /\ c <= c * FCONV
    BY <1>1, <1>2, <2>1
  <2>4. QED
    BY <1>2, <2>1, <2>2, <2>3
<1>4. c < IntBound
  BY <1>1, <1>2, <1>3
<1>5. wrap(c) = c /\ wrap(c * FCONV) = c * FCONV
  BY <1>1, <1>3, <1>4, Wrapped
<1>6. period_sum(S) \in Nat \ {0} /\ wrap(period_sum(S)) = period_sum(S)
  BY PeriodSumInt DEF SumsFit
<1>7. fits(S) <=> quotient(c * FCONV, period_sum(S)) <= UBBOUND
  BY <1>5, <1>6 DEF fits, c
<1>8. QED
  BY <1>2, <1>3, <1>6, <1>7, Quotient DEF c

\* A task that fails the test by itself, and got in with lighter ones, can
\* leave: the rest still passes.
LEMMA HeavyMayLeave ==
  ASSUME SumsFit, NEW S \in SUBSET Tasks, fits(S),
         NEW u \in S, ~fits({u}), S \ {u} # {}
  PROVE  fits(S \ {u})
<1> DEFINE c == Computation[u]
           p == Period[u]
           k == comp_sum(S \ {u})
           r == period_sum(S \ {u})
           b == UBBOUND + 1
<1>1. /\ c \in Nat /\ p \in Nat /\ k \in Nat /\ r \in Nat /\ b \in Nat
      /\ FCONV \in Nat
  BY SumFacts, AdmissionAssumption
<1>2. comp_sum(S) = c + k /\ period_sum(S) = p + r
  BY SumFacts
<1>3. c * FCONV >= b * p
  <2>1. comp_sum({u}) = c /\ period_sum({u}) = p
    <3>1. {u} \ {u} = {} /\ {u} \in SUBSET Tasks /\ {} \in SUBSET Tasks
      OBVIOUS
    <3>2. /\ comp_sum({u}) = c + comp_sum({u} \ {u})
          /\ period_sum({u}) = p + period_sum({u} \ {u})
      BY <3>1, SumFacts
    <3>3. comp_sum({}) = 0 /\ period_sum({}) = 0
      BY <3>1, SumFacts
    <3>4. QED
      BY <1>1, <3>1, <3>2, <3>3
  <2>2. ~(comp_sum({u}) * FCONV < b * period_sum({u}))
    BY Exactly
  <2> HIDE DEF c, p, b
  <2>3. c * FCONV \in Int /\ b * p \in Int
    BY <1>1
  <2>4. QED
    BY <2>1, <2>2, <2>3
<1>4. comp_sum(S) * FCONV < b * period_sum(S)
  BY Exactly
<1>5. fits(S \ {u}) <=> k * FCONV < b * r
  BY Exactly
<1> HIDE DEF c, p, k, r, b
<1>6. /\ (c + k) * FCONV = c * FCONV + k * FCONV
      /\ b * (p + r) = b * p + b * r
      /\ c * FCONV \in Int /\ k * FCONV \in Int
      /\ b * p \in Int /\ b * r \in Int
  BY <1>1
<1>7. k * FCONV < b * r
  BY <1>2, <1>3, <1>4, <1>6
<1>8. QED
  BY <1>5, <1>7

\* Only one process at a time is between test and insertion.
Alone == \A t, u \in Tasks :
           (app[t] = "admitted" /\ app[u] = "admitted") => t = u

\* Both parts of FitsUnlessDisturbed.
ListFits == processList = {} \/ fits(processList)

AdmittedFits ==
  \A t \in Tasks : app[t] = "admitted" => fits(processList \cup {t})

FitInv == disturbed \/ (Alone /\ ListFits /\ AdmittedFits)

LEMMA InitFitInv == Init => FitInv
  BY DEF Init, FitInv, Alone, ListFits, AdmittedFits

LEMMA NextFitInv ==
  ASSUME SumsFit, IInv, FitInv, [Next]_vars
  PROVE  FitInv'
<1>1. TypeOK
  BY DEF IInv
<1> SUFFICES ASSUME ~disturbed' PROVE (Alone /\ ListFits /\ AdmittedFits)'
  BY DEF FitInv
<1>2. ASSUME NEW t \in Tasks, Reads(t)
      PROVE  (Alone /\ ListFits /\ AdmittedFits)'
  <2>1. PICK from \in States \ {"admitted", "seen", "left"},
             to \in States \ {"start", "admitted", "left"} :
               /\ appGoes(t, from, to)
               /\ UNCHANGED <<processList, disturbed>>
    BY <1>2 DEF Reads
  <2>2. /\ app'[t] = to /\ \A u \in Tasks : u # t => app'[u] = app[u]
    BY <1>1, <2>1, AppMoves DEF States
  <2>3. \A u \in Tasks : app'[u] = "admitted" => app[u] = "admitted"
    BY <2>1, <2>2
  <2>4. QED
    BY <2>1, <2>3 DEF FitInv, Alone, ListFits, AdmittedFits
<1>3. ASSUME NEW t \in Tasks, Accept(t)
      PROVE  (Alone /\ ListFits /\ AdmittedFits)'
  <2>1. /\ appGoes(t, "start", "admitted")
        /\ fits(processList \cup {t}) /\ UNCHANGED processList
        /\ ~disturbed /\ \A u \in Tasks : app[u] # "admitted"
    BY <1>3 DEF Accept, admin_ctrl
  <2>2. /\ app'[t] = "admitted" /\ \A u \in Tasks : u # t => app'[u] = app[u]
    BY <1>1, <2>1, AppMoves DEF States
  <2>3. \A u \in Tasks : app'[u] = "admitted" => u = t
    BY <2>1, <2>2
  <2>4. QED
    BY <2>1, <2>3 DEF FitInv, Alone, ListFits, AdmittedFits
<1>4. ASSUME NEW t \in Tasks, add_process(t)
      PROVE  (Alone /\ ListFits /\ AdmittedFits)'
  <2>1. /\ appGoes(t, "admitted", "read")
        /\ processList' = processList \cup {t} /\ ~disturbed
    BY <1>4 DEF add_process
  <2>2. /\ app[t] = "admitted" /\ app'[t] = "read"
        /\ \A u \in Tasks : u # t => app'[u] = app[u]
    BY <1>1, <2>1, AppMoves DEF States
  <2>3. \A u \in Tasks : app'[u] # "admitted"
    BY <2>1, <2>2 DEF FitInv, Alone
  <2>4. fits(processList')
    BY <2>1, <2>2 DEF FitInv, AdmittedFits
  <2>5. QED
    BY <2>3, <2>4 DEF Alone, ListFits, AdmittedFits
<1>5. ASSUME NEW t \in Tasks, de_register(t)
      PROVE  (Alone /\ ListFits /\ AdmittedFits)'
  <2>1. /\ appGoes(t, "seen", "left") /\ processList' = processList \ {t}
        /\ ~disturbed /\ ~fits({t})
    BY <1>5 DEF de_register
  <2>2. /\ app[t] = "seen" /\ app'[t] = "left"
        /\ \A u \in Tasks : u # t => app'[u] = app[u]
    BY <1>1, <2>1, AppMoves DEF States
  <2>3. t \in processList /\ processList \in SUBSET Tasks
    BY <1>1, <2>2 DEF TypeOK
  <2>4. \A u \in Tasks : app'[u] = "admitted" => app[u] = "admitted" /\ u # t
    BY <2>2
  <2>5. ListFits'
    <3>1. fits(processList)
      BY <2>1, <2>3 DEF FitInv, ListFits
    <3>2. processList \ {t} # {} => fits(processList \ {t})
      BY <2>1, <2>3, <3>1, HeavyMayLeave
    <3>3. QED
      BY <2>1, <3>2 DEF ListFits
  <2>6. ASSUME NEW u \in Tasks, app'[u] = "admitted"
        PROVE  fits(processList' \cup {u})
    <3>1. u # t /\ fits(processList \cup {u})
      BY <2>1, <2>4, <2>6 DEF FitInv, AdmittedFits
    <3> DEFINE S == processList \cup {u}
    <3>2. /\ S \in SUBSET Tasks /\ t \in S /\ S \ {t} # {}
          /\ S \ {t} = processList' \cup {u}
      BY <2>1, <2>3, <3>1
    <3> HIDE DEF S
    <3>3. fits(S)
      BY <3>1 DEF S
    <3>4. QED
      BY <2>1, <3>2, <3>3, HeavyMayLeave
  <2>7. Alone'
    BY <2>1, <2>4 DEF FitInv, Alone
  <2>8. QED
    BY <2>5, <2>6, <2>7 DEF AdmittedFits
<1>6. CASE UNCHANGED vars
  BY <1>6 DEF vars, FitInv, Alone, ListFits, AdmittedFits
<1>7. QED
  BY <1>1, <1>2, <1>3, <1>4, <1>5, <1>6, ReadsOrRejected
  DEF Next, mp2_write

\* With sums that do not overflow, two writers between test and insertion at
\* once, and a light task that leaves, are the only two ways in which a task
\* can be added that does not fit, or the list fail the test: for all tasks and
\* bounds, and with heavy tasks that leave at any moment.
THEOREM OnlyTwoWaysToOverload ==
  ASSUME SumsFit
  PROVE  Spec => []FitsUnlessDisturbed
<1>1. FitInv => FitsUnlessDisturbed
  BY DEF FitInv, ListFits, AdmittedFits, FitsUnlessDisturbed, admin_ctrl
<1>2. IInv /\ FitInv /\ [Next]_vars => IInv' /\ FitInv'
  BY NextIInv, NextFitInv
<1>3. QED
  BY <1>1, <1>2, InitIInv, InitFitInv, PTL DEF Spec
=============================================================================
