--------------------------- MODULE SampleRingProofs ---------------------------
(***************************************************************************)
(* Proofs about SampleRing for a buffer of any size and samples of any     *)
(* number of words.                                                        *)
(***************************************************************************)
EXTENDS SampleRing, TLAPS

\* The word w of slot s.
cell(s, w) == s * Words + w

\* The words that have been stored at some time.
Written == {v \in SampleWords : \/ v[1] <= stored
                                \/ v[1] = stored + 1 /\ v[2] < column}

\* Whatever is found in the buffer or was printed has been stored before.
OnlyWritten ==
  /\ \A c \in Cells \cup {Behind} :
       mem_buf[c] \in Written \cup {Empty, Garbage}
  /\ printed \subseteq Written

\* A word is in one cell at most.
WordsDiffer ==
  \A c, d \in Cells \cup {Behind} :
    c # d /\ mem_buf[c] = mem_buf[d] => mem_buf[c] \in {Empty, Garbage}

OnceInv == /\ TypeOK
           /\ OnlyWritten
           /\ WordsDiffer
           /\ \A c \in Cells \cup {Behind} :
                mem_buf[c] \in printed => monitor = "clear" /\ c = index

Columns == 0 .. Words - 1

\* The slot of sample k, if k is one of the last samples the buffer holds.
PlaceOf(k) == LET d == sampleCount - (stored + 1 - k)
              IN  IF d >= 0 THEN d ELSE d + Slots

Kept(k, w) == \/ <<k, w>> \in printed
              \/ mem_buf[cell(PlaceOf(k), w)] = <<k, w>>

\* As long as the two have not overlapped, ...

\* ... the writer is between two samples while the monitor runs,
Apart == ~torn /\ column # 0 => monitor = "idle"

\* ... a word that was not printed is where it was stored,
InPlace ==
  ~torn =>
    /\ \A k \in 1 .. stored, w \in Columns :
         k + Slots > stored + (IF column = 0 THEN 0 ELSE 1) => Kept(k, w)
    /\ \A w \in 0 .. column - 1 : Kept(stored + 1, w)

\* ... and the monitor overwrites what it has just printed.
ClearsPrinted ==
  ~torn /\ monitor = "clear" =>
    mem_buf[index] \in printed \cup {Empty, Garbage}

LossInv == OnceInv /\ Apart /\ InPlace /\ ClearsPrinted

SlotNos == 0 .. Slots - 1

\* What a slot holds between two samples and two lines.
Contents == {[w \in Columns |-> Empty], [w \in Columns |-> Garbage]}
              \cup {[w \in Columns |-> <<k, w>>] : k \in 1 .. stored}

Content(s) == [w \in Columns |-> mem_buf[cell(s, w)]]

AllEmpty == \A c \in Cells : mem_buf[c] = Empty

\* How many words of the line under way have been overwritten, and how many
\* have been printed.
cleared == IF monitor = "clear" THEN Len(line) - 1
           ELSE IF Len(line) = Words THEN 0 ELSE Len(line)
shown == IF monitor = "clear" THEN Len(line) ELSE cleared

\* The monitor is in slot s, which held f when the line was begun.
InSlot(s, f) ==
  /\ index = cell(s, cleared)
  /\ \A w \in Columns :
       mem_buf[cell(s, w)] = IF w < cleared THEN Empty ELSE f[w]
  /\ \A t \in SlotNos \ {s} : Content(t) \in Contents
  /\ \A i \in 1 .. shown : line[i] = f[i - 1]

\* There is nothing to print, but the word behind the ring was not -1.
BehindRing == /\ AllEmpty
              /\ \A i \in 1 .. shown : line[i] \in {Empty, Garbage}

\* As long as the two have not overlapped, ...

\* ... there are whole samples in the slots while nobody is at work on one,
AtRest ==
  monitor \in {"idle", "find", "test"} =>
    /\ Len(line) \in {0, Words}
    /\ \A s \in SlotNos : s # sampleCount \/ column = 0
                            => Content(s) \in Contents

PartWritten ==
  \A w \in 0 .. column - 1 :
    mem_buf[cell(sampleCount, w)] = <<stored + 1, w>>

\* ... the scan ends at the first word of a slot,
Scanned ==
  /\ monitor = "find" => \A c \in Cells : c < index => mem_buf[c] = Empty
  /\ monitor = "test" => AllEmpty \/ \E s \in SlotNos : index = cell(s, 0)

\* ... and a line follows the words of one slot.
InLine ==
  monitor \in {"print", "clear"} =>
    /\ monitor = "clear" => Len(line) > 0
    /\ BehindRing \/ \E s \in SlotNos, f \in Contents : InSlot(s, f)

LineInv == /\ mem_buf[Behind] \in {Empty, Garbage}
           /\ ~torn => /\ AtRest
                       /\ PartWritten
                       /\ Scanned
                       /\ InLine
                       /\ LinesAreSamples

IInv == LossInv /\ LineInv

-----------------------------------------------------------------------------
\* The cells of the buffer

\* A cell is told by its slot and its column.
LEMMA CellIn ==
  ASSUME NEW s \in 0 .. Slots - 1, NEW w \in 0 .. Words - 1
  PROVE  cell(s, w) \in Cells
<1>1. s * Words <= (Slots - 1) * Words
  BY RingAssumption
<1>2. (Slots - 1) * Words = Slots * Words - Words
  BY RingAssumption
<1>3. s * Words \in Nat /\ Slots * Words \in Nat
  BY RingAssumption
<1>4. QED
  BY <1>1, <1>2, <1>3, RingAssumption DEF Cells, cell

LEMMA CellsDiffer ==
  ASSUME NEW s \in Nat, NEW t \in Nat,
         NEW v \in 0 .. Words - 1, NEW w \in 0 .. Words - 1,
         cell(s, v) = cell(t, w)
  PROVE  s = t /\ v = w
<1>1. ASSUME NEW x \in Nat, NEW y \in Nat, x < y
      PROVE  x * Words + Words <= y * Words
  <2>1. (x + 1) * Words <= y * Words
    BY <1>1, RingAssumption
  <2>2. (x + 1) * Words = x * Words + Words
    BY <1>1, RingAssumption
  <2>3. QED
    BY <2>1, <2>2
<1>2. s * Words \in Nat /\ t * Words \in Nat
  BY RingAssumption
<1>3. ~ s < t
  BY <1>1, <1>2, RingAssumption DEF cell
<1>4. ~ t < s
  BY <1>1, <1>2, RingAssumption DEF cell
<1>5. QED
  BY <1>3, <1>4, <1>2 DEF cell

LEMMA BehindPositive == Behind \in Nat \ {0} /\ Cells = 0 .. Behind - 1
  BY RingAssumption DEF Behind, Cells

LEMMA SamplesAreFull == Empty \notin SampleWords /\ Garbage \notin SampleWords
  BY WordAssumption DEF SampleWords

-----------------------------------------------------------------------------
\* Typing, and every word in one place at most

LEMMA InitOnce == Init => OnceInv
<1> SUFFICES ASSUME Init PROVE OnceInv
  OBVIOUS
<1>1. TypeOK
  BY RingAssumption DEF Init, TypeOK, Cells, Behind
<1>2. QED
  BY <1>1 DEF Init, OnceInv, OnlyWritten, WordsDiffer

\* A store puts a word into the buffer that was nowhere before.
LEMMA StoreOnce ==
  ASSUME OnceInv, profile_updater_work
  PROVE  OnceInv'
<1> DEFINE new == <<stored + 1, column>>
           pos == cell(sampleCount, column)
<1>1. pos \in Cells /\ pos = sampleCount * Words + column
  BY CellIn DEF OnceInv, TypeOK, cell
<1>2. new \in SampleWords /\ new \notin Written
  BY RingAssumption
  DEF OnceInv, TypeOK, SampleWords, Written, profile_updater_work, WriteWord,
      WriteLast
<1>3. mem_buf' = [mem_buf EXCEPT ![pos] = new]
  BY DEF profile_updater_work, WriteWord, WriteLast, cell
<1>4. UNCHANGED monitorVars
  BY DEF profile_updater_work, WriteWord, WriteLast
<1>5. new \in Written' /\ Written \subseteq Written'
  BY <1>2, RingAssumption
  DEF OnceInv, TypeOK, SampleWords, Written, profile_updater_work, WriteWord,
      WriteLast
<1>6. TypeOK'
  <2>1. mem_buf' \in [Cells \cup {Behind} -> SampleWords \cup {Empty, Garbage}]
    BY <1>1, <1>2, <1>3 DEF OnceInv, TypeOK
  <2>2. /\ sampleCount' \in 0 .. Slots - 1
        /\ stored' \in 0 .. MaxSamples
        /\ column' \in 0 .. Words - 1
    <3>1. CASE WriteWord
      BY <3>1, RingAssumption DEF OnceInv, TypeOK, WriteWord
    <3>2. CASE WriteLast
      BY <3>2, RingAssumption DEF OnceInv, TypeOK, WriteLast, NextSlot
    <3>3. QED
      BY <3>1, <3>2 DEF profile_updater_work
  <2>3. torn' \in BOOLEAN
    BY DEF OnceInv, TypeOK, profile_updater_work, WriteWord, WriteLast
  <2>4. QED
    BY <1>4, <2>1, <2>2, <2>3 DEF OnceInv, TypeOK, monitorVars
<1>7. OnlyWritten'
  BY <1>1, <1>3, <1>4, <1>5
  DEF OnceInv, TypeOK, OnlyWritten, monitorVars
<1>8. new \notin printed
  BY <1>2 DEF OnceInv, OnlyWritten
<1>9. \A c \in Cells \cup {Behind} :
        mem_buf[c] = new => new \in {Empty, Garbage}
  BY <1>2 DEF OnceInv, OnlyWritten
<1>10. WordsDiffer'
  BY <1>1, <1>3, <1>9 DEF OnceInv, TypeOK, WordsDiffer
<1>11. QED
  BY <1>1, <1>3, <1>4, <1>6, <1>7, <1>8, <1>10
  DEF OnceInv, TypeOK, monitorVars

\* The monitor moves a word from the buffer to what is printed, in two steps.
LEMMA MonitorOnce ==
  ASSUME OnceInv, main
  PROVE  OnceInv'
<1>1. UNCHANGED <<stored, column, Written>>
  BY DEF main, Start, Find, Test, PrintWord, ClearWord, writerVars, Written
<1>2. CASE Start \/ Find \/ Test
  <2>1. index' \in 0 .. Behind
    BY <1>2, BehindPositive DEF OnceInv, TypeOK, Start, Find, Test
  <2>2. TypeOK'
    BY <1>2, <2>1 DEF OnceInv, TypeOK, Start, Find, Test, writerVars
  <2>3. QED
    BY <1>1, <1>2, <2>2
    DEF OnceInv, OnlyWritten, WordsDiffer, Start, Find, Test, writerVars
<1>3. CASE PrintWord
  <2> DEFINE word == mem_buf[index]
  <2>1. index \in Cells \cup {Behind}
    BY BehindPositive DEF OnceInv, TypeOK
  <2>2. word \in SampleWords \cup {Empty, Garbage}
    BY <2>1 DEF OnceInv, TypeOK
  <2>3. TypeOK'
    BY <1>3, <2>2, RingAssumption DEF OnceInv, TypeOK, PrintWord, writerVars
  <2>4. OnlyWritten'
    BY <1>1, <1>3, <2>1 DEF OnceInv, OnlyWritten, PrintWord
  <2>5. QED
    BY <1>3, <2>1, <2>3, <2>4
    DEF OnceInv, OnlyWritten, WordsDiffer, PrintWord
<1>4. CASE ClearWord
  <2>1. index \in Cells \cup {Behind}
    BY BehindPositive DEF OnceInv, TypeOK
  <2>2. TypeOK'
    BY <1>4, <2>1, RingAssumption
    DEF OnceInv, TypeOK, ClearWord, writerVars, Behind
  <2>3. OnlyWritten' /\ WordsDiffer'
    BY <1>1, <1>4, <2>1
    DEF OnceInv, TypeOK, OnlyWritten, WordsDiffer, ClearWord
  <2>4. Empty \notin printed
    BY SamplesAreFull DEF OnceInv, TypeOK
  <2>5. QED
    BY <1>4, <2>1, <2>2, <2>3, <2>4 DEF OnceInv, TypeOK, ClearWord
<1>5. QED
  BY <1>2, <1>3, <1>4 DEF main

-----------------------------------------------------------------------------
\* Samples stay in place

LEMMA PlaceIn ==
  ASSUME TypeOK, NEW k \in 1 .. stored + 1, k + Slots > stored
  PROVE  /\ PlaceOf(k) \in 0 .. Slots - 1
         /\ PlaceOf(stored + 1) = sampleCount
         /\ k <= stored /\ k + Slots > stored + 1
              => PlaceOf(k) # sampleCount
  BY RingAssumption DEF TypeOK, PlaceOf

\* A sample keeps its place when sampleCount moves on.
LEMMA PlaceStays ==
  ASSUME TypeOK, WriteLast, NEW k \in 1 .. stored + 1,
         k + Slots > stored + 1
  PROVE  PlaceOf(k)' = PlaceOf(k)
  BY RingAssumption DEF TypeOK, WriteLast, NextSlot, PlaceOf

LEMMA StoreLoss ==
  ASSUME LossInv, profile_updater_work
  PROVE  LossInv'
<1> DEFINE new == <<stored + 1, column>>
           pos == cell(sampleCount, column)
<1>1. TypeOK /\ OnceInv'
  BY StoreOnce DEF LossInv, OnceInv
<1>2. pos \in Cells
  BY <1>1, CellIn DEF TypeOK
<1>3. /\ mem_buf' = [mem_buf EXCEPT ![pos] = new]
      /\ torn' = (torn \/ monitor # "idle")
      /\ UNCHANGED monitorVars
  BY DEF profile_updater_work, WriteWord, WriteLast, cell
<1>4. Apart' /\ ClearsPrinted'
  BY <1>3 DEF Apart, ClearsPrinted, monitorVars
<1>5. ASSUME ~torn, NEW k \in 1 .. stored, NEW w \in Columns,
             k + Slots > stored + 1
      PROVE  \/ <<k, w>> \in printed'
             \/ mem_buf'[cell(PlaceOf(k), w)] = <<k, w>>
  <2>1. Kept(k, w)
    BY <1>1, <1>5, RingAssumption DEF LossInv, InPlace, TypeOK
  <2>2. PlaceOf(k) \in 0 .. Slots - 1 /\ PlaceOf(k) # sampleCount
    BY <1>1, <1>5, PlaceIn, RingAssumption DEF TypeOK
  <2>3. cell(PlaceOf(k), w) \in Cells /\ cell(PlaceOf(k), w) # pos
    BY <1>1, <2>2, CellIn, CellsDiffer, RingAssumption DEF TypeOK, Columns
  <2>4. QED
    BY <1>1, <1>3, <2>1, <2>3 DEF Kept, TypeOK, monitorVars
<1>6. ASSUME ~torn, NEW w \in 0 .. column
      PROVE  \/ <<stored + 1, w>> \in printed'
             \/ mem_buf'[cell(sampleCount, w)] = <<stored + 1, w>>
  <2>1. w \in Columns /\ PlaceOf(stored + 1) = sampleCount
    BY <1>1, PlaceIn, RingAssumption DEF TypeOK, Columns
  <2>2. CASE w = column
    BY <1>1, <1>2, <1>3, <2>2 DEF TypeOK
  <2>3. CASE w # column
    <3>1. Kept(stored + 1, w)
      BY <1>1, <1>6, <2>3 DEF LossInv, InPlace, TypeOK
    <3>2. cell(sampleCount, w) \in Cells /\ cell(sampleCount, w) # pos
      BY <1>1, <2>1, <2>3, CellIn, CellsDiffer, RingAssumption
      DEF TypeOK, Columns
    <3>3. QED
      BY <1>1, <1>3, <2>1, <3>1, <3>2 DEF Kept, TypeOK, monitorVars
  <2>4. QED
    BY <2>2, <2>3
<1>7. CASE WriteWord
  <2>1. /\ stored' = stored /\ column' = column + 1
        /\ sampleCount' = sampleCount
    BY <1>7 DEF WriteWord
  <2>2. \A k : PlaceOf(k)' = PlaceOf(k)
    BY <2>1 DEF PlaceOf
  <2>3. PlaceOf(stored + 1) = sampleCount
    BY <1>1, PlaceIn, RingAssumption DEF TypeOK
  <2>4. InPlace'
    BY <1>1, <1>3, <1>5, <1>6, <2>1, <2>2, <2>3
    DEF InPlace, Kept, TypeOK, Columns, cell
  <2>5. QED
    BY <1>1, <1>4, <2>4 DEF LossInv
<1>8. CASE WriteLast
  <2>1. /\ stored' = stored + 1 /\ column' = 0
        /\ column = Words - 1
    BY <1>8 DEF WriteLast
  <2>2. PlaceOf(stored + 1) = sampleCount
    BY <1>1, PlaceIn, RingAssumption DEF TypeOK
  <2>3. InPlace'
    BY <1>1, <1>3, <1>5, <1>6, <1>8, <2>1, <2>2, PlaceStays
    DEF InPlace, Kept, TypeOK, Columns, cell
  <2>4. QED
    BY <1>1, <1>4, <2>3 DEF LossInv
<1>9. QED
  BY <1>7, <1>8 DEF profile_updater_work

LEMMA MonitorLoss ==
  ASSUME LossInv, main
  PROVE  LossInv'
<1>1. TypeOK /\ OnceInv'
  BY MonitorOnce DEF LossInv, OnceInv
<1>2. /\ stored' = stored /\ column' = column /\ sampleCount' = sampleCount
      /\ \A k : PlaceOf(k)' = PlaceOf(k)
  BY DEF main, Start, Find, Test, PrintWord, ClearWord, writerVars, PlaceOf
<1>3. Apart'
  BY DEF LossInv, Apart, main, Start, Find, Test, PrintWord, ClearWord,
         writerVars
<1>4. CASE Start \/ Find \/ Test \/ PrintWord
  <2>1. UNCHANGED mem_buf /\ printed \subseteq printed' /\ (~torn' => ~torn)
    <3>1. CASE PrintWord
      BY <3>1 DEF PrintWord
    <3>2. CASE Start \/ Find \/ Test
      <4>1. UNCHANGED <<mem_buf, printed>>
        BY <3>2 DEF Start, Find, Test
      <4>2. ~torn' => ~torn
        BY <3>2 DEF Start, Find, Test
      <4>3. QED
        BY <4>1, <4>2
    <3>3. QED
      BY <1>4, <3>1, <3>2
  <2>2. \A k, w : Kept(k, w) => Kept(k, w)'
    BY <1>2, <2>1 DEF Kept, cell
  <2>3. InPlace'
    BY <1>2, <2>1, <2>2 DEF LossInv, InPlace, Columns
  <2>4. ClearsPrinted'
    BY <1>4 DEF ClearsPrinted, Start, Find, Test, PrintWord
  <2>5. QED
    BY <1>1, <1>3, <2>3, <2>4 DEF LossInv
<1>5. CASE ClearWord
  <2>1. /\ mem_buf' = [mem_buf EXCEPT ![index] = Empty]
        /\ UNCHANGED <<printed, torn>> /\ monitor = "clear"
    BY <1>5 DEF ClearWord
  <2>2. ASSUME ~torn, NEW k \in 1 .. stored, NEW w \in Columns, Kept(k, w)
        PROVE  Kept(k, w)'
    <3>1. <<k, w>> \in SampleWords
      BY <1>1, RingAssumption DEF TypeOK, SampleWords, Columns
    <3>2. mem_buf[index] = <<k, w>> => <<k, w>> \in printed
      BY <2>1, <2>2, <3>1, SamplesAreFull DEF LossInv, ClearsPrinted
    <3>3. QED
      BY <1>1, <1>2, <2>1, <2>2, <3>2 DEF Kept, cell, TypeOK
  <2>3. ~torn => column = 0
    BY <2>1 DEF LossInv, Apart
  <2>4. InPlace'
    BY <1>1, <1>2, <2>1, <2>2, <2>3 DEF LossInv, InPlace, Columns, TypeOK
  <2>5. ClearsPrinted'
    BY <1>5 DEF ClearsPrinted, ClearWord
  <2>6. QED
    BY <1>1, <1>3, <2>4, <2>5 DEF LossInv
<1>6. QED
  BY <1>4, <1>5 DEF main

-----------------------------------------------------------------------------
\* Lines are samples

\* Every cell belongs to a slot.
LEMMA CellOf ==
  ASSUME NEW c \in Cells
  PROVE  \E s \in SlotNos, w \in Columns : c = cell(s, w)
<1> DEFINE s == c \div Words
           w == c % Words
<1>1. c \in Nat /\ c < Slots * Words
  BY RingAssumption DEF Cells
<1>2. s \in Nat /\ w \in Columns /\ c = Words * s + w
  BY <1>1, RingAssumption DEF Columns
<1>3. c = cell(s, w)
  BY <1>2, RingAssumption DEF cell, Columns
<1>4. s < Slots
  <2>1. SUFFICES ASSUME s >= Slots PROVE FALSE
    BY <1>2, RingAssumption
  <2>2. s * Words >= Slots * Words
    BY <1>2, <2>1, RingAssumption
  <2>3. QED
    BY <1>1, <1>2, <1>3, <2>2, RingAssumption DEF cell, Columns
<1>5. QED
  BY <1>2, <1>3, <1>4, RingAssumption DEF SlotNos

\* A slot with one empty word is empty.
LEMMA EmptyContent ==
  ASSUME TypeOK, NEW f \in Contents, NEW v \in Columns, NEW w \in Columns,
         f[v] = Empty
  PROVE  f[w] = Empty
<1>1. \A k \in 1 .. stored : <<k, v>> # Empty
  BY WordAssumption, RingAssumption DEF TypeOK, Columns
<1>2. QED
  BY <1>1 DEF Contents

LEMMA EmptySlot ==
  ASSUME NEW s, \A w \in Columns : mem_buf[cell(s, w)] = Empty
  PROVE  Content(s) \in Contents
  BY DEF Content, Contents

\* A line that follows a whole slot is a sample or none.
LEMMA LineOfContent ==
  ASSUME NEW f \in Contents, NEW ln \in Seq(SampleWords \cup {Empty, Garbage}),
         Len(ln) = Words, \A i \in 1 .. Words : ln[i] = f[i - 1]
  PROVE  \/ \E k \in 1 .. stored : ln = Sample(k)
         \/ ToSet(ln) \subseteq {Empty, Garbage}
<1>1. ln \in [1 .. Words -> SampleWords \cup {Empty, Garbage}]
  BY RingAssumption
<1>2. \A i \in 1 .. Words : i - 1 \in Columns
  BY RingAssumption DEF Columns
<1>3. ASSUME NEW k \in 1 .. stored, f = [w \in Columns |-> <<k, w>>]
      PROVE  ln = Sample(k)
  BY <1>1, <1>2, <1>3 DEF Sample
<1>4. ASSUME NEW v \in {Empty, Garbage}, f = [w \in Columns |-> v]
      PROVE  ToSet(ln) \subseteq {Empty, Garbage}
  BY <1>1, <1>2, <1>4 DEF ToSet
<1>5. QED
  BY <1>3, <1>4 DEF Contents

LEMMA StoreLine ==
  ASSUME IInv, profile_updater_work
  PROVE  LineInv'
<1> DEFINE new == <<stored + 1, column>>
           pos == cell(sampleCount, column)
<1>1. TypeOK /\ TypeOK' /\ LineInv
  BY StoreOnce DEF IInv, LossInv, OnceInv
<1>2. pos \in Cells /\ pos # Behind
  BY <1>1, CellIn, BehindPositive DEF TypeOK
<1>3. /\ mem_buf' = [mem_buf EXCEPT ![pos] = new]
      /\ torn' = (torn \/ monitor # "idle")
      /\ UNCHANGED monitorVars
  BY DEF profile_updater_work, WriteWord, WriteLast, cell
<1>4. mem_buf'[Behind] \in {Empty, Garbage}
  BY <1>1, <1>2, <1>3 DEF LineInv, TypeOK
<1>5. Behind' = Behind
  BY DEF Behind
<1> SUFFICES ASSUME ~torn'
             PROVE  /\ AtRest' /\ PartWritten' /\ Scanned' /\ InLine'
                    /\ LinesAreSamples'
  BY <1>4, <1>5 DEF LineInv
<1>6. ~torn /\ monitor = "idle" /\ monitor' = "idle"
  BY <1>3 DEF monitorVars
<1>7. Scanned' /\ InLine'
  BY <1>6 DEF Scanned, InLine
<1>8. stored' \in Nat /\ stored' >= stored
  BY <1>1 DEF TypeOK, profile_updater_work, WriteWord, WriteLast
<1>9. LinesAreSamples'
  BY <1>1, <1>3, <1>6, <1>8
  DEF LineInv, LinesAreSamples, monitorVars, TypeOK, Sample
<1>10. Contents \subseteq Contents'
  <2>1. 1 .. stored \subseteq 1 .. stored'
    BY <1>1, <1>8 DEF TypeOK
  <2>2. QED
    BY <2>1 DEF Contents, Columns
<1>11. ASSUME NEW s \in SlotNos, s # sampleCount
       PROVE  Content(s)' \in Contents'
  <2>1. \A w \in Columns : cell(s, w) \in Cells /\ cell(s, w) # pos
    BY <1>1, <1>11, CellIn, CellsDiffer, RingAssumption
    DEF SlotNos, Columns, TypeOK
  <2>2. Content(s)' = Content(s)
    BY <1>1, <1>3, <2>1 DEF Content, TypeOK, Columns, cell
  <2>3. Content(s) \in Contents
    BY <1>1, <1>6, <1>11 DEF LineInv, AtRest
  <2>4. QED
    BY <1>10, <2>2, <2>3
<1>12. \A w \in 0 .. column :
         mem_buf'[cell(sampleCount, w)] = <<stored + 1, w>>
  <2> TAKE w \in 0 .. column
  <2>1. CASE w = column
    BY <1>1, <1>2, <1>3, <2>1 DEF TypeOK
  <2>2. CASE w # column
    <3>1. cell(sampleCount, w) \in Cells /\ cell(sampleCount, w) # pos
      BY <1>1, <2>2, CellIn, CellsDiffer, RingAssumption DEF TypeOK
    <3>2. mem_buf[cell(sampleCount, w)] = <<stored + 1, w>>
      BY <1>1, <1>6, <2>2 DEF LineInv, PartWritten, TypeOK
    <3>3. QED
      BY <1>1, <1>3, <3>1, <3>2 DEF TypeOK
  <2>3. QED
    BY <2>1, <2>2
<1>13. CASE WriteWord
  <2>1. /\ column' = column + 1 /\ stored' = stored
        /\ sampleCount' = sampleCount
    BY <1>13 DEF WriteWord
  <2>2. AtRest'
    BY <1>1, <1>3, <1>6, <1>11, <2>1
    DEF LineInv, AtRest, monitorVars, SlotNos, TypeOK
  <2>3. PartWritten'
    BY <1>1, <1>12, <2>1 DEF PartWritten, cell, TypeOK
  <2>4. QED
    BY <1>7, <1>9, <2>2, <2>3
<1>14. CASE WriteLast
  <2>1. column' = 0 /\ stored' = stored + 1 /\ column = Words - 1
    BY <1>14 DEF WriteLast
  <2>2. stored + 1 \in 1 .. stored'
    BY <1>1, <2>1 DEF TypeOK
  <2>3. ASSUME NEW s \in SlotNos, s = sampleCount
        PROVE  Content(s)' \in Contents'
    <3>1. Content(s)' = [w \in Columns |-> <<stored + 1, w>>]
      BY <1>12, <2>1, <2>3 DEF Content, Columns, cell
    <3>2. QED
      BY <2>2, <3>1 DEF Contents, Columns
  <2>4. \A s \in SlotNos : Content(s)' \in Contents'
    BY <1>11, <2>3
  <2>5. AtRest'
    BY <1>1, <1>3, <1>6, <2>4 DEF LineInv, AtRest, monitorVars, SlotNos
  <2>6. PartWritten'
    BY <2>1 DEF PartWritten
  <2>7. QED
    BY <1>7, <1>9, <2>5, <2>6
<1>15. QED
  BY <1>13, <1>14 DEF profile_updater_work

\* The writer rests while the monitor goes on.
LEMMA WriterRests ==
  ASSUME IInv, main
  PROVE  /\ UNCHANGED <<sampleCount, stored, column>>
         /\ ~torn' => ~torn /\ column = 0
         /\ Contents' = Contents
<1>1. UNCHANGED <<sampleCount, stored, column>>
  BY DEF main, Start, Find, Test, PrintWord, ClearWord, writerVars
<1>2. CASE Start
  BY <1>1, <1>2 DEF Start, Contents, Columns
<1>3. CASE Find \/ Test \/ PrintWord \/ ClearWord
  <2>1. torn' = torn /\ monitor # "idle"
    BY <1>3 DEF Find, Test, PrintWord, ClearWord
  <2>2. QED
    BY <1>1, <2>1 DEF IInv, LossInv, Apart, Contents, Columns
<1>4. QED
  BY <1>2, <1>3 DEF main

LEMMA ScanLine ==
  ASSUME IInv, Start \/ Find \/ Test
  PROVE  LineInv'
<1>1. TypeOK /\ LineInv
  BY DEF IInv, LossInv, OnceInv
<1>2. /\ UNCHANGED <<sampleCount, stored, column, mem_buf, line>>
      /\ ~torn' => ~torn /\ column = 0
      /\ Contents' = Contents
  BY WriterRests DEF main, Start, Find, Test
<1>3. mem_buf'[Behind] \in {Empty, Garbage} /\ Behind' = Behind
  BY <1>1, <1>2 DEF LineInv, Behind
<1> SUFFICES ASSUME ~torn'
             PROVE  /\ AtRest' /\ PartWritten' /\ Scanned' /\ InLine'
                    /\ LinesAreSamples'
  BY <1>3 DEF LineInv
<1>4. ~torn /\ column = 0 /\ monitor \in {"idle", "find", "test"}
  BY <1>2 DEF Start, Find, Test
<1>5. /\ Len(line) \in {0, Words}
      /\ \A s \in SlotNos : Content(s) \in Contents /\ Content(s)' = Content(s)
  BY <1>1, <1>2, <1>4 DEF LineInv, AtRest, Content, Columns, cell
<1>6. AtRest' /\ PartWritten' /\ LinesAreSamples'
  BY <1>1, <1>2, <1>4, <1>5
  DEF LineInv, AtRest, PartWritten, LinesAreSamples, SlotNos, Sample
<1>7. CASE Start
  BY <1>6, <1>7 DEF Start, Scanned, InLine, Cells
<1>8. CASE Find
  <2>1. InLine'
    BY <1>4, <1>8 DEF Find, InLine
  <2>2. \A c \in Cells : c < index => mem_buf[c] = Empty
    BY <1>1, <1>4, <1>8 DEF LineInv, Scanned, Find
  <2>3. CASE index \in Cells /\ mem_buf[index] = Empty
    BY <1>1, <1>2, <1>6, <1>8, <2>1, <2>2, <2>3, BehindPositive
    DEF Find, Scanned, TypeOK
  <2>4. CASE index \notin Cells
    <3>1. AllEmpty /\ monitor' = "test"
      BY <1>1, <1>8, <2>2, <2>4, BehindPositive DEF Find, AllEmpty, TypeOK
    <3>2. QED
      BY <1>2, <1>6, <2>1, <3>1 DEF Scanned, AllEmpty, Cells
  <2>5. CASE index \in Cells /\ mem_buf[index] # Empty
    <3>1. PICK s \in SlotNos, w \in Columns : index = cell(s, w)
      BY <2>5, CellOf
    <3>2. 0 \in Columns /\ cell(s, 0) \in Cells
      BY CellIn, RingAssumption DEF SlotNos, Columns
    <3>3. CASE w = 0
      BY <1>6, <1>8, <2>1, <2>5, <3>1, <3>3 DEF Find, Scanned, cell, SlotNos
    <3>4. CASE w # 0
      <4>1. cell(s, 0) < index
        BY <3>1, <3>2, <3>4, RingAssumption DEF cell, SlotNos, Columns
      <4>2. Content(s)[0] = Empty /\ Content(s)[w] # Empty
        BY <2>2, <2>5, <3>1, <3>2, <4>1 DEF Content
      <4>3. QED
        BY <1>1, <1>5, <3>2, <4>2, EmptyContent
    <3>5. QED
      BY <3>3, <3>4
  <2>6. QED
    BY <2>3, <2>4, <2>5
<1>9. CASE Test
  <2>1. CASE mem_buf[index] = Empty
    BY <1>6, <1>9, <2>1 DEF Test, Scanned, InLine
  <2>2. CASE mem_buf[index] # Empty
    <3>1. monitor' = "print" /\ index' = index /\ monitor = "test"
      BY <1>9, <2>2 DEF Test
    <3>2. cleared' = 0 /\ shown' = 0
      BY <1>2, <1>5, <3>1, RingAssumption DEF cleared, shown
    <3>3. CASE AllEmpty
      <4>1. BehindRing'
        BY <1>2, <3>2, <3>3 DEF BehindRing, AllEmpty, Cells
      <4>2. QED
        BY <1>6, <3>1, <4>1 DEF Scanned, InLine
    <3>4. ASSUME NEW s \in SlotNos, index = cell(s, 0)
          PROVE  InSlot(s, Content(s))'
      BY <1>2, <1>5, <3>1, <3>2, <3>4
      DEF InSlot, Content, Columns, cell, SlotNos
    <3>5. QED
      <4>1. AllEmpty \/ \E s \in SlotNos : index = cell(s, 0)
        BY <1>1, <1>4, <3>1 DEF LineInv, Scanned
      <4>2. InLine'
        BY <1>2, <1>5, <3>1, <3>3, <3>4, <4>1 DEF InLine, SlotNos
      <4>3. QED
        BY <1>6, <3>1, <4>2 DEF Scanned
  <2>3. QED
    BY <2>1, <2>2
<1>10. QED
  BY <1>7, <1>8, <1>9

LEMMA PrintLine ==
  ASSUME IInv, PrintWord
  PROVE  LineInv'
<1>1. TypeOK /\ LineInv
  BY DEF IInv, LossInv, OnceInv
<1>2. /\ UNCHANGED <<sampleCount, stored, column, mem_buf, index, torn>>
      /\ monitor = "print" /\ monitor' = "clear"
      /\ ~torn => column = 0
      /\ Contents' = Contents
  BY WriterRests DEF main, PrintWord
<1>3. mem_buf'[Behind] \in {Empty, Garbage} /\ Behind' = Behind
  BY <1>1, <1>2 DEF LineInv, Behind
<1> SUFFICES ASSUME ~torn
             PROVE  /\ AtRest' /\ PartWritten' /\ Scanned' /\ InLine'
                    /\ LinesAreSamples'
  BY <1>2, <1>3 DEF LineInv
<1>4. AtRest' /\ PartWritten' /\ Scanned'
  BY <1>2 DEF AtRest, PartWritten, Scanned
<1> DEFINE before == IF Len(line) = Words THEN << >> ELSE line
           word == mem_buf[index]
<1>5. /\ index \in Cells \cup {Behind}
      /\ word \in SampleWords \cup {Empty, Garbage}
  BY <1>1, BehindPositive DEF TypeOK
<1>6. /\ cleared = Len(before) /\ shown = cleared /\ cleared \in Columns
      /\ before \in Seq(SampleWords \cup {Empty, Garbage})
      /\ \A i \in 1 .. shown : before[i] = line[i]
  BY <1>1, <1>2, RingAssumption DEF TypeOK, cleared, shown, Columns
<1>7. /\ Len(line') = shown + 1
      /\ \A i \in 1 .. shown : line'[i] = line[i]
      /\ line'[shown + 1] = word
  BY <1>5, <1>6 DEF PrintWord
<1>8. cleared' = cleared /\ shown' = shown + 1
  BY <1>2, <1>6, <1>7 DEF cleared, shown, Columns
<1>9. TypeOK'
  BY MonitorOnce DEF IInv, LossInv, OnceInv, main
<1>10. CASE BehindRing
  <2>1. word \in {Empty, Garbage}
    BY <1>1, <1>5, <1>10 DEF BehindRing, AllEmpty, LineInv
  <2>2. \A i \in 1 .. shown + 1 : line'[i] \in {Empty, Garbage}
    BY <1>6, <1>7, <1>10, <2>1 DEF BehindRing, Columns
  <2>3. AllEmpty'
    BY <1>2, <1>10 DEF BehindRing, AllEmpty, Cells
  <2>4. BehindRing'
    BY <1>8, <2>2, <2>3 DEF BehindRing
  <2>5. InLine'
    BY <1>2, <1>6, <1>7, <2>4 DEF InLine, Columns
  <2>6. line' \in Seq(SampleWords \cup {Empty, Garbage})
    BY <1>9 DEF TypeOK
  <2>7. ToSet(line') \subseteq {Empty, Garbage}
    BY <1>7, <2>2, <2>6 DEF ToSet
  <2>8. QED
    BY <1>4, <2>5, <2>7 DEF LinesAreSamples, ToSet
<1>11. ASSUME NEW s \in SlotNos, NEW f \in Contents, InSlot(s, f)
       PROVE  InLine' /\ LinesAreSamples'
  <2>1. word = f[shown]
    BY <1>6, <1>11 DEF InSlot
  <2>2. \A i \in 1 .. shown + 1 : line'[i] = f[i - 1]
    BY <1>6, <1>7, <1>11, <2>1 DEF InSlot, Columns
  <2>3. InSlot(s, f)'
    BY <1>2, <1>8, <1>11, <2>2
    DEF InSlot, Columns, SlotNos, cell, Content
  <2>4. InLine'
    BY <1>2, <1>6, <1>7, <2>3 DEF InLine, Columns, SlotNos
  <2>5. ASSUME Len(line') = Words
        PROVE  \/ \E k \in 1 .. stored' : line' = Sample(k)
               \/ ToSet(line') \subseteq {Empty, Garbage}
    <3>1. line' \in Seq(SampleWords \cup {Empty, Garbage})
      BY <1>9 DEF TypeOK
    <3>2. \A i \in 1 .. Words : line'[i] = f[i - 1]
      BY <1>7, <2>2, <2>5
    <3>3. QED
      BY <1>2, <2>5, <3>1, <3>2, LineOfContent
  <2>6. LinesAreSamples'
    BY <2>5 DEF LinesAreSamples, Sample, ToSet
  <2>7. QED
    BY <2>4, <2>6
<1>12. QED
  BY <1>1, <1>2, <1>4, <1>10, <1>11 DEF LineInv, InLine

\* A cell that is overwritten belongs to one slot.
LEMMA ClearLine ==
  ASSUME IInv, ClearWord
  PROVE  LineInv'
<1>1. TypeOK /\ LineInv /\ Len(line) \in 0 .. Words
  BY DEF IInv, LossInv, OnceInv, TypeOK
<1>2. /\ UNCHANGED <<sampleCount, stored, column, line, torn>>
      /\ monitor = "clear"
      /\ monitor' = IF Len(line) = Words THEN "test" ELSE "print"
      /\ mem_buf' = [mem_buf EXCEPT ![index] = Empty]
      /\ index' = IF index + 1 >= Behind THEN 0 ELSE index + 1
      /\ ~torn => column = 0
      /\ Contents' = Contents
  BY WriterRests DEF main, ClearWord
<1>3. mem_buf'[Behind] \in {Empty, Garbage} /\ Behind' = Behind
  BY <1>1, <1>2, BehindPositive DEF LineInv, Behind, TypeOK
<1> SUFFICES ASSUME ~torn
             PROVE  /\ AtRest' /\ PartWritten' /\ Scanned' /\ InLine'
                    /\ LinesAreSamples'
  BY <1>2, <1>3 DEF LineInv
<1>4. PartWritten' /\ LinesAreSamples'
  BY <1>1, <1>2 DEF LineInv, PartWritten, LinesAreSamples, Sample, ToSet
<1>5. /\ Len(line) > 0 /\ cleared = Len(line) - 1 /\ shown = Len(line)
      /\ cleared \in Columns
  BY <1>1, <1>2, RingAssumption DEF LineInv, InLine, cleared, shown, Columns
<1>6. Len(line) # Words => cleared' = cleared + 1 /\ shown' = shown
  BY <1>1, <1>2, <1>5 DEF cleared, shown
<1>7. CASE BehindRing
  <2>1. AllEmpty'
    BY <1>1, <1>2, <1>7 DEF BehindRing, AllEmpty, Cells, TypeOK
  <2>2. \A s \in SlotNos : Content(s)' \in Contents'
    <3> TAKE s \in SlotNos
    <3>1. Content(s)' = [w \in Columns |-> Empty]
      BY <2>1, CellIn DEF AllEmpty, Content, Columns, SlotNos, cell, Cells
    <3>2. QED
      BY <1>2, <3>1 DEF Contents
  <2>3. AtRest'
    BY <1>2, <2>2 DEF AtRest, SlotNos
  <2>4. Len(line) # Words => BehindRing'
    BY <1>2, <1>6, <1>7, <2>1 DEF BehindRing
  <2>5. Scanned' /\ InLine'
    BY <1>2, <2>1, <2>4 DEF Scanned, InLine
  <2>6. QED
    BY <1>4, <2>3, <2>5
<1>8. ASSUME NEW s \in SlotNos, NEW f \in Contents, InSlot(s, f)
      PROVE  AtRest' /\ Scanned' /\ InLine'
  <2>1. index = cell(s, cleared) /\ index \in Cells
    BY <1>5, <1>8, CellIn DEF InSlot, SlotNos, Columns
  <2>2. \A w \in Columns : cell(s, w) \in Cells
                          /\ (cell(s, w) = index <=> w = cleared)
    BY <1>5, <2>1, CellIn, CellsDiffer, RingAssumption DEF SlotNos, Columns
  <2>3. \A w \in Columns : mem_buf'[cell(s, w)] =
                              IF w < cleared + 1 THEN Empty ELSE f[w]
    BY <1>1, <1>2, <1>5, <1>8, <2>2 DEF InSlot, TypeOK, Columns
  <2>4. ASSUME NEW t \in SlotNos \ {s}
        PROVE  Content(t)' = Content(t) /\ Content(t) \in Contents
    <3>1. \A w \in Columns : cell(t, w) \in Cells /\ cell(t, w) # index
      BY <1>5, <2>1, CellIn, CellsDiffer, RingAssumption DEF SlotNos, Columns
    <3>2. QED
      BY <1>1, <1>2, <1>8, <3>1 DEF InSlot, Content, TypeOK, Columns, cell
  <2>5. CASE Len(line) = Words
    <3>1. monitor' = "test" /\ cleared = Words - 1
      BY <1>2, <1>5, <2>5
    <3>2. Content(s)' = [w \in Columns |-> Empty]
      BY <2>3, <3>1, RingAssumption DEF Content, Columns, cell
    <3>3. \A t \in SlotNos : Content(t)' \in Contents'
      BY <1>2, <2>4, <3>2 DEF Contents
    <3>4. AtRest'
      BY <1>2, <2>5, <3>3 DEF AtRest, SlotNos
    <3>5. \E t \in SlotNos : index' = cell(t, 0)
      <4>1. index + 1 = s * Words + Words
        BY <2>1, <3>1, RingAssumption DEF cell, SlotNos
      <4>2. CASE index + 1 >= Behind
        BY <1>2, <4>2, RingAssumption DEF cell, SlotNos
      <4>3. CASE ~(index + 1 >= Behind)
        <5>1. cell(s + 1, 0) = index + 1
          BY <4>1, RingAssumption DEF cell, SlotNos
        <5>2. s # Slots - 1
          BY <4>1, <4>3, RingAssumption DEF Behind, SlotNos
        <5>3. s + 1 \in SlotNos
          BY <5>2, RingAssumption DEF SlotNos
        <5>4. QED
          BY <1>2, <4>3, <5>1, <5>3
      <4>4. QED
        BY <4>2, <4>3
    <3>6. Scanned' /\ InLine'
      BY <3>1, <3>5 DEF Scanned, InLine, SlotNos, cell
    <3>7. QED
      BY <3>4, <3>6
  <2>6. CASE Len(line) # Words
    <3>1. monitor' = "print" /\ cleared + 1 \in Columns
      BY <1>1, <1>2, <1>5, <2>6, RingAssumption DEF Columns
    <3>2. cell(s, cleared + 1) = index + 1
      BY <1>5, <2>1, RingAssumption DEF cell, SlotNos, Columns
    <3>3. index' = cell(s, cleared + 1)
      <4>1. index + 1 \in Cells
        BY <3>1, <3>2, CellIn DEF SlotNos, Columns
      <4>2. QED
        BY <1>2, <3>2, <4>1, BehindPositive
    <3>4. InSlot(s, f)'
      BY <1>2, <1>6, <1>8, <2>3, <2>4, <2>6, <3>3
      DEF InSlot, Columns, SlotNos, cell
    <3>5. QED
      BY <1>2, <3>1, <3>4 DEF InLine, AtRest, Scanned, Columns, SlotNos
  <2>7. QED
    BY <2>5, <2>6
<1>9. QED
  BY <1>1, <1>2, <1>4, <1>7, <1>8 DEF LineInv, InLine

-----------------------------------------------------------------------------
\* The invariant

LEMMA InitIInv == Init => IInv
<1> SUFFICES ASSUME Init PROVE IInv
  OBVIOUS
<1>1. OnceInv
  BY InitOnce
<1>2. LossInv
  BY <1>1 DEF LossInv, Init, Apart, InPlace, ClearsPrinted
<1>3. mem_buf \in [Cells \cup {Behind} -> {Empty, Garbage}]
  BY DEF Init
<1>4. ASSUME ~torn, NEW s \in SlotNos
      PROVE  Content(s) \in Contents
  <2>1. \A w \in Columns : slotOf(cell(s, w)) = s /\ cell(s, w) \in Cells
    <3> TAKE w \in Columns
    <3>1. cell(s, w) \in Cells
      BY CellIn DEF SlotNos, Columns
    <3>2. PICK t \in SlotNos, v \in Columns : cell(s, w) = cell(t, v)
      BY <3>1, CellOf
    <3>3. QED
      BY <3>1, RingAssumption DEF slotOf, cell, SlotNos, Columns
  <2>2. WholeSlots(mem_buf)
    BY <1>4 DEF Init
  <2>3. \A v, w \in Columns :
          mem_buf[cell(s, v)] = Empty <=> mem_buf[cell(s, w)] = Empty
    BY <2>1, <2>2 DEF WholeSlots
  <2>4. CASE \A w \in Columns : mem_buf[cell(s, w)] = Empty
    BY <2>4 DEF Content, Contents
  <2>5. CASE \A w \in Columns : mem_buf[cell(s, w)] # Empty
    <3>1. \A w \in Columns : mem_buf[cell(s, w)] = Garbage
      BY <1>3, <2>1, <2>5
    <3>2. QED
      BY <3>1 DEF Content, Contents
  <2>6. QED
    BY <2>3, <2>4, <2>5
<1>5. LineInv
  BY <1>3, <1>4, RingAssumption
  DEF Init, LineInv, AtRest, PartWritten, Scanned, InLine, LinesAreSamples
<1>6. QED
  BY <1>2, <1>5 DEF IInv

LEMMA NextIInv == IInv /\ [Next]_vars => IInv'
<1> SUFFICES ASSUME IInv, [Next]_vars PROVE IInv'
  OBVIOUS
<1>1. CASE profile_updater_work
  BY <1>1, StoreLoss, StoreLine DEF IInv
<1>2. CASE main
  <2>1. LineInv'
    BY <1>2, ScanLine, PrintLine, ClearLine DEF main
  <2>2. QED
    BY <1>2, <2>1, MonitorLoss DEF IInv
<1>3. CASE UNCHANGED vars
  <2> USE <1>3 DEF vars, writerVars, monitorVars, IInv, LossInv
  <2>1. OnceInv'
    BY DEF OnceInv, TypeOK, OnlyWritten, Written, WordsDiffer
  <2>2. Apart' /\ InPlace' /\ ClearsPrinted'
    BY DEF Apart, InPlace, Kept, PlaceOf, cell, ClearsPrinted
  <2>3. /\ Contents' = Contents /\ AllEmpty' = AllEmpty
        /\ cleared' = cleared /\ shown' = shown
        /\ \A s : Content(s)' = Content(s)
    BY DEF Contents, AllEmpty, cleared, shown, Content, cell
  <2>4. /\ BehindRing' = BehindRing
        /\ \A s, f : InSlot(s, f)' = InSlot(s, f)
    BY <2>3 DEF BehindRing, InSlot, cell
  <2>5. InLine' = InLine
    BY <2>3, <2>4 DEF InLine
  <2>6. LineInv'
    BY <2>3, <2>5
    DEF LineInv, AtRest, PartWritten, Scanned, LinesAreSamples, Sample, ToSet,
        cell
  <2>7. QED
    BY <2>1, <2>2, <2>6
<1>4. QED
  BY <1>1, <1>2, <1>3 DEF Next

LEMMA SpecIInv == Spec => []IInv
  BY InitIInv, NextIInv, PTL DEF Spec

-----------------------------------------------------------------------------

\* Buffer, cursors and the line under way keep their types, for a buffer of
\* any size.
THEOREM TypeCorrect == Spec => []TypeOK
<1>1. IInv => TypeOK
  BY DEF IInv, LossInv, OnceInv
<1>2. QED
  BY <1>1, SpecIInv, PTL

\* No word is printed twice, even when writer and monitor overlap.
THEOREM NeverPrintedTwice == Spec => []PrintedOnce
<1>1. IInv => PrintedOnce
  BY DEF IInv, LossInv, OnceInv, PrintedOnce
<1>2. QED
  BY <1>1, SpecIInv, PTL

\* A line the monitor prints is a sample, as long as the two have not
\* overlapped, wherever in the ring the samples begin.
THEOREM LinesCorrect == Spec => []LinesAreSamples
<1>1. IInv => LinesAreSamples
  BY DEF IInv, LineInv, LinesAreSamples
<1>2. QED
  BY <1>1, SpecIInv, PTL

\* A sample is overwritten only after as many as the buffer holds, as long as
\* the two have not overlapped.
THEOREM LossIsWrapAround == Spec => []NothingLost
<1>1. IInv => NothingLost
  <2> SUFFICES ASSUME IInv, ~torn, NEW k \in 1 .. stored,
                      ~(k + Slots <= stored + (IF column = 0 THEN 0 ELSE 1))
               PROVE  ToSet(Sample(k)) \subseteq printed \cup Range(mem_buf)
    BY DEF NothingLost
  <2>1. TypeOK
    BY DEF IInv, LossInv, OnceInv
  <2>2. PlaceOf(k) \in 0 .. Slots - 1
    BY <2>1, PlaceIn, RingAssumption DEF TypeOK
  <2>3. \A w \in Columns : Kept(k, w) /\ cell(PlaceOf(k), w) \in Cells
    BY <2>1, <2>2, CellIn, RingAssumption
    DEF IInv, LossInv, InPlace, TypeOK, Columns
  <2>4. \A w \in Columns : <<k, w>> \in printed \cup Range(mem_buf)
    BY <2>1, <2>3 DEF Kept, Range, TypeOK
  <2>5. QED
    BY <2>4, RingAssumption DEF ToSet, Sample, Columns
<1>2. QED
  BY <1>1, SpecIInv, PTL
=============================================================================
