----------------------------- MODULE StoreProofs -----------------------------
(***************************************************************************)
(* Proofs about the places where the programs keep things.  The two        *)
(* buffers that lose what is oldest, for every capacity: of the replay     *)
(* ring of the server the head and the count name exactly the newest       *)
(* frames, whatever has wrapped around, and the array implements the       *)
(* bounded log of ReplayLog; the log of a window keeps a run of unread     *)
(* bytes.  And the settings file, for any number of programs, keys,        *)
(* launches and edits: the settings survive at whatever step a program     *)
(* dies, and no save takes a key out of the file unless there are more     *)
(* than fit.                                                               *)
(***************************************************************************)
EXTENDS ReplayRing, LogRing, ConfigFile, SequenceTheorems, FiniteSetTheorems, WellFoundedInduction,
        TLAPS

-----------------------------------------------------------------------------
\* Arithmetic of the two wrap-arounds the code makes: the head's, and the
\* reader's (head - count + i + 2 * Depth) % Depth.

LEMMA ModSmall ==
  ASSUME NEW x \in Slots
  PROVE  /\ x % Depth = x
         /\ (x + Depth) % Depth = x
         /\ (x + Depth * 2) % Depth = x
BY RingAssumption, Z3 DEF Slots

LEMMA AdvanceWraps ==
  ASSUME NEW h \in Slots
  PROVE  Advance(h) = IF h + 1 = Depth THEN 0 ELSE h + 1
<1>1. CASE h + 1 = Depth
  <2>1. 0 \in Slots
    BY RingAssumption DEF Slots
  <2>2. (0 + Depth) % Depth = 0
    BY <2>1, ModSmall
  <2> QED BY <1>1, <2>2, RingAssumption DEF Advance
<1>2. CASE h + 1 # Depth
  <2>1. h + 1 \in Slots
    BY <1>2, RingAssumption DEF Slots
  <2> QED BY <1>2, <2>1, ModSmall DEF Advance
<1> QED BY <1>1, <1>2

-----------------------------------------------------------------------------
\* The inductive invariant: which frame every slot holds.  The slots below the
\* head hold the newest frames; once the ring is full those from the head up
\* hold the ones before them, except a head slot that has wedged.
RingInv ==
  /\ TypeOK
  /\ oom \subseteq {head}
  /\ \A j \in oom : slots[j] = NoFrame
  /\ oom = {} => last = offered
  /\ count < Depth => head = count /\ last = count
  /\ count = Depth => last >= Depth
  /\ \A j \in Slots : j < head => slots[j] = last - head + 1 + j
  /\ count = Depth =>
       \A j \in Slots \ oom : j >= head => slots[j] = last - head + 1 + j - Depth

LEMMA InitRing == Init => RingInv
BY RingAssumption DEF Init, RingInv, TypeOK, Slots, NoFrame

LEMMA StepRing == RingInv /\ [Next]_vars => RingInv'
<1> SUFFICES ASSUME RingInv, [Next]_vars PROVE RingInv'
  OBVIOUS
<1> USE RingAssumption DEF RingInv, TypeOK
<1>1. ASSUME NEW memory \in BOOLEAN, Store(memory), memory, head \notin oom
      PROVE  RingInv'
  <2>1. Retain /\ offered' = offered + 1
    BY <1>1 DEF Store
  <2>2. head' = IF head + 1 = Depth THEN 0 ELSE head + 1
    BY <2>1, AdvanceWraps DEF Retain
  <2>3. oom = {} /\ last = offered /\ last' = last + 1
    BY <1>1, <2>1 DEF Retain
  <2>4. TypeOK'
    BY <2>1, <2>2 DEF Retain, Slots
  <2>5. /\ (oom \subseteq {head})'
        /\ (oom = {} => last = offered)'
        /\ (count < Depth => head = count /\ last = count)'
        /\ (count = Depth => last >= Depth)'
    BY <2>1, <2>2, <2>3 DEF Retain, Slots
  <2>6. ASSUME NEW j \in Slots, j < head'
        PROVE  slots'[j] = last' - head' + 1 + j
    <3>1. CASE j = head
      BY <3>1, <2>1, <2>2, <2>3, <2>6 DEF Retain, Slots
    <3>2. CASE j # head
      BY <3>2, <2>1, <2>2, <2>3, <2>6 DEF Retain, Slots
    <3> QED BY <3>1, <3>2
  <2>7. ASSUME count' = Depth, NEW j \in Slots, j >= head'
        PROVE  slots'[j] = last' - head' + 1 + j - Depth
    <3>1. CASE j = head
      BY <3>1, <2>1, <2>2, <2>3, <2>7 DEF Retain, Slots
    <3>2. CASE j # head
      <4>1. slots'[j] = slots[j] /\ j \notin oom
        BY <3>2, <2>1, <2>3 DEF Retain
      <4>2. CASE head + 1 = Depth
        <5>1. j < head /\ head' = 0 /\ head = Depth - 1
          BY <4>2, <3>2, <2>2 DEF Slots
        <5>2. slots[j] = last - head + 1 + j
          BY <5>1
        <5> QED BY <5>1, <5>2, <4>1, <2>3 DEF Slots
      <4>3. CASE head + 1 # Depth
        <5>1. count = Depth /\ j >= head
          BY <4>3, <2>1, <2>2, <2>7 DEF Retain, Slots
        <5> QED BY <5>1, <4>1, <4>3, <2>2, <2>3 DEF Slots
      <4> QED BY <4>2, <4>3
    <3> QED BY <3>1, <3>2
  <2> QED BY <2>1, <2>3, <2>4, <2>5, <2>6, <2>7 DEF Retain
<1>2. ASSUME NEW memory \in BOOLEAN, Store(memory), ~(memory /\ head \notin oom)
      PROVE  RingInv'
  <2>1. Refuse /\ offered' = offered + 1
    BY <1>2 DEF Store
  <2>2. slots' = [slots EXCEPT ![head] = NoFrame] /\ oom' = {head}
    BY <2>1 DEF Refuse
  <2>3. UNCHANGED <<head, count, last>>
    BY <2>1 DEF Refuse
  <2>4. TypeOK'
    BY <2>1, <2>2, <2>3 DEF Slots, NoFrame
  <2>5. ASSUME NEW j \in Slots, j # head
        PROVE  slots'[j] = slots[j]
    BY <2>2, <2>5
  <2> QED BY <2>2, <2>3, <2>4, <2>5 DEF Slots
<1>3. CASE UNCHANGED vars
  BY <1>3 DEF vars
<1> QED BY <1>1, <1>2, <1>3 DEF Next

\* The ring never leaves its types: the head stays inside the array and the
\* count never exceeds it.
THEOREM RingTypes == Spec => []TypeOK
<1>1. RingInv => TypeOK
  BY DEF RingInv
<1> QED BY <1>1, InitRing, StepRing, PTL DEF Spec

-----------------------------------------------------------------------------
\* A run of n consecutive frame numbers that ends with l.
Run(l, n) == [i \in 1 .. n |-> l - n + i]

LEMMA RunIsSeq ==
  ASSUME NEW l \in Nat, NEW n \in Nat, n <= l
  PROVE  Run(l, n) \in Seq(Nat) /\ Len(Run(l, n)) = n
BY DEF Run

LEMMA RunTail ==
  ASSUME NEW l \in Nat, NEW n \in Nat, n <= l, n > 0
  PROVE  Tail(Run(l, n)) = Run(l, n - 1)
<1>1. Run(l, n) \in Seq(Nat) /\ Len(Run(l, n)) = n
  BY RunIsSeq
<1>2. Run(l, n - 1) \in Seq(Nat) /\ Len(Run(l, n - 1)) = n - 1
  BY RunIsSeq
<1>3. \A i \in 1 .. n - 1 : Tail(Run(l, n))[i] = Run(l, n - 1)[i]
  BY <1>1 DEF Run
<1>4. Tail(Run(l, n)) \in Seq(Nat) /\ Len(Tail(Run(l, n))) = n - 1
  <2>1. Run(l, n) # <<>>
    BY <1>1
  <2> QED BY <2>1, <1>1, HeadTailProperties
<1> QED BY <1>2, <1>3, <1>4, SeqEqual

LEMMA RunAppend ==
  ASSUME NEW l \in Nat, NEW n \in Nat, n <= l
  PROVE  Append(Run(l, n), l + 1) = Run(l + 1, n + 1)
<1>1. Run(l, n) \in Seq(Nat) /\ Len(Run(l, n)) = n
  BY RunIsSeq
<1>2. Run(l + 1, n + 1) \in Seq(Nat) /\ Len(Run(l + 1, n + 1)) = n + 1
  BY RunIsSeq
<1>3. Append(Run(l, n), l + 1) \in Seq(Nat) /\ Len(Append(Run(l, n), l + 1)) = n + 1
  BY <1>1
<1>4. \A i \in 1 .. n + 1 : Append(Run(l, n), l + 1)[i] = Run(l + 1, n + 1)[i]
  BY <1>1 DEF Run
<1> QED BY <1>2, <1>3, <1>4

\* What the reader's index arithmetic finds, whatever the head's position: at
\* step k the frame that is count - 1 - k frames older than the newest.
LEMMA ReaderFinds ==
  ASSUME RingInv, NEW k \in 0 .. count - 1, k >= Skipped
  PROVE  slots[Index(k)] = last - count + 1 + k
<1> USE RingAssumption DEF RingInv, TypeOK
<1>1. k \in Slots /\ k \in Nat /\ k < Depth /\ Depth \in Nat
  BY DEF Slots
<1>2. head \in Nat /\ head < Depth /\ count \in Nat /\ last \in Nat
  BY DEF Slots
<1>3. CASE count < Depth
  <2>1. head = count /\ last = count
    BY <1>3
  <2>2. Index(k) = (k + Depth * 2) % Depth
    BY <2>1, <1>1, <1>2 DEF Index
  <2>3. Index(k) = k
    BY <2>2, <1>1, ModSmall
  <2> QED BY <2>1, <2>3, <1>1
<1>4. CASE count = Depth
  <2>1. Index(k) = (head + k + Depth) % Depth
    BY <1>4, <1>1, <1>2 DEF Index
  <2>2. CASE head + k < Depth
    <3>1. head + k \in Slots /\ head + k >= head
      BY <2>2, <1>1, <1>2 DEF Slots
    <3>2. Index(k) = head + k
      BY <2>1, <3>1, ModSmall
    <3>3. head + k \notin oom
      BY <1>1, <1>2, <1>4 DEF Skipped
    <3>4. slots[head + k] = last - head + 1 + (head + k) - Depth
      BY <3>1, <3>3, <1>4
    <3> QED BY <3>2, <3>4, <1>1, <1>2, <1>4
  <2>3. CASE head + k >= Depth
    <3> DEFINE j == head + k - Depth
    <3>1. j \in Slots /\ j < head
      BY <2>3, <1>1, <1>2 DEF Slots
    <3>2. head + k + Depth = j + Depth * 2
      BY <1>1, <1>2
    <3>3. Index(k) = j
      BY <2>1, <3>1, <3>2, ModSmall
    <3>4. slots[j] = last - head + 1 + j
      BY <3>1
    <3> QED BY <3>3, <3>4, <1>1, <1>2, <1>4
  <2> QED BY <2>2, <2>3, <1>1, <1>2
<1> QED BY <1>3, <1>4

RecentRun == /\ count - Skipped \in Nat
             /\ count - Skipped <= last
             /\ Recent = Run(last, count - Skipped)

LEMMA RecentIsRun == RingInv => RecentRun
<1> SUFFICES ASSUME RingInv PROVE RecentRun
  OBVIOUS
<1> USE RingAssumption DEF RingInv, TypeOK
<1> DEFINE n == count - Skipped
<1>1. n \in Nat /\ n <= last /\ Skipped \in {0, 1} /\ count \in Nat /\ last \in Nat
  BY DEF Skipped
<1>2. ASSUME NEW i \in 1 .. n
      PROVE  slots[Index(i - 1 + Skipped)] = last - n + i
  <2>1. /\ i - 1 + Skipped \in 0 .. count - 1
        /\ i - 1 + Skipped >= Skipped
    BY <1>1
  <2>2. slots[Index(i - 1 + Skipped)] = last - count + 1 + (i - 1 + Skipped)
    BY <2>1, ReaderFinds
  <2> QED BY <2>2, <1>1
<1>3. Recent = Run(last, n)
  BY <1>2 DEF Recent, Run
<1> QED BY <1>1, <1>3 DEF RecentRun

-----------------------------------------------------------------------------
\* What the reader's loop sends.

\* The oldest place of a ring that has wedged and is full is the only empty one.
LEMMA ReaderMisses ==
  ASSUME RingInv, Skipped = 1
  PROVE  slots[Index(0)] = NoFrame
<1> USE RingAssumption DEF RingInv, TypeOK
<1>1. oom = {head} /\ count = Depth
  BY DEF Skipped
<1>2. head \in Slots /\ head \in Nat /\ Depth \in Nat
  BY DEF Slots
<1>3. Index(0) = (head + Depth) % Depth
  BY <1>1, <1>2 DEF Index
<1>4. Index(0) = head
  BY <1>2, <1>3, ModSmall DEF Slots
<1> QED BY <1>1, <1>4

\* What is sent after i steps.
Taken(i) == Run(last - count + i, IF i <= Skipped THEN 0 ELSE i - Skipped)

LEMMA RingCounts ==
  ASSUME RingInv
  PROVE  /\ count \in Nat /\ last \in Nat /\ count <= last /\ Skipped \in {0, 1}
         /\ Skipped <= count
BY RingAssumption DEF RingInv, TypeOK, Skipped

LEMMA NothingTaken == ASSUME RingInv PROVE Taken(0) = <<>>
BY RingCounts DEF Taken, Run

LEMMA TakenOn ==
  ASSUME RingInv, NEW i \in 1 .. count
  PROVE  Taken(i) = IF slots[Index(i - 1)] = NoFrame THEN Taken(i - 1)
                    ELSE Append(Taken(i - 1), slots[Index(i - 1)])
<1>1. CASE i <= Skipped
  <2>1. i = 1 /\ Skipped = 1 /\ i - 1 = 0
    BY <1>1, RingCounts
  <2>2. Taken(i) = <<>>
    BY <2>1, RingCounts DEF Taken, Run
  <2> QED BY <2>1, <2>2, ReaderMisses, NothingTaken
<1>2. CASE i > Skipped
  <2> DEFINE l == last - count + (i - 1)
             n == (i - 1) - Skipped
  <2>1. i - 1 \in 0 .. count - 1 /\ i - 1 >= Skipped
    BY <1>2, RingCounts
  <2>2. l \in Nat /\ n \in Nat /\ n <= l
    BY <2>1, RingCounts
  <2>3. slots[Index(i - 1)] = l + 1 /\ l + 1 # NoFrame
    BY <2>1, <2>2, ReaderFinds, RingCounts DEF NoFrame
  <2>4. (IF i - 1 <= Skipped THEN 0 ELSE (i - 1) - Skipped) = n
    BY <2>1, RingCounts
  <2>5. Taken(i - 1) = Run(l, n)
    BY <2>4 DEF Taken
  <2>6. /\ (IF i <= Skipped THEN 0 ELSE i - Skipped) = n + 1
        /\ last - count + i = l + 1
    BY <1>2, <2>1, RingCounts
  <2>7. Taken(i) = Run(l + 1, n + 1)
    BY <2>6 DEF Taken
  <2> HIDE DEF l, n
  <2> QED BY <2>2, <2>3, <2>5, <2>7, RunAppend
<1> QED BY <1>1, <1>2, RingCounts

\* A function that satisfies the loop's equation at every step is the one above: a
\* first step at which it is not does not exist.
Loops(f) ==
  f = [i \in 0 .. count |->
        IF i = 0 THEN <<>>
        ELSE IF slots[Index(i - 1)] = NoFrame THEN f[i - 1]
        ELSE Append(f[i - 1], slots[Index(i - 1)])]

NatLess == {pair \in Nat \X Nat : pair[1] < pair[2]}

LEMMA NatLessWellFounded == IsWellFoundedOn(NatLess, Nat)
BY NatLessThanWellFounded, Zenon DEF OpToRel, NatLess

LEMMA TakenLoops == ASSUME RingInv PROVE Loops([i \in 0 .. count |-> Taken(i)])
<1> DEFINE g == [i \in 0 .. count |-> Taken(i)]
<1>1. ASSUME NEW i \in 0 .. count
      PROVE  g[i] = IF i = 0 THEN <<>>
                    ELSE IF slots[Index(i - 1)] = NoFrame THEN g[i - 1]
                    ELSE Append(g[i - 1], slots[Index(i - 1)])
  <2>1. CASE i = 0
    BY <2>1, NothingTaken
  <2>2. CASE i # 0
    <3>1. i \in 1 .. count /\ i - 1 \in 0 .. count
      BY <2>2, RingCounts
    <3>2. g[i] = Taken(i) /\ g[i - 1] = Taken(i - 1)
      BY <3>1
    <3> HIDE DEF g
    <3> QED BY <2>2, <3>1, <3>2, TakenOn
  <2> QED BY <2>1, <2>2
<1>2. g = [i \in 0 .. count |-> g[i]]
  OBVIOUS
<1> HIDE DEF g
<1>3. Loops(g)
  BY <1>1, <1>2 DEF Loops
<1> QED BY <1>3 DEF g

LEMMA LoopsAreTaken ==
  ASSUME RingInv, NEW f, Loops(f), NEW k \in 0 .. count
  PROVE  f[k] = Taken(k)
<1> DEFINE bad == {i \in 0 .. count : f[i] # Taken(i)}
<1>1. SUFFICES bad = {}
  OBVIOUS
<1>2. SUFFICES ASSUME bad # {} PROVE FALSE
  OBVIOUS
<1>3. bad \subseteq Nat /\ bad # {}
  BY <1>2, RingCounts
<1>4. \A i \in bad : i \in 0 .. count /\ f[i] # Taken(i)
  OBVIOUS
<1>5. \A i \in 0 .. count : i \notin bad => f[i] = Taken(i)
  OBVIOUS
<1> HIDE DEF bad
<1>6. PICK m \in bad : \A n \in bad : ~(<<n, m>> \in NatLess)
  BY <1>3, NatLessWellFounded, WFMin, Zenon
<1>7. m \in 0 .. count /\ m \in Nat /\ f[m] # Taken(m)
  BY <1>3, <1>4, <1>6
<1>8. m # 0
  BY <1>7, NothingTaken DEF Loops
<1>9. m \in 1 .. count /\ m - 1 \in 0 .. count /\ m - 1 \in Nat /\ <<m - 1, m>> \in NatLess
  BY <1>7, <1>8, RingCounts DEF NatLess
<1>10. f[m - 1] = Taken(m - 1)
  BY <1>5, <1>6, <1>9
<1>11. f[m] = IF slots[Index(m - 1)] = NoFrame THEN f[m - 1]
              ELSE Append(f[m - 1], slots[Index(m - 1)])
  BY <1>7, <1>8 DEF Loops
<1> QED BY <1>7, <1>9, <1>10, <1>11, TakenOn

LEMMA CatchUpIsRun ==
  ASSUME RingInv
  PROVE  CatchUp = Run(last, count - Skipped)
<1>1. SentAfter = CHOOSE f : Loops(f)
  BY DEF SentAfter, Loops
<1>2. Loops(SentAfter)
  BY <1>1, TakenLoops
<1>3. CatchUp = Taken(count)
  BY <1>2, LoopsAreTaken, RingCounts DEF CatchUp
<1>4. /\ last - count + count = last
      /\ (IF count <= Skipped THEN 0 ELSE count - Skipped) = count - Skipped
  BY RingCounts
<1> QED BY <1>3, <1>4 DEF Taken

\* A late client is sent an unbroken run of frames that ends with the newest one
\* retained, all of them while no allocation has failed, for every Depth: the loop's
\* index arithmetic, the wrap-around of the head and the slot that wedges agree
\* (send_catch_up_locked, the EVENTS and SNAPSHOT cases of handle_sender_message).
THEOREM CatchUpStaysAWindow == Spec => []CatchUpIsAWindow
<1>1. ASSUME RingInv PROVE CatchUpIsAWindow
  <2> DEFINE n == count - Skipped
  <2>1. n \in Nat /\ n <= last /\ last \in Nat
    BY <1>1, RingCounts
  <2>2. CatchUp = Run(last, n) /\ Len(CatchUp) = n
    BY <1>1, <2>1, CatchUpIsRun, RunIsSeq
  <2>3. CatchUp = [i \in 1 .. n |-> last - n + i]
    BY <2>2 DEF Run
  <2>4. n >= count - 1
    BY <1>1, RingCounts
  <2>5. oom = {} => n = IF offered < Depth THEN offered ELSE Depth
    BY <1>1, RingAssumption DEF Skipped, RingInv, TypeOK
  <2> HIDE DEF n
  <2> QED BY <2>2, <2>3, <2>4, <2>5 DEF CatchUpIsAWindow
<1>2. Spec => []RingInv
  BY InitRing, StepRing, PTL DEF Spec
<1> QED BY <1>1, <1>2, PTL

-----------------------------------------------------------------------------
\* The refinement, step by step.
LEMMA InitRefines == Init => Log!Init
<1> SUFFICES ASSUME Init PROVE Recent = <<>> /\ ~(oom # {})
  BY DEF Log!Init
<1> QED BY DEF Init, Recent, Skipped

LEMMA StepRefines == RingInv /\ RingInv' /\ [Next]_vars => [Log!Next]_Log!vars
<1> SUFFICES ASSUME RingInv, RingInv', [Next]_vars
             PROVE  [Log!Next]_Log!vars
  OBVIOUS
<1> DEFINE n == count - Skipped
           m == count' - Skipped'
<1>1. n \in Nat /\ n <= last /\ Recent = Run(last, n)
  BY RecentIsRun DEF RecentRun
<1>2. m \in Nat /\ m <= last' /\ Recent' = Run(last', m)
  <2>1. RecentRun'
    BY RecentIsRun, PTL
  <2> QED BY <2>1 DEF RecentRun, Run
<1>3. Len(Recent) = n /\ last \in Nat /\ count \in Nat /\ count <= Depth
  BY <1>1, RunIsSeq DEF RingInv, TypeOK
<1> HIDE DEF n, m
<1>4. ASSUME NEW memory \in BOOLEAN, Store(memory), memory, head \notin oom
      PROVE  Log!Next
  <2>1. Retain /\ offered' = offered + 1 /\ offered < MaxOffered
    BY <1>4 DEF Store
  <2>2. oom = {} /\ oom' = {} /\ last' = last + 1 /\ last + 1 \in 1 .. MaxOffered
    BY <1>4, <2>1, RingAssumption DEF Retain, RingInv, TypeOK
  <2>3. n = count /\ m = count'
    BY <2>2, <1>3, <2>1 DEF n, m, Skipped, Retain, RingInv, TypeOK
  <2>4. Recent' = IF Len(Recent) < Depth THEN Append(Recent, last + 1)
                                        ELSE Append(Tail(Recent), last + 1)
    <3>1. CASE count < Depth
      <4>1. m = n + 1
        BY <3>1, <2>1, <2>3 DEF Retain
      <4> QED BY <4>1, <3>1, <1>1, <1>2, <1>3, <2>2, <2>3, RunAppend
    <3>2. CASE count = Depth
      <4>1. m = n /\ n > 0
        BY <3>2, <2>1, <2>3, RingAssumption DEF Retain
      <4>2. Tail(Recent) = Run(last, n - 1)
        BY <4>1, <1>1, <1>3, RunTail
      <4>3. n - 1 \in Nat /\ n - 1 <= last
        BY <4>1, <1>1, <1>3
      <4>4. Append(Run(last, n - 1), last + 1) = Run(last + 1, (n - 1) + 1)
        BY <4>3, <1>3, RunAppend
      <4>5. (n - 1) + 1 = m
        BY <4>1, <1>1
      <4>6. Recent' = Append(Tail(Recent), last + 1)
        BY <4>2, <4>4, <4>5, <1>2, <2>2
      <4>7. ~(Len(Recent) < Depth)
        BY <3>2, <1>3, <2>3, RingAssumption
      <4> QED BY <4>6, <4>7
    <3> QED BY <3>1, <3>2, <1>3, RingAssumption
  <2>5. Log!Keep(last + 1)
    BY <2>2, <2>4 DEF Log!Keep
  <2> QED BY <2>2, <2>5 DEF Log!Next
<1>5. ASSUME NEW memory \in BOOLEAN, Store(memory), ~(memory /\ head \notin oom)
      PROVE  Log!Wedge \/ UNCHANGED Log!vars
  <2>1. Refuse
    BY <1>5 DEF Store
  <2>2. oom' = {head} /\ count' = count /\ last' = last
    BY <2>1 DEF Refuse, RingInv
  <2>3. CASE oom = {}
    <3>1. n = count /\ m = IF count = Depth THEN count - 1 ELSE count
      BY <2>2, <2>3, <1>3 DEF n, m, Skipped
    <3>2. Recent' = IF Len(Recent) < Depth THEN Recent ELSE Tail(Recent)
      <4>1. CASE count < Depth
        BY <4>1, <3>1, <1>1, <1>2, <1>3, <2>2, RingAssumption
      <4>2. CASE count = Depth
        <5>1. m = n - 1 /\ n > 0 /\ ~(Len(Recent) < Depth)
          BY <4>2, <3>1, <1>3, RingAssumption
        <5>2. Tail(Recent) = Run(last, n - 1)
          BY <5>1, <1>1, <1>3, RunTail
        <5>3. Recent' = Tail(Recent)
          BY <5>1, <5>2, <1>2, <2>2
        <5> QED BY <5>1, <5>3
      <4> QED BY <4>1, <4>2, <1>3, RingAssumption
    <3> QED BY <2>2, <2>3, <3>2 DEF Log!Wedge
  <2>4. CASE oom # {}
    <3>1. oom' = oom
      BY <2>2, <2>4 DEF RingInv
    <3>2. m = n
      BY <3>1, <2>2 DEF n, m, Skipped
    <3> QED BY <3>1, <3>2, <1>1, <1>2, <2>2 DEF Log!vars
  <2> QED BY <2>3, <2>4
<1>6. CASE UNCHANGED vars
  <2>1. Recent' = Recent /\ oom' = oom
    BY <1>6 DEF vars, Recent, Skipped, Index
  <2> QED BY <2>1 DEF Log!vars
<1>7. ASSUME NEW memory \in BOOLEAN, Store(memory)
      PROVE  Log!Next \/ UNCHANGED Log!vars
  <2>1. CASE memory /\ head \notin oom
    BY <1>4, <1>7, <2>1
  <2>2. CASE ~(memory /\ head \notin oom)
    <3>1. Log!Wedge \/ UNCHANGED Log!vars
      BY <1>5, <1>7, <2>2
    <3> QED BY <3>1 DEF Log!Next
  <2> QED BY <2>1, <2>2
<1> QED BY <1>6, <1>7 DEF Next

\* The circular array of the server implements the bounded log: a late client is
\* always sent the newest frames retained, oldest first, for every Depth.
THEOREM RingImplementsLog == Spec => ImplementsLog
<1>1. Spec => []RingInv
  BY InitRing, StepRing, PTL DEF Spec
<1> QED BY <1>1, InitRefines, StepRefines, PTL DEF Spec, ImplementsLog, Log!Spec

-----------------------------------------------------------------------------
\* The log of a window.

\* What is kept is inductive once it is known that only logged bytes were shown.
ShownWasLogged == shown <= logged
LogInv == LogTypeOK /\ LogSound /\ ShownWasLogged

\* The two ways to make room keep a run of unread bytes that ends at the last one
\* and leaves room for a line that was cut to a quarter (log_ring_push).
LEMMA RoomIsMade ==
  ASSUME NEW len \in Nat, len <= LogCap \div 4,
         log_write \in Nat, log_consume \in Nat, LogFits
  PROVE  /\ Slide(len).kept \in Nat /\ Slide(len).from \in Nat
         /\ Slide(len).from + Slide(len).kept = log_write
         /\ Slide(len).kept + len <= LogCap
         /\ log_write + len <= LogCap =>
              Slide(len).from = 0 /\ Slide(len).kept = log_write
         /\ ~ (log_write + len <= LogCap) => log_consume <= Slide(len).from
<1> DEFINE unread == log_write - log_consume
           kept   == Smaller(unread, LogCap \div 2)
<1>1. unread \in Nat /\ LogCap \div 2 \in Nat /\ LogCap \in Nat
  BY LogAssumption DEF LogFits
<1>2. kept \in Nat /\ kept <= unread /\ kept <= LogCap \div 2
  BY <1>1 DEF Smaller
<1>3. LogCap \div 2 + LogCap \div 4 <= LogCap
  BY LogAssumption
<1>4. CASE log_write + len <= LogCap
  BY <1>4 DEF Slide
<1>5. CASE ~ (log_write + len <= LogCap)
  <2>1. Slide(len) = [from |-> log_write - kept, kept |-> kept]
    BY <1>5 DEF Slide
  <2>2. log_write - kept \in Nat /\ log_consume <= log_write - kept
    BY <1>1, <1>2 DEF LogFits
  <2>3. kept + len <= LogCap
    BY <1>1, <1>2, <1>3
  <2> QED
    BY <1>5, <2>1, <2>2, <2>3, <1>2
<1> QED
  BY <1>4, <1>5

\* The start of an empty log.
LEMMA LogStarts == LogInit => LogInv
<1> SUFFICES ASSUME LogInit PROVE LogInv
  OBVIOUS
<1> QED
  BY LogAssumption DEF LogInit, LogInv, LogTypeOK, LogSound, LogFits, UnreadIsTheEnd, ShownWasLogged

\* A line is put behind what is kept.
LEMMA PushKeepsRun ==
  ASSUME LogInv, NEW n \in 1 .. LogLine, PushLine(n)
  PROVE  LogInv'
<1> DEFINE len   == Smaller(n, LogCap \div 4)
           from  == Slide(len).from
           kept  == Slide(len).kept
<1>1. len \in Nat /\ len <= LogCap \div 4 /\ LogCap \in Nat
  BY LogAssumption DEF Smaller
<1>2. /\ log_write \in Nat /\ log_consume \in Nat /\ logged \in Nat /\ shown \in Nat
      /\ log_ring \in [1 .. LogCap -> Nat] /\ LogFits
  BY DEF LogInv, LogTypeOK, LogSound
<1>3. /\ kept \in Nat /\ from \in Nat /\ from + kept = log_write /\ kept + len <= LogCap
      /\ log_write + len <= LogCap => from = 0 /\ kept = log_write
      /\ ~ (log_write + len <= LogCap) => log_consume <= from
  BY <1>1, <1>2, RoomIsMade
<1>4. /\ log_ring' = [i \in 1 .. LogCap |->
           IF i <= kept THEN log_ring[i + from]
           ELSE IF i <= kept + len THEN logged + i - kept ELSE log_ring[i]]
      /\ log_write' = kept + len /\ logged' = logged + len /\ shown' = shown
      /\ log_consume' = IF log_write + len <= LogCap THEN log_consume ELSE 0
  BY DEF PushLine
<1> HIDE DEF len, from, kept
<1>5. \A i \in 1 .. LogCap : i <= kept => i + from \in 1 .. LogCap
  BY <1>2, <1>3, <1>1 DEF LogFits
<1>6. log_ring' \in [1 .. LogCap -> Nat]
  <2>1. \A i \in 1 .. LogCap : i <= kept => log_ring[i + from] \in Nat
    BY <1>2, <1>5
  <2>2. \A i \in 1 .. LogCap : ~ (i <= kept) => logged + i - kept \in Nat
    BY <1>1, <1>2, <1>3
  <2> QED
    BY <1>2, <1>4, <2>1, <2>2
<1>7. log_consume' \in Nat /\ log_consume' <= log_write' /\ log_write' <= LogCap
  BY <1>1, <1>2, <1>3, <1>4 DEF LogFits
<1>8. ASSUME NEW i \in log_consume' + 1 .. log_write'
      PROVE  log_ring'[i] = logged' - log_write' + i /\ log_ring'[i] > shown'
  <2>1. i \in 1 .. LogCap
    BY <1>7, <1>1, <1>4, <1>3
  <2>2. CASE i <= kept
    <3>1. log_ring'[i] = log_ring[i + from]
      BY <1>4, <2>1, <2>2
    <3>2. i + from \in log_consume + 1 .. log_write
      BY <1>1, <1>2, <1>3, <1>4, <2>1, <2>2
    <3>3. log_ring[i + from] = logged - log_write + (i + from) /\ log_ring[i + from] > shown
      BY <3>2 DEF LogInv, LogSound, UnreadIsTheEnd
    <3>4. logged - log_write + (i + from) = logged' - log_write' + i
      BY <1>1, <1>2, <1>3, <1>4, <2>1
    <3> QED
      BY <3>1, <3>3, <3>4, <1>4
  <2>3. CASE ~ (i <= kept)
    <3>1. i <= kept + len
      BY <1>4
    <3>2. log_ring'[i] = logged + i - kept
      BY <1>4, <2>1, <2>3, <3>1
    <3>3. shown <= logged
      BY DEF LogInv, ShownWasLogged
    <3> QED
      BY <1>1, <1>2, <1>3, <1>4, <2>1, <2>3, <3>2, <3>3
  <2> QED
    BY <2>2, <2>3
<1>9. shown' <= logged'
  BY <1>1, <1>2, <1>4 DEF LogInv, ShownWasLogged
<1>10. LogTypeOK'
  BY <1>1, <1>2, <1>3, <1>4, <1>6, <1>7 DEF LogTypeOK
<1>11. LogSound'
  BY <1>7, <1>8 DEF LogSound, LogFits, UnreadIsTheEnd
<1> QED
  BY <1>9, <1>10, <1>11 DEF LogInv, ShownWasLogged

\* What is taken comes off the front of the run.
LEMMA TakeKeepsRun ==
  ASSUME LogInv, TakeLog
  PROVE  LogInv'
<1> DEFINE take == Smaller(log_write - log_consume, LogTake)
           all  == log_consume + take >= log_write
<1>1. /\ log_write \in Nat /\ log_consume \in Nat /\ logged \in Nat /\ shown \in Nat
      /\ log_ring \in [1 .. LogCap -> Nat] /\ LogFits /\ shown <= logged /\ LogCap \in Nat
  BY LogAssumption DEF LogInv, LogTypeOK, LogSound, ShownWasLogged
<1>2. take \in Nat /\ log_consume + take <= log_write
  BY <1>1, LogAssumption DEF Smaller, LogFits
<1>3. /\ shown' = IF take > 0 THEN log_ring[log_consume + take] ELSE shown
      /\ log_consume' = IF all THEN 0 ELSE log_consume + take
      /\ log_write' = IF all THEN 0 ELSE log_write
      /\ log_ring' = log_ring /\ logged' = logged
  BY DEF TakeLog
<1> HIDE DEF take
<1>4. take > 0 => log_ring[log_consume + take] = logged - log_write + (log_consume + take)
  <2> SUFFICES ASSUME take > 0
               PROVE  log_ring[log_consume + take] = logged - log_write + (log_consume + take)
    OBVIOUS
  <2>1. log_consume + take \in log_consume + 1 .. log_write
    BY <1>1, <1>2
  <2> QED
    BY <2>1 DEF LogInv, LogSound, UnreadIsTheEnd
<1>5. take > 0 => log_ring[log_consume + take] \in Nat
  <2> SUFFICES ASSUME take > 0 PROVE log_ring[log_consume + take] \in Nat
    OBVIOUS
  <2>1. log_consume + take \in 1 .. LogCap
    BY <1>1, <1>2 DEF LogFits
  <2> QED
    BY <1>1, <2>1
<1>6. /\ shown' \in Nat /\ shown' <= logged'
      /\ log_consume' \in Nat /\ log_write' \in Nat
      /\ log_consume' <= log_write' /\ log_write' <= LogCap
  BY <1>1, <1>2, <1>3, <1>4, <1>5 DEF LogFits
<1>7. ASSUME NEW i \in log_consume' + 1 .. log_write'
      PROVE  log_ring'[i] = logged' - log_write' + i /\ log_ring'[i] > shown'
  <2>1. ~ all
    BY <1>3, <1>6
  <2>2. log_consume' = log_consume + take /\ log_write' = log_write
    BY <1>3, <2>1
  <2>3. i \in log_consume + 1 .. log_write
    BY <1>1, <1>2, <2>2
  <2>4. log_ring[i] = logged - log_write + i /\ log_ring[i] > shown
    BY <2>3 DEF LogInv, LogSound, UnreadIsTheEnd
  <2>5. take > 0 => log_ring[i] > log_ring[log_consume + take]
    BY <1>1, <1>2, <1>4, <2>2, <2>3, <2>4
  <2> QED
    BY <1>3, <2>2, <2>4, <2>5
<1> QED
  BY <1>1, <1>3, <1>6, <1>7
  DEF LogInv, LogTypeOK, LogSound, LogFits, UnreadIsTheEnd, ShownWasLogged

\* The inductive invariant holds in every behaviour.
LEMMA LogInvariant == LogSpec => []LogInv
<1>1. ASSUME LogInv, [LogNext]_logVars PROVE LogInv'
  <2>1. CASE TakeLog
    BY <1>1, <2>1, TakeKeepsRun
  <2>2. ASSUME NEW n \in 1 .. LogLine, PushLine(n) PROVE LogInv'
    BY <1>1, <2>2, PushKeepsRun
  <2>3. CASE UNCHANGED logVars
    BY <1>1, <2>3
    DEF logVars, LogInv, LogTypeOK, LogSound, LogFits, UnreadIsTheEnd, ShownWasLogged
  <2> QED
    BY <1>1, <2>1, <2>2, <2>3 DEF LogNext
<1> QED
  BY LogStarts, <1>1, PTL DEF LogSpec

\* For every capacity, piece and line length, the buffer is never written past its
\* end and its unread bytes are the end of the log, in order and shown once at most
\* (log_ring_push, dsh_ui_log_take).
THEOREM LogIsSound == LogSpec => []LogSound
<1>1. LogInv => LogSound
  BY DEF LogInv
<1> QED
  BY LogInvariant, <1>1, PTL

-----------------------------------------------------------------------------
\* What a step of the log loses.

LEMMA UnreadNumbers ==
  ASSUME LogInv, NEW b \in Unread
  PROVE  \E i \in log_consume + 1 .. log_write : i \in 1 .. LogCap /\ b = log_ring[i] /\ b = logged - log_write + i
<1>1. PICK i \in log_consume + 1 .. log_write : b = log_ring[i]
  BY DEF Unread
<1>2. i \in 1 .. LogCap
  BY LogAssumption DEF LogInv, LogSound, LogFits, LogTypeOK
<1>3. b = logged - log_write + i
  BY <1>1 DEF LogInv, LogSound, UnreadIsTheEnd
<1> QED BY <1>1, <1>2, <1>3

LEMMA PushLosesNothing ==
  ASSUME LogInv, log_write - log_consume <= LogCap \div 2, NEW n \in 1 .. LogLine, PushLine(n),
         NEW b \in Unread
  PROVE  b \in Unread'
<1> DEFINE len   == Smaller(n, LogCap \div 4)
           slide == Slide(len)
<1>1. PICK i \in log_consume + 1 .. log_write : i \in 1 .. LogCap /\ b = log_ring[i]
  BY UnreadNumbers
<1>2. /\ log_write \in Nat /\ log_consume \in Nat /\ LogCap \in Nat /\ log_consume <= log_write
      /\ LogCap \div 2 \in Nat /\ LogCap \div 4 \in Nat /\ n \in Nat
  BY LogAssumption DEF LogInv, LogTypeOK, LogSound, LogFits
<1>3. len \in Nat
  BY <1>2 DEF Smaller
<1> HIDE DEF len
<1>4. /\ log_ring' = [j \in 1 .. LogCap |->
           IF j <= slide.kept THEN log_ring[j + slide.from]
           ELSE IF j <= slide.kept + len THEN logged + j - slide.kept
           ELSE log_ring[j]]
      /\ log_write' = slide.kept + len
      /\ log_consume' = IF log_write + len <= LogCap THEN log_consume ELSE 0
  BY DEF PushLine, len
<1>5. CASE log_write + len <= LogCap
  <2>1. slide.from = 0 /\ slide.kept = log_write
    BY <1>5 DEF Slide
  <2>2. log_ring'[i] = b
    BY <1>1, <1>2, <1>4, <2>1
  <2>3. i \in log_consume' + 1 .. log_write'
    BY <1>1, <1>2, <1>3, <1>4, <1>5, <2>1
  <2> QED BY <2>2, <2>3 DEF Unread
<1>6. CASE ~(log_write + len <= LogCap)
  <2>1. slide.kept = log_write - log_consume /\ slide.from = log_consume
    BY <1>2, <1>6 DEF Slide, Smaller
  <2>2. i - log_consume \in 1 .. LogCap /\ i - log_consume <= log_write - log_consume
        /\ i - log_consume + log_consume = i
    BY <1>1, <1>2
  <2>3. log_ring'[i - log_consume] = b
    BY <1>1, <1>4, <2>1, <2>2
  <2>4. i - log_consume \in log_consume' + 1 .. log_write'
    BY <1>2, <1>3, <1>4, <1>6, <2>1, <2>2
  <2> QED BY <2>3, <2>4 DEF Unread
<1> QED BY <1>5, <1>6

LEMMA TakeShowsOrKeeps ==
  ASSUME LogInv, TakeLog, NEW b \in Unread
  PROVE  b \in Unread' \/ b <= shown'
<1> DEFINE take == Smaller(log_write - log_consume, LogTake)
<1>1. PICK i \in log_consume + 1 .. log_write :
        i \in 1 .. LogCap /\ b = log_ring[i] /\ b = logged - log_write + i
  BY UnreadNumbers
<1>2. /\ log_write \in Nat /\ log_consume \in Nat /\ log_consume <= log_write /\ logged \in Nat
      /\ LogTake \in Nat \ {0}
  BY LogAssumption DEF LogInv, LogTypeOK, LogSound, LogFits
<1>3. take \in Nat /\ take > 0 /\ log_consume + take <= log_write
  BY <1>1, <1>2 DEF Smaller
<1> HIDE DEF take
<1>4. /\ shown' = IF take > 0 THEN log_ring[log_consume + take] ELSE shown
      /\ log_consume' = IF log_consume + take >= log_write THEN 0 ELSE log_consume + take
      /\ log_write' = IF log_consume + take >= log_write THEN 0 ELSE log_write
      /\ log_ring' = log_ring
  BY DEF TakeLog, take
<1>5. CASE i <= log_consume + take
  <2>1. log_consume + take \in log_consume + 1 .. log_write
    BY <1>2, <1>3
  <2>2. shown' = logged - log_write + (log_consume + take)
    BY <1>3, <1>4, <2>1 DEF LogInv, LogSound, UnreadIsTheEnd
  <2> QED BY <1>1, <1>2, <1>3, <1>5, <2>2
<1>6. CASE ~(i <= log_consume + take)
  <2>1. ~(log_consume + take >= log_write)
    BY <1>1, <1>2, <1>3, <1>6
  <2>2. log_consume' = log_consume + take /\ log_write' = log_write /\ log_ring' = log_ring
    BY <1>4, <2>1
  <2>3. i \in log_consume + take + 1 .. log_write
    BY <1>1, <1>2, <1>3, <1>6
  <2> QED BY <1>1, <2>2, <2>3 DEF Unread
<1> QED BY <1>5, <1>6

LEMMA LogStepLoses ==
  LogInv /\ [LogNext]_logVars =>
    (log_write - log_consume <= LogCap \div 2 => \A b \in Unread : b \in Unread' \/ b <= shown')
<1> SUFFICES ASSUME LogInv, [LogNext]_logVars, log_write - log_consume <= LogCap \div 2, NEW b \in Unread
             PROVE  b \in Unread' \/ b <= shown'
  OBVIOUS
<1>1. CASE UNCHANGED logVars
  <2>1. Unread' = Unread
    BY <1>1 DEF logVars, Unread
  <2> QED BY <2>1
<1>2. ASSUME NEW n \in 1 .. LogLine, PushLine(n) PROVE b \in Unread'
  BY <1>2, PushLosesNothing
<1>3. CASE TakeLog
  BY <1>3, TakeShowsOrKeeps
<1> QED BY <1>1, <1>2, <1>3 DEF LogNext

\* A line is dropped before the window has shown it only while more than half of the
\* buffer is unread, for every capacity, piece and line (log_ring_push,
\* dsh_ui_log_take).
THEOREM LostOnlyBehind == LogSpec => LostOnlyWhenBehind
BY LogInvariant, LogStepLoses, PTL DEF LogSpec, LostOnlyWhenBehind

-----------------------------------------------------------------------------
\* The settings file.

Points == {"off", "idle", "merge", "open", "flush", "aside", "swap"}
Shape  == save \in [Programs -> Points] /\ DOMAIN cfg = Programs

\* As long as nobody overlapped, at most one program is in the middle of a save.
OneSaver == ~overlap => \A p, q \in Programs : Saving(p) /\ Saving(q) => p = q

\* Past the write, the temporary file is the whole of what is to be saved.
Written == ~overlap => \A p \in Programs :
             save[p] \in {"aside", "swap"} => tmp = Whole(cfg[p])

\* What was saved last is the file, unless it has just been set aside.
Kept == saved # Absent => saved = file \/ (saved = backup /\ file = Absent)

SaveInv == Shape /\ OneSaver /\ Written /\ NeverTorn /\ Kept

-----------------------------------------------------------------------------
LEMMA KindsDiffer ==
  /\ Absent # Torn /\ Text # Torn /\ Text # Absent
  /\ \A e : Whole(e) # Torn /\ Whole(e) # Absent
<1>1. /\ Absent.kind = "absent" /\ Torn.kind = "torn" /\ Text.kind = "text"
      /\ \A e : Whole(e).kind = "whole"
  BY DEF Absent, Torn, Text, Whole
<1> QED BY <1>1

\* A step of a program's own save moves that program alone.
LEMMA MovesAlone ==
  ASSUME Shape, NEW p \in Programs, NEW here, NEW next \in Points, At(p, here, next)
  PROVE  /\ save' \in [Programs -> Points] /\ save[p] = here /\ save'[p] = next
         /\ \A q \in Programs \ {p} : save'[q] = save[q]
BY DEF Shape, At

\* A program that is not saving yet becomes the only one, or overlaps.
LEMMA BeginKeeps ==
  ASSUME SaveInv, NEW p \in Programs, NEW here, At(p, here, "merge"),
         overlap' = (overlap \/ Disturbs(p)),
         UNCHANGED <<file, backup, tmp, saved>>,
         DOMAIN cfg' = Programs,
         \A q \in Programs \ {p} : cfg'[q] = cfg[q]
  PROVE  SaveInv'
<1>1. /\ save' \in [Programs -> Points] /\ save'[p] = "merge"
      /\ \A q \in Programs \ {p} : save'[q] = save[q]
  BY MovesAlone DEF SaveInv, Points
<1>2. Shape'
  BY <1>1 DEF Shape
<1>3. ~overlap' => ~overlap /\ \A q \in Programs \ {p} : ~Saving(q)
  BY Zenon DEF Disturbs
<1>4. OneSaver'
  BY <1>1, <1>3 DEF OneSaver, Saving
<1>5. Written'
  BY <1>1, <1>3 DEF SaveInv, Written
<1> QED BY <1>2, <1>4, <1>5 DEF SaveInv, NeverTorn, Kept

\* While a program saves, nobody else is past the write.
LEMMA AloneInSave ==
  ASSUME SaveInv, ~overlap, NEW p \in Programs, Saving(p), NEW q \in Programs \ {p}
  PROVE  save[q] \in {"off", "idle"}
BY DEF SaveInv, OneSaver, Saving

\* A step inside a save keeps who is saving.
LEMMA StepKeepsSaver ==
  ASSUME SaveInv, ~overlap, NEW p \in Programs, NEW here, NEW next \in Points,
         At(p, here, next), here \notin {"off", "idle"}, UNCHANGED overlap
  PROVE  OneSaver' /\ \A q \in Programs \ {p} : save'[q] \in {"off", "idle"}
<1>1. /\ save'[p] = next /\ save[p] = here
      /\ \A q \in Programs \ {p} : save'[q] = save[q]
  BY MovesAlone DEF SaveInv, Points
<1>2. \A q \in Programs \ {p} : save'[q] \in {"off", "idle"}
  BY <1>1, AloneInSave DEF Saving
<1> QED BY <1>2 DEF OneSaver, Saving

-----------------------------------------------------------------------------
LEMMA SaveStarts == ConfigInit => SaveInv
<1> SUFFICES ASSUME ConfigInit PROVE SaveInv
  OBVIOUS
<1>1. Shape
  BY DEF ConfigInit, Shape, Points
<1>2. OneSaver /\ Written
  BY DEF ConfigInit, OneSaver, Written, Saving
<1> QED BY <1>1, <1>2, KindsDiffer DEF ConfigInit, SaveInv, NeverTorn, Kept

LEMMA ProgramKeeps ==
  ASSUME SaveInv, ~overlap, NEW p \in Programs,
         \/ Launch(p) \/ Press(p) \/ Quit(p)
         \/ Merge(p) \/ OpenTemporary(p) \/ Flush(p) \/ SetAside(p) \/ Swap(p)
  PROVE  SaveInv'
<1>1. CASE Launch(p)
  <2>1. PICK e : cfg' = [cfg EXCEPT ![p] = e]
    BY <1>1, Zenon DEF Launch
  <2>2. DOMAIN cfg' = Programs /\ \A q \in Programs \ {p} : cfg'[q] = cfg[q]
    BY <2>1 DEF SaveInv, Shape, Points
  <2> QED BY <1>1, <2>2, BeginKeeps DEF Launch, cfgDisk
<1>2. CASE Press(p)
  <2>1. cfg' = cfg \/ \E e : cfg' = [cfg EXCEPT ![p] = e]
    BY <1>2, Zenon DEF Press
  <2>2. DOMAIN cfg' = Programs /\ \A q \in Programs \ {p} : cfg'[q] = cfg[q]
    BY <2>1 DEF SaveInv, Shape, Points
  <2> QED BY <1>2, <2>2, BeginKeeps DEF Press, cfgDisk
<1>3. CASE Quit(p)
  <2>1. /\ save' = [save EXCEPT ![p] = "off"] /\ cfg' = [cfg EXCEPT ![p] = NoEntries]
        /\ UNCHANGED <<file, backup, tmp, saved, overlap>>
    BY <1>3 DEF Quit, cfgDisk, cfgHist
  <2>2. Shape' /\ save'[p] = "off"
        /\ \A q \in Programs \ {p} : save'[q] = save[q] /\ cfg'[q] = cfg[q]
    BY <2>1 DEF SaveInv, Shape, Points
  <2>3. OneSaver' /\ Written'
    BY <2>1, <2>2 DEF SaveInv, OneSaver, Written, Saving
  <2> QED BY <2>1, <2>2, <2>3 DEF SaveInv, NeverTorn, Kept
<1>4. CASE Merge(p)
  <2>1. PICK e : cfg' = [cfg EXCEPT ![p] = e]
    BY <1>4 DEF Merge
  <2>2. At(p, "merge", "open") /\ UNCHANGED <<file, backup, tmp, saved, overlap>>
    BY <1>4 DEF Merge, cfgDisk, cfgHist
  <2>3. Shape' /\ save'[p] = "open"
    BY <2>1, <2>2, MovesAlone DEF SaveInv, Shape, Points
  <2>4. OneSaver' /\ Written'
    BY <2>2, <2>3, StepKeepsSaver DEF Written, Points
  <2> QED BY <2>2, <2>3, <2>4 DEF SaveInv, NeverTorn, Kept
<1>5. CASE OpenTemporary(p)
  <2>1. PICK next \in {"flush", "idle"} : At(p, "open", next)
    BY <1>5 DEF OpenTemporary
  <2>2. UNCHANGED <<file, backup, cfg, saved, overlap>>
    BY <1>5 DEF OpenTemporary, cfgHist
  <2>3. Shape' /\ save'[p] = next
    BY <2>1, <2>2, MovesAlone DEF SaveInv, Shape, Points
  <2>4. OneSaver' /\ Written'
    BY <2>1, <2>2, <2>3, StepKeepsSaver DEF Written, Points
  <2> QED BY <2>2, <2>3, <2>4 DEF SaveInv, NeverTorn, Kept
<1>6. CASE Flush(p)
  <2>1. PICK next \in {"aside", "idle"} :
          At(p, "flush", next) /\ (next = "aside" => tmp' = Whole(cfg[p]))
    BY <1>6 DEF Flush
  <2>2. UNCHANGED <<file, backup, cfg, saved, overlap>>
    BY <1>6 DEF Flush, cfgHist
  <2>3. Shape' /\ save'[p] = next
    BY <2>1, <2>2, MovesAlone DEF SaveInv, Shape, Points
  <2>4. OneSaver' /\ \A q \in Programs \ {p} : save'[q] \in {"off", "idle"}
    BY <2>1, <2>2, StepKeepsSaver DEF Points
  <2>5. Written'
    BY <2>1, <2>2, <2>3, <2>4 DEF Written
  <2> QED BY <2>2, <2>3, <2>4, <2>5 DEF SaveInv, NeverTorn, Kept
<1>7. CASE SetAside(p)
  <2>1. /\ At(p, "aside", "swap") /\ UNCHANGED <<tmp, cfg, saved, overlap>>
        /\ \/ file # Absent /\ backup' = file /\ file' = Absent
           \/ UNCHANGED <<file, backup>>
    BY <1>7 DEF SetAside, cfgHist
  <2>2. Shape' /\ save'[p] = "swap" /\ save[p] = "aside"
    BY <2>1, MovesAlone DEF SaveInv, Shape, Points
  <2>3. OneSaver' /\ \A q \in Programs \ {p} : save'[q] \in {"off", "idle"}
    BY <2>1, StepKeepsSaver DEF Points
  <2>4. Written'
    BY <2>1, <2>2, <2>3 DEF SaveInv, Written
  <2>5. NeverTorn' /\ Kept'
    BY <2>1, KindsDiffer DEF SaveInv, NeverTorn, Kept
  <2> QED BY <2>2, <2>3, <2>4, <2>5 DEF SaveInv
<1>8. CASE Swap(p)
  <2>1. /\ At(p, "swap", "idle") /\ UNCHANGED <<backup, cfg, overlap>>
        /\ (file' = tmp /\ saved' = tmp) \/ UNCHANGED <<file, saved>>
    BY <1>8 DEF Swap
  <2>2. Shape' /\ save'[p] = "idle" /\ save[p] = "swap"
    BY <2>1, MovesAlone DEF SaveInv, Shape, Points
  <2>3. OneSaver' /\ \A q \in Programs \ {p} : save'[q] \in {"off", "idle"}
    BY <2>1, StepKeepsSaver DEF Points
  <2>4. Written'
    BY <2>2, <2>3 DEF Written
  <2>5. tmp # Torn
    BY <2>2, KindsDiffer DEF SaveInv, Written
  <2>6. NeverTorn' /\ Kept'
    BY <2>1, <2>5 DEF SaveInv, NeverTorn, Kept
  <2> QED BY <2>2, <2>3, <2>4, <2>6 DEF SaveInv
<1> QED BY <1>1, <1>2, <1>3, <1>4, <1>5, <1>6, <1>7, <1>8

\* The editor touches the file only, and takes back the claim on what was saved.
LEMMA EditorKeeps ==
  ASSUME SaveInv, NEW text, file' = text, text # Torn, Edited
  PROVE  SaveInv'
<1>1. /\ saved' = Absent /\ UNCHANGED <<backup, tmp, save, cfg>>
      /\ overlap' = (overlap \/ \E p \in Programs : Saving(p))
  BY DEF Edited, cfgProg
<1>2. Shape'
  BY <1>1 DEF SaveInv, Shape
<1>3. ~overlap' => ~overlap
  BY <1>1
<1>4. OneSaver' /\ Written'
  BY <1>1, <1>3 DEF SaveInv, OneSaver, Written, Saving
<1> QED BY <1>1, <1>2, <1>4 DEF SaveInv, NeverTorn, Kept

LEMMA SaveStepKeeps == SaveInv /\ [ConfigNext]_cfgVars => SaveInv'
<1> SUFFICES ASSUME SaveInv, [ConfigNext]_cfgVars PROVE SaveInv'
  OBVIOUS
<1>1. CASE UNCHANGED cfgVars
  BY <1>1 DEF cfgVars, cfgDisk, cfgProg, cfgHist, SaveInv, Shape, OneSaver, Saving, Written,
              NeverTorn, Kept
<1>2. ASSUME NEW k \in Keys, NEW v \in Values, EditKey(k, v) PROVE SaveInv'
  BY <1>2, KindsDiffer, EditorKeeps DEF EditKey
<1>3. CASE Spoil
  BY <1>3, KindsDiffer, EditorKeeps DEF Spoil
<1> QED BY <1>1, <1>2, <1>3, ProgramKeeps DEF ConfigNext

\* A crash or a full disk at any step of a save leaves no half file in the place of
\* the settings or of their backup (dsh_cfg_save).
THEOREM SettingsNeverTorn == ConfigSpec => []NeverTorn
<1>1. SaveInv => NeverTorn
  BY DEF SaveInv
<1> QED BY SaveStarts, SaveStepKeeps, <1>1, PTL DEF ConfigSpec

\* The settings last saved are in the file or in the backup at every step of a later
\* save (dsh_cfg_save).
THEOREM SettingsAreKept == ConfigSpec => []SavedIsKept
<1>1. SaveInv => SavedIsKept
  BY DEF SaveInv, Kept, SavedIsKept
<1> QED BY SaveStarts, SaveStepKeeps, <1>1, PTL DEF ConfigSpec

-----------------------------------------------------------------------------
\* The keys.

\* No file and no program has more than finitely many keys.
KeyCounts ==
  /\ IsFiniteSet(DOMAIN EntriesOf(file)) /\ IsFiniteSet(DOMAIN EntriesOf(tmp))
  /\ \A p \in Programs : IsFiniteSet(DOMAIN cfg[p])

\* Once it has merged, a program has every key of the file, or as many as fit.
Merged == ~overlap => \A p \in Programs :
            save[p] \in {"open", "flush", "aside", "swap"} /\ Parses(file) =>
              \/ DOMAIN file.entries \subseteq DOMAIN cfg[p]
              \/ Cardinality(DOMAIN cfg[p]) = CfgMaxKeys

KeyInv == SaveInv /\ KeyCounts /\ Merged

\* The keys of two are joined to those of one, or as many of them as fit.
LEMMA JoinedKeys ==
  ASSUME NEW one, NEW two, IsFiniteSet(DOMAIN one), IsFiniteSet(DOMAIN two),
         NEW e \in Joined(one, two)
  PROVE  /\ IsFiniteSet(DOMAIN e)
         /\ DOMAIN two \subseteq DOMAIN e \/ Cardinality(DOMAIN e) = CfgMaxKeys
<1> DEFINE fresh == DOMAIN two \ DOMAIN one
           room  == CfgMaxKeys - Cardinality(DOMAIN one)
<1>1. PICK s \in SUBSET fresh :
        /\ s = fresh \/ Cardinality(s) = room
        /\ DOMAIN e = DOMAIN one \cup s
  BY DEF Joined
<1>2. IsFiniteSet(fresh)
  BY FS_Subset
<1>3. IsFiniteSet(s) /\ DOMAIN one \cap s = {}
  BY <1>2, FS_Subset
<1>4. /\ IsFiniteSet(DOMAIN one \cup s)
      /\ Cardinality(DOMAIN one \cup s)
           = Cardinality(DOMAIN one) + Cardinality(s) - Cardinality(DOMAIN one \cap s)
  BY <1>3, FS_Union
<1>5. Cardinality(DOMAIN one \cap s) = 0
  BY <1>3, FS_EmptySet
<1>6. CASE s = fresh
  BY <1>1, <1>4, <1>6
<1>7. CASE Cardinality(s) = room
  <2>1. Cardinality(DOMAIN one) \in Nat /\ CfgMaxKeys \in Nat
    BY FS_CardinalityType, ConfigAssumption
  <2>2. Cardinality(DOMAIN e) = Cardinality(DOMAIN one) + (CfgMaxKeys - Cardinality(DOMAIN one)) - 0
    BY <1>1, <1>4, <1>5, <1>7
  <2> QED BY <1>1, <1>4, <2>1, <2>2
<1> QED BY <1>1, <1>6, <1>7

LEMMA SetKeys ==
  ASSUME NEW e, IsFiniteSet(DOMAIN e), NEW k, NEW v, NEW f \in Set(e, k, v)
  PROVE  IsFiniteSet(DOMAIN f)
<1>1. CASE k \in DOMAIN e
  <2>1. f = [e EXCEPT ![k] = v]
    BY <1>1 DEF Set
  <2> QED BY <2>1
<1>2. CASE k \notin DOMAIN e
  <2>1. f \in Joined(e, [j \in {k} |-> v])
    BY <1>2 DEF Set
  <2>2. IsFiniteSet(DOMAIN [j \in {k} |-> v])
    BY FS_Singleton
  <2> QED BY <2>1, <2>2, JoinedKeys
<1> QED BY <1>1, <1>2

LEMMA ConsultedKeys ==
  ASSUME NEW e, IsFiniteSet(DOMAIN e), NEW keys, IsFiniteSet(keys), NEW r \in Consulted(e, keys)
  PROVE  IsFiniteSet(DOMAIN r)
<1>1. PICK f \in Joined(e, [k \in keys |-> Default]) : DOMAIN r = DOMAIN f
  BY DEF Consulted
<1>2. IsFiniteSet(DOMAIN [k \in keys |-> Default])
  OBVIOUS
<1> QED BY <1>1, <1>2, JoinedKeys

LEMMA PlainKeys ==
  /\ EntriesOf(Absent) = NoEntries /\ EntriesOf(Torn) = NoEntries /\ EntriesOf(Text) = NoEntries
  /\ ~Parses(Absent) /\ ~Parses(Torn) /\ ~Parses(Text)
  /\ \A e : EntriesOf(Whole(e)) = e /\ Parses(Whole(e)) /\ Whole(e).entries = e
  /\ IsFiniteSet(DOMAIN NoEntries)
<1>1. IsFiniteSet(DOMAIN NoEntries)
  BY FS_EmptySet DEF NoEntries
<1> QED BY <1>1 DEF EntriesOf, Parses, Absent, Torn, Text, Whole

LEMMA KeysStart == ConfigInit => KeyInv
<1> SUFFICES ASSUME ConfigInit PROVE KeyInv
  OBVIOUS
<1>1. \A p \in Programs : save[p] = "off" /\ cfg[p] = NoEntries
  BY DEF ConfigInit
<1>2. KeyCounts /\ Merged
  BY <1>1, PlainKeys DEF ConfigInit, KeyCounts, Merged
<1> QED BY <1>2, SaveStarts DEF KeyInv

\* A program takes on other entries and is about to merge.
LEMMA BeginKeepsKeys ==
  ASSUME KeyInv, NEW p \in Programs, NEW here, At(p, here, "merge"),
         overlap' = (overlap \/ Disturbs(p)), UNCHANGED <<file, tmp>>,
         NEW e, IsFiniteSet(DOMAIN e), cfg' = [cfg EXCEPT ![p] = e]
  PROVE  KeyCounts' /\ Merged'
<1>1. /\ save'[p] = "merge" /\ \A q \in Programs \ {p} : save'[q] = save[q]
      /\ cfg'[p] = e /\ \A q \in Programs \ {p} : cfg'[q] = cfg[q]
  BY MovesAlone DEF KeyInv, SaveInv, Shape, Points
<1>2. KeyCounts'
  BY <1>1 DEF KeyInv, KeyCounts
<1>3. Merged'
  BY <1>1 DEF KeyInv, Merged
<1> QED BY <1>2, <1>3

\* A program moves on in its save, or ends, and the others stay where they are.
LEMMA MoveKeepsKeys ==
  ASSUME KeyInv, NEW p \in Programs, UNCHANGED <<cfg, overlap>>,
         \A q \in Programs \ {p} : save'[q] = save[q],
         file' = file \/ (file' = Absent /\ save[p] = "aside"),
         IsFiniteSet(DOMAIN EntriesOf(tmp')),
         save'[p] \in {"open", "flush", "aside", "swap"} => save[p] \in {"open", "flush", "aside", "swap"}
  PROVE  KeyCounts' /\ Merged'
<1>1. KeyCounts'
  BY PlainKeys DEF KeyInv, KeyCounts
<1>2. Merged'
  BY PlainKeys DEF KeyInv, Merged
<1> QED BY <1>1, <1>2

LEMMA ProgramKeepsKeys ==
  ASSUME KeyInv, ~overlap, NEW p \in Programs,
         \/ Launch(p) \/ Press(p) \/ Quit(p)
         \/ Merge(p) \/ OpenTemporary(p) \/ Flush(p) \/ SetAside(p) \/ Swap(p)
  PROVE  KeyCounts' /\ Merged'
<1>0. /\ IsFiniteSet(DOMAIN cfg[p]) /\ IsFiniteSet(DOMAIN EntriesOf(file))
      /\ IsFiniteSet(DOMAIN EntriesOf(tmp)) /\ IsFiniteSet(Asked[p]) /\ Shape
  BY ConfigAssumption DEF KeyInv, KeyCounts, SaveInv
<1>1. CASE Launch(p)
  <2>1. PICK loaded \in Joined(NoEntries, EntriesOf(file)) : \E read \in Consulted(loaded, Asked[p]) :
          \/ cfg' = [cfg EXCEPT ![p] = read]
          \/ \E k \in Asked[p], v \in 1 .. MaxValue : \E e \in Set(read, k, v) :
               cfg' = [cfg EXCEPT ![p] = e]
    BY <1>1 DEF Launch
  <2>2. PICK read \in Consulted(loaded, Asked[p]) :
          \/ cfg' = [cfg EXCEPT ![p] = read]
          \/ \E k \in Asked[p], v \in 1 .. MaxValue : \E e \in Set(read, k, v) :
               cfg' = [cfg EXCEPT ![p] = e]
    BY <2>1
  <2>3. IsFiniteSet(DOMAIN loaded)
    BY <1>0, PlainKeys, JoinedKeys
  <2>4. IsFiniteSet(DOMAIN read)
    BY <1>0, <2>3, ConsultedKeys
  <2>5. PICK e : IsFiniteSet(DOMAIN e) /\ cfg' = [cfg EXCEPT ![p] = e]
    BY <2>2, <2>4, SetKeys
  <2>6. At(p, "off", "merge") /\ overlap' = (overlap \/ Disturbs(p)) /\ UNCHANGED <<file, tmp>>
    BY <1>1 DEF Launch, cfgDisk
  <2> QED BY <2>5, <2>6, BeginKeepsKeys
<1>2. CASE Press(p)
  <2>1. At(p, "idle", "merge") /\ overlap' = (overlap \/ Disturbs(p)) /\ UNCHANGED <<file, tmp>>
    BY <1>2 DEF Press, cfgDisk
  <2>2. CASE cfg' = cfg
    <3>1. /\ save'[p] = "merge" /\ \A q \in Programs \ {p} : save'[q] = save[q]
      BY <2>1, MovesAlone DEF KeyInv, SaveInv, Shape, Points
    <3> QED BY <2>1, <2>2, <3>1, PlainKeys DEF KeyInv, KeyCounts, Merged
  <2>3. CASE \E k \in Asked[p] \ Numeric, v \in 1 .. MaxValue : \E e \in Set(cfg[p], k, v) :
               cfg' = [cfg EXCEPT ![p] = e]
    <3>1. PICK e : IsFiniteSet(DOMAIN e) /\ cfg' = [cfg EXCEPT ![p] = e]
      BY <1>0, <2>3, SetKeys
    <3> QED BY <2>1, <3>1, BeginKeepsKeys
  <2> QED BY <1>2, <2>2, <2>3 DEF Press
<1>3. CASE Quit(p)
  <2>1. /\ save' = [save EXCEPT ![p] = "off"] /\ cfg' = [cfg EXCEPT ![p] = NoEntries]
        /\ UNCHANGED <<file, tmp, overlap>>
    BY <1>3 DEF Quit, cfgDisk, cfgHist
  <2>2. /\ save'[p] = "off" /\ cfg'[p] = NoEntries
        /\ \A q \in Programs \ {p} : save'[q] = save[q] /\ cfg'[q] = cfg[q]
    BY <1>0, <2>1 DEF Shape
  <2>3. KeyCounts'
    BY <2>1, <2>2, PlainKeys DEF KeyInv, KeyCounts
  <2>4. Merged'
    BY <2>1, <2>2 DEF KeyInv, Merged
  <2> QED BY <2>3, <2>4
<1>4. CASE Merge(p)
  <2>1. PICK e \in Joined(cfg[p], EntriesOf(file)) : cfg' = [cfg EXCEPT ![p] = e]
    BY <1>4 DEF Merge
  <2>2. At(p, "merge", "open") /\ UNCHANGED <<file, tmp, overlap>>
    BY <1>4 DEF Merge, cfgDisk, cfgHist
  <2>3. /\ save'[p] = "open" /\ cfg'[p] = e
        /\ \A q \in Programs \ {p} : save'[q] = save[q] /\ cfg'[q] = cfg[q]
    BY <1>0, <2>1, <2>2 DEF At, Shape
  <2>4. /\ IsFiniteSet(DOMAIN e)
        /\ DOMAIN EntriesOf(file) \subseteq DOMAIN e \/ Cardinality(DOMAIN e) = CfgMaxKeys
    BY <1>0, <2>1, JoinedKeys
  <2>5. KeyCounts'
    BY <2>2, <2>3, <2>4 DEF KeyInv, KeyCounts
  <2>6. Merged'
    BY <2>2, <2>3, <2>4 DEF KeyInv, Merged, EntriesOf
  <2> QED BY <2>5, <2>6
<1>5. CASE OpenTemporary(p)
  <2>1. PICK next \in {"flush", "idle"} : At(p, "open", next)
    BY <1>5 DEF OpenTemporary
  <2>2. UNCHANGED <<file, cfg, overlap>> /\ (tmp' = Torn \/ tmp' = tmp)
    BY <1>5 DEF OpenTemporary, cfgHist
  <2>3. /\ save[p] = "open" /\ save'[p] = next /\ \A q \in Programs \ {p} : save'[q] = save[q]
    BY <1>0, <2>1 DEF At, Shape
  <2>4. IsFiniteSet(DOMAIN EntriesOf(tmp'))
    BY <1>0, <2>2, PlainKeys
  <2> QED BY <2>2, <2>3, <2>4, MoveKeepsKeys
<1>6. CASE Flush(p)
  <2>1. PICK next \in {"aside", "idle"} : At(p, "flush", next)
    BY <1>6 DEF Flush
  <2>2. UNCHANGED <<file, cfg, overlap>> /\ (tmp' = Whole(cfg[p]) \/ tmp' = Absent)
    BY <1>6 DEF Flush, cfgHist
  <2>3. /\ save[p] = "flush" /\ save'[p] = next /\ \A q \in Programs \ {p} : save'[q] = save[q]
    BY <1>0, <2>1 DEF At, Shape
  <2>4. IsFiniteSet(DOMAIN EntriesOf(tmp'))
    BY <1>0, <2>2, PlainKeys
  <2> QED BY <2>2, <2>3, <2>4, MoveKeepsKeys
<1>7. CASE SetAside(p)
  <2>1. /\ At(p, "aside", "swap") /\ UNCHANGED <<tmp, cfg, overlap>>
        /\ file' = Absent \/ UNCHANGED file
    BY <1>7 DEF SetAside, cfgHist
  <2>2. /\ save[p] = "aside" /\ save'[p] = "swap" /\ \A q \in Programs \ {p} : save'[q] = save[q]
    BY <1>0, <2>1 DEF At, Shape
  <2> QED BY <1>0, <2>1, <2>2, MoveKeepsKeys
<1>8. CASE Swap(p)
  <2>1. /\ At(p, "swap", "idle") /\ UNCHANGED <<cfg, overlap>> /\ tmp' = Absent
        /\ file' = tmp \/ UNCHANGED file
    BY <1>8 DEF Swap
  <2>2. save[p] = "swap" /\ save'[p] = "idle"
    BY <1>0, <2>1 DEF At, Shape
  <2>3. \A q \in Programs \ {p} : save'[q] \in {"off", "idle"}
    BY <2>1, <2>2, StepKeepsSaver DEF Points, KeyInv
  <2>4. KeyCounts'
    BY <1>0, <2>1, PlainKeys DEF KeyInv, KeyCounts
  <2>5. Merged'
    BY <2>2, <2>3 DEF Merged
  <2> QED BY <2>4, <2>5
<1> QED BY <1>1, <1>2, <1>3, <1>4, <1>5, <1>6, <1>7, <1>8

\* The editor writes a text, or one key more, and overlaps with any save.
LEMMA EditorKeepsKeys ==
  ASSUME KeyInv, IsFiniteSet(DOMAIN EntriesOf(file')), Edited
  PROVE  KeyCounts' /\ Merged'
<1>1. /\ UNCHANGED <<tmp, save, cfg>>
      /\ overlap' = (overlap \/ \E p \in Programs : Saving(p))
  BY DEF Edited, cfgProg
<1>2. KeyCounts'
  BY <1>1 DEF KeyInv, KeyCounts
<1>3. Merged'
  BY <1>1 DEF Merged, Saving
<1> QED BY <1>2, <1>3

LEMMA KeyStepKeeps == KeyInv /\ [ConfigNext]_cfgVars => KeyInv'
<1> SUFFICES ASSUME KeyInv, [ConfigNext]_cfgVars PROVE KeyCounts' /\ Merged'
  BY SaveStepKeeps DEF KeyInv
<1>1. CASE UNCHANGED cfgVars
  BY <1>1 DEF cfgVars, cfgDisk, cfgProg, cfgHist, KeyInv, KeyCounts, Merged
<1>2. ASSUME NEW k \in Keys, NEW v \in Values, EditKey(k, v) PROVE KeyCounts' /\ Merged'
  <2> DEFINE e == [j \in DOMAIN file.entries \cup {k} |-> IF j = k THEN v ELSE file.entries[j]]
  <2>1. file' = Whole(e) /\ Parses(file) /\ Edited
    BY <1>2 DEF EditKey
  <2>2. IsFiniteSet(DOMAIN e)
    <3>1. IsFiniteSet(DOMAIN file.entries)
      BY <2>1 DEF KeyInv, KeyCounts, EntriesOf
    <3> QED BY <3>1, FS_AddElement
  <2> HIDE DEF e
  <2> QED BY <2>1, <2>2, PlainKeys, EditorKeepsKeys
<1>3. CASE Spoil
  BY <1>3, PlainKeys, EditorKeepsKeys DEF Spoil
<1> QED BY <1>1, <1>2, <1>3, ProgramKeepsKeys DEF ConfigNext

\* Only a program's own swap takes it from there to idle.
LEMMA SwapKeepsKeys ==
  ASSUME KeyInv, ConfigNext, NEW p \in Programs,
         save[p] = "swap", save'[p] = "idle", Parses(file), ~overlap
  PROVE  \/ DOMAIN file.entries \subseteq DOMAIN EntriesOf(file')
         \/ Cardinality(DOMAIN EntriesOf(file')) = CfgMaxKeys
<1>1. /\ tmp = Whole(cfg[p])
      /\ DOMAIN file.entries \subseteq DOMAIN cfg[p] \/ Cardinality(DOMAIN cfg[p]) = CfgMaxKeys
  BY DEF KeyInv, SaveInv, Written, Merged
<1>2. file' \in {file, tmp}
  <2>1. CASE file' = file
    BY <2>1
  <2>2. CASE \E q \in Programs : SetAside(q)
    <3>1. PICK q \in Programs : SetAside(q)
      BY <2>2
    <3>2. save[q] = "aside" /\ save' = [save EXCEPT ![q] = "swap"]
      BY <3>1 DEF SetAside, At
    <3> QED BY <3>2 DEF KeyInv, SaveInv, Shape
  <2>3. CASE \E q \in Programs : Swap(q)
    BY <2>3 DEF Swap
  <2>4. CASE Edited
    BY <2>4 DEF Edited, cfgProg
  <2> QED BY <2>1, <2>2, <2>3, <2>4 DEF ConfigNext, Launch, Press, Quit, Merge, OpenTemporary, Flush,
                                        EditKey, Spoil, cfgDisk
<1> QED BY <1>1, <1>2, PlainKeys DEF EntriesOf

\* A save leaves every key that is in the file there, whether this program asks for it
\* or not, unless as many are kept as fit: what it merged is what takes the file's place,
\* and no step of another program comes between unnoticed (dsh_cfg_save).
THEOREM SavesKeepKeys == ConfigSpec => NoKeyErased
<1>1. KeyInv /\ [ConfigNext]_cfgVars =>
        [ \A p \in Programs :
            save[p] = "swap" /\ save'[p] = "idle" /\ Parses(file) /\ ~overlap =>
              \/ DOMAIN file.entries \subseteq DOMAIN EntriesOf(file')
              \/ Cardinality(DOMAIN EntriesOf(file')) = CfgMaxKeys ]_cfgVars
  BY SwapKeepsKeys
<1> QED BY KeysStart, KeyStepKeeps, <1>1, PTL DEF ConfigSpec, NoKeyErased

\* Entries are values of keys, and so is what reading, joining and setting make of them.
LEMMA EntryIs ==
  /\ \A e \in Entries : DOMAIN e \subseteq Keys /\ \A k \in DOMAIN e : e[k] \in Values
  /\ \A d \in SUBSET Keys : \A e \in [d -> Values] : e \in Entries
  /\ NoEntries \in Entries
<1>1. NoEntries \in [{} -> Values]
  BY DEF NoEntries
<1> QED BY <1>1 DEF Entries

LEMMA JoinedIs ==
  ASSUME NEW one \in Entries, NEW two \in Entries, NEW e \in Joined(one, two)
  PROVE  e \in Entries
<1>1. PICK s \in SUBSET (DOMAIN two \ DOMAIN one) :
        e = [k \in DOMAIN one \cup s |-> IF k \in DOMAIN one THEN one[k] ELSE two[k]]
  BY DEF Joined
<1>2. DOMAIN one \cup s \in SUBSET Keys
  BY <1>1, EntryIs
<1>3. \A k \in DOMAIN one \cup s : (IF k \in DOMAIN one THEN one[k] ELSE two[k]) \in Values
  BY <1>1, EntryIs
<1>4. e \in [DOMAIN one \cup s -> Values]
  BY <1>1, <1>3
<1> QED BY <1>2, <1>4, EntryIs

LEMMA DefaultsAre ==
  ASSUME NEW d \in SUBSET Keys, NEW v \in Values
  PROVE  [k \in d |-> v] \in Entries
<1>1. [k \in d |-> v] \in [d -> Values]
  OBVIOUS
<1> QED BY <1>1, EntryIs

LEMMA ConsultedIs ==
  ASSUME NEW e \in Entries, NEW keys \in SUBSET Keys, NEW r \in Consulted(e, keys)
  PROVE  r \in Entries
<1>1. PICK f \in Joined(e, [k \in keys |-> Default]) :
        r = [k \in DOMAIN f |-> IF k \in keys /\ k \in DOMAIN e
                                THEN IF e[k] = Junk /\ k \in Numeric THEN Default ELSE e[k] ELSE f[k]]
  BY DEF Consulted
<1>2. Default \in Values
  BY DEF Values
<1>3. f \in Entries
  BY <1>1, <1>2, DefaultsAre, JoinedIs
<1>4. r \in [DOMAIN f -> Values]
  BY <1>1, <1>2, <1>3, EntryIs
<1> QED BY <1>3, <1>4, EntryIs

LEMMA SetIs ==
  ASSUME NEW e \in Entries, NEW k \in Keys, NEW v \in Values, NEW r \in Set(e, k, v)
  PROVE  r \in Entries
<1>1. CASE k \in DOMAIN e
  <2>1. r = [e EXCEPT ![k] = v]
    BY <1>1 DEF Set
  <2>2. e \in [DOMAIN e -> Values] /\ DOMAIN e \in SUBSET Keys
    BY DEF Entries
  <2>3. r \in [DOMAIN e -> Values]
    BY <2>1, <2>2
  <2> QED BY <2>2, <2>3, EntryIs
<1>2. CASE k \notin DOMAIN e
  BY <1>2, DefaultsAre, JoinedIs DEF Set
<1> QED BY <1>1, <1>2

LEMMA ContentIs ==
  /\ Absent \in Contents /\ Torn \in Contents /\ Text \in Contents
  /\ \A e \in Entries : Whole(e) \in Contents
  /\ \A c \in Contents : EntriesOf(c) \in Entries /\ (Parses(c) => c.entries \in Entries)
<1>1. ASSUME NEW c \in Contents PROVE EntriesOf(c) \in Entries /\ (Parses(c) => c.entries \in Entries)
  <2>1. CASE c \in {Absent, Torn, Text}
    BY <2>1, EntryIs DEF EntriesOf, Parses, Absent, Torn, Text
  <2>2. CASE \E e \in Entries : c = Whole(e)
    BY <2>2 DEF EntriesOf, Parses, Whole
  <2> QED BY <2>1, <2>2 DEF Contents
<1> QED BY <1>1 DEF Contents

\* The types of what is in the files and of what a program has in memory.
Stored ==
  /\ file \in Contents /\ backup \in Contents /\ tmp \in Contents /\ saved \in Contents
  /\ cfg = [p \in Programs |-> cfg[p]] /\ \A p \in Programs : cfg[p] \in Entries

LEMMA ProgramStores ==
  ASSUME Stored, NEW p \in Programs,
         \/ Launch(p) \/ Press(p) \/ Quit(p) \/ Merge(p)
         \/ OpenTemporary(p) \/ Flush(p) \/ SetAside(p) \/ Swap(p)
  PROVE  Stored'
<1>1. cfg[p] \in Entries /\ EntriesOf(file) \in Entries /\ NoEntries \in Entries
  BY EntryIs, ContentIs DEF Stored
<1>2. Asked[p] \in SUBSET Keys /\ \A v \in 1 .. MaxValue : v \in Values
  BY ConfigAssumption DEF Values
<1>3. ASSUME NEW e \in Entries, cfg' = [cfg EXCEPT ![p] = e]
      PROVE  cfg' = [q \in Programs |-> cfg'[q]] /\ \A q \in Programs : cfg'[q] \in Entries
  BY <1>3 DEF Stored
<1>4. CASE Launch(p)
  <2>1. PICK loaded \in Joined(NoEntries, EntriesOf(file)) : \E read \in Consulted(loaded, Asked[p]) :
          \/ cfg' = [cfg EXCEPT ![p] = read]
          \/ \E k \in Asked[p], v \in 1 .. MaxValue : \E e \in Set(read, k, v) :
               cfg' = [cfg EXCEPT ![p] = e]
    BY <1>4 DEF Launch
  <2>2. loaded \in Entries
    BY <1>1, <2>1, JoinedIs
  <2>3. PICK read \in Consulted(loaded, Asked[p]) :
          \/ cfg' = [cfg EXCEPT ![p] = read]
          \/ \E k \in Asked[p], v \in 1 .. MaxValue : \E e \in Set(read, k, v) :
               cfg' = [cfg EXCEPT ![p] = e]
    BY <2>1
  <2>4. read \in Entries
    BY <1>2, <2>2, <2>3, ConsultedIs
  <2>5. \E e \in Entries : cfg' = [cfg EXCEPT ![p] = e]
    BY <1>2, <2>3, <2>4, SetIs
  <2>6. UNCHANGED <<file, backup, tmp, saved>>
    BY <1>4 DEF Launch, cfgDisk
  <2> QED BY <1>3, <2>5, <2>6 DEF Stored
<1>5. CASE Press(p)
  <2>1. UNCHANGED cfg \/ \E e \in Entries : cfg' = [cfg EXCEPT ![p] = e]
    BY <1>1, <1>2, <1>5, SetIs DEF Press
  <2>2. UNCHANGED <<file, backup, tmp, saved>>
    BY <1>5 DEF Press, cfgDisk
  <2> QED BY <1>3, <2>1, <2>2 DEF Stored
<1>6. CASE Quit(p) \/ Merge(p)
  <2>1. \E e \in Entries : cfg' = [cfg EXCEPT ![p] = e]
    BY <1>1, <1>6, JoinedIs DEF Quit, Merge
  <2>2. UNCHANGED <<file, backup, tmp, saved>>
    BY <1>6 DEF Quit, Merge, cfgDisk, cfgHist
  <2> QED BY <1>3, <2>1, <2>2 DEF Stored
<1>7. CASE OpenTemporary(p) \/ Flush(p)
  <2>1. UNCHANGED <<file, backup, saved, cfg>>
    BY <1>7 DEF OpenTemporary, Flush, cfgHist
  <2>2. tmp' \in Contents
    BY <1>1, <1>7, ContentIs DEF OpenTemporary, Flush, Stored
  <2> QED BY <2>1, <2>2 DEF Stored
<1>8. CASE SetAside(p)
  BY <1>8, ContentIs DEF SetAside, cfgHist, Stored
<1>9. CASE Swap(p)
  BY <1>9, ContentIs DEF Swap, Stored
<1> QED BY <1>4, <1>5, <1>6, <1>7, <1>8, <1>9

LEMMA EditStores ==
  ASSUME Stored, (\E k \in Keys, v \in Values : EditKey(k, v)) \/ Spoil
  PROVE  Stored'
<1>1. UNCHANGED <<backup, tmp, cfg>> /\ saved' = Absent
  BY DEF EditKey, Spoil, Edited, cfgProg
<1>2. file' \in Contents
  <2>1. ASSUME NEW k \in Keys, NEW v \in Values, EditKey(k, v) PROVE file' \in Contents
    <3> DEFINE d == DOMAIN file.entries \cup {k}
               e == [j \in d |-> IF j = k THEN v ELSE file.entries[j]]
    <3>1. file.entries \in Entries /\ file' = Whole(e)
      BY <2>1, ContentIs DEF EditKey, Stored
    <3>2. d \in SUBSET Keys /\ e \in [d -> Values]
      BY <3>1, EntryIs
    <3> HIDE DEF d, e
    <3> QED BY <3>1, <3>2, EntryIs, ContentIs
  <2> QED BY <2>1, ContentIs DEF Spoil
<1> QED BY <1>1, <1>2, ContentIs DEF Stored

\* The flags and counters.
Noted ==
  /\ malformed \in [Programs -> BOOLEAN] /\ existed \in [Programs -> BOOLEAN]
  /\ overlap \in BOOLEAN /\ launches \in Nat /\ changes \in Nat

LEMMA NotedKept ==
  ASSUME Noted, [ConfigNext]_cfgVars
  PROVE  Noted'
<1>1. launches' \in Nat /\ changes' \in Nat
  <2>1. launches' = launches \/ launches' = launches + 1
    BY DEF ConfigNext, Launch, Press, Quit, Merge, OpenTemporary, Flush, SetAside, Swap, EditKey, Spoil,
           Edited, cfgVars
  <2>2. changes' = changes \/ changes' = changes + 1
    BY DEF ConfigNext, Launch, Press, Quit, Merge, OpenTemporary, Flush, SetAside, Swap, EditKey, Spoil,
           Edited, cfgVars
  <2> QED BY <2>1, <2>2 DEF Noted
<1>2. overlap' \in BOOLEAN
  <2>1. \/ overlap' = overlap
        \/ \E p \in Programs : overlap' = (overlap \/ Disturbs(p))
        \/ overlap' = (overlap \/ \E p \in Programs : Saving(p))
    BY Zenon DEF ConfigNext, Launch, Press, Quit, Merge, OpenTemporary, Flush, SetAside, Swap, EditKey,
       Spoil, Edited, cfgVars, cfgHist
  <2> QED BY <2>1, Zenon DEF Noted
<1>3. malformed' \in [Programs -> BOOLEAN] /\ existed' \in [Programs -> BOOLEAN]
  <2>1. \/ malformed' = malformed
        \/ \E p \in Programs, b \in BOOLEAN : malformed' = [malformed EXCEPT ![p] = b]
    BY DEF ConfigNext, Launch, Press, Quit, Merge, OpenTemporary, Flush, SetAside, Swap, EditKey, Spoil,
           Edited, cfgVars, cfgProg
  <2>2. \/ existed' = existed
        \/ \E p \in Programs, b \in BOOLEAN : existed' = [existed EXCEPT ![p] = b]
    BY DEF ConfigNext, Launch, Press, Quit, Merge, OpenTemporary, Flush, SetAside, Swap, EditKey, Spoil,
           Edited, cfgVars, cfgProg
  <2> QED BY <2>1, <2>2 DEF Noted
<1> QED BY <1>1, <1>2, <1>3 DEF Noted

\* Whatever is joined, read, edited and cut off, the files hold nothing, half a save, a
\* text or values of keys, and a program in memory values of keys (dsh_cfg_open,
\* dsh_cfg_save, dsh_cfg_set_str).
THEOREM ConfigKeepsTypes == ConfigSpec => []ConfigTypeOK
<1>1. ConfigInit => Stored /\ Noted
  <2> SUFFICES ASSUME ConfigInit PROVE Stored /\ Noted
    OBVIOUS
  <2>1. Stored
    BY EntryIs, ContentIs DEF ConfigInit, Stored
  <2>2. [p \in Programs |-> FALSE] \in [Programs -> BOOLEAN]
    BY Zenon
  <2>3. launches \in Nat /\ changes \in Nat
    BY DEF ConfigInit
  <2>4. overlap \in BOOLEAN /\ malformed \in [Programs -> BOOLEAN] /\ existed \in [Programs -> BOOLEAN]
    BY <2>2, Zenon DEF ConfigInit
  <2> QED BY <2>1, <2>3, <2>4 DEF Noted
<1>2. Stored /\ [ConfigNext]_cfgVars => Stored'
  <2> SUFFICES ASSUME Stored, [ConfigNext]_cfgVars PROVE Stored'
    OBVIOUS
  <2>1. CASE UNCHANGED cfgVars
    BY <2>1 DEF cfgVars, cfgDisk, cfgProg, cfgHist, Stored
  <2> QED BY <2>1, ProgramStores, EditStores DEF ConfigNext
<1>3. SaveInv /\ Stored /\ Noted => ConfigTypeOK
  BY DEF SaveInv, Shape, Points, Stored, Noted, ConfigTypeOK
<1> QED BY <1>1, <1>2, <1>3, NotedKept, SaveStarts, SaveStepKeeps, PTL DEF ConfigSpec
=============================================================================
