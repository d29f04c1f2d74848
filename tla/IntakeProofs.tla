----------------------------- MODULE IntakeProofs -----------------------------
(***************************************************************************)
(* Proofs about what enters the program and what it shows of itself.       *)
(*                                                                         *)
(* Each part of MCIntake is a machine of its own, so each has an           *)
(* invariant of its own: the snapshot of the preferences, the record of    *)
(* the health worker's lock, the readiness a request is told, what an      *)
(* evidence pack may know, and the news a restart has to fetch.  The       *)
(* digests are functions of an answer; their recursions are solved here    *)
(* for an answer of any length.                                            *)
(***************************************************************************)
EXTENDS MCIntake, SequenceTheorems, FiniteSetTheorems, TLAPS

-----------------------------------------------------------------------------
(* The parts of one run.                                                   *)

whole == <<part, answer, feeding, streaming, showing, preferring, enriching>>

\* A step of the run is a step of each part, or leaves it alone.
LEMMA IntakeParts ==
  [Step]_whole => [N!Next]_N!vars /\ [H!Next]_H!vars /\ [P!Next]_P!vars /\ [E!Next]_E!vars
<1>1. UNCHANGED showing => UNCHANGED H!vars
  BY DEF H!vars, showing
<1>2. UNCHANGED preferring => UNCHANGED P!vars
  BY DEF P!vars, P!history, preferring
<1>3. UNCHANGED enriching => UNCHANGED E!vars
  BY DEF E!vars, enriching
<1>4. UNCHANGED streaming => UNCHANGED N!vars
  BY DEF N!vars, N!history, streaming
<1>5. UNCHANGED whole => UNCHANGED <<streaming, showing, preferring, enriching>>
  BY DEF whole
<1>6. Step => /\ N!Next \/ UNCHANGED streaming
              /\ H!Next \/ UNCHANGED showing
              /\ P!Next \/ UNCHANGED preferring
              /\ E!Next \/ UNCHANGED enriching
  BY DEF Step
<1>7. QED
  BY <1>1, <1>2, <1>3, <1>4, <1>5, <1>6

\* In a run of several parts each part does what its module says.
LEMMA EachPart == Explored => N!Init /\ [][N!Next]_N!vars /\ H!Spec /\ P!Spec /\ E!Spec
<1>1. Start => N!Init /\ H!Init /\ P!Init /\ E!Init
  BY DEF Start
<1>2. QED
  BY <1>1, IntakeParts, PTL DEF Explored, H!Spec, P!Spec, E!Spec, whole

-----------------------------------------------------------------------------
(* Preferences: what was saved is served.                                  *)

\* Who may be in the queue for the lock.
InLine(w) ==
    \/ w \in Savers /\ saver[w] # None /\ saver[w].step \in {"current", "refresh"}
    \/ w \in Readers /\ asker[w] \in {"lock", "refresh"}

\* Each of them once.
InTurn ==
    /\ queue \in Seq(Savers \cup Readers)
    /\ \A i \in 1 .. Len(queue) : InLine(queue[i])
    /\ \A i, j \in 1 .. Len(queue) : queue[i] = queue[j] => i = j

Saves == [step : {"current", "write", "forget", "refresh"}, changes : Changes,
          merged : {None} \cup [Categories -> BOOLEAN]]

\* What savers and readers remember.
Savings ==
    /\ saver \in [Savers -> {None} \cup Saves] /\ asker = [r \in Readers |-> asker[r]]
    /\ reading \in {None} \cup [Categories -> BOOLEAN]

\* The last of the rows is the one that is stored.
RowsInv ==
    /\ versions \in Seq([Categories -> BOOLEAN]) /\ versions # <<>> /\ versions[Len(versions)] = P!FromRow(row)
    /\ saved \in 1 .. Len(versions) /\ wrote \in [Savers -> 1 .. Len(versions)]

\* Whoever holds the lock has read what was answered, or something later; and what it
\* wrote itself, if it reads for the second time.
ReadingInv ==
    reading # None =>
        /\ queue # <<>>
        /\ \E n \in saved .. Len(versions) :
              /\ reading = versions[n]
              /\ \A s \in Savers :
                    s = queue[1] /\ saver[s] # None /\ saver[s].step = "refresh" => wrote[s] <= n

ServedInv == Savings /\ InTurn /\ RowsInv /\ ReadingInv /\ SavedIsServed

\* What the proofs use of the assumption.
LEMMA SavingConstants ==
  Savers \cap Readers = {} /\ None \notin Saves /\ None # "lock" /\ None # "refresh" /\ None # "ask"
<1>1. None \notin H!Statuses \cup {"ask", "lock", "refresh"} /\ Savers \cap Readers = {}
  BY IntakeAssumption
<1>2. None \notin [step : {"current", "write", "forget", "refresh"}, changes : Changes,
                   merged : {None} \cup [Categories -> BOOLEAN]]
  BY IntakeAssumption, Zenon
<1>3. None \notin Saves
  BY <1>2, Zenon DEF Saves
<1>4. QED
  BY <1>1, <1>3

\* What joining the end of the line leaves as it was.
LEMMA Joined ==
  ASSUME InTurn, NEW w \in Savers \cup Readers
  PROVE  /\ Append(queue, w) \in Seq(Savers \cup Readers)
         /\ Len(Append(queue, w)) = Len(queue) + 1 /\ Len(queue) \in Nat
         /\ \A i \in 1 .. Len(queue) : Append(queue, w)[i] = queue[i]
         /\ Append(queue, w)[Len(queue) + 1] = w /\ Append(queue, w) # <<>>
  BY AppendProperties, LenProperties DEF InTurn

\* What leaving the head of the line leaves as it was.
LEMMA LeftBy ==
  ASSUME InTurn, queue # <<>>
  PROVE  /\ Tail(queue) \in Seq(Savers \cup Readers)
         /\ Len(queue) \in Nat \ {0} /\ Len(Tail(queue)) = Len(queue) - 1
         /\ \A i \in 1 .. Len(Tail(queue)) : Tail(queue)[i] = queue[i + 1]
         /\ Head(queue) = queue[1] /\ Head(queue) \in Savers \cup Readers
  BY HeadTailProperties, EmptySeq, LenProperties DEF InTurn

Without(k) == SubSeq(queue, 1, k - 1) \o SubSeq(queue, k + 1, Len(queue))

\* What leaving the line from its middle leaves as it was.
LEMMA LeftOut ==
  ASSUME InTurn, NEW k \in 1 .. Len(queue), NEW rest, rest = Without(k)
  PROVE  /\ rest \in Seq(Savers \cup Readers) /\ Len(queue) \in Nat /\ Len(rest) = Len(queue) - 1
         /\ \A i \in 1 .. Len(rest) : rest[i] = IF i < k THEN queue[i] ELSE queue[i + 1]
<1> DEFINE W == Savers \cup Readers
<1>1. Len(queue) \in Nat /\ k \in Int /\ 1 <= k /\ k <= Len(queue) /\ \A i \in 1 .. Len(queue) : queue[i] \in W
  BY LenProperties, ElementOfSeq DEF InTurn
<1>2. PICK m \in Int, l \in Int, len \in Nat : m = k - 1 /\ l = k + 1 /\ len = Len(queue)
  BY <1>1
<1>3. PICK a, b : a = SubSeq(queue, 1, m) /\ b = SubSeq(queue, l, len) /\ rest = a \o b
  BY <1>2 DEF Without
<1> HIDE DEF W
<1>4. a \in Seq(W) /\ Len(a) = k - 1 /\ \A i \in 1 .. Len(a) : a[i] = queue[i]
  <2>1. \A i \in 1 .. m : queue[i] \in W
    BY <1>1, <1>2
  <2>2. /\ a \in Seq(W) /\ Len(a) = IF 1 <= m THEN m - 1 + 1 ELSE 0
        /\ \A i \in 1 .. m - 1 + 1 : a[i] = queue[1 + i - 1]
    BY <1>2, <1>3, <2>1, SubSeqProperties
  <2>3. QED
    BY <1>1, <1>2, <2>2
<1>5. b \in Seq(W) /\ Len(b) = Len(queue) - k /\ \A i \in 1 .. Len(b) : b[i] = queue[k + i]
  <2>1. \A i \in l .. len : queue[i] \in W
    BY <1>1, <1>2
  <2>2. /\ b \in Seq(W) /\ Len(b) = IF l <= len THEN len - l + 1 ELSE 0
        /\ \A i \in 1 .. len - l + 1 : b[i] = queue[l + i - 1]
    BY <1>2, <1>3, <2>1, SubSeqProperties
  <2>3. QED
    BY <1>1, <1>2, <2>2
<1>6. /\ rest \in Seq(W) /\ Len(rest) = Len(a) + Len(b)
      /\ \A i \in 1 .. Len(a) + Len(b) : rest[i] = IF i <= Len(a) THEN a[i] ELSE b[i - Len(a)]
  <2>1. a \in Seq(W) /\ b \in Seq(W)
    BY <1>4, <1>5
  <2>2. /\ a \o b \in Seq(W) /\ Len(a \o b) = Len(a) + Len(b)
        /\ \A i \in 1 .. Len(a) + Len(b) :
               (a \o b)[i] = IF i <= Len(a) THEN a[i] ELSE b[i - Len(a)]
    BY <2>1, ConcatProperties
  <2>3. QED
    BY <1>3, <2>2
<1>7. /\ Len(a) = k - 1 /\ Len(b) = Len(queue) - k /\ Len(rest) = Len(queue) - 1
      /\ Len(queue) \in Nat /\ k \in Int /\ 1 <= k /\ k <= Len(queue)
  <2>1. Len(a) = k - 1 /\ Len(b) = Len(queue) - k /\ Len(rest) = Len(a) + Len(b)
    BY <1>4, <1>5, <1>6
  <2>2. Len(queue) \in Nat /\ k \in Int /\ 1 <= k /\ k <= Len(queue)
    BY <1>1
  <2>3. QED
    BY <2>1, <2>2
<1>8. ASSUME NEW i \in 1 .. Len(rest) PROVE rest[i] = IF i < k THEN queue[i] ELSE queue[i + 1]
  <2>1. CASE i < k
    <3>1. i <= Len(a) /\ i \in 1 .. Len(a) /\ i \in 1 .. Len(a) + Len(b)
      BY <1>7, <2>1
    <3>2. QED
      BY <1>4, <1>6, <2>1, <3>1
  <2>2. CASE ~(i < k)
    <3>1. PICK j \in Int : j = i - Len(a) /\ k + j = i + 1
      BY <1>7
    <3>2. ~(i <= Len(a)) /\ j \in 1 .. Len(b) /\ i \in 1 .. Len(a) + Len(b)
      <4>1. i \in Int /\ 1 <= i /\ i <= Len(queue) - 1 /\ k <= i
        BY <1>7, <2>2
      <4>2. 1 <= j /\ j <= Len(queue) - k
        BY <1>7, <3>1, <4>1
      <4>3. QED
        BY <1>7, <3>1, <4>1, <4>2
    <3>3. rest[i] = b[j] /\ b[j] = queue[k + j]
      BY <1>5, <1>6, <3>1, <3>2
    <3>4. QED
      BY <2>2, <3>1, <3>3
  <2>3. QED
    BY <2>1, <2>2
<1>9. QED
  BY <1>1, <1>6, <1>7, <1>8 DEF W

\* The line is still one, and whoever has read the row still holds the lock.
LineKept ==
    /\ InTurn'
    /\ reading' # None => reading' = reading /\ queue # <<>> /\ queue' # <<>> /\ queue'[1] = queue[1]

\* Whoever is not in line joins it.
LEMMA Joins ==
  ASSUME ServedInv, NEW w \in Savers \cup Readers, ~InLine(w),
         queue' = Append(queue, w), UNCHANGED reading, InLine(w)',
         \A v \in Savers \cup Readers : v # w /\ InLine(v) => InLine(v)'
  PROVE  LineKept
<1>1. InTurn /\ (reading # None => queue # <<>>)
  BY DEF ServedInv, ReadingInv
<1>2. \A i \in 1 .. Len(queue) : queue[i] # w /\ queue[i] \in Savers \cup Readers
  BY <1>1, LenProperties DEF InTurn
<1>3. InTurn'
  BY <1>1, <1>2, Joined DEF InTurn
<1>4. queue # <<>> => queue' # <<>> /\ queue'[1] = queue[1]
  <2>1. queue # <<>> => 1 \in 1 .. Len(queue)
    BY <1>1, LeftBy
  <2>2. QED
    BY <1>1, <2>1, Joined
<1>5. QED
  BY <1>1, <1>3, <1>4 DEF LineKept

\* Whoever holds the lock leaves it.
LEMMA Leaves ==
  ASSUME ServedInv, queue # <<>>, queue' = Tail(queue), reading' = None,
         \A v \in Savers \cup Readers : v # Head(queue) /\ InLine(v) => InLine(v)'
  PROVE  LineKept
<1>1. InTurn
  BY DEF ServedInv
<1>2. \A i \in 1 .. Len(Tail(queue)) :
         /\ Tail(queue)[i] # Head(queue) /\ Tail(queue)[i] \in Savers \cup Readers
         /\ InLine(Tail(queue)[i])
  BY <1>1, LeftBy, LenProperties DEF InTurn
<1>3. \A i, j \in 1 .. Len(Tail(queue)) : Tail(queue)[i] = Tail(queue)[j] => i = j
  BY <1>1, LeftBy DEF InTurn
<1>4. QED
  BY <1>1, <1>2, <1>3, LeftBy DEF InTurn, LineKept

\* Whoever fails leaves it from wherever it stands.
LEMMA Fallen ==
  ASSUME ServedInv, NEW w \in Savers \cup Readers, P!Leaves(w),
         \A v \in Savers \cup Readers : v # w /\ InLine(v) => InLine(v)'
  PROVE  LineKept
<1>1. InTurn /\ (reading # None => queue # <<>>)
  BY DEF ServedInv, ReadingInv
<1>2. PICK k \in 1 .. Len(queue) :
         /\ queue[k] = w
         /\ queue' = SubSeq(queue, 1, k - 1) \o SubSeq(queue, k + 1, Len(queue))
         /\ reading' = IF k = 1 THEN None ELSE reading
  BY DEF P!Leaves
<1>3. PICK rest : rest = Without(k)
  OBVIOUS
<1>4. /\ rest \in Seq(Savers \cup Readers) /\ Len(queue) \in Nat /\ Len(rest) = Len(queue) - 1
      /\ \A i \in 1 .. Len(rest) : rest[i] = IF i < k THEN queue[i] ELSE queue[i + 1]
  BY <1>1, <1>3, LeftOut
<1>5. ASSUME NEW i \in 1 .. Len(rest)
      PROVE  \E j \in 1 .. Len(queue) :
                /\ j # k /\ rest[i] = queue[j] /\ j = IF i < k THEN i ELSE i + 1
  <2>1. PICK n \in Nat : n = Len(queue) /\ Len(rest) = n - 1
    BY <1>4
  <2>2. i \in Int /\ 1 <= i /\ i <= n - 1 /\ k \in Int /\ 1 <= k /\ k <= n
    BY <2>1
  <2>3. rest[i] = IF i < k THEN queue[i] ELSE queue[i + 1]
    BY <1>4
  <2>4. PICK j \in Int : j = IF i < k THEN i ELSE i + 1
    BY <2>2
  <2>5. j \in 1 .. n /\ j # k
    BY <2>2, <2>4
  <2>6. rest[i] = queue[j]
    BY <2>3, <2>4
  <2>7. QED
    BY <2>1, <2>4, <2>5, <2>6
<1>6. \A i \in 1 .. Len(rest) : rest[i] # w /\ rest[i] \in Savers \cup Readers /\ InLine(rest[i])
  BY <1>1, <1>2, <1>4, <1>5, ElementOfSeq DEF InTurn
<1>7. \A i, j \in 1 .. Len(rest) : rest[i] = rest[j] => i = j
  <2>1. SUFFICES ASSUME NEW i \in 1 .. Len(rest), NEW j \in 1 .. Len(rest), rest[i] = rest[j]
                 PROVE  i = j
    OBVIOUS
  <2>2. PICK a \in 1 .. Len(queue) : rest[i] = queue[a] /\ a = IF i < k THEN i ELSE i + 1
    BY <1>5
  <2>3. PICK b \in 1 .. Len(queue) : rest[j] = queue[b] /\ b = IF j < k THEN j ELSE j + 1
    BY <1>5
  <2>4. a = b
    BY <1>1, <2>1, <2>2, <2>3 DEF InTurn
  <2>5. QED
    BY <1>4, <2>2, <2>3, <2>4
<1>8. InTurn'
  <2>1. queue' = rest
    BY <1>2, <1>3 DEF Without
  <2>2. \A i \in 1 .. Len(rest) : InLine(rest[i])'
    BY <1>6
  <2>3. QED
    BY <1>4, <1>7, <2>1, <2>2 DEF InTurn
<1>9. ASSUME reading' # None PROVE reading' = reading /\ queue # <<>> /\ queue' # <<>> /\ queue'[1] = queue[1]
  <2>1. k # 1 /\ reading' = reading /\ queue # <<>>
    BY <1>1, <1>2, <1>9
  <2>2. 1 < k /\ 1 \in 1 .. Len(rest)
    BY <1>4, <2>1
  <2>5. queue' = rest
    BY <1>2, <1>3 DEF Without
  <2>3. rest # <<>>
    BY <1>4, <2>2, EmptySeq
  <2>4. QED
    BY <1>4, <2>1, <2>2, <2>3, <2>5
<1>10. QED
  BY <1>8, <1>9 DEF LineKept

\* A step that writes no row and serves nothing new.
LEMMA AsideKeeps ==
  ASSUME ServedInv, Savings', LineKept, UNCHANGED <<row, versions, wrote, saved>>,
         cache' = cache \/ cache' = None,
         \A s \in Savers : /\ reading' # None /\ s = queue[1]
                           /\ saver'[s] # None /\ saver'[s].step = "refresh"
                           => saver[s] # None /\ saver[s].step = "refresh"
  PROVE  ServedInv'
<1>1. InTurn' /\ RowsInv'
  BY DEF ServedInv, RowsInv, LineKept, P!FromRow
<1>2. ReadingInv'
  BY DEF ServedInv, ReadingInv, LineKept
<1>3. SavedIsServed'
  BY DEF ServedInv, SavedIsServed, P!SavedIsServed
<1>4. QED
  BY <1>1, <1>2, <1>3 DEF ServedInv

\* What was read is served: it is no older than what was answered, and neither is what
\* this one answers.
LEMMA CacheKeeps ==
  ASSUME ServedInv, Savings', LineKept, UNCHANGED <<row, versions, wrote>>,
         NEW w \in Savers \cup Readers, P!Cache(w),
         \/ saved' = saved
         \/ /\ w \in Savers /\ saver[w] # None /\ saver[w].step = "refresh"
            /\ saved' = IF saved < wrote[w] THEN wrote[w] ELSE saved
  PROVE  ServedInv'
<1>1. /\ queue # <<>> /\ Head(queue) = w /\ reading # None /\ reading' = None
      /\ cache' = [of |-> reading, at |-> time]
  BY DEF P!Cache, P!Holds, P!Release
<1>2. w = queue[1]
  BY <1>1, LeftBy DEF ServedInv
<1>3. PICK n \in saved .. Len(versions) :
         /\ reading = versions[n]
         /\ \A s \in Savers :
               s = queue[1] /\ saver[s] # None /\ saver[s].step = "refresh" => wrote[s] <= n
  BY <1>1 DEF ServedInv, ReadingInv
<1>4. saved \in 1 .. Len(versions) /\ wrote \in [Savers -> 1 .. Len(versions)] /\ Len(versions) \in Nat
  BY LenProperties DEF ServedInv, RowsInv
<1>5. saved' \in 1 .. Len(versions) /\ saved' <= n
  BY <1>2, <1>3, <1>4
<1>6. RowsInv'
  BY <1>4, <1>5 DEF ServedInv, RowsInv, P!FromRow
<1>7. SavedIsServed'
  <2>1. n \in saved' .. Len(versions)
    BY <1>3, <1>4, <1>5
  <2>2. QED
    BY <1>1, <1>3, <2>1 DEF SavedIsServed, P!SavedIsServed
<1>8. QED
  BY <1>1, <1>6, <1>7 DEF ServedInv, ReadingInv, LineKept

\* The row is read.
LEMMA ReadKeeps ==
  ASSUME ServedInv, NEW w \in Savers \cup Readers, P!ReadRow(w) PROVE ServedInv'
<1>1. /\ queue # <<>> /\ reading' = P!FromRow(row)
      /\ UNCHANGED <<row, cache, queue, saver, asker, versions, wrote, saved>>
  BY DEF P!ReadRow, P!Holds, P!history
<1>2. Savings'
  BY <1>1 DEF ServedInv, Savings, P!FromRow
<1>3. InTurn'
  BY <1>1 DEF ServedInv, InTurn, InLine
<1>4. RowsInv' /\ SavedIsServed'
  BY <1>1 DEF ServedInv, RowsInv, SavedIsServed, P!SavedIsServed, P!FromRow
<1>5. ReadingInv'
  <2>1. /\ Len(versions) \in Nat /\ saved \in 1 .. Len(versions) /\ wrote \in [Savers -> 1 .. Len(versions)]
        /\ versions[Len(versions)] = P!FromRow(row)
    BY LenProperties DEF ServedInv, RowsInv
  <2>2. Len(versions) \in saved .. Len(versions) /\ \A s \in Savers : wrote[s] <= Len(versions)
    BY <2>1
  <2>3. QED
    BY <1>1, <2>1, <2>2 DEF ReadingInv
<1>6. QED
  BY <1>2, <1>3, <1>4, <1>5 DEF ServedInv

\* A reader's step.
LEMMA ReaderKeeps ==
  ASSUME ServedInv, NEW r \in Readers,
         \/ P!Ask(r) \/ P!Render(r) \/ P!Enabled(r) \/ P!Spared(r) \/ P!Told(r) \/ P!Untold(r)
  PROVE  ServedInv'
<1>1. /\ UNCHANGED <<row, saver, versions, wrote, saved>> /\ r \notin Savers
      /\ \E told : asker' = [asker EXCEPT ![r] = told]
      /\ reading' = reading \/ reading' = None
  BY SavingConstants DEF P!Ask, P!Render, P!Enabled, P!Spared, P!Told, P!Untold, P!Tell, P!Cache,
     P!Release, P!Leaves, P!history
<1>2. Savings'
  BY <1>1 DEF ServedInv, Savings
<1>3. \A v \in Savers \cup Readers : v # r /\ InLine(v) => InLine(v)'
  BY <1>1 DEF ServedInv, Savings, InLine
<1>5. CASE P!Ask(r) \/ (P!Enabled(r) /\ P!Cached)
  <2>1. UNCHANGED <<queue, reading, cache>> /\ asker[r] \in {None, "ask"}
    BY <1>5 DEF P!Ask, P!Enabled
  <2>2. ~InLine(r)
    BY <1>1, <2>1, SavingConstants DEF InLine
  <2>3. LineKept
    BY <1>3, <2>1, <2>2, LenProperties, ElementOfSeq DEF ServedInv, ReadingInv, InTurn, LineKept
  <2>4. QED
    BY <1>1, <1>2, <2>1, <2>3, AsideKeeps
<1>6. CASE P!Render(r) \/ (P!Enabled(r) /\ ~P!Cached)
  <2>1. /\ queue' = Append(queue, r) /\ UNCHANGED <<reading, cache>> /\ asker[r] \in {None, "ask"}
        /\ asker' = [asker EXCEPT ![r] = "refresh"] \/ asker' = [asker EXCEPT ![r] = "lock"]
    BY <1>6 DEF P!Render, P!Enabled, P!Await
  <2>2. ~InLine(r) /\ InLine(r)'
    BY <1>1, <2>1, SavingConstants DEF ServedInv, Savings, InLine
  <2>3. LineKept
    BY <1>3, <2>1, <2>2, Joins
  <2>4. QED
    BY <1>1, <1>2, <2>1, <2>3, AsideKeeps
<1>7. CASE P!Spared(r)
  <2>1. queue # <<>> /\ Head(queue) = r /\ queue' = Tail(queue) /\ reading' = None /\ UNCHANGED cache
    BY <1>7 DEF P!Spared, P!Holds, P!Release
  <2>2. LineKept
    BY <1>3, <2>1, Leaves
  <2>3. QED
    BY <1>1, <1>2, <2>1, <2>2, AsideKeeps
<1>8. CASE P!Told(r)
  <2>1. queue # <<>> /\ Head(queue) = r /\ queue' = Tail(queue) /\ reading' = None /\ P!Cache(r)
    BY <1>8 DEF P!Told, P!Cache, P!Holds, P!Release
  <2>2. LineKept
    BY <1>3, <2>1, Leaves
  <2>3. QED
    BY <1>1, <1>2, <2>1, <2>2, CacheKeeps
<1>9. CASE P!Untold(r)
  <2>1. P!Leaves(r) /\ UNCHANGED cache
    BY <1>9 DEF P!Untold
  <2>2. LineKept
    BY <1>3, <2>1, Fallen
  <2>3. QED
    BY <1>1, <1>2, <2>1, <2>2, AsideKeeps
<1>10. QED
  BY <1>5, <1>6, <1>7, <1>8, <1>9

\* What a saver's step does to what it remembers.
LEMMA SaverMoves ==
  ASSUME ServedInv, NEW s \in Savers, NEW save \in {None} \cup Saves,
         saver' = [saver EXCEPT ![s] = save], UNCHANGED asker,
         reading' = reading \/ reading' = None
  PROVE  /\ Savings' /\ saver'[s] = save
         /\ \A v \in Savers : v # s => saver'[v] = saver[v]
         /\ \A v \in Savers \cup Readers : v # s /\ InLine(v) => InLine(v)'
  BY DEF ServedInv, Savings, InLine

\* A saver goes to another step.
LEMMA SaverStep ==
  ASSUME ServedInv, NEW s \in Savers, saver[s] # None,
         NEW step \in {"current", "write", "forget", "refresh"}, P!Step(s, step)
  PROVE  \E save \in Saves : saver' = [saver EXCEPT ![s] = save] /\ save.step = step
<1>1. PICK old \in Saves : old = saver[s]
  BY DEF ServedInv, Savings
<1>2. [old EXCEPT !.step = step] \in Saves /\ [old EXCEPT !.step = step].step = step
  BY DEF Saves
<1>3. QED
  BY <1>1, <1>2 DEF P!Step

\* A save begins, or fails: nothing is written and nothing new is served.
LEMMA SaverAside ==
  ASSUME ServedInv, NEW s \in Savers, P!Save(s) \/ P!Refuse(s) \/ P!Fails(s) PROVE ServedInv'
<1>1. UNCHANGED <<row, cache, asker, versions, wrote, saved>>
  BY DEF P!Save, P!Refuse, P!Fails, P!history
<1>2. CASE P!Save(s)
  <2>1. PICK c \in Changes :
          saver' = [saver EXCEPT ![s] = [step |-> "current", changes |-> c, merged |-> None]]
    BY <1>2 DEF P!Save
  <2>2. queue' = Append(queue, s) /\ UNCHANGED reading /\ saver[s] = None
    BY <1>2 DEF P!Save, P!Await
  <2>3. PICK save \in Saves : save = [step |-> "current", changes |-> c, merged |-> None]
    BY DEF Saves
  <2>4. save.step = "current" /\ save # None /\ ~InLine(s)
    BY <2>2, <2>3, SavingConstants DEF InLine
  <2>5. /\ Savings' /\ saver'[s] = save
        /\ \A v \in Savers : v # s => saver'[v] = saver[v]
        /\ \A v \in Savers \cup Readers : v # s /\ InLine(v) => InLine(v)'
    BY <1>1, <2>1, <2>2, <2>3, SaverMoves
  <2>6. InLine(s)'
    BY <2>4, <2>5 DEF InLine
  <2>7. LineKept
    BY <2>2, <2>4, <2>5, <2>6, Joins
  <2>8. QED
    BY <1>1, <2>4, <2>5, <2>7, AsideKeeps
<1>3. CASE P!Refuse(s) \/ P!Fails(s)
  <2>1. saver' = [saver EXCEPT ![s] = None] /\ (reading' = reading \/ reading' = None)
    BY <1>3 DEF P!Refuse, P!Fails, P!Quit, P!Leaves
  <2>2. /\ Savings' /\ saver'[s] = None
        /\ \A v \in Savers : v # s => saver'[v] = saver[v]
        /\ \A v \in Savers \cup Readers : v # s /\ InLine(v) => InLine(v)'
    BY <1>1, <2>1, SaverMoves
  <2>3. CASE P!Refuse(s)
    <3>1. UNCHANGED <<queue, reading>> /\ saver[s] # None /\ saver[s].step \in {"write", "forget"}
      BY <2>3 DEF P!Refuse
    <3>2. ~InLine(s)
      BY <3>1, SavingConstants DEF InLine
    <3>3. LineKept
      BY <2>2, <3>1, <3>2, LenProperties, ElementOfSeq DEF ServedInv, ReadingInv, InTurn, LineKept
    <3>4. QED
      BY <1>1, <2>2, <3>3, AsideKeeps
  <2>4. CASE P!Fails(s)
    <3>1. LineKept
      BY <2>2, <2>4, Fallen DEF P!Fails
    <3>2. QED
      BY <1>1, <2>2, <3>1, AsideKeeps
  <2>5. QED
    BY <1>3, <2>3, <2>4
<1>4. QED
  BY <1>2, <1>3

\* The cache is forgotten, and the lock awaited again.
LEMMA ForgetKeeps == ASSUME ServedInv, NEW s \in Savers, P!Forget(s) PROVE ServedInv'
<1>1. /\ saver[s] # None /\ saver[s].step = "forget" /\ P!Step(s, "refresh") /\ cache' = None
      /\ queue' = Append(queue, s) /\ UNCHANGED <<row, reading, asker, versions, wrote, saved>>
  BY DEF P!Forget, P!Await, P!history
<1>2. PICK save \in Saves : saver' = [saver EXCEPT ![s] = save] /\ save.step = "refresh"
  BY <1>1, SaverStep
<1>3. /\ Savings' /\ saver'[s] = save
      /\ \A v \in Savers : v # s => saver'[v] = saver[v]
      /\ \A v \in Savers \cup Readers : v # s /\ InLine(v) => InLine(v)'
  BY <1>1, <1>2, SaverMoves
<1>4. ~InLine(s) /\ InLine(s)'
  BY <1>1, <1>2, <1>3, SavingConstants DEF InLine
<1>5. LineKept
  BY <1>1, <1>3, <1>4, Joins
<1>6. ASSUME queue # <<>> PROVE s # queue[1]
  <2>1. InTurn /\ 1 \in 1 .. Len(queue)
    BY <1>6, LeftBy DEF ServedInv
  <2>2. QED
    BY <1>4, <2>1 DEF InTurn
<1>7. QED
  BY <1>1, <1>3, <1>5, <1>6, AsideKeeps DEF LineKept

\* Either read of a saver is served.
LEMMA SaverCaches ==
  ASSUME ServedInv, NEW s \in Savers, P!Current(s) \/ P!Refreshed(s) PROVE ServedInv'
<1>1. /\ P!Cache(s) /\ queue # <<>> /\ Head(queue) = s /\ queue' = Tail(queue) /\ reading' = None
      /\ saver[s] # None /\ UNCHANGED <<row, asker, versions, wrote>>
      /\ \/ saved' = saved
         \/ /\ saver[s].step = "refresh"
            /\ saved' = IF saved < wrote[s] THEN wrote[s] ELSE saved
  BY DEF P!Current, P!Refreshed, P!Answered, P!Cache, P!Holds, P!Release, P!history
<1>2. PICK save \in {None} \cup Saves : saver' = [saver EXCEPT ![s] = save]
  <2>1. CASE P!Refreshed(s)
    BY <2>1 DEF P!Refreshed, P!Answered, P!Quit
  <2>2. CASE P!Current(s)
    <3>1. PICK m \in [Categories -> BOOLEAN] :
            saver' = [saver EXCEPT ![s].step = "write", ![s].merged = m]
      BY <2>2 DEF P!Current, P!Merged
    <3>2. PICK old \in Saves : old = saver[s]
      BY <1>1 DEF ServedInv, Savings
    <3>3. PICK save \in Saves : save = [old EXCEPT !.step = "write", !.merged = m]
      BY DEF Saves
    <3>4. QED
      BY <3>1, <3>2, <3>3
  <2>3. QED
    BY <2>1, <2>2
<1>3. Savings' /\ \A v \in Savers \cup Readers : v # s /\ InLine(v) => InLine(v)'
  BY <1>1, <1>2, SaverMoves
<1>4. LineKept
  BY <1>1, <1>3, Leaves
<1>5. QED
  BY <1>1, <1>3, <1>4, CacheKeeps

\* A row is written: it is the last of the rows, and not yet answered.
LEMMA WriteKeeps == ASSUME ServedInv, NEW s \in Savers, P!Write(s) PROVE ServedInv'
<1>1. /\ saver[s] # None /\ saver[s].step = "write" /\ P!Step(s, "forget")
      /\ versions' = Append(versions, P!FromRow(row')) /\ wrote' = [wrote EXCEPT ![s] = Len(versions) + 1]
      /\ UNCHANGED <<cache, queue, reading, asker, saved>>
  BY DEF P!Write
<1>2. PICK save \in Saves : saver' = [saver EXCEPT ![s] = save] /\ save.step = "forget"
  BY <1>1, SaverStep
<1>3. /\ Savings' /\ saver'[s] = save
      /\ \A v \in Savers : v # s => saver'[v] = saver[v]
      /\ \A v \in Savers \cup Readers : v # s /\ InLine(v) => InLine(v)'
  BY <1>1, <1>2, SaverMoves
<1>4. ~InLine(s)
  BY <1>1, SavingConstants DEF InLine
<1>5. InTurn'
  BY <1>1, <1>3, <1>4, LenProperties, ElementOfSeq DEF ServedInv, InTurn
<1>6. PICK new \in [Categories -> BOOLEAN] : new = P!FromRow(row')
  BY DEF P!FromRow
<1>7. /\ versions' \in Seq([Categories -> BOOLEAN]) /\ versions' # <<>> /\ Len(versions') = Len(versions) + 1
      /\ versions'[Len(versions) + 1] = new /\ \A i \in 1 .. Len(versions) : versions'[i] = versions[i]
  BY <1>1, <1>6, AppendProperties DEF ServedInv, RowsInv
<1>8. /\ saved \in 1 .. Len(versions) /\ wrote \in [Savers -> 1 .. Len(versions)] /\ Len(versions) \in Nat
  BY LenProperties DEF ServedInv, RowsInv
<1>9. RowsInv'
  <2>1. saved' \in 1 .. Len(versions') /\ versions'[Len(versions')] = new
    BY <1>1, <1>7, <1>8
  <2>2. wrote' \in [Savers -> 1 .. Len(versions')]
    BY <1>1, <1>7, <1>8
  <2>3. P!FromRow(row)' = P!FromRow(row')
    BY DEF P!FromRow
  <2>4. QED
    BY <1>6, <1>7, <2>1, <2>2, <2>3 DEF RowsInv
<1>10. \A n \in saved .. Len(versions) : n \in saved .. Len(versions') /\ versions'[n] = versions[n]
  BY <1>7, <1>8
<1>11. SavedIsServed'
  BY <1>1, <1>10 DEF ServedInv, SavedIsServed, P!SavedIsServed
<1>12. ASSUME reading # None
       PROVE  queue # <<>> /\ \E n \in saved .. Len(versions') :
                  /\ reading = versions'[n]
                  /\ \A v \in Savers : v = queue[1] /\ saver'[v] # None /\ saver'[v].step = "refresh"
                                       => wrote'[v] <= n
  <2>1. PICK n \in saved .. Len(versions) :
           /\ reading = versions[n]
           /\ \A v \in Savers :
                 v = queue[1] /\ saver[v] # None /\ saver[v].step = "refresh" => wrote[v] <= n
    BY <1>12 DEF ServedInv, ReadingInv
  <2>2. \A v \in Savers : v # s => wrote'[v] = wrote[v] /\ saver'[v] = saver[v]
    BY <1>1, <1>3, <1>8
  <2>3. saver'[s].step = "forget"
    BY <1>2, <1>3
  <2>4. QED
    BY <1>10, <1>12, <2>1, <2>2, <2>3 DEF ServedInv, ReadingInv
<1>13. ReadingInv'
  BY <1>1, <1>12 DEF ReadingInv
<1>14. QED
  BY <1>3, <1>5, <1>9, <1>11, <1>13 DEF ServedInv

\* Every step of the savers and readers.
LEMMA ServedStep == ServedInv /\ [P!Next]_P!vars => ServedInv'
<1> SUFFICES ASSUME ServedInv, [P!Next]_P!vars PROVE ServedInv'
  OBVIOUS
<1>1. CASE P!Tick \/ UNCHANGED P!vars
  <2>1. UNCHANGED <<row, cache, queue, reading, saver, asker, versions, wrote, saved>>
    BY <1>1 DEF P!Tick, P!vars, P!history
  <2>2. QED
    BY <2>1 DEF ServedInv, Savings, InTurn, InLine, RowsInv, ReadingInv, SavedIsServed,
       P!SavedIsServed, P!FromRow
<1>2. CASE P!Next
  BY <1>1, <1>2, ReadKeeps, ReaderKeeps, SaverAside, ForgetKeeps, SaverCaches, WriteKeeps DEF P!Next
<1>3. QED
  BY <1>1, <1>2

\* The lock is a queue of those who await it, wherever one of them fails, and what its
\* holder has read is no older than what was answered (snapshot, update).
THEOREM PreferencesInvariant == Explored => []ServedInv
<1>1. P!Init => ServedInv
  <2>1. SUFFICES ASSUME P!Init PROVE ServedInv
    OBVIOUS
  <2>7. queue \in Seq(Savers \cup Readers) /\ Len(queue) = 0
    BY <2>1, EmptySeq DEF P!Init
  <2>2. Savings /\ InTurn /\ ReadingInv /\ SavedIsServed
    BY <2>1, <2>7 DEF P!Init, Savings, InTurn, ReadingInv, SavedIsServed, P!SavedIsServed
  <2>3. PICK first \in [Categories -> BOOLEAN] : first = P!FromRow(row)
    BY DEF P!FromRow
  <2>4. versions = <<first>>
    BY <2>1, <2>3 DEF P!Init, P!FromRow
  <2>5. versions \in Seq([Categories -> BOOLEAN]) /\ Len(versions) = 1 /\ versions[1] = first /\ versions # <<>>
    BY <2>4
  <2>6. QED
    BY <2>1, <2>2, <2>3, <2>5 DEF ServedInv, RowsInv, P!Init
<1>2. QED
  BY <1>1, ServedStep, EachPart, PTL DEF P!Spec

\* What is served is never older than a save that was answered: whatever readers read the
\* row before it and waited, and whichever reads, commits and requests fail (update).
THEOREM Served == Explored => []SavedIsServed
<1>1. ServedInv => SavedIsServed
  BY DEF ServedInv
<1>2. QED
  BY <1>1, PreferencesInvariant, PTL

-----------------------------------------------------------------------------
(* Health: what the mirror shows.                                          *)

\* Who awaits the registry's lock brings rows no older than what was written before.
LockInv ==
    /\ records \in Nat /\ mirror \in Nat /\ lock \in Seq(Nat)
    /\ \A i \in 1 .. Len(lock) : mirror <= lock[i] /\ lock[i] <= records
    /\ \A i, j \in 1 .. Len(lock) : i <= j => lock[i] <= lock[j]
    /\ mirror <= records

\* The plan of the startup sweep is counted.
LEMMA PlanCounted == H!Cardinality(Plan) \in Nat
<1>1. Cardinality(Plan) \in Nat
  BY FS_CardinalityType, IntakeAssumption
<1>2. QED
  BY <1>1 DEF H!Cardinality, Cardinality

\* A record is newer than all that await the lock.
LEMMA Joining ==
  ASSUME LockInv, NEW count \in Nat, records <= count, mirror' = mirror,
         records' = count, lock' = lock \/ lock' = Append(lock, count)
  PROVE  LockInv'
<1>1. CASE lock' = lock
  BY <1>1, LenProperties DEF LockInv
<1>2. CASE lock' = Append(lock, count)
  <2>1. /\ lock' \in Seq(Nat) /\ Len(lock') = Len(lock) + 1 /\ Len(lock) \in Nat
        /\ \A i \in 1 .. Len(lock) : lock'[i] = lock[i]
        /\ lock'[Len(lock) + 1] = count
    BY <1>2, AppendProperties, LenProperties DEF LockInv
  <2>2. \A i \in 1 .. Len(lock') : i = Len(lock) + 1 \/ i \in 1 .. Len(lock)
    BY <2>1
  <2>3. \A i \in 1 .. Len(lock) : lock[i] \in Nat
    BY ElementOfSeq DEF LockInv
  <2>4. ASSUME NEW i \in 1 .. Len(lock') PROVE mirror <= lock'[i] /\ lock'[i] <= count
    <3>1. CASE i = Len(lock) + 1
      BY <2>1, <3>1 DEF LockInv
    <3>2. CASE i \in 1 .. Len(lock)
      <4>1. /\ lock'[i] = lock[i] /\ lock[i] \in Nat
            /\ mirror <= lock[i] /\ lock[i] <= records
        BY <2>1, <2>3, <3>2 DEF LockInv
      <4>2. QED
        BY <4>1 DEF LockInv
    <3>3. QED
      BY <2>2, <2>4, <3>1, <3>2
  <2>5. ASSUME NEW i \in 1 .. Len(lock'), NEW j \in 1 .. Len(lock'), i <= j
        PROVE  lock'[i] <= lock'[j]
    <3>1. CASE j = Len(lock) + 1
      BY <2>1, <2>4, <3>1
    <3>2. CASE j \in 1 .. Len(lock)
      <4>1. i \in 1 .. Len(lock)
        BY <2>1, <2>5, <3>2
      <4>2. QED
        BY <2>1, <2>5, <3>2, <4>1 DEF LockInv
    <3>3. QED
      BY <2>2, <2>5, <3>1, <3>2
  <2>6. QED
    BY <2>1, <2>4, <2>5 DEF LockInv
<1>3. QED
  BY <1>1, <1>2

\* Writing a record keeps the lock and never takes the mirror back.
LEMMA Upserted ==
  ASSUME LockInv, H!Upsert
  PROVE  LockInv' /\ mirror' >= mirror
<1>1. lock # <<>> /\ lock' = H!RemoveAt(lock, 1) /\ mirror' \in {lock[1], mirror} /\ records' = records
  BY EmptySeq DEF H!Upsert, H!Commits, H!board, LockInv
<1>2. Len(lock) \in Nat \ {0}
  BY <1>1, EmptySeq, LenProperties DEF LockInv
<1>3. /\ lock' \in Seq(Nat) /\ Len(lock') = Len(lock) - 1
      /\ \A i \in 1 .. Len(lock') : lock'[i] = lock[i + 1]
  <2>1. H!RemoveAt(lock, 1) = [i \in 1 .. Len(lock) - 1 |-> lock[i + 1]]
    BY <1>2 DEF H!RemoveAt, LockInv
  <2>2. \A i \in 1 .. Len(lock) - 1 : lock[i + 1] \in Nat
    BY <1>2, ElementOfSeq DEF LockInv
  <2>3. lock' = [i \in 1 .. Len(lock) - 1 |-> lock[i + 1]] /\ Len(lock) - 1 \in Nat
    BY <1>1, <1>2, <2>1
  <2>4. [i \in 1 .. Len(lock) - 1 |-> lock[i + 1]] \in Seq(Nat)
    BY <1>2, <2>2, IsASeq
  <2>5. Len(lock') = Len(lock) - 1
    BY <2>3, <2>4, LenProperties
  <2>6. QED
    BY <2>3, <2>4, <2>5
<1>4. lock[1] \in Nat /\ mirror <= lock[1] /\ lock[1] <= records
      /\ \A i \in 1 .. Len(lock') : lock[i + 1] \in Nat /\ lock[1] <= lock[i + 1] /\ lock[i + 1] <= records
  BY <1>2, <1>3, ElementOfSeq DEF LockInv
<1>5. mirror' \in Nat /\ mirror <= mirror' /\ mirror' <= lock[1]
  BY <1>1, <1>4 DEF LockInv
<1>6. ASSUME NEW i \in 1 .. Len(lock') PROVE mirror' <= lock'[i] /\ lock'[i] <= records
  <2>1. /\ lock'[i] = lock[i + 1] /\ lock[i + 1] \in Nat
        /\ lock[1] <= lock[i + 1] /\ lock[i + 1] <= records
    BY <1>3, <1>4
  <2>2. QED
    BY <1>4, <1>5, <2>1
<1>7. ASSUME NEW i \in 1 .. Len(lock'), NEW j \in 1 .. Len(lock'), i <= j
      PROVE  lock'[i] <= lock'[j]
  <2>1. i + 1 \in 1 .. Len(lock) /\ j + 1 \in 1 .. Len(lock) /\ i + 1 <= j + 1
    BY <1>2, <1>3, <1>7
  <2>2. lock[i + 1] <= lock[j + 1]
    BY <2>1 DEF LockInv
  <2>3. QED
    BY <1>3, <2>2
<1>8. QED
  BY <1>1, <1>3, <1>4, <1>5, <1>6, <1>7 DEF LockInv

\* Every step of the health worker.
LEMMA LockStep ==
  LockInv /\ [H!Next]_H!vars => LockInv' /\ [mirror' >= mirror]_H!vars
<1> SUFFICES ASSUME LockInv, [H!Next]_H!vars PROVE LockInv' /\ mirror' >= mirror
  OBVIOUS
<1>0. records \in Nat /\ mirror \in Nat
  BY DEF LockInv
<1>1. CASE H!Upsert
  BY <1>1, Upserted
<1>2. ASSUME NEW count \in Nat, records <= count, mirror' = mirror,
             records' = count, lock' = lock \/ lock' = Append(lock, count)
      PROVE  LockInv' /\ mirror' >= mirror
  BY <1>0, <1>2, Joining
<1>3. CASE H!Tick
  BY <1>0, <1>2, <1>3 DEF H!Tick, H!board, H!mirroring
<1>4. CASE H!ProbeEnabledProviders
  <2>1. records' = records + H!Cardinality(Plan) /\ lock' = Append(lock, records') /\ mirror' = mirror
    BY <1>4 DEF H!ProbeEnabledProviders
  <2>2. QED
    BY <1>0, <1>2, <2>1, PlanCounted
<1>5. CASE H!Persist
  BY <1>0, <1>2, <1>5 DEF H!Persist, H!board
<1>6. ASSUME NEW p \in H!Providers, H!Work(p) \/ H!Probe(p) PROVE LockInv' /\ mirror' >= mirror
  BY <1>0, <1>2, <1>6 DEF H!Work, H!Probe, H!Record, H!board, H!mirroring
<1>7. ASSUME NEW r \in Requests, H!Ask(r) \/ H!Select(r) \/ H!CheckDatabase(r)
      PROVE  LockInv' /\ mirror' >= mirror
  BY <1>0, <1>2, <1>7 DEF H!Ask, H!Select, H!CheckDatabase, H!Record, H!board, H!mirroring
<1>8. CASE UNCHANGED H!vars
  BY <1>0, <1>2, <1>8 DEF H!vars
<1>9. QED
  BY <1>1, <1>3, <1>4, <1>5, <1>6, <1>7, <1>8 DEF H!Next

\* The lock holds rows in the order they were taken.
THEOREM LockInvariant == Explored => []LockInv
<1>1. H!Init => LockInv
  BY EmptySeq DEF H!Init, LockInv
<1>2. QED
  BY <1>1, LockStep, EachPart, PTL DEF H!Spec

\* The health table never goes back in time, although the startup sweep and the
\* schedule write it concurrently (HealthRegistry.persist).
THEOREM MirrorGoesOn == Explored => MirrorNeverGoesBack
<1>1. QED
  BY LockStep, LockInvariant, EachPart, PTL DEF H!Spec, MirrorNeverGoesBack, H!MirrorNeverGoesBack

-----------------------------------------------------------------------------
(* Health: whoever is told that the application is ready.                  *)

Probing == [since : Nat, answer : {None, "HEALTHY", "DOWN"}]

ReadyInv ==
    /\ {second, lastUp, checked} \subseteq Nat /\ lastUp <= second /\ checked <= second
    /\ up => lastUp = second
    /\ status = [p \in H!Providers |-> status[p]]
    /\ status["postgres"] = "HEALTHY" => checked - lastUp <= ProbeTimeout
    /\ request \in [Requests -> {None} \cup Probing]
    /\ \A r \in Requests : request[r] # None =>
          /\ request[r].since <= second /\ second <= request[r].since + ProbeTimeout
          /\ request[r].answer = "HEALTHY" => request[r].since <= lastUp
    /\ ready \subseteq {second}
    /\ ReadyIsRecent

\* Every step of a request for readiness.
LEMMA ReadyStep == ReadyInv /\ [H!Next]_H!vars => ReadyInv'
<1> SUFFICES ASSUME ReadyInv, [H!Next]_H!vars PROVE ReadyInv'
  OBVIOUS
<1>0. /\ MaxAge \in Nat /\ ProbeTimeout \in Nat /\ MaxAge > 0 /\ "postgres" \notin Plan
      /\ None # "HEALTHY" /\ None # "DOWN" /\ "postgres" \in H!Providers
  BY IntakeAssumption DEF H!Statuses, H!Severity, H!Providers
<1>1. CASE H!Tick
  <2>1. /\ second' = second + 1 /\ ready' = {} /\ up' \in BOOLEAN
        /\ lastUp' = IF up' THEN second' ELSE lastUp
        /\ UNCHANGED <<checked, status, request>>
        /\ \A r \in Requests : request[r] # None => second < request[r].since + ProbeTimeout
    BY <1>1 DEF H!Tick, H!board
  <2>2. {second', lastUp', checked'} \subseteq Nat /\ lastUp <= lastUp' /\ lastUp' <= second'
    BY <2>1 DEF ReadyInv
  <2>3. status'["postgres"] = "HEALTHY" => checked' - lastUp' <= ProbeTimeout
    BY <1>0, <2>1, <2>2 DEF ReadyInv
  <2>4. ASSUME NEW r \in Requests, request'[r] # None
        PROVE  /\ request'[r].since <= second' /\ second' <= request'[r].since + ProbeTimeout
               /\ request'[r].answer = "HEALTHY" => request'[r].since <= lastUp'
    <3>1. PICK probe \in Probing : probe = request[r]
      BY <2>1, <2>4 DEF ReadyInv
    <3>2. probe.since \in Nat
      BY <3>1 DEF Probing
    <3>3. QED
      BY <1>0, <2>1, <2>2, <2>4, <3>1, <3>2 DEF ReadyInv
  <2>5. QED
    BY <2>1, <2>2, <2>3, <2>4 DEF ReadyInv, ReadyIsRecent, H!ReadyIsRecent
\* A record of another provider says nothing of PostgreSQL.
<1>2. ASSUME status'["postgres"] = status["postgres"], checked' = checked,
             status' = [p \in H!Providers |-> status'[p]],
             UNCHANGED <<second, up, lastUp, request, ready>>
      PROVE  ReadyInv'
  BY <1>2 DEF ReadyInv, ReadyIsRecent, H!ReadyIsRecent
<1>3. CASE H!ProbeEnabledProviders
  BY <1>0, <1>2, <1>3 DEF H!ProbeEnabledProviders, H!world
<1>4. CASE H!Persist \/ H!Upsert
  BY <1>2, <1>4 DEF H!Persist, H!Upsert, H!world, H!board, ReadyInv
<1>5. ASSUME NEW p \in H!Providers, H!Work(p) PROVE ReadyInv'
  BY <1>0, <1>2, <1>5 DEF H!Work, H!Record, H!world, ReadyInv
<1>6. ASSUME NEW p \in H!Providers, H!Probe(p) PROVE ReadyInv'
  BY <1>2, <1>6 DEF H!Probe, H!world, H!board, ReadyInv
<1>7. ASSUME NEW r \in Requests, H!Ask(r) PROVE ReadyInv'
  <2>1. request[r] = None /\ UNCHANGED <<second, up, lastUp, status, checked, records>>
    BY <1>7 DEF H!Ask, H!world, H!board
  <2>2. CASE second - checked < MaxAge
    <3>1. request' = request
          /\ ready' = IF status.postgres = "HEALTHY" THEN ready \cup {second} ELSE ready
      BY <1>7, <2>2 DEF H!Ask, H!Fresh, H!Answer
    <3>2. status.postgres = "HEALTHY" => second - lastUp < ProbeTimeout + MaxAge
      BY <1>0, <2>2 DEF ReadyInv
    <3>3. QED
      BY <2>1, <3>1, <3>2 DEF ReadyInv, ReadyIsRecent, H!ReadyIsRecent
  <2>3. CASE ~(second - checked < MaxAge)
    <3>1. ready' = ready /\ request' = [request EXCEPT ![r] = [since |-> second, answer |-> None]]
      BY <1>7, <2>3 DEF H!Ask, H!Fresh
    <3>2. PICK probe \in Probing : probe.since = second /\ probe.answer = None
                                   /\ probe = [since |-> second, answer |-> None]
      BY DEF Probing, ReadyInv
    <3>3. request' \in [Requests -> {None} \cup Probing] /\ request'[r] = probe
          /\ \A q \in Requests : q # r => request'[q] = request[q]
      BY <3>1, <3>2 DEF ReadyInv
    <3>4. second <= second /\ second <= second + ProbeTimeout
      BY <1>0 DEF ReadyInv
    <3>5. QED
      BY <1>0, <2>1, <3>1, <3>2, <3>3, <3>4 DEF ReadyInv, ReadyIsRecent, H!ReadyIsRecent
  <2>4. QED
    BY <2>2, <2>3
<1>8. ASSUME NEW r \in Requests, H!Select(r) PROVE ReadyInv'
  <2>1. /\ request[r] # None
        /\ request' = [request EXCEPT ![r].answer = IF up THEN "HEALTHY" ELSE "DOWN"]
        /\ UNCHANGED <<second, up, lastUp, status, checked, ready>>
    BY <1>8 DEF H!Select, H!world, H!board
  <2>2. PICK old \in Probing : old = request[r]
    BY <2>1 DEF ReadyInv
  <2>3. PICK probe \in Probing : /\ probe = [old EXCEPT !.answer = IF up THEN "HEALTHY" ELSE "DOWN"]
                                 /\ probe.since = old.since
                                 /\ probe.answer = IF up THEN "HEALTHY" ELSE "DOWN"
    <3>1. PICK s \in {"HEALTHY", "DOWN"} : s = IF up THEN "HEALTHY" ELSE "DOWN"
      OBVIOUS
    <3>2. [old EXCEPT !.answer = s] \in Probing /\ [old EXCEPT !.answer = s].since = old.since
          /\ [old EXCEPT !.answer = s].answer = s
      BY DEF Probing
    <3>3. QED
      BY <3>1, <3>2
  <2>4. request' \in [Requests -> {None} \cup Probing] /\ request'[r] = probe
        /\ \A q \in Requests : q # r => request'[q] = request[q]
    BY <2>1, <2>2, <2>3 DEF ReadyInv
  <2>5. /\ probe.since <= second /\ second <= probe.since + ProbeTimeout
        /\ probe.answer = "HEALTHY" => probe.since <= lastUp
    BY <2>1, <2>2, <2>3 DEF ReadyInv
  <2>6. QED
    BY <2>1, <2>4, <2>5 DEF ReadyInv, ReadyIsRecent, H!ReadyIsRecent
<1>9. ASSUME NEW r \in Requests, H!CheckDatabase(r) PROVE ReadyInv'
  <2>1. PICK s : /\ s = request[r].answer \/ s = "DOWN"
                 /\ request[r] # None /\ request' = [request EXCEPT ![r] = None]
                 /\ status' = [status EXCEPT !["postgres"] = s] /\ checked' = second
                 /\ ready' = IF status'.postgres = "HEALTHY" THEN ready \cup {second} ELSE ready
                 /\ UNCHANGED <<second, up, lastUp>>
    BY <1>9 DEF H!CheckDatabase, H!Record, H!Answer, H!world
  <2>2. PICK probe \in Probing : probe = request[r] /\ probe.since \in Nat
    BY <2>1 DEF ReadyInv, Probing
  <2>3. status'["postgres"] = s /\ status' = [p \in H!Providers |-> status'[p]]
    BY <1>0, <2>1 DEF ReadyInv
  <2>4. s = "HEALTHY" => second - lastUp <= ProbeTimeout /\ second - lastUp < ProbeTimeout + MaxAge
    BY <1>0, <2>1, <2>2 DEF ReadyInv
  <2>5. /\ request' \in [Requests -> {None} \cup Probing]
        /\ \A q \in Requests : request'[q] # None => request'[q] = request[q]
    BY <2>1 DEF ReadyInv
  <2>6. QED
    BY <2>1, <2>3, <2>4, <2>5 DEF ReadyInv, ReadyIsRecent, H!ReadyIsRecent
<1>10. CASE UNCHANGED H!vars
  BY <1>2, <1>10 DEF H!vars, ReadyInv
<1>11. QED
  BY <1>1, <1>3, <1>4, <1>5, <1>6, <1>7, <1>8, <1>9, <1>10 DEF H!Next

\* A healthy record is no older than its probe was long.
THEOREM ReadinessInvariant == Explored => []ReadyInv
<1>1. H!Init => ReadyInv
  BY IntakeAssumption DEF H!Init, ReadyInv, ReadyIsRecent, H!ReadyIsRecent
<1>2. QED
  BY <1>1, ReadyStep, EachPart, PTL DEF H!Spec

\* Whoever is told that the application is ready, the database has answered within
\* the probe's timeout and the age a result may have (the readiness endpoint).
THEOREM Ready == Explored => []ReadyIsRecent
<1>1. ReadyInv => ReadyIsRecent
  BY DEF ReadyInv
<1>2. QED
  BY <1>1, ReadinessInvariant, PTL

-----------------------------------------------------------------------------
(* Evidence: what a run could have known.                                  *)

\* A provider's day, and its last tick.
LEMMA Division ==
  ASSUME NEW x \in Int, NEW d \in Nat \ {0}
  PROVE  x \div d \in Int /\ x = d * (x \div d) + (x % d) /\ x % d \in 0 .. d - 1
  OBVIOUS

\* A moment of a day, or of an earlier one, comes before the day is over.
LEMMA DayEnds ==
  ASSUME NEW x \in Int, NEW day \in Int, NEW d \in Nat \ {0}, x \div d <= day
  PROVE  x <= (day + 1) * d - 1
  OBVIOUS

\* A moment of an earlier day is an earlier moment.
LEMMA DayBefore ==
  ASSUME NEW x \in Int, NEW y \in Int, NEW d \in Nat \ {0}, x \div d <= (y \div d) - 1
  PROVE  x < y
  BY Division

Fact == [source : {E!Sources[i] : i \in 1 .. 6}, public : Int]
Heard == [source : {E!Sources[i] : i \in 1 .. 6}, items : SUBSET Fact]

\* A source that only knows the present is asked while the present is the moment
\* the run is about, or nearly so, and answers within its timeout.
Asking ==
    /\ now \in Nat /\ asked \in {None} \cup Nat /\ waiting \in {None} \cup Nat
    /\ stage \in 0 .. 6
    /\ asked # None => asked <= now
    /\ waiting # None =>
          /\ asked # None /\ stage < 6 /\ waiting <= now /\ now <= waiting + Timeout
          /\ E!Source \in E!CurrentOnly => waiting - asked <= Tolerance

KnownInv ==
    /\ Asking
    /\ asked = None => documents = {} /\ context = <<>>
    /\ context \in Seq(Heard)
    /\ KnowableAtCutoff

\* What an answer may tell.
Fit(items) == items \subseteq Fact /\ \A i \in items : i.public <= E!Horizon(i.source)

\* Items at ticks within the horizon of their source fit a pack.
LEMMA ItemsFit ==
  ASSUME NEW s \in {E!Sources[i] : i \in 1 .. 6}, NEW ticks,
         \A t \in ticks : t \in Int /\ t <= E!Horizon(s)
  PROVE  Fit(E!Items(s, ticks))
  BY DEF E!Items, Fit, Fact

\* Whatever a source answers fits a pack.
LEMMA AnswerFits ==
  ASSUME Asking, waiting # None, NEW c \in E!Contexts(E!Source), c # None
  PROVE  Fit(c)
<1>0. /\ now \in Nat /\ asked \in Nat /\ waiting \in Nat /\ asked <= now
      /\ DayLength \in Nat \ {0} /\ Chicago \in Int /\ Tolerance \in Nat /\ Timeout \in Nat
  BY IntakeAssumption DEF Asking
<1>1. E!Source \in {"fred", "alpaca", "sec", "finnhub", "yfinance", "polymarket"}
      /\ {E!Sources[i] : i \in 1 .. 6}
            = {"fred", "alpaca", "sec", "finnhub", "yfinance", "polymarket"}
  <2>1. stage \in {0, 1, 2, 3, 4, 5}
    BY DEF Asking
  <2>2. QED
    BY <2>1 DEF E!Source, E!Sources
\* A source of the present.
<1>2. ASSUME E!Source \in E!CurrentOnly
      PROVE  now <= E!Horizon(E!Source)
  BY <1>0, <1>2 DEF Asking, E!Horizon, E!CurrentOnly
<1>3. CASE E!Source = "fred"
  <2>1. c = E!Items("fred", {r.from : r \in E!InEffect})
    BY <1>3 DEF E!Contexts, E!Fred
  <2>2. ASSUME NEW r \in E!InEffect PROVE r.from \in Int /\ r.from <= asked
    <3>1. /\ r \in Releases /\ E!ChicagoDay(r.from) <= E!Vintage
      BY DEF E!InEffect
    <3>2. r.from \in Int
      BY <3>1, IntakeAssumption
    <3>3. E!Min({asked, now}) = asked
      BY <1>0 DEF E!Min
    <3>4. (r.from - Chicago) \div DayLength <= ((asked - Chicago) \div DayLength) - 1
      BY <3>1, <3>3 DEF E!ChicagoDay, E!Vintage
    <3>a. r.from - Chicago \in Int /\ asked - Chicago \in Int
      BY <1>0, <3>2
    <3>5. r.from - Chicago < asked - Chicago
      BY <1>0, <3>4, <3>a, DayBefore
    <3>6. QED
      BY <1>0, <3>2, <3>5
  <2>3. E!Horizon("fred") = asked
    BY DEF E!Horizon, E!CurrentOnly
  <2>4. QED
    BY <1>1, <1>3, <2>1, <2>2, <2>3, ItemsFit
<1>4. CASE E!Source = "alpaca"
  <2>1. PICK b \in BOOLEAN : c = E!Alpaca(b)
    BY <1>4 DEF E!Contexts
  <2> DEFINE ticks == {t + DayLength : t \in E!Completed}
                      \cup (IF b THEN {t + 1 : t \in E!MinuteBars} ELSE {})
  <2>2. c = E!Items("alpaca", ticks)
    BY <2>1, <1>4 DEF E!Alpaca
  <2>3. \A t \in E!Completed : t + DayLength \in Int /\ t + DayLength <= asked
    BY <1>0 DEF E!Completed, E!DailyBars
  <2>4. \A t \in E!MinuteBars : t + 1 \in Int /\ t + 1 <= asked
    BY <1>0, IntakeAssumption DEF E!MinuteBars
  <2>5. \A t \in ticks : t \in Int /\ t <= asked
    BY <2>3, <2>4
  <2>6. E!Horizon("alpaca") = asked
    BY DEF E!Horizon, E!CurrentOnly
  <2> HIDE DEF ticks
  <2>7. QED
    BY <1>1, <1>4, <2>2, <2>5, <2>6, ItemsFit
<1>5. CASE E!Source = "sec"
  <2>1. c = E!Items("sec", {r.public : r \in {x \in E!Out(Reports) : E!FiledBy(x)}})
    BY <1>5 DEF E!Contexts, E!Sec, E!OrRaise
  <2>2. ASSUME NEW r \in Reports, E!FiledBy(r)
        PROVE  r.public \in Int /\ r.public <= E!EndOfDay(asked)
    <3>1. r.public \in Int /\ r.public \div DayLength <= asked \div DayLength
      BY <2>2, IntakeAssumption DEF E!FiledBy, E!Day
    <3>2. asked \div DayLength \in Int
      BY <1>0, Division
    <3>3. r.public <= (asked \div DayLength + 1) * DayLength - 1
      BY <1>0, <3>1, <3>2, DayEnds
    <3>4. QED
      BY <3>1, <3>3 DEF E!EndOfDay, E!Day
  <2>3. E!Horizon("sec") = E!EndOfDay(asked)
    BY DEF E!Horizon, E!CurrentOnly
  <2>4. QED
    BY <1>1, <1>5, <2>1, <2>2, <2>3, ItemsFit DEF E!Out
<1>6. CASE E!Source = "finnhub"
  <2>1. PICK lists \in SUBSET {"ratings", "insider", "earnings"} : c = E!Finnhub(lists)
    BY <1>6 DEF E!Contexts
  <2> DEFINE ticks == UNION { IF "ratings" \in lists THEN E!KnownOf(Ratings) ELSE {},
                              IF "insider" \in lists THEN E!FiledOf(Insider) ELSE {},
                              IF "earnings" \in lists THEN E!KnownOf(Earnings) ELSE {} }
  <2>2. c = E!Items("finnhub", ticks)
    BY <2>1, <1>6 DEF E!Finnhub, E!OrRaise
  <2>3. /\ \A t \in E!KnownOf(Ratings) : t \in Int /\ t <= now
        /\ \A t \in E!FiledOf(Insider) : t \in Int /\ t <= now
        /\ \A t \in E!KnownOf(Earnings) : t \in Int /\ t <= now
    BY IntakeAssumption DEF E!KnownOf, E!FiledOf, E!Out
  <2>4. \A t \in ticks : t \in Int /\ t <= now
    BY <2>3
  <2>5. E!Horizon("finnhub") \in Int /\ now <= E!Horizon("finnhub")
    BY <1>0, <1>2, <1>6 DEF E!Horizon, E!CurrentOnly
  <2> HIDE DEF ticks
  <2>6. \A t \in ticks : t <= E!Horizon("finnhub")
    BY <1>0, <2>4, <2>5
  <2>7. QED
    BY <1>1, <1>6, <2>2, <2>4, <2>6, ItemsFit
<1>7. CASE E!Source \in {"yfinance", "polymarket"}
  <2>1. c = E!Items(E!Source, {now})
    BY <1>7 DEF E!Contexts, E!YFinance, E!Polymarket
  <2>2. now <= E!Horizon(E!Source)
    BY <1>2, <1>7 DEF E!CurrentOnly
  <2>3. QED
    BY <1>0, <1>1, <1>7, <2>1, <2>2, ItemsFit
<1>8. QED
  BY <1>1, <1>3, <1>4, <1>5, <1>6, <1>7

\* Every step of a research run.
LEMMA KnownStep == KnownInv /\ [E!Next]_E!vars => KnownInv'
<1> SUFFICES ASSUME KnownInv, [E!Next]_E!vars PROVE KnownInv'
  OBVIOUS
<1>0. Asking /\ None \notin Nat /\ Tolerance \in Nat /\ Timeout \in Nat /\ Len(E!Sources) = 6
  BY IntakeAssumption DEF KnownInv, E!Sources
\* What was told stays within what could be known.
<1>a. asked' = asked => \A s : E!Horizon(s)' = E!Horizon(s)
  BY DEF E!Horizon, E!EndOfDay, E!Day, E!CurrentOnly
<1>1. ASSUME UNCHANGED <<asked, documents, context>>, Asking' PROVE KnownInv'
  <2>1. E!Told' = E!Told
    BY <1>1 DEF E!Told, E!Range
  <2>2. KnowableAtCutoff'
    BY <1>1, <1>a, <2>1 DEF KnownInv, KnowableAtCutoff, E!KnowableAtCutoff, E!Published
  <2>3. QED
    BY <1>1, <2>2 DEF KnownInv
<1>2. CASE E!Tick
  BY <1>0, <1>1, <1>2 DEF E!Tick, Asking, E!Source
<1>3. CASE E!Request
  <2>1. Asking'
    BY <1>0, <1>3 DEF E!Request, Asking
  <2>2. \A d \in documents' : E!Published(d) <= asked'
    BY <1>3 DEF E!Request
  <2>3. context' = <<>> /\ asked' # None
    BY <1>0, <1>3 DEF E!Request, KnownInv, Asking
  <2>4. QED
    BY <2>1, <2>2, <2>3, EmptySeq
       DEF KnownInv, KnowableAtCutoff, E!KnowableAtCutoff, E!Published, E!Told, E!Range
<1>4. CASE E!Skip
  BY <1>0, <1>1, <1>4 DEF E!Skip, E!Degrade, E!Enriching, Asking, E!Source
<1>5. CASE E!Ask
  BY <1>0, <1>1, <1>5 DEF E!Ask, E!Degrade, E!Enriching, E!Live, Asking, E!Source
<1>6. CASE E!Answer
  <2>1. /\ asked # None /\ stage < 6 /\ waiting # None /\ stage' = stage + 1 /\ waiting' = None
        /\ UNCHANGED <<now, asked, documents>>
    BY <1>0, <1>6 DEF E!Answer, E!Enriching, E!Degrade
  <2>2. Asking'
    BY <1>0, <2>1 DEF Asking
  <2>3. CASE context' = context
    BY <1>1, <2>1, <2>2, <2>3
  <2>4. ASSUME NEW c \in E!Contexts(E!Source) \ {None},
               context' = Append(context, [source |-> E!Source, items |-> c])
        PROVE  KnownInv'
    <3>1. Fit(c)
      BY <1>0, <2>1, AnswerFits
    <3>2. [source |-> E!Source, items |-> c] \in Heard
      BY <1>0, <2>1, <3>1 DEF Heard, Fit, Asking, E!Source
    <3>3. /\ context' \in Seq(Heard) /\ Len(context') = Len(context) + 1 /\ Len(context) \in Nat
          /\ \A i \in 1 .. Len(context) : context'[i] = context[i]
          /\ context'[Len(context) + 1] = [source |-> E!Source, items |-> c]
      BY <2>4, <3>2, AppendProperties, LenProperties DEF KnownInv
    <3>4. \A i \in E!Told' : i \in E!Told \/ i \in c
      BY <3>3, LenProperties DEF KnownInv, E!Told, E!Range
    <3>5. \A s : E!Horizon(s)' = E!Horizon(s)
      BY <1>a, <2>1
    <3>6. KnowableAtCutoff'
      BY <2>1, <3>1, <3>4, <3>5
         DEF KnownInv, KnowableAtCutoff, E!KnowableAtCutoff, E!Published, Fit
    <3>7. QED
      BY <2>1, <2>2, <3>3, <3>6 DEF KnownInv
  <2>5. QED
    BY <1>6, <2>3, <2>4 DEF E!Answer, E!Degrade
<1>7. CASE E!Again
  <2>1. stage = 6 /\ stage' = 0 /\ UNCHANGED <<now, asked, documents, context, waiting>>
    BY <1>0, <1>7 DEF E!Again
  <2>2. Asking'
    BY <1>0, <2>1 DEF Asking
  <2>3. QED
    BY <1>1, <2>1, <2>2
<1>8. CASE UNCHANGED E!vars
  BY <1>0, <1>1, <1>8 DEF E!vars, Asking, E!Source
<1>9. QED
  BY <1>2, <1>3, <1>4, <1>5, <1>6, <1>7, <1>8 DEF E!Next

\* A source of the present is asked about the present.
THEOREM EvidenceInvariant == Explored => []KnownInv
<1>1. E!Init => KnownInv
  BY EmptySeq, IntakeAssumption DEF E!Init, KnownInv, Asking, KnowableAtCutoff,
     E!KnowableAtCutoff, E!Told, E!Range
<1>2. QED
  BY <1>1, KnownStep, EachPart, PTL DEF E!Spec

\* However late its sources are read, a run reasons from what the moment it is about
\* could have known (require_live_cutoff, the FRED vintage, completed bars).
THEOREM Knowable == Explored => []KnowableAtCutoff
<1>1. KnownInv => KnowableAtCutoff
  BY DEF KnownInv
<1>2. QED
  BY <1>1, EvidenceInvariant, PTL

-----------------------------------------------------------------------------
(* NewsStream: what was missed is fetched.                                 *)

\* More faults than there are would have to happen for a backfill to be given up.
Patient == MaxRestarts + MaxFaults < MaxTries
\* A start finds no backfill of an earlier one.
Quiet == stream = "starting" => job = None

\* The wire: the watermark is the latest of the times that moved it, in whatever order
\* the articles came.
WireInv ==
    /\ clock \in Nat /\ clock <= LastNews /\ articles \in SUBSET (1 .. clock)
    /\ noted \in SUBSET (1 .. clock)
    /\ noted = {} => watermark = None
    /\ noted # {} => watermark \in noted /\ \A b \in noted : b <= watermark
    /\ inbox \in Seq(articles) /\ missed \in SUBSET articles

\* The attempts of a backfill that are behind it were ended by a fault each.
TriesInv ==
    /\ restarts \in 0 .. MaxRestarts /\ faults \in 0 .. MaxFaults
    /\ job \in N!Jobs \cup {None}
    /\ job # None => job.tries <= restarts + faults + (IF job.batch = None THEN 0 ELSE 1)

\* What is owed and not stored is what the outstanding backfill is still to bring, and is
\* among the first that it takes.
OwedInv ==
    /\ owed \in SUBSET articles
    /\ \A a \in owed \ stored :
          /\ job # None /\ a \in job.start .. job.end /\ a - job.start < Limit
          /\ job.batch # None => a \in job.batch

NewsInv == WireInv /\ TriesInv /\ OwedInv

\* What the proofs use of the assumption.
LEMMA NewsConstants ==
  /\ LastNews \in Nat /\ Brief \in Nat /\ MaxBackfill \in Nat /\ Limit \in Nat
  /\ MaxTries \in Nat /\ MaxRestarts \in Nat /\ MaxFaults \in Nat
  /\ None \notin Nat /\ None \notin N!Jobs /\ None \notin [start : Int, end : Int]
  /\ \A batch \in SUBSET (1 .. LastNews) : batch # None
  BY IntakeAssumption

\* Nothing is missed, outstanding or owed at first.
LEMMA NewsStart == N!Init => NewsInv
<1>1. N!Init => WireInv
  BY NewsConstants, EmptySeq DEF N!Init, WireInv
<1>2. N!Init => TriesInv
  BY NewsConstants DEF N!Init, TriesInv
<1>3. N!Init => OwedInv
  BY DEF N!Init, OwedInv
<1>4. QED
  BY <1>1, <1>2, <1>3 DEF NewsInv

\* What waits to be consumed are articles.
LEMMA InboxOf ==
  ASSUME WireInv
  PROVE  /\ Len(inbox) \in Nat /\ \A i \in 1 .. Len(inbox) : inbox[i] \in articles
         /\ N!ToSet(inbox) \subseteq articles
<1>1. inbox \in Seq(articles)
  BY DEF WireInv
<1>2. Len(inbox) \in Nat /\ DOMAIN inbox = 1 .. Len(inbox)
  BY <1>1, LenProperties
<1>3. \A i \in 1 .. Len(inbox) : inbox[i] \in articles
  BY <1>1, ElementOfSeq
<1>4. QED
  BY <1>2, <1>3 DEF N!ToSet

\* The clock goes on.
LEMMA TickKeeps == ASSUME NewsInv, N!Tick PROVE NewsInv'
<1>1. /\ clock < LastNews /\ clock' = clock + 1
      /\ UNCHANGED <<articles, stored, watermark, stream, inbox, job, restarts, faults, noted,
                     missed, owed>>
  BY DEF N!Tick, N!history
<1>2. clock \in Nat /\ clock' \in Nat /\ clock' <= LastNews /\ 1 .. clock \subseteq 1 .. clock'
  BY <1>1, NewsConstants DEF NewsInv, WireInv
<1>3. WireInv'
  BY <1>1, <1>2 DEF NewsInv, WireInv
<1>4. TriesInv' /\ OwedInv'
  BY <1>1 DEF NewsInv, TriesInv, OwedInv
<1>5. QED
  BY <1>3, <1>4 DEF NewsInv

\* An article appears, however late: it waits, or it is missed, or neither.
LEMMA AppearKeeps ==
  ASSUME NewsInv, NEW x \in 1 .. LastNews, N!Appear(x) PROVE NewsInv'
<1>1. /\ x <= clock /\ articles' = articles \cup {x}
      /\ inbox' = inbox \/ inbox' = Append(inbox, x)
      /\ missed' = missed \/ missed' = missed \cup {x}
      /\ UNCHANGED <<clock, stored, watermark, stream, job, restarts, faults, noted, owed>>
  BY DEF N!Appear
<1>2. articles \subseteq articles' /\ articles' \in SUBSET (1 .. clock) /\ x \in articles'
  <2>1. clock \in Nat /\ x \in 1 .. clock
    BY <1>1, NewsConstants DEF NewsInv, WireInv
  <2>2. QED
    BY <1>1, <2>1 DEF NewsInv, WireInv
<1>3. inbox' \in Seq(articles')
  <2>1. inbox \in Seq(articles')
    <3>1. inbox \in Seq(articles)
      BY DEF NewsInv, WireInv
    <3>2. articles \subseteq articles'
      BY <1>2
    <3>3. QED
      BY <3>1, <3>2, SeqMonotonic, Zenon
  <2>2. Append(inbox, x) \in Seq(articles')
    BY <1>2, <2>1, AppendProperties
  <2>3. QED
    BY <1>1, <2>1, <2>2
<1>4. WireInv'
  BY <1>1, <1>2, <1>3 DEF NewsInv, WireInv
<1>5. TriesInv' /\ OwedInv'
  BY <1>1, <1>2 DEF NewsInv, TriesInv, OwedInv
<1>6. QED
  BY <1>4, <1>5 DEF NewsInv

\* An abandoned backfill is tried again, for there have not been that many faults.
LEMMA AbandonedIs ==
  ASSUME TriesInv, OwedInv, Patient, restarts + faults < MaxRestarts + MaxFaults
  PROVE  /\ job = None => N!Abandoned = None
         /\ job # None => N!Abandoned = [job EXCEPT !.batch = None]
<1>1. CASE job = None
  BY <1>1 DEF N!Abandoned
<1>2. CASE job # None
  <2>1. job \in N!Jobs /\ job.tries \in Nat
    BY <1>2 DEF TriesInv, N!Jobs
  <2>2. job.batch # None => job.tries # MaxTries
    BY <1>2, <2>1, NewsConstants DEF TriesInv, Patient
  <2>3. QED
    BY <1>2, <2>2 DEF N!Abandoned
<1>3. QED
  BY <1>1, <1>2

\* Nothing is lost with the attempt.
LEMMA AbandonKeeps ==
  ASSUME NewsInv, Patient, restarts + faults < MaxRestarts + MaxFaults, job' = N!Abandoned,
         restarts' \in 0 .. MaxRestarts, faults' \in 0 .. MaxFaults,
         restarts' + faults' = restarts + faults + 1, UNCHANGED <<articles, owed>>,
         stored \subseteq stored'
  PROVE  TriesInv' /\ OwedInv'
<1>1. TriesInv /\ OwedInv /\ restarts \in Nat /\ faults \in Nat /\ restarts' \in Nat /\ faults' \in Nat
  BY NewsConstants DEF NewsInv, TriesInv
<1>2. CASE job = None
  <2>1. job' = None
    BY <1>1, <1>2, AbandonedIs
  <2>2. QED
    BY <1>1, <1>2, <2>1 DEF TriesInv, OwedInv
<1>3. CASE job # None
  <2>1. job' = [job EXCEPT !.batch = None]
    BY <1>1, <1>3, AbandonedIs
  <2>2. job \in N!Jobs
    BY <1>1, <1>3 DEF TriesInv
  <2>3. /\ job' \in N!Jobs /\ job'.batch = None /\ job'.start = job.start /\ job'.end = job.end
        /\ job'.tries = job.tries /\ job.tries \in Nat
    BY <2>1, <2>2 DEF N!Jobs
  <2>4. job' # None
    BY <2>3, NewsConstants
  <2>5. job.tries <= restarts' + faults'
    <3>1. job.tries <= restarts + faults + 1
      BY <1>1, <1>3, <2>3 DEF TriesInv
    <3>2. QED
      BY <3>1
  <2>6. TriesInv'
    BY <1>1, <1>3, <2>3, <2>5 DEF TriesInv
  <2>7. OwedInv'
    BY <1>1, <1>3, <2>3, <2>4 DEF OwedInv
  <2>8. QED
    BY <2>6, <2>7
<1>4. QED
  BY <1>2, <1>3

\* What happens to the connection alone.
LEMMA WireKept ==
  ASSUME NewsInv, UNCHANGED <<clock, articles, watermark, noted>>, inbox' = <<>>,
         missed' = missed \/ missed' = missed \cup N!ToSet(inbox)
  PROVE  WireInv'
<1>1. WireInv
  BY DEF NewsInv
<1>2. missed' \in SUBSET articles /\ <<>> \in Seq(articles)
  BY <1>1, InboxOf, EmptySeq DEF WireInv
<1>3. QED
  BY <1>1, <1>2 DEF WireInv

\* The process dies: what waited is missed, and its backfill is tried again.
LEMMA DieKeeps == ASSUME NewsInv, Patient, N!Die PROVE NewsInv'
<1>1. /\ restarts < MaxRestarts /\ restarts' = restarts + 1 /\ inbox' = <<>> /\ job' = N!Abandoned
      /\ missed' = missed \cup N!ToSet(inbox) /\ stored \subseteq stored'
      /\ UNCHANGED <<clock, articles, watermark, faults, noted, owed>>
  BY DEF N!Die, N!Dropped
<1>2. WireInv'
  BY <1>1, WireKept
<1>3. restarts \in 0 .. MaxRestarts /\ faults \in 0 .. MaxFaults
  BY DEF NewsInv, TriesInv
<1>4. /\ restarts + faults < MaxRestarts + MaxFaults /\ restarts' \in 0 .. MaxRestarts
      /\ faults' \in 0 .. MaxFaults /\ restarts' + faults' = restarts + faults + 1
  BY <1>1, <1>3, NewsConstants
<1>5. QED
  BY <1>1, <1>2, <1>4, AbandonKeeps DEF NewsInv

\* Steps that touch neither backfill nor books.
LEMMA BooksKept ==
  ASSUME NewsInv, UNCHANGED <<articles, owed, job, restarts>>, stored \subseteq stored',
         faults' \in 0 .. MaxFaults, faults' = faults \/ faults' = faults + 1
  PROVE  TriesInv' /\ OwedInv'
<1>1. TriesInv /\ OwedInv
  BY DEF NewsInv
<1>2. restarts \in Nat /\ faults \in Nat
  BY <1>1, NewsConstants DEF TriesInv
<1>3. job # None => job.tries \in Nat
  BY <1>1 DEF TriesInv, N!Jobs
<1>4. TriesInv'
  BY <1>1, <1>2, <1>3 DEF TriesInv
<1>5. OwedInv'
  BY <1>1 DEF OwedInv
<1>6. QED
  BY <1>4, <1>5

\* A fault is one of those there may be.
LEMMA FaultCounted ==
  ASSUME NewsInv
  PROVE  /\ N!Fault => faults' \in 0 .. MaxFaults /\ faults' = faults + 1
         /\ faults \in 0 .. MaxFaults
  BY NewsConstants DEF NewsInv, TriesInv, N!Fault

\* The connection comes and goes.
LEMMA ConnectionKeeps ==
  ASSUME NewsInv, N!Restart \/ N!Connect \/ N!Stop \/ N!Disconnect
  PROVE  NewsInv'
<1>1. CASE N!Restart \/ N!Connect
  <2>1. UNCHANGED <<clock, articles, stored, watermark, inbox, job, restarts, faults, noted,
                    missed, owed>>
    BY <1>1 DEF N!Restart, N!Connect, N!history
  <2>2. WireInv'
    BY <2>1 DEF NewsInv, WireInv
  <2>3. QED
    BY <2>1, <2>2, BooksKept, FaultCounted DEF NewsInv
<1>2. CASE N!Stop \/ N!Disconnect
  <2>1. /\ inbox' = <<>> /\ (missed' = missed \/ missed' = missed \cup N!ToSet(inbox))
        /\ N!Fault /\ stored \subseteq stored'
        /\ UNCHANGED <<clock, articles, watermark, job, restarts, noted, owed>>
    BY <1>2 DEF N!Stop, N!Disconnect, N!Dropped
  <2>2. WireInv'
    BY <2>1, WireKept
  <2>3. QED
    BY <2>1, <2>2, BooksKept, FaultCounted DEF NewsInv
<1>3. QED
  BY <1>1, <1>2

\* A watermark that only moves forward stays the latest of the times that moved it.
LEMMA ForwardOnly ==
  ASSUME WireInv, NEW t \in 1 .. clock, watermark' = N!Advanced(t), noted' = noted \cup {t}
  PROVE  watermark' \in noted' /\ \A b \in noted' : b <= watermark'
<1>1. t \in Nat /\ noted \subseteq Nat /\ None \notin Nat
  BY NewsConstants DEF WireInv
<1>2. CASE noted = {}
  BY <1>1, <1>2 DEF WireInv, N!Advanced
<1>3. CASE noted # {}
  <2>1. /\ watermark \in Nat /\ watermark \in noted /\ watermark # None
        /\ \A b \in noted : b \in Nat /\ b <= watermark
    BY <1>1, <1>3 DEF WireInv
  <2>2. watermark' = IF watermark >= t THEN watermark ELSE t
    BY <2>1 DEF N!Advanced
  <2>3. QED
    BY <1>1, <2>1, <2>2
<1>4. QED
  BY <1>2, <1>3

\* An article is consumed: the watermark moves up to it, or stays.
LEMMA ConsumeKeeps == ASSUME NewsInv, N!Consume PROVE NewsInv'
<1>1. WireInv /\ inbox \in Seq(articles) /\ inbox # <<>>
  BY DEF NewsInv, WireInv, N!Consume
<1>2. Tail(inbox) \in Seq(articles) /\ Head(inbox) \in articles
  BY <1>1, HeadTailProperties
<1>3. /\ inbox' = Tail(inbox) /\ stored \subseteq stored'
      /\ \/ UNCHANGED <<watermark, noted>>
         \/ /\ watermark' = N!Advanced(N!PublishedAt(Head(inbox)))
            /\ noted' = noted \cup {N!PublishedAt(Head(inbox))}
      /\ UNCHANGED <<clock, articles, stream, job, restarts, faults, missed, owed>>
  BY DEF N!Consume
<1>4. PICK t : t = N!PublishedAt(Head(inbox))
  OBVIOUS
<1>5. t \in 1 .. clock
  <2>1. Head(inbox) \in 1 .. clock /\ clock \in Nat
    BY <1>1, <1>2 DEF WireInv
  <2>2. clock \in 1 .. clock
    BY <2>1
  <2>3. QED
    BY <1>4, <2>1, <2>2 DEF N!PublishedAt
<1>6. WireInv'
  <2>1. CASE UNCHANGED <<watermark, noted>>
    BY <1>1, <1>2, <1>3, <2>1 DEF WireInv
  <2>2. CASE watermark' = N!Advanced(t) /\ noted' = noted \cup {t}
    <3>1. watermark' \in noted' /\ \A b \in noted' : b <= watermark'
      BY <1>1, <1>5, <2>2, ForwardOnly
    <3>2. noted' \in SUBSET (1 .. clock) /\ noted' # {}
      BY <1>1, <1>5, <2>2 DEF WireInv
    <3>3. QED
      BY <1>1, <1>2, <1>3, <3>1, <3>2 DEF WireInv
  <2>3. QED
    BY <1>3, <1>4, <2>1, <2>2
<1>7. TriesInv' /\ OwedInv'
  BY <1>3, BooksKept, FaultCounted
<1>8. QED
  BY <1>6, <1>7 DEF NewsInv

\* The later of two moments.
LEMMA LaterOf ==
  ASSUME NEW a \in Int, NEW b \in Int
  PROVE  N!Max({a, b}) = IF a >= b THEN a ELSE b
<1>1. \E x \in {a, b} : \A y \in {a, b} : x >= y
  OBVIOUS
<1>2. PICK m : m = N!Max({a, b})
  OBVIOUS
<1>3. m \in {a, b} /\ \A y \in {a, b} : m >= y
  BY <1>1, <1>2 DEF N!Max
<1>4. QED
  BY <1>2, <1>3

\* A start asks for all that it has to: its window begins no later than what is due, and
\* not so long before it that one backfill would not reach it.
LEMMA WindowHolds ==
  ASSUME WireInv, NEW a \in N!Due
  PROVE  /\ a \in articles /\ N!Window # None /\ N!Window \in [start : Int, end : Int]
         /\ a \in N!Window.start .. N!Window.end /\ a - N!Window.start < Limit
<1>1. /\ a \in missed /\ clock - a <= MaxBackfill
      /\ \A b \in noted : b <= a /\ clock - b > Brief
      /\ \E b \in noted : a - b < Limit \/ a - (clock - MaxBackfill) < Limit
  BY DEF N!Due
<1>2. /\ a \in Nat /\ a <= clock /\ clock \in Nat /\ a \in articles
      /\ Brief \in Nat /\ MaxBackfill \in Nat /\ Limit \in Nat
  <2>1. a \in articles /\ a \in 1 .. clock /\ clock \in Nat
    BY <1>1 DEF WireInv
  <2>2. QED
    BY <2>1, NewsConstants
<1>3. PICK b \in noted : a - b < Limit \/ a - (clock - MaxBackfill) < Limit
  BY <1>1
<1>4. /\ watermark \in Nat /\ b \in Nat /\ b <= watermark /\ watermark <= a
      /\ clock - watermark > Brief /\ watermark # None
  <2>1. watermark \in noted /\ b <= watermark
    BY <1>3 DEF WireInv
  <2>2. watermark \in Nat /\ b \in Nat
    BY <1>2, <1>3, <2>1 DEF WireInv
  <2>3. QED
    BY <1>1, <2>1, <2>2, NewsConstants
<1>5. PICK m : m = N!Max({watermark, clock - MaxBackfill})
  OBVIOUS
<1>6. m \in Int /\ m <= a /\ a - m < Limit
  <2>1. PICK d \in Int : d = clock - MaxBackfill
    BY <1>2
  <2>2. m = IF watermark >= d THEN watermark ELSE d
    BY <1>4, <1>5, <2>1, LaterOf
  <2>3. d <= a
    BY <1>1, <1>2, <2>1
  <2>4. QED
    BY <1>2, <1>3, <1>4, <2>1, <2>2, <2>3
<1>7. N!Window = [start |-> m, end |-> clock]
  <2>1. ~(watermark = None \/ clock - watermark <= Brief)
    BY <1>2, <1>4
  <2>2. QED
    BY <1>5, <2>1 DEF N!Window
<1>8. N!Window \in [start : Int, end : Int]
  BY <1>2, <1>6, <1>7
<1>9. N!Window # None
  BY <1>8, NewsConstants
<1>10. N!Window.start = m /\ N!Window.end = clock
  BY <1>7
<1>11. QED
  BY <1>2, <1>6, <1>8, <1>9, <1>10

\* A window is one of two moments.
LEMMA WindowOf == ASSUME WireInv, N!Window # None PROVE N!Window \in [start : Int, end : Int]
<1>1. N!Window = [start |-> N!Max({watermark, clock - MaxBackfill}), end |-> clock] /\ watermark # None
  BY DEF N!Window
<1>2. watermark \in Int /\ clock \in Int /\ clock - MaxBackfill \in Int
  <2>1. watermark \in noted /\ noted \in SUBSET (1 .. clock) /\ clock \in Nat
    BY <1>1 DEF WireInv
  <2>2. watermark \in 1 .. clock
    BY <2>1
  <2>3. QED
    BY <2>1, <2>2, NewsConstants
<1>3. PICK m : m = N!Max({watermark, clock - MaxBackfill})
  OBVIOUS
<1>4. m \in Int
  BY <1>2, <1>3, LaterOf
<1>5. QED
  BY <1>1, <1>2, <1>3, <1>4

\* A start asks for what is due.
LEMMA StartKeeps == ASSUME NewsInv, Quiet, N!Start PROVE NewsInv'
<1>1. /\ job = None /\ inbox' = inbox /\ missed' = {} /\ owed' = owed \cup N!Due
      /\ UNCHANGED <<clock, articles, stored, watermark, restarts, faults, noted>>
  BY DEF N!Start, Quiet
<1>2. job' = IF N!Window = None THEN None
             ELSE [start |-> N!Window.start, end |-> N!Window.end, tries |-> 0, batch |-> None]
  BY <1>1 DEF N!Start
<1>3. WireInv'
  BY <1>1 DEF NewsInv, WireInv
<1>4. TriesInv'
  <2>1. /\ restarts' \in 0 .. MaxRestarts /\ faults' \in 0 .. MaxFaults /\ 0 <= restarts' + faults'
    BY <1>1, NewsConstants DEF NewsInv, TriesInv
  <2>2. CASE N!Window = None
    BY <1>2, <2>1, <2>2 DEF TriesInv
  <2>3. CASE N!Window # None
    <3>1. PICK w \in [start : Int, end : Int] : w = N!Window
      BY <2>3, WindowOf DEF NewsInv
    <3>2. job' = [start |-> w.start, end |-> w.end, tries |-> 0, batch |-> None]
      BY <1>2, <2>3, <3>1
    <3>3. job' \in N!Jobs
      BY <3>1, <3>2 DEF N!Jobs
    <3>4. QED
      BY <2>1, <3>1, <3>2, <3>3 DEF TriesInv
  <2>4. QED
    BY <2>2, <2>3
<1>5. owed' \in SUBSET articles'
  <2>1. N!Due \subseteq articles
    BY WindowHolds DEF NewsInv
  <2>2. QED
    BY <1>1, <2>1 DEF NewsInv, OwedInv
<1>6. ASSUME NEW a \in owed' \ stored'
      PROVE  /\ job' # None /\ a \in job'.start .. job'.end /\ a - job'.start < Limit
             /\ job'.batch = None
  <2>1. owed \subseteq stored
    BY <1>1 DEF NewsInv, OwedInv
  <2>2. a \in N!Due
    BY <1>1, <1>6, <2>1
  <2>3. /\ N!Window # None /\ N!Window \in [start : Int, end : Int]
        /\ a \in N!Window.start .. N!Window.end /\ a - N!Window.start < Limit
    BY <2>2, WindowHolds DEF NewsInv
  <2>4. PICK w \in [start : Int, end : Int] : w = N!Window
    BY <2>3
  <2>5. job' = [start |-> w.start, end |-> w.end, tries |-> 0, batch |-> None]
    BY <1>2, <2>3, <2>4
  <2>6. job' \in N!Jobs
    BY <2>4, <2>5 DEF N!Jobs
  <2>7. QED
    BY <2>3, <2>4, <2>5, <2>6, NewsConstants
<1>7. OwedInv'
  BY <1>5, <1>6 DEF OwedInv
<1>8. QED
  BY <1>3, <1>4, <1>7 DEF NewsInv

\* A backfill takes the oldest of its window: every article near enough to its start.
LEMMA FetchedAll ==
  ASSUME WireInv, NEW w \in N!Jobs, NEW a \in articles, a \in w.start .. w.end,
         a - w.start < Limit
  PROVE  a \in N!Fetched(w)
<1> DEFINE inside == {b \in articles : b \in w.start .. w.end}
           before == {b \in inside : b < a}
<1>1. /\ w.start \in Int /\ w.end \in Int /\ a \in Nat /\ w.start <= a /\ a <= w.end
  BY DEF N!Jobs, WireInv
<1>2. before \subseteq w.start .. (a - 1)
  <2>1. SUFFICES ASSUME NEW b \in before PROVE b \in w.start .. (a - 1)
    OBVIOUS
  <2>2. b \in w.start .. w.end /\ b < a
    OBVIOUS
  <2>3. QED
    BY <1>1, <2>2
<1>3. IsFiniteSet(w.start .. (a - 1)) /\ Cardinality(w.start .. (a - 1)) < Limit
  <2>1. PICK s \in Int, e \in Int : s = w.start /\ e = a - 1
    BY <1>1
  <2>2. IsFiniteSet(s .. e) /\ Cardinality(s .. e) = IF s > e THEN 0 ELSE e - s + 1
    BY FS_Interval
  <2>3. QED
    BY <1>1, <2>1, <2>2, NewsConstants
<1>4. IsFiniteSet(before) /\ Cardinality(before) <= Cardinality(w.start .. (a - 1))
  <2> HIDE DEF before
  <2>1. QED
    BY <1>2, <1>3, FS_Subset
<1>5. Cardinality(before) \in Nat /\ Cardinality(w.start .. (a - 1)) \in Nat
  <2> HIDE DEF before
  <2>1. QED
    BY <1>3, <1>4, FS_CardinalityType
<1>6. Cardinality(before) < Limit
  <2> HIDE DEF before
  <2>1. QED
    BY <1>3, <1>4, <1>5, NewsConstants
<1>7. N!Cardinality(before) = Cardinality(before)
  BY DEF N!Cardinality, Cardinality
<1>8. a \in inside /\ N!Cardinality(before) < Limit
  BY <1>1, <1>6, <1>7
<1>9. QED
  BY <1>8 DEF N!Fetched

\* A backfill fetches all that it owes.
LEMMA BackfillKeeps == ASSUME NewsInv, N!Backfill PROVE NewsInv'
<1>1. /\ job # None /\ job.batch = None
      /\ job' = [job EXCEPT !.tries = @ + 1, !.batch = N!Fetched(job)]
      /\ UNCHANGED <<clock, articles, stored, watermark, stream, inbox, restarts, faults, noted, missed, owed>>
  BY DEF N!Backfill, N!Running, N!history
<1>2. job \in N!Jobs /\ job.tries <= restarts + faults
  BY <1>1 DEF NewsInv, TriesInv
<1>3. N!Fetched(job) \in SUBSET (1 .. LastNews)
  <2>1. N!Fetched(job) \subseteq articles /\ articles \subseteq 1 .. clock /\ clock \in Nat /\ clock <= LastNews
    BY DEF N!Fetched, NewsInv, WireInv
  <2>2. 1 .. clock \subseteq 1 .. LastNews
    BY <2>1, NewsConstants
  <2>3. QED
    BY <2>1, <2>2
<1>4. N!Fetched(job) # None
  BY <1>3, NewsConstants
<1>5. /\ job' \in N!Jobs /\ job'.start = job.start /\ job'.end = job.end
      /\ job'.tries = job.tries + 1 /\ job'.batch = N!Fetched(job) /\ job.tries \in Nat
  <2>1. PICK fetched \in SUBSET (1 .. LastNews) : fetched = N!Fetched(job)
    BY <1>3
  <2>2. PICK j \in N!Jobs : j = job
    BY <1>2
  <2>3. job' = [j EXCEPT !.tries = @ + 1, !.batch = fetched]
    BY <1>1, <2>1, <2>2
  <2>4. PICK tries \in Nat : tries = j.tries + 1 /\ j.tries \in Nat
    BY DEF N!Jobs
  <2>5. job' = [start |-> j.start, end |-> j.end, tries |-> tries, batch |-> fetched]
    BY <2>3, <2>4 DEF N!Jobs
  <2>6. j.start \in Int /\ j.end \in Int /\ job' \in N!Jobs
    BY <2>5 DEF N!Jobs
  <2>7. QED
    BY <2>1, <2>2, <2>4, <2>5, <2>6 DEF N!Jobs
<1>6. WireInv'
  BY <1>1 DEF NewsInv, WireInv
<1>7. TriesInv'
  <2>1. restarts \in Nat /\ faults \in Nat
    BY NewsConstants DEF NewsInv, TriesInv
  <2>2. job'.tries <= restarts + faults + 1
    BY <1>2, <1>5, <2>1
  <2>3. QED
    BY <1>1, <1>2, <1>4, <1>5, <2>2 DEF NewsInv, TriesInv
<1>8. ASSUME NEW a \in owed' \ stored'
      PROVE  /\ job' # None /\ a \in job'.start .. job'.end /\ a - job'.start < Limit
             /\ a \in job'.batch
  <2>1. a \in job.start .. job.end /\ a \in articles /\ a - job.start < Limit
    BY <1>1, <1>8 DEF NewsInv, OwedInv
  <2>2. a \in N!Fetched(job)
    BY <1>2, <2>1, FetchedAll DEF NewsInv
  <2>3. QED
    BY <1>5, <2>1, <2>2, NewsConstants
<1>9. OwedInv'
  BY <1>1, <1>8 DEF NewsInv, OwedInv
<1>10. QED
  BY <1>6, <1>7, <1>9 DEF NewsInv

\* It stores the first of its batch.
LEMMA IngestsKeeps == ASSUME NewsInv, N!BackfillIngests PROVE NewsInv'
<1>1. PICK least : least = N!Min(job.batch)
  OBVIOUS
<1>2. /\ job # None /\ job.batch # None /\ stored' = stored \cup {least}
      /\ job' = [job EXCEPT !.batch = @ \ {least}]
      /\ UNCHANGED <<clock, articles, watermark, stream, inbox, restarts, faults, noted, missed, owed>>
  BY <1>1 DEF N!BackfillIngests, N!Running, N!history
<1>3. job \in N!Jobs /\ job.batch \in SUBSET (1 .. LastNews)
  BY <1>2 DEF NewsInv, TriesInv, N!Jobs
<1>4. /\ job' \in N!Jobs /\ job'.start = job.start /\ job'.end = job.end
      /\ job'.tries = job.tries /\ job'.batch = job.batch \ {least}
  BY <1>2, <1>3 DEF N!Jobs
<1>5. job' # None /\ job'.batch # None
  <2>1. job.batch \ {least} \in SUBSET (1 .. LastNews)
    BY <1>3
  <2>2. QED
    BY <1>4, <2>1, NewsConstants
<1>6. WireInv'
  BY <1>2 DEF NewsInv, WireInv
<1>7. TriesInv'
  BY <1>2, <1>4, <1>5 DEF NewsInv, TriesInv
<1>8. OwedInv'
  BY <1>2, <1>4, <1>5 DEF NewsInv, OwedInv
<1>9. QED
  BY <1>6, <1>7, <1>8 DEF NewsInv

\* It fails, and is tried again.
LEMMA FailsKeeps == ASSUME NewsInv, Patient, N!BackfillFails PROVE NewsInv'
<1>1. /\ job # None /\ job.batch # None /\ faults < MaxFaults /\ faults' = faults + 1
      /\ job' = IF job.tries < MaxTries THEN N!Abandoned ELSE None
      /\ UNCHANGED <<clock, articles, stored, watermark, stream, inbox, restarts, noted, missed, owed>>
  BY DEF N!BackfillFails, N!Running, N!Fault, N!history
<1>2. restarts \in 0 .. MaxRestarts /\ faults \in 0 .. MaxFaults
  BY DEF NewsInv, TriesInv
<1>3. /\ restarts + faults < MaxRestarts + MaxFaults /\ restarts' \in 0 .. MaxRestarts
      /\ faults' \in 0 .. MaxFaults /\ restarts' + faults' = restarts + faults + 1
  BY <1>1, <1>2, NewsConstants
<1>4. job.tries < MaxTries
  <2>1. job.tries \in Nat /\ job.tries <= restarts + faults + 1
    BY <1>1 DEF NewsInv, TriesInv, N!Jobs
  <2>2. QED
    BY <1>2, <1>3, <2>1, NewsConstants DEF Patient
<1>5. job' = N!Abandoned
  BY <1>1, <1>4
<1>6. TriesInv' /\ OwedInv'
  BY <1>1, <1>3, <1>5, AbandonKeeps
<1>7. WireInv'
  BY <1>1 DEF NewsInv, WireInv
<1>8. QED
  BY <1>6, <1>7 DEF NewsInv

\* It ends with nothing left in its batch.
LEMMA EndsKeeps == ASSUME NewsInv, N!BackfillEnds PROVE NewsInv'
<1>1. /\ job # None /\ job.batch # None /\ job.batch = {} /\ job' = None
      /\ UNCHANGED <<clock, articles, stored, watermark, stream, inbox, restarts, faults, noted, missed, owed>>
  BY DEF N!BackfillEnds, N!Running, N!history
<1>2. WireInv'
  BY <1>1 DEF NewsInv, WireInv
<1>3. TriesInv'
  BY <1>1 DEF NewsInv, TriesInv
<1>4. OwedInv'
  BY <1>1 DEF NewsInv, OwedInv
<1>5. QED
  BY <1>2, <1>3, <1>4 DEF NewsInv

\* Every step of the stream and of its backfill.
LEMMA NewsStep == ASSUME Patient, NewsInv, Quiet, [N!Next]_N!vars PROVE NewsInv'
<1>1. CASE UNCHANGED N!vars
  <2>1. UNCHANGED <<clock, articles, stored, watermark, stream, inbox, job, restarts, faults, noted, missed, owed>>
    BY <1>1 DEF N!vars, N!history
  <2>2. WireInv' /\ TriesInv' /\ OwedInv'
    BY <2>1 DEF NewsInv, WireInv, TriesInv, OwedInv
  <2>3. QED
    BY <2>2 DEF NewsInv
<1>2. CASE N!Next
  BY <1>2, TickKeeps, AppearKeeps, DieKeeps, StartKeeps, ConnectionKeeps, ConsumeKeeps, BackfillKeeps,
     IngestsKeeps, FailsKeeps, EndsKeeps DEF N!Next
<1>3. QED
  BY <1>1, <1>2

\* Before the one restart there is nothing to backfill from.
OnceInv ==
    /\ restarts \in Nat
    /\ restarts = 0 => job = None /\ stream # "down"
    /\ restarts = 0 /\ stream = "starting" => watermark = None
    /\ stream \in {"down", "starting"} => job = None

\* Every step, when there is one restart at most.
LEMMA OnceStep == ASSUME MaxRestarts <= 1, OnceInv, [N!Next]_N!vars PROVE OnceInv'
<1>1. CASE UNCHANGED N!vars
  BY <1>1 DEF N!vars, OnceInv
<1>2. CASE N!Tick \/ \E a \in 1 .. LastNews : N!Appear(a)
  BY <1>2 DEF N!Tick, N!Appear, OnceInv
<1>3. CASE N!Die
  <2>1. restarts = 0 /\ restarts' = 1 /\ stream' = "down" /\ job' = N!Abandoned
    BY <1>3, NewsConstants DEF N!Die, OnceInv
  <2>2. job = None
    BY <2>1 DEF OnceInv
  <2>3. job' = None
    BY <2>1, <2>2 DEF N!Abandoned
  <2>4. QED
    BY <2>1, <2>3 DEF OnceInv
<1>4. CASE N!Restart \/ N!Connect \/ N!Stop \/ N!Disconnect \/ N!Consume
  BY <1>4 DEF N!Restart, N!Connect, N!Stop, N!Disconnect, N!Consume, OnceInv
<1>5. CASE N!Start
  BY <1>5 DEF N!Start, N!Window, OnceInv
<1>6. CASE N!Backfill \/ N!BackfillIngests \/ N!BackfillFails \/ N!BackfillEnds
  <2>1. job # None /\ UNCHANGED <<stream, restarts>>
    BY <1>6 DEF N!Backfill, N!BackfillIngests, N!BackfillFails, N!BackfillEnds, N!Running
  <2>2. QED
    BY <2>1 DEF OnceInv
<1>7. QED
  BY <1>1, <1>2, <1>3, <1>4, <1>5, <1>6 DEF N!Next

\* The wire, the outstanding backfill and what is owed fit together after every step, as
\* long as no start finds the backfill of an earlier one: whatever the order and delay in
\* which articles appear, the watermark is the latest time that moved it, and what is owed
\* is near enough to the start of the backfill to be in it (_record_news_watermark,
\* _backfill_news_gap).
THEOREM NewsInvariant == ASSUME Patient PROVE Explored /\ []Quiet => []NewsInv
<1>1. NewsInv /\ Quiet /\ [N!Next]_N!vars => NewsInv'
  BY NewsStep
<1>2. QED
  BY <1>1, NewsStart, EachPart, PTL

\* With no backfill outstanding, what the starts had to ask for is stored, in whatever order
\* it appeared: after any number of restarts, provided that none of them starts while a
\* backfill is outstanding (start, _backfill_news_gap, handle_alpaca_backfill).
THEOREM DowntimesAreCovered ==
  ASSUME Patient PROVE Explored /\ []Quiet => []DowntimeIsCovered
<1>1. NewsInv => DowntimeIsCovered
  BY DEF NewsInv, OwedInv, DowntimeIsCovered, N!DowntimeIsCovered
<1>2. QED
  BY <1>1, NewsInvariant, PTL

\* The one restart of a run finds no backfill: nothing was watched before it (start).
THEOREM RestartIsQuiet == ASSUME MaxRestarts <= 1 PROVE Explored => []Quiet
<1>1. N!Init => OnceInv
  BY DEF N!Init, OnceInv
<1>2. OnceInv /\ [N!Next]_N!vars => OnceInv'
  BY OnceStep
<1>3. OnceInv => Quiet
  BY DEF OnceInv, Quiet
<1>4. QED
  BY <1>1, <1>2, <1>3, EachPart, PTL

\* So what one downtime cost and was published since the last article noted is stored once
\* its backfill is over, whatever was late, lost or repeated meanwhile (start,
\* _backfill_news_gap, handle_alpaca_backfill).
THEOREM DowntimeCovered ==
  ASSUME Patient, MaxRestarts <= 1 PROVE Explored => []DowntimeIsCovered
  BY RestartIsQuiet, DowntimesAreCovered, PTL

-----------------------------------------------------------------------------
(* Numbers and recursions.                                                 *)

\* The least-number principle, for a set of numbers.
LEMMA LeastNumber ==
  ASSUME NEW T \in SUBSET Nat, T # {}
  PROVE  \E m \in T : \A n \in T : m <= n
<1>1. \E m \in T : \A n \in T : <<n, m>> \notin OpToRel(<, Nat)
  BY NatLessThanWellFounded, WFMin
<1>2. PICK m \in T : \A n \in T : <<n, m>> \notin OpToRel(<, Nat)
  BY <1>1
<1>3. ASSUME NEW n \in T, n < m PROVE <<n, m>> \in OpToRel(<, Nat)
  BY <1>3 DEF OpToRel
<1>4. ASSUME NEW n \in T PROVE m <= n
  <2>1. n \in Nat /\ m \in Nat /\ ~(n < m)
    BY <1>2, <1>3
  <2>2. QED
    BY <2>1
<1>5. QED
  BY <1>4

\* A set of numbers that has a bound has a greatest one.
LEMMA GreatestNumber ==
  ASSUME NEW n \in Nat, NEW T \in SUBSET (0 .. n), T # {}
  PROVE  \E m \in T : \A k \in T : m >= k
<1> DEFINE Off == {k \in Nat : n - k \in T}
<1>1. Off # {}
  <2>1. PICK t \in T : TRUE
    OBVIOUS
  <2>2. n - t \in Nat /\ n - (n - t) = t
    OBVIOUS
  <2>3. QED
    BY <2>1, <2>2
<1>2. PICK k \in Off : \A l \in Off : k <= l
  BY <1>1, LeastNumber
<1>3. ASSUME NEW t \in T PROVE n - k >= t
  <2>1. n - t \in Nat /\ n - (n - t) = t /\ t \in Nat
    OBVIOUS
  <2>2. n - t \in Off
    BY <2>1
  <2>3. k <= n - t /\ k \in Nat
    BY <1>2, <2>2
  <2>4. QED
    BY <2>1, <2>3
<1>4. n - k \in T
  BY <1>2
<1>5. QED
  BY <1>3, <1>4

\* f starts with b and goes on with step.
Recurs(f, n, b, step) == f = [k \in 0 .. n |-> IF k = 0 THEN b ELSE step[<<k, f[k - 1]>>]]

\* A recursion over the first numbers has a solution.
LEMMA Recursion ==
  ASSUME NEW X, NEW b \in X, NEW step \in [Nat \X X -> X], NEW n \in Nat
  PROVE  \E f \in [0 .. n -> X] : Recurs(f, n, b, step)
<1> DEFINE Bad == {m \in Nat : ~ \E f \in [0 .. m -> X] : Recurs(f, m, b, step)}
<1>1. 0 \notin Bad
  <2> DEFINE f == [k \in 0 .. 0 |-> b]
  <2>1. f \in [0 .. 0 -> X] /\ Recurs(f, 0, b, step)
    BY DEF Recurs
  <2>2. QED
    BY <2>1
<1>2. ASSUME NEW m \in Nat, NEW f \in [0 .. m -> X], Recurs(f, m, b, step)
      PROVE  m + 1 \notin Bad
  <2> DEFINE g == [k \in 0 .. (m + 1) |-> IF k <= m THEN f[k] ELSE step[<<m + 1, f[m]>>]]
  <2>1. m \in 0 .. m /\ f[m] \in X
    OBVIOUS
  <2>2. step[<<m + 1, f[m]>>] \in X
    BY <2>1
  <2>3. g \in [0 .. (m + 1) -> X]
    BY <2>2
  <2>4. ASSUME NEW k \in 0 .. (m + 1)
        PROVE  g[k] = IF k = 0 THEN b ELSE step[<<k, g[k - 1]>>]
    <3>1. CASE k <= m
      <4>1. k \in 0 .. m /\ g[k] = f[k]
        BY <3>1
      <4>2. f[k] = IF k = 0 THEN b ELSE step[<<k, f[k - 1]>>]
        BY <1>2, <4>1 DEF Recurs
      <4>3. k # 0 => k - 1 \in 0 .. (m + 1) /\ k - 1 <= m
        BY <3>1
      <4>4. k # 0 => g[k - 1] = f[k - 1]
        BY <4>3
      <4>5. QED
        BY <4>1, <4>2, <4>4
    <3>2. CASE k = m + 1
      <4>1. k # 0 /\ ~(k <= m) /\ k - 1 = m /\ m \in 0 .. (m + 1) /\ m <= m
        BY <3>2
      <4>2. g[m] = f[m] /\ g[k] = step[<<m + 1, f[m]>>]
        BY <4>1
      <4>3. QED
        BY <3>2, <4>1, <4>2
    <3>3. QED
      BY <3>1, <3>2
  <2>5. Recurs(g, m + 1, b, step)
    BY <2>4 DEF Recurs
  <2> HIDE DEF g
  <2>6. QED
    BY <2>3, <2>5
<1>3. Bad = {}
  <2>1. SUFFICES ASSUME Bad # {} PROVE FALSE
    OBVIOUS
  <2>2. PICK m \in Bad : \A k \in Bad : m <= k
    BY <2>1, LeastNumber
  <2>3. m \in Nat /\ m # 0
    BY <1>1, <2>2
  <2>4. PICK l \in Nat : l + 1 = m /\ ~(m <= l)
    <3>1. m - 1 \in Nat /\ (m - 1) + 1 = m /\ ~(m <= m - 1)
      BY <2>3
    <3>2. QED
      BY <3>1
  <2>5. l \notin Bad
    BY <2>2, <2>4
  <2>6. PICK f \in [0 .. l -> X] : Recurs(f, l, b, step)
    BY <2>5
  <2>7. l + 1 \notin Bad
    BY <1>2, <2>6
  <2>8. QED
    BY <2>2, <2>4, <2>7
<1>4. QED
  BY <1>3

-----------------------------------------------------------------------------
(* Digest: a prediction market.                                            *)

RowsOf(n) == [1 .. n -> Chances]

\* The rows of a book are numbers.
LEMMA BookOf ==
  ASSUME NEW n \in Nat, NEW rows \in RowsOf(n)
  PROVE  /\ DOMAIN rows = 1 .. n /\ Len(rows) = n
         /\ \A i \in 1 .. n : rows[i] \in Nat
<1>1. rows \in Seq(Chances) /\ DOMAIN rows = 1 .. n
  BY DEF RowsOf
<1>2. Len(rows) = n
  BY <1>1, LenProperties
<1>3. Chances \subseteq Nat
  BY IntakeAssumption
<1>4. QED
  BY <1>1, <1>2, <1>3 DEF RowsOf

\* f adds up the rows of is, the first ones first.
AddsUp(f, n, rows, is) ==
    /\ f[0] = 0
    /\ \A k \in 1 .. n : f[k] = f[k - 1] + IF k \in is THEN rows[k] ELSE 0

\* The sum of chances, as the sums of the first rows.
LEMMA ChanceIs ==
  ASSUME NEW n \in Nat, NEW rows \in RowsOf(n), NEW is
  PROVE  \E f : AddsUp(f, n, rows, is) /\ D!Chance(rows, is) = f[n]
<1> DEFINE part1(k) == IF k \in is THEN rows[k] ELSE 0
           body(u) == [k \in 0 .. n |-> IF k = 0 THEN 0 ELSE u[k - 1] + part1(k)]
           step == [p \in Nat \X Nat |-> IF p[1] \in 1 .. n THEN p[2] + part1(p[1]) ELSE 0]
<1>1. Len(rows) = n /\ \A i \in 1 .. n : rows[i] \in Nat
  BY BookOf
<1>2. \A k \in 1 .. n : part1(k) \in Nat
  BY <1>1
<1> HIDE DEF part1
<1>3. step \in [Nat \X Nat -> Nat]
  BY <1>2
<1>4. PICK f \in [0 .. n -> Nat] : Recurs(f, n, 0, step)
  <2> HIDE DEF step
  <2>1. QED
    BY <1>3, Recursion
<1>5. f = body(f)
  <2>1. ASSUME NEW k \in 0 .. n, k # 0 PROVE step[<<k, f[k - 1]>>] = f[k - 1] + part1(k)
    <3>1. k - 1 \in 0 .. n /\ k \in 1 .. n /\ k \in Nat
      BY <2>1
    <3>2. f[k - 1] \in Nat
      BY <3>1
    <3>3. QED
      BY <3>1, <3>2
  <2> HIDE DEF step
  <2>2. QED
    BY <1>4, <2>1 DEF Recurs
<1>6. PICK g : g = CHOOSE u : u = body(u)
  OBVIOUS
<1> HIDE DEF body
<1>7. g = body(g)
  BY <1>5, <1>6
<1>8. D!Chance(rows, is) = g[n]
  <2>1. D!Chance(rows, is) = (CHOOSE u : u = body(u))[n]
    BY <1>1 DEF D!Chance, body, part1
  <2>2. QED
    BY <1>6, <2>1
<1>9. AddsUp(g, n, rows, is)
  <2>1. \A k \in 0 .. n : g[k] = IF k = 0 THEN 0 ELSE g[k - 1] + part1(k)
    BY <1>7 DEF body
  <2>2. 0 \in 0 .. n /\ \A k \in 1 .. n : k \in 0 .. n /\ k # 0
    OBVIOUS
  <2>3. QED
    BY <2>1, <2>2 DEF AddsUp, part1
<1>10. QED
  BY <1>8, <1>9

\* What is among the rows and what is not are all of them.
LEMMA ChanceSplits ==
  ASSUME NEW n \in Nat, NEW rows \in RowsOf(n), NEW K \in SUBSET (1 .. n)
  PROVE  D!Chance(rows, K) + D!Chance(rows, (1 .. n) \ K) = D!Chance(rows, 1 .. n)
<1>1. PICK f : AddsUp(f, n, rows, K) /\ D!Chance(rows, K) = f[n]
  BY ChanceIs
<1>2. PICK g : AddsUp(g, n, rows, (1 .. n) \ K) /\ D!Chance(rows, (1 .. n) \ K) = g[n]
  BY ChanceIs
<1>3. PICK h : AddsUp(h, n, rows, 1 .. n) /\ D!Chance(rows, 1 .. n) = h[n]
  BY ChanceIs
<1> DEFINE Bad == {k \in 0 .. n : ~(f[k] \in Nat /\ g[k] \in Nat /\ f[k] + g[k] = h[k])}
<1>4. Bad = {}
  <2>1. SUFFICES ASSUME Bad # {} PROVE FALSE
    OBVIOUS
  <2>2. PICK k \in Bad : \A l \in Bad : k <= l
    <3>1. Bad \in SUBSET Nat
      OBVIOUS
    <3> HIDE DEF Bad
    <3>2. QED
      BY <2>1, <3>1, LeastNumber
  <2>3. k # 0 /\ k \in 0 .. n
    BY <1>1, <1>2, <1>3, <2>2 DEF AddsUp
  <2>4. k \in 1 .. n /\ k - 1 \in 0 .. n /\ ~(k <= k - 1)
    BY <2>3
  <2>5. k - 1 \notin Bad
    BY <2>2, <2>4
  <2>6. f[k - 1] \in Nat /\ g[k - 1] \in Nat /\ f[k - 1] + g[k - 1] = h[k - 1]
    BY <2>4, <2>5
  <2>7. rows[k] \in Nat
    BY <2>4, BookOf
  <2>8. /\ f[k] = f[k - 1] + IF k \in K THEN rows[k] ELSE 0
        /\ g[k] = g[k - 1] + IF k \in (1 .. n) \ K THEN rows[k] ELSE 0
        /\ h[k] = h[k - 1] + IF k \in 1 .. n THEN rows[k] ELSE 0
    BY <1>1, <1>2, <1>3, <2>4 DEF AddsUp
  <2>9. CASE k \in K
    <3>1. f[k] = f[k - 1] + rows[k] /\ g[k] = g[k - 1] + 0 /\ h[k] = h[k - 1] + rows[k]
      BY <2>4, <2>8, <2>9
    <3>2. QED
      BY <2>2, <2>6, <2>7, <3>1
  <2>10. CASE k \notin K
    <3>1. f[k] = f[k - 1] + 0 /\ g[k] = g[k - 1] + rows[k] /\ h[k] = h[k - 1] + rows[k]
      BY <2>4, <2>8, <2>10
    <3>2. QED
      BY <2>2, <2>6, <2>7, <3>1
  <2>11. QED
    BY <2>9, <2>10
<1>5. n \in 0 .. n
  OBVIOUS
<1>6. QED
  BY <1>1, <1>2, <1>3, <1>4, <1>5

-----------------------------------------------------------------------------
\* f lists the members of K among the first numbers, in their order.
Lists(f, n, K) ==
    /\ f[0] = <<>>
    /\ \A k \in 1 .. n : f[k] = IF k \in K THEN Append(f[k - 1], k) ELSE f[k - 1]

\* The kept rows, as those kept of the first rows.
LEMMA KeptIs ==
  ASSUME NEW n \in Nat, NEW rows \in RowsOf(n)
  PROVE  \E f : Lists(f, n, {i \in 1 .. n : D!Keeps(rows, i)}) /\ D!Kept(rows) = f[n]
<1> DEFINE keeps(k) == D!Keeps(rows, k)
           body(u) == [k \in 0 .. n |-> IF k = 0 THEN <<>>
                                        ELSE IF keeps(k) THEN Append(u[k - 1], k) ELSE u[k - 1]]
           step == [p \in Nat \X Seq(Nat) |-> IF keeps(p[1]) THEN Append(p[2], p[1]) ELSE p[2]]
<1>1. Len(rows) = n
  BY BookOf
<1>2. step \in [Nat \X Seq(Nat) -> Seq(Nat)]
  <2>1. \A p \in Nat \X Seq(Nat) : Append(p[2], p[1]) \in Seq(Nat) /\ p[2] \in Seq(Nat)
    BY AppendProperties
  <2> HIDE DEF keeps
  <2>2. QED
    BY <2>1
<1>3. PICK f \in [0 .. n -> Seq(Nat)] : Recurs(f, n, <<>>, step)
  <2> HIDE DEF step
  <2>1. <<>> \in Seq(Nat)
    BY EmptySeq
  <2>2. PICK X : X = Seq(Nat)
    OBVIOUS
  <2>3. \E f \in [0 .. n -> X] : Recurs(f, n, <<>>, step)
    BY <1>2, <2>1, <2>2, Recursion
  <2>4. QED
    BY <2>2, <2>3
<1> HIDE DEF keeps
<1>4. f = body(f)
  <2>1. ASSUME NEW k \in 0 .. n, k # 0
        PROVE  step[<<k, f[k - 1]>>] = IF keeps(k) THEN Append(f[k - 1], k) ELSE f[k - 1]
    <3>1. k - 1 \in 0 .. n /\ k \in Nat
      BY <2>1
    <3>2. f[k - 1] \in Seq(Nat)
      BY <3>1
    <3>3. PICK s \in Seq(Nat) : s = f[k - 1]
      BY <3>2
    <3>4. step[<<k, s>>] = IF keeps(k) THEN Append(s, k) ELSE s
      BY <3>1
    <3>5. QED
      BY <3>3, <3>4
  <2> HIDE DEF step
  <2>2. QED
    BY <1>3, <2>1 DEF Recurs
<1>5. PICK g : g = CHOOSE u : u = body(u)
  OBVIOUS
<1> HIDE DEF body
<1>6. g = body(g)
  BY <1>4, <1>5
<1>7. D!Kept(rows) = g[n]
  <2>1. D!Kept(rows) = (CHOOSE u : u = body(u))[n]
    BY <1>1 DEF D!Kept, body, keeps
  <2>2. QED
    BY <1>5, <2>1
<1>8. Lists(g, n, {i \in 1 .. n : D!Keeps(rows, i)})
  <2>1. \A k \in 0 .. n : g[k] = IF k = 0 THEN <<>>
                                  ELSE IF keeps(k) THEN Append(g[k - 1], k) ELSE g[k - 1]
    BY <1>6 DEF body
  <2>2. 0 \in 0 .. n /\ \A k \in 1 .. n : k \in 0 .. n /\ k # 0
    OBVIOUS
  <2>3. g[0] = <<>>
    BY <2>1, <2>2
  <2>4. ASSUME NEW k \in 1 .. n
        PROVE  g[k] = IF k \in {i \in 1 .. n : D!Keeps(rows, i)} THEN Append(g[k - 1], k) ELSE g[k - 1]
    <3>1. keeps(k) <=> k \in {i \in 1 .. n : D!Keeps(rows, i)}
      BY DEF keeps
    <3>2. QED
      BY <2>1, <2>2, <3>1
  <2>5. QED
    BY <2>3, <2>4 DEF Lists
<1>9. QED
  BY <1>7, <1>8

\* A list of the members of K among the first k numbers, with as many left out.
Listed(s, k, K) ==
    /\ s \in Seq(Nat) /\ \A i \in 1 .. Len(s) : s[i] \in 1 .. k /\ s[i] \in K
    /\ \A i, j \in 1 .. Len(s) : i < j => s[i] < s[j]
    /\ \A x \in 1 .. k : x \in K => \E i \in 1 .. Len(s) : s[i] = x
    /\ IsFiniteSet({x \in 1 .. k : x \notin K}) /\ Len(s) + Cardinality({x \in 1 .. k : x \notin K}) = k

\* A list goes on with a member.
LEMMA ListedMore ==
  ASSUME NEW k \in Nat \ {0}, NEW K, NEW s, Listed(s, k - 1, K), k \in K
  PROVE  Listed(Append(s, k), k, K)
<1>1. /\ s \in Seq(Nat) /\ Len(s) \in Nat /\ Append(s, k) \in Seq(Nat) /\ Len(Append(s, k)) = Len(s) + 1
      /\ \A i \in 1 .. Len(s) : Append(s, k)[i] = s[i]
      /\ Append(s, k)[Len(s) + 1] = k
  BY AppendProperties, LenProperties DEF Listed
<1>2. PICK t : t = Append(s, k)
  OBVIOUS
<1>3. \A i \in 1 .. Len(t) : i = Len(s) + 1 \/ (i \in 1 .. Len(s) /\ t[i] = s[i])
  BY <1>1, <1>2
<1>4. \A i \in 1 .. Len(s) : s[i] \in 1 .. (k - 1) /\ s[i] \in K
  BY DEF Listed
<1>5. \A i \in 1 .. Len(t) : t[i] \in 1 .. k /\ t[i] \in K
  BY <1>1, <1>2, <1>3, <1>4
<1>6. ASSUME NEW i \in 1 .. Len(t), NEW j \in 1 .. Len(t), i < j PROVE t[i] < t[j]
  <2>1. i \in 1 .. Len(s) /\ t[i] = s[i]
    BY <1>1, <1>2, <1>3, <1>6
  <2>2. CASE j = Len(s) + 1
    BY <1>1, <1>2, <1>4, <2>1, <2>2
  <2>3. CASE j \in 1 .. Len(s) /\ t[j] = s[j]
    BY <1>6, <2>1, <2>3 DEF Listed
  <2>4. QED
    BY <1>3, <2>2, <2>3
<1>7. ASSUME NEW x \in 1 .. k, x \in K PROVE \E i \in 1 .. Len(t) : t[i] = x
  <2>1. CASE x = k
    BY <1>1, <1>2, <2>1
  <2>2. CASE x # k
    <3>1. x \in 1 .. (k - 1)
      BY <2>2
    <3>2. PICK i \in 1 .. Len(s) : s[i] = x
      BY <1>7, <3>1 DEF Listed
    <3>3. i \in 1 .. Len(t) /\ t[i] = x
      BY <1>1, <1>2, <3>2
    <3>4. QED
      BY <3>3
  <2>3. QED
    BY <2>1, <2>2
<1>8. {x \in 1 .. k : x \notin K} = {x \in 1 .. (k - 1) : x \notin K}
  OBVIOUS
<1>9. Cardinality({x \in 1 .. (k - 1) : x \notin K}) \in Nat
  BY FS_CardinalityType DEF Listed
<1>10. Len(t) + Cardinality({x \in 1 .. k : x \notin K}) = k
  <2>1. PICK c \in Nat : c = Cardinality({x \in 1 .. (k - 1) : x \notin K})
    BY <1>9
  <2>2. Len(s) + c = k - 1 /\ Len(t) = Len(s) + 1
    BY <1>1, <1>2, <2>1 DEF Listed
  <2>3. Len(s) \in Nat /\ Len(t) + c = k
    BY <1>1, <2>2
  <2>4. Cardinality({x \in 1 .. k : x \notin K}) = c
    BY <1>8, <2>1
  <2>5. QED
    BY <2>3, <2>4
<1>11. IsFiniteSet({x \in 1 .. k : x \notin K})
  BY <1>8 DEF Listed
<1>12. Listed(t, k, K)
  BY <1>1, <1>2, <1>5, <1>6, <1>7, <1>10, <1>11 DEF Listed
<1>13. QED
  BY <1>2, <1>12

\* A list goes on past a number that is none.
LEMMA ListedLess ==
  ASSUME NEW k \in Nat \ {0}, NEW K, NEW s, Listed(s, k - 1, K), k \notin K
  PROVE  Listed(s, k, K)
<1>1. s \in Seq(Nat) /\ Len(s) \in Nat
  BY LenProperties DEF Listed
<1> DEFINE out(n) == {x \in 1 .. n : x \notin K}
<1>2. out(k) = out(k - 1) \cup {k} /\ k \notin out(k - 1)
  OBVIOUS
<1>3. IsFiniteSet(out(k - 1)) /\ Len(s) + Cardinality(out(k - 1)) = k - 1
  BY DEF Listed
<1>4. IsFiniteSet(out(k)) /\ Cardinality(out(k)) = Cardinality(out(k - 1)) + 1 /\ Cardinality(out(k - 1)) \in Nat
  <2>1. PICK S, T : S = out(k - 1) /\ T = out(k)
    OBVIOUS
  <2>2. IsFiniteSet(S) /\ T = S \cup {k} /\ k \notin S
    BY <1>2, <1>3, <2>1
  <2>3. IsFiniteSet(T) /\ Cardinality(T) = Cardinality(S) + 1 /\ Cardinality(S) \in Nat
    BY <2>2, FS_AddElement, FS_CardinalityType
  <2>4. QED
    BY <2>1, <2>3
<1>5. Len(s) + Cardinality(out(k)) = k
  <2>1. PICK c, e : c = Cardinality(out(k - 1)) /\ e = Cardinality(out(k))
    OBVIOUS
  <2>2. c \in Nat /\ e = c + 1 /\ Len(s) + c = k - 1
    BY <1>3, <1>4, <2>1
  <2>3. Len(s) + e = k
    BY <1>1, <2>2
  <2>4. QED
    BY <2>1, <2>3
<1>6. \A i \in 1 .. Len(s) : s[i] \in 1 .. k /\ s[i] \in K
  <2>1. \A x \in 1 .. (k - 1) : x \in 1 .. k
    OBVIOUS
  <2>2. QED
    BY <2>1 DEF Listed
<1>7. \A x \in 1 .. k : x \in K => \E i \in 1 .. Len(s) : s[i] = x
  <2>1. \A x \in 1 .. k : x \in K => x \in 1 .. (k - 1)
    OBVIOUS
  <2>2. QED
    BY <2>1 DEF Listed
<1>8. QED
  BY <1>1, <1>4, <1>5, <1>6, <1>7 DEF Listed

\* What is kept and what is left out are the book.
LEMMA KeptListed ==
  ASSUME NEW n \in Nat, NEW rows \in RowsOf(n)
  PROVE  Listed(D!Kept(rows), n, {i \in 1 .. n : D!Keeps(rows, i)})
<1> DEFINE K == {i \in 1 .. n : D!Keeps(rows, i)}
<1>1. PICK f : Lists(f, n, K) /\ D!Kept(rows) = f[n]
  BY KeptIs
<1> HIDE DEF K
<1>2. Listed(f[0], 0, K)
  <2>1. f[0] = <<>> /\ <<>> \in Seq(Nat) /\ Len(<<>>) = 0
    BY <1>1, EmptySeq DEF Lists
  <2>2. {x \in 1 .. 0 : x \notin K} = {} /\ IsFiniteSet({}) /\ Cardinality({}) = 0
    BY FS_EmptySet
  <2>3. \A x \in 1 .. 0 : FALSE
    OBVIOUS
  <2>4. QED
    BY <2>1, <2>2, <2>3 DEF Listed
<1> DEFINE Bad == {k \in 0 .. n : ~Listed(f[k], k, K)}
<1>3. Bad = {}
  <2>1. SUFFICES ASSUME Bad # {} PROVE FALSE
    OBVIOUS
  <2>2. PICK k \in Bad : \A l \in Bad : k <= l
    <3>1. Bad \in SUBSET Nat
      OBVIOUS
    <3> HIDE DEF Bad
    <3>2. QED
      BY <2>1, <3>1, LeastNumber
  <2>3. k # 0 /\ k \in 0 .. n
    BY <1>2, <2>2
  <2>4. k \in 1 .. n /\ k - 1 \in 0 .. n /\ ~(k <= k - 1) /\ k \in Nat \ {0}
    BY <2>3
  <2>5. k - 1 \notin Bad
    BY <2>2, <2>4
  <2>6. Listed(f[k - 1], k - 1, K)
    BY <2>4, <2>5
  <2>7. f[k] = IF k \in K THEN Append(f[k - 1], k) ELSE f[k - 1]
    BY <1>1, <2>4 DEF Lists
  <2>8. Listed(f[k], k, K)
    BY <2>4, <2>6, <2>7, ListedMore, ListedLess
  <2>9. QED
    BY <2>2, <2>8
<1>4. n \in 0 .. n
  OBVIOUS
<1>5. QED
  BY <1>1, <1>3, <1>4 DEF K

\* A trimmed book keeps its order and tells how many rows it left out, and their sum.
LEMMA BookKept ==
  ASSUME NEW n \in Nat, answer.kind = "book", answer.rows \in RowsOf(n)
  PROVE  D!TrimKeepsTheBook
<1> DEFINE rows == answer.rows
           K == {i \in 1 .. n : D!Keeps(rows, i)}
           kept == D!Kept(rows)
           out == {i \in DOMAIN rows : ~D!Keeps(rows, i)}
<1>1. DOMAIN rows = 1 .. n /\ Len(rows) = n
  BY BookOf
<1>2. Listed(kept, n, K)
  BY KeptListed
<1>3. out = (1 .. n) \ K /\ out = {x \in 1 .. n : x \notin K}
  BY <1>1
<1>4. kept \in Seq(Nat) /\ DOMAIN kept = 1 .. Len(kept)
  BY <1>2, LenProperties DEF Listed
<1>5. D!Range(kept) = K
  <2>1. D!Range(kept) = {kept[i] : i \in 1 .. Len(kept)}
    BY <1>4 DEF D!Range
  <2> HIDE DEF kept
  <2>2. {kept[i] : i \in 1 .. Len(kept)} \subseteq K
    BY <1>2 DEF Listed
  <2>3. K \subseteq {kept[i] : i \in 1 .. Len(kept)}
    <3>1. SUFFICES ASSUME NEW x \in K PROVE \E i \in 1 .. Len(kept) : kept[i] = x
      OBVIOUS
    <3>2. x \in 1 .. n
      BY <3>1
    <3> HIDE DEF K
    <3>3. QED
      BY <1>2, <3>1, <3>2 DEF Listed
  <2>4. QED
    BY <2>1, <2>2, <2>3
<1>6. D!Chance(rows, K) + D!Chance(rows, out) = D!Chance(rows, DOMAIN rows)
  <2>1. K \in SUBSET (1 .. n)
    OBVIOUS
  <2> HIDE DEF K, rows, out
  <2>2. D!Chance(rows, K) + D!Chance(rows, (1 .. n) \ K) = D!Chance(rows, 1 .. n)
    BY <2>1, ChanceSplits DEF rows
  <2>3. QED
    BY <1>1, <1>3, <2>2
<1>7. Len(kept) + D!Cardinality(out) = Len(rows)
  <2>1. D!Cardinality(out) = Cardinality(out)
    BY DEF D!Cardinality, Cardinality
  <2>2. Len(kept) + Cardinality({x \in 1 .. n : x \notin K}) = n
    BY <1>2 DEF Listed
  <2> HIDE DEF kept, K, out, rows
  <2>3. QED
    BY <1>1, <1>3, <2>1, <2>2
<1>8. \A i, j \in DOMAIN kept : i < j => kept[i] < kept[j]
  BY <1>2, <1>4 DEF Listed
<1>9. D!Trim(rows) = [kept |-> kept, omitted |-> D!Cardinality(out), mass |-> D!Chance(rows, out)]
  BY DEF D!Trim, D!OmittedMass
<1> HIDE DEF rows, kept, out, K
<1>10. PICK t : t = D!Trim(rows)
  OBVIOUS
<1>11. t.kept = kept /\ t.omitted = D!Cardinality(out) /\ t.mass = D!Chance(rows, out)
  BY <1>9, <1>10
<1>12. /\ \A i, j \in DOMAIN t.kept : i < j => t.kept[i] < t.kept[j]
       /\ Len(t.kept) + t.omitted = Len(rows)
       /\ D!Chance(rows, D!Range(t.kept)) + t.mass = D!Chance(rows, DOMAIN rows)
  BY <1>5, <1>6, <1>7, <1>8, <1>11
<1>13. QED
  BY <1>10, <1>12 DEF D!TrimKeepsTheBook, rows

-----------------------------------------------------------------------------
(* Digest: bars.                                                           *)

\* The greatest and the least of some positions.
LEMMA ExtremeOf ==
  ASSUME NEW n \in Nat, NEW T \in SUBSET (1 .. n), T # {}
  PROVE  /\ D!Max(T) \in T /\ \A t \in T : D!Max(T) >= t
         /\ D!Min(T) \in T /\ \A t \in T : D!Min(T) <= t
<1>1. T \in SUBSET (0 .. n) /\ T \in SUBSET Nat
  OBVIOUS
<1>2. \E m \in T : \A t \in T : m >= t
  BY <1>1, GreatestNumber
<1>3. \E m \in T : \A t \in T : m <= t
  BY <1>1, LeastNumber
<1>4. PICK high : high = D!Max(T)
  OBVIOUS
<1>5. PICK low : low = D!Min(T)
  OBVIOUS
<1>6. high \in T /\ \A t \in T : high >= t
  BY <1>2, <1>4 DEF D!Max
<1>7. low \in T /\ \A t \in T : low <= t
  BY <1>3, <1>5 DEF D!Min
<1>8. QED
  BY <1>4, <1>5, <1>6, <1>7

\* The lesser of two numbers is neither above the one nor the other.
LEMMA LesserOf ==
  ASSUME NEW a \in Int, NEW b \in Int
  PROVE  D!Min({a, b}) <= a /\ D!Min({a, b}) <= b
<1>1. \E x \in {a, b} : \A y \in {a, b} : x <= y
  OBVIOUS
<1>2. PICK m : m = D!Min({a, b})
  OBVIOUS
<1>3. m \in {a, b} /\ \A y \in {a, b} : m <= y
  BY <1>1, <1>2 DEF D!Min
<1>4. QED
  BY <1>2, <1>3

\* It is one of the two.
LEMMA LeastIsOne ==
  ASSUME NEW a \in Int, NEW b \in Int
  PROVE  D!Min({a, b}) \in {a, b}
<1>1. \E x \in {a, b} : \A y \in {a, b} : x <= y
  OBVIOUS
<1>2. PICK m : m = D!Min({a, b})
  OBVIOUS
<1>3. m \in {a, b} /\ \A y \in {a, b} : m <= y
  BY <1>1, <1>2 DEF D!Min
<1>4. QED
  BY <1>2, <1>3

\* The bars of the window have ended when the move is told.
LEMMA WindowEnded ==
  ASSUME answer.event \in 1 .. Length, answer.asOf \in 1 .. Length
  PROVE  D!Window \in SUBSET (1 .. Length) /\ \A t \in D!Window : t < answer.asOf
<1>1. Length \in Nat /\ MaxWindow \in Nat
  BY IntakeAssumption
<1>2. PICK e : e = D!WindowEnd
  OBVIOUS
<1>3. e \in Int /\ e <= answer.asOf
  <2>1. answer.asOf \in Int /\ answer.event + MaxWindow \in Int
    BY <1>1
  <2>2. e = D!Min({answer.asOf, answer.event + MaxWindow})
    BY <1>2 DEF D!WindowEnd
  <2>3. QED
    BY <2>1, <2>2, LesserOf, LeastIsOne
<1>4. \A t \in D!Window : t \in 1 .. Length /\ t + 1 <= e
  BY <1>2 DEF D!Window, D!Traded
<1>5. ASSUME NEW t \in D!Window PROVE t \in 1 .. Length /\ t < answer.asOf
  <2>1. t \in 1 .. Length /\ t + 1 <= e
    BY <1>4
  <2>2. QED
    BY <1>1, <1>3, <2>1
<1>6. QED
  BY <1>5

\* A reaction begins after the event and ends before the moment it is told about.
LEMMA ReactionFollows ==
  ASSUME answer.kind = "tape", answer.event \in 1 .. Length, answer.asOf \in 1 .. Length
  PROVE  D!ReactionFollowsEvent
<1>1. SUFFICES ASSUME D!Reaction.status = "OK"
               PROVE  /\ D!Reaction.basis = "first_bar_at_or_after_event" => answer.event <= D!Reaction.at
                      /\ D!Reaction.at <= D!Reaction.reference /\ D!Reaction.reference < answer.asOf
  BY DEF D!ReactionFollowsEvent
<1>2. PICK W, A : W = D!Window /\ A = D!AtOrAfter
  OBVIOUS
<1>3. ~(answer.event > answer.asOf \/ W = {})
  <2>1. CASE answer.event > answer.asOf \/ W = {}
    <3>1. D!Reaction = [status |-> "NO_DATA"]
      BY <1>2, <2>1 DEF D!Reaction
    <3>2. QED
      BY <1>1, <3>1
  <2>2. QED
    BY <2>1
<1>4. PICK priced : priced = D!Priced
  OBVIOUS
<1>5. D!Reaction.at = priced.at /\ D!Reaction.basis = priced.basis /\ D!Reaction.reference = D!Max(W)
  BY <1>2, <1>3, <1>4 DEF D!Reaction
<1>6. W \in SUBSET (1 .. Length) /\ Length \in Nat /\ \A t \in W : t < answer.asOf
  BY <1>2, WindowEnded, IntakeAssumption
<1>7. D!Max(W) \in W /\ \A t \in W : D!Max(W) >= t
  BY <1>3, <1>6, ExtremeOf
<1>8. A \in SUBSET W /\ \A t \in A : t >= answer.event
  BY <1>2 DEF D!AtOrAfter
<1>9. CASE A # {}
  <2>1. priced.at = D!Min(A)
    BY <1>2, <1>4, <1>9 DEF D!Priced
  <2>2. A \in SUBSET (1 .. Length)
    BY <1>6, <1>8
  <2>3. D!Min(A) \in A
    BY <1>6, <1>9, <2>2, ExtremeOf
  <2>4. priced.at \in A
    BY <2>1, <2>3
  <2>5. answer.event <= priced.at /\ priced.at <= D!Max(W)
    BY <1>6, <1>7, <1>8, <2>4
  <2>6. QED
    BY <1>5, <1>6, <1>7, <2>5
<1>10. CASE A = {}
  <2>1. priced = [at |-> D!Max(W), basis |-> "last_bar_before_event"]
    BY <1>2, <1>4, <1>10 DEF D!Priced
  <2>2. priced.basis # "first_bar_at_or_after_event" /\ priced.at <= D!Max(W)
    BY <1>6, <1>7, <2>1
  <2>3. QED
    BY <1>5, <1>6, <1>7, <2>2
<1>11. QED
  BY <1>9, <1>10

\* An indicator is told whenever there are bars enough for it.
LEMMA SnapshotFull ==
  ASSUME answer.kind = "tape", answer.event \in 1 .. Length, answer.asOf \in 1 .. Length
  PROVE  D!SnapshotIsFull
<1>1. SUFFICES ASSUME D!Snapshot # None
               PROVE  {n \in DOMAIN MinRows : MinRows[n] <= D!Cardinality({t \in D!Traded : t < answer.asOf})}
                          \subseteq D!Snapshot.indicators
  BY DEF D!SnapshotIsFull
<1>2. D!Snapshot.indicators = D!Computed
  BY <1>1 DEF D!Snapshot
<1>3. {t \in D!Traded : t < answer.asOf} = D!Completed
  <2>1. \A t \in D!Traded : t < answer.asOf <=> t + 1 <= answer.asOf
    BY DEF D!Traded
  <2>2. QED
    BY <2>1 DEF D!Completed
<1>4. QED
  BY <1>2, <1>3 DEF D!Computed

-----------------------------------------------------------------------------
(* Digest: the levels of a rate.                                           *)

\* What the levels need of the assumption.
LEMMA SeriesConstants ==
  Length \in Nat /\ MaxLevels \in Nat /\ MaxLevels # 0 /\ \A v \in Values : v \in Int
  BY IntakeAssumption

Level == [day : Nat, since : Nat, value : Int]

\* With continues the last level, or begins one.
LEMMA WithIs ==
  ASSUME NEW s \in Seq(Level), NEW said \in [day : Nat, value : Int]
  PROVE  /\ D!With(s, said) \in Seq(Level) /\ Len(s) \in Nat
         /\ \/ /\ s # <<>> /\ Len(D!With(s, said)) = Len(s) /\ s[Len(s)].value = said.value
               /\ \A i \in 1 .. Len(s) : i # Len(s) => D!With(s, said)[i] = s[i]
               /\ D!With(s, said)[Len(s)] = [s[Len(s)] EXCEPT !.since = said.day]
            \/ /\ Len(D!With(s, said)) = Len(s) + 1
               /\ \A i \in 1 .. Len(s) : D!With(s, said)[i] = s[i]
               /\ D!With(s, said)[Len(s) + 1] = [day |-> said.day, since |-> said.day, value |-> said.value]
<1>1. Len(s) \in Nat /\ DOMAIN s = 1 .. Len(s)
  BY LenProperties
<1>2. CASE D!Continues(s, said)
  <2>1. s # <<>> /\ D!Last(s) = s[Len(s)] /\ s[Len(s)].value = said.value
    BY <1>2 DEF D!Continues, D!Last
  <2>2. Len(s) \in 1 .. Len(s)
    BY <1>1, <2>1, EmptySeq
  <2>3. PICK last \in Level : last = s[Len(s)]
    BY <2>2, ElementOfSeq
  <2>4. PICK more : more = [last EXCEPT !.since = said.day]
    OBVIOUS
  <2>5. more \in Level
    BY <2>4 DEF Level
  <2>6. D!With(s, said) = [s EXCEPT ![Len(s)] = more]
    BY <1>2, <2>3, <2>4 DEF D!With
  <2>7. PICK t : t = [s EXCEPT ![Len(s)] = more]
    OBVIOUS
  <2>8. t \in Seq(Level) /\ Len(t) = Len(s)
    BY <2>2, <2>5, <2>7, ExceptSeq
  <2>9. t[Len(s)] = more /\ \A i \in 1 .. Len(s) : i # Len(s) => t[i] = s[i]
    BY <1>1, <2>2, <2>7
  <2>10. QED
    BY <1>1, <2>1, <2>3, <2>4, <2>6, <2>7, <2>8, <2>9
<1>3. CASE ~D!Continues(s, said)
  <2>1. PICK level : level = [day |-> said.day, since |-> said.day, value |-> said.value]
    OBVIOUS
  <2>2. level \in Level
    BY <2>1 DEF Level
  <2>3. D!With(s, said) = Append(s, level)
    BY <1>3, <2>1 DEF D!With
  <2>4. /\ Append(s, level) \in Seq(Level) /\ Len(Append(s, level)) = Len(s) + 1
        /\ \A i \in 1 .. Len(s) : Append(s, level)[i] = s[i]
        /\ Append(s, level)[Len(s) + 1] = level
    BY <2>2, AppendProperties
  <2>5. QED
    BY <1>1, <2>1, <2>3, <2>4
<1>4. QED
  BY <1>2, <1>3

\* The levels tell the observations from day n on.
Tells(s, n) ==
    /\ s \in Seq(Level)
    /\ \A i \in 1 .. Len(s) : n <= s[i].since /\ s[i].since <= s[i].day
    /\ \A i, j \in 1 .. Len(s) : i < j => s[j].day < s[i].since
    /\ \A d \in n .. Length : D!Dated(d) =>
          \E i \in 1 .. Len(s) : s[i].since <= d /\ d <= s[i].day /\ s[i].value = D!Row(d).value

\* A dated row is an observation.
LEMMA RowOf ==
  ASSUME answer.rows \in [1 .. Length -> Values \cup {None}], NEW d \in 1 .. Length, D!Dated(d)
  PROVE  D!Row(d) \in [day : Nat, value : Int] /\ D!Row(d).day = d
<1>1. answer.rows[d] \in Values
  BY DEF D!Dated, D!Row
<1>2. answer.rows[d] \in Int /\ d \in Nat
  BY <1>1, SeriesConstants
<1>3. QED
  BY <1>1, <1>2 DEF D!Row

\* The parts of a level.
LEMMA Levels ==
  ASSUME NEW s \in Seq(Level)
  PROVE  /\ Len(s) \in Nat
         /\ \A i \in 1 .. Len(s) : s[i].day \in Nat /\ s[i].since \in Nat /\ s[i].value \in Int
<1>1. \A i \in 1 .. Len(s) : s[i] \in Level
  BY ElementOfSeq
<1>2. QED
  BY <1>1, LenProperties DEF Level

\* One more observation continues the last level or begins one.
LEMMA TellsMore ==
  ASSUME answer.rows \in [1 .. Length -> Values \cup {None}], NEW d \in 1 .. Length, D!Dated(d),
         NEW s, Tells(s, d + 1)
  PROVE  Tells(D!With(s, D!Row(d)), d)
<1>1. PICK said \in [day : Nat, value : Int] : said = D!Row(d) /\ said.day = d
  BY RowOf
<1>2. PICK t : t = D!With(s, said)
  OBVIOUS
<1>3. s \in Seq(Level) /\ d \in Nat
  BY DEF Tells
<1>4. t \in Seq(Level)
  BY <1>2, <1>3, WithIs
<1>5. \A i \in 1 .. Len(s) : s[i].day \in Nat /\ s[i].since \in Nat /\ s[i].value \in Int
  BY <1>3, Levels
<1>6. \A i \in 1 .. Len(s) : d < s[i].since /\ s[i].since <= s[i].day
  BY <1>3, <1>5 DEF Tells
<1>7. \A e \in d .. Length : e = d \/ e \in (d + 1) .. Length
  BY <1>3, SeriesConstants
<1>8. CASE /\ s # <<>> /\ Len(t) = Len(s) /\ s[Len(s)].value = said.value
           /\ \A i \in 1 .. Len(s) : i # Len(s) => t[i] = s[i]
           /\ t[Len(s)] = [s[Len(s)] EXCEPT !.since = said.day]
  <2>1. Len(s) \in 1 .. Len(s) /\ Len(s) \in Nat
    BY <1>3, <1>8, LenProperties, EmptySeq
  <2>2. s[Len(s)] \in Level
    BY <1>3, <2>1, ElementOfSeq
  <2>3. t[Len(s)].since = d /\ t[Len(s)].day = s[Len(s)].day /\ t[Len(s)].value = s[Len(s)].value
    BY <1>1, <1>8, <2>2 DEF Level
  <2>4. \A i \in 1 .. Len(s) : /\ t[i].day = s[i].day /\ t[i].value = s[i].value
                               /\ t[i].since = IF i = Len(s) THEN d ELSE s[i].since
    BY <1>8, <2>3
  <2>5. \A i \in 1 .. Len(t) : d <= t[i].since /\ t[i].since <= t[i].day
    BY <1>3, <1>5, <1>6, <1>8, <2>4
  <2>6. ASSUME NEW i \in 1 .. Len(t), NEW j \in 1 .. Len(t), i < j PROVE t[j].day < t[i].since
    <3>1. i # Len(s) /\ t[i].since = s[i].since /\ t[j].day = s[j].day
      BY <1>8, <2>1, <2>4, <2>6
    <3>2. QED
      BY <1>8, <2>6, <3>1 DEF Tells
  <2>7. ASSUME NEW e \in d .. Length, D!Dated(e)
        PROVE  \E i \in 1 .. Len(t) : t[i].since <= e /\ e <= t[i].day /\ t[i].value = D!Row(e).value
    <3>1. CASE e = d
      <4>1. t[Len(s)].since <= e /\ e <= t[Len(s)].day /\ t[Len(s)].value = D!Row(e).value
        BY <1>1, <1>3, <1>5, <1>6, <1>8, <2>1, <2>3, <3>1
      <4>2. QED
        BY <1>8, <2>1, <4>1
    <3>2. CASE e \in (d + 1) .. Length
      <4>1. PICK i \in 1 .. Len(s) : s[i].since <= e /\ e <= s[i].day /\ s[i].value = D!Row(e).value
        BY <2>7, <3>2 DEF Tells
      <4>2. t[i].since <= e
        BY <1>3, <1>5, <2>4, <3>2, <4>1
      <4>3. QED
        BY <1>8, <2>4, <4>1, <4>2
    <3>3. QED
      BY <1>7, <3>1, <3>2
  <2>8. Tells(t, d)
    BY <1>4, <2>5, <2>6, <2>7 DEF Tells
  <2>9. QED
    BY <1>1, <1>2, <2>8
<1>9. CASE /\ Len(t) = Len(s) + 1 /\ \A i \in 1 .. Len(s) : t[i] = s[i]
           /\ t[Len(s) + 1] = [day |-> said.day, since |-> said.day, value |-> said.value]
  <2>1. Len(s) \in Nat /\ Len(s) + 1 \in 1 .. Len(t)
    BY <1>3, <1>9, LenProperties
  <2>2. t[Len(s) + 1].day = d /\ t[Len(s) + 1].since = d /\ t[Len(s) + 1].value = said.value
    BY <1>1, <1>9
  <2>3. \A i \in 1 .. Len(t) : i = Len(s) + 1 \/ (i \in 1 .. Len(s) /\ t[i] = s[i])
    BY <1>9, <2>1
  <2>4. \A i \in 1 .. Len(t) : d <= t[i].since /\ t[i].since <= t[i].day
    BY <1>3, <1>5, <1>6, <2>2, <2>3
  <2>5. ASSUME NEW i \in 1 .. Len(t), NEW j \in 1 .. Len(t), i < j PROVE t[j].day < t[i].since
    <3>1. i \in 1 .. Len(s) /\ t[i] = s[i]
      BY <1>9, <2>1, <2>3, <2>5
    <3>2. CASE j = Len(s) + 1
      BY <1>3, <1>6, <2>2, <3>1, <3>2
    <3>3. CASE j \in 1 .. Len(s) /\ t[j] = s[j]
      BY <2>5, <3>1, <3>3 DEF Tells
    <3>4. QED
      BY <2>3, <3>2, <3>3
  <2>6. ASSUME NEW e \in d .. Length, D!Dated(e)
        PROVE  \E i \in 1 .. Len(t) : t[i].since <= e /\ e <= t[i].day /\ t[i].value = D!Row(e).value
    <3>1. CASE e = d
      <4>1. t[Len(s) + 1].since <= e /\ e <= t[Len(s) + 1].day /\ t[Len(s) + 1].value = D!Row(e).value
        BY <1>1, <1>3, <2>2, <3>1
      <4>2. QED
        BY <2>1, <4>1
    <3>2. CASE e \in (d + 1) .. Length
      <4>1. PICK i \in 1 .. Len(s) : s[i].since <= e /\ e <= s[i].day /\ s[i].value = D!Row(e).value
        BY <2>6, <3>2 DEF Tells
      <4>2. i \in 1 .. Len(t) /\ t[i] = s[i]
        BY <1>9, <2>1
      <4>3. QED
        BY <4>1, <4>2
    <3>3. QED
      BY <1>7, <3>1, <3>2
  <2>7. Tells(t, d)
    BY <1>4, <2>4, <2>5, <2>6 DEF Tells
  <2>8. QED
    BY <1>1, <1>2, <2>7
<1>10. QED
  BY <1>2, <1>3, <1>8, <1>9, WithIs

\* A day without an observation changes nothing.
LEMMA TellsSame ==
  ASSUME NEW d \in 1 .. Length, ~D!Dated(d), NEW s, Tells(s, d + 1)
  PROVE  Tells(s, d)
<1>1. d \in Nat /\ s \in Seq(Level)
  BY DEF Tells
<1>2. \A i \in 1 .. Len(s) : d <= s[i].since /\ s[i].since <= s[i].day
  BY <1>1, Levels DEF Tells
<1>3. \A e \in d .. Length : e = d \/ e \in (d + 1) .. Length
  BY <1>1, SeriesConstants
<1>4. QED
  BY <1>1, <1>2, <1>3 DEF Tells

\* f goes through the days, the newest first.
GoesBack(f) ==
    /\ f[0] = <<>>
    /\ \A k \in 1 .. Length :
          f[k] = IF D!Dated(Length + 1 - k) THEN D!With(f[k - 1], D!Row(Length + 1 - k)) ELSE f[k - 1]

\* The collapsed series, as what the last days collapse to.
LEMMA CollapsedIs ==
  ASSUME answer.rows \in [1 .. Length -> Values \cup {None}]
  PROVE  \E f : GoesBack(f) /\ D!Collapsed = f[Length]
<1> DEFINE dated(k) == D!Dated(Length + 1 - k)
           with(s, k) == D!With(s, D!Row(Length + 1 - k))
           body(u) == [k \in 0 .. Length |-> IF k = 0 THEN <<>>
                                             ELSE IF dated(k) THEN with(u[k - 1], k) ELSE u[k - 1]]
           step == [p \in Nat \X Seq(Level) |->
                       IF p[1] \in 1 .. Length /\ dated(p[1]) THEN with(p[2], p[1]) ELSE p[2]]
<1>1. Length \in Nat
  BY SeriesConstants
<1>2. step \in [Nat \X Seq(Level) -> Seq(Level)]
  <2>1. ASSUME NEW k \in 1 .. Length, dated(k), NEW s \in Seq(Level) PROVE with(s, k) \in Seq(Level)
    <3>1. PICK d \in 1 .. Length : d = Length + 1 - k
      BY <1>1
    <3>2. D!Row(d) \in [day : Nat, value : Int]
      BY <2>1, <3>1, RowOf
    <3>3. D!With(s, D!Row(d)) \in Seq(Level)
      BY <3>2, WithIs
    <3>4. QED
      BY <3>1, <3>3
  <2> HIDE DEF dated, with
  <2>2. ASSUME NEW p \in Nat \X Seq(Level)
        PROVE  (IF p[1] \in 1 .. Length /\ dated(p[1]) THEN with(p[2], p[1]) ELSE p[2]) \in Seq(Level)
    <3>1. p[2] \in Seq(Level)
      OBVIOUS
    <3>2. QED
      BY <2>1, <3>1
  <2>3. QED
    BY <2>2
<1> HIDE DEF dated, with
<1>3. PICK f \in [0 .. Length -> Seq(Level)] : Recurs(f, Length, <<>>, step)
  <2> HIDE DEF step
  <2>1. <<>> \in Seq(Level)
    BY EmptySeq
  <2>2. PICK X : X = Seq(Level)
    OBVIOUS
  <2>3. \E f \in [0 .. Length -> X] : Recurs(f, Length, <<>>, step)
    BY <1>1, <1>2, <2>1, <2>2, Recursion
  <2>4. QED
    BY <2>2, <2>3
<1>4. f = body(f)
  <2>1. ASSUME NEW k \in 0 .. Length, k # 0
        PROVE  step[<<k, f[k - 1]>>] = IF dated(k) THEN with(f[k - 1], k) ELSE f[k - 1]
    <3>1. k - 1 \in 0 .. Length /\ k \in Nat /\ k \in 1 .. Length
      BY <1>1, <2>1
    <3>2. f[k - 1] \in Seq(Level)
      BY <3>1
    <3>3. PICK s \in Seq(Level) : s = f[k - 1]
      BY <3>2
    <3>4. step[<<k, s>>] = IF dated(k) THEN with(s, k) ELSE s
      BY <3>1
    <3>5. QED
      BY <3>3, <3>4
  <2> HIDE DEF step
  <2>2. QED
    BY <1>3, <2>1 DEF Recurs
<1>5. PICK g : g = CHOOSE u : u = body(u)
  OBVIOUS
<1> HIDE DEF body
<1>6. g = body(g)
  BY <1>4, <1>5
<1>7. D!Collapsed = g[Length]
  <2>1. D!Collapsed = (CHOOSE u : u = body(u))[Length]
    BY DEF D!Collapsed, body, dated, with
  <2>2. QED
    BY <1>5, <2>1
<1>8. GoesBack(g)
  <2>1. \A k \in 0 .. Length : g[k] = IF k = 0 THEN <<>>
                                       ELSE IF dated(k) THEN with(g[k - 1], k) ELSE g[k - 1]
    BY <1>6 DEF body
  <2>2. 0 \in 0 .. Length /\ \A k \in 1 .. Length : k \in 0 .. Length /\ k # 0
    BY <1>1
  <2>3. QED
    BY <2>1, <2>2 DEF GoesBack, dated, with
<1>9. QED
  BY <1>7, <1>8

\* They tell every observation.
LEMMA CollapsedTells ==
  ASSUME answer.rows \in [1 .. Length -> Values \cup {None}]
  PROVE  Tells(D!Collapsed, 1)
<1>1. PICK f : GoesBack(f) /\ D!Collapsed = f[Length]
  BY CollapsedIs
<1>2. Length \in Nat
  BY SeriesConstants
<1>3. Tells(f[0], Length + 1)
  <2>1. f[0] = <<>> /\ <<>> \in Seq(Level) /\ Len(<<>>) = 0
    BY <1>1, EmptySeq DEF GoesBack
  <2>2. \A d \in (Length + 1) .. Length : FALSE
    BY <1>2
  <2>3. QED
    BY <2>1, <2>2 DEF Tells
<1> DEFINE Bad == {k \in 0 .. Length : ~Tells(f[k], Length + 1 - k)}
<1>4. Bad = {}
  <2>1. SUFFICES ASSUME Bad # {} PROVE FALSE
    OBVIOUS
  <2>2. PICK k \in Bad : \A l \in Bad : k <= l
    <3>1. Bad \in SUBSET Nat
      OBVIOUS
    <3> HIDE DEF Bad
    <3>2. QED
      BY <2>1, <3>1, LeastNumber
  <2>3. k # 0 /\ k \in 0 .. Length
    <3>1. Length + 1 - 0 = Length + 1
      BY <1>2
    <3>2. QED
      BY <1>3, <2>2, <3>1
  <2>4. k \in 1 .. Length /\ k - 1 \in 0 .. Length /\ ~(k <= k - 1)
    BY <1>2, <2>3
  <2>5. k - 1 \notin Bad
    BY <2>2, <2>4
  <2>6. PICK d \in 1 .. Length : d = Length + 1 - k /\ d + 1 = Length + 1 - (k - 1)
    BY <1>2, <2>4
  <2>7. Tells(f[k - 1], d + 1)
    BY <2>4, <2>5, <2>6
  <2>8. f[k] = IF D!Dated(d) THEN D!With(f[k - 1], D!Row(d)) ELSE f[k - 1]
    BY <1>1, <2>4, <2>6 DEF GoesBack
  <2>9. Tells(f[k], d)
    BY <2>7, <2>8, TellsMore, TellsSame
  <2>10. QED
    BY <2>2, <2>6, <2>9
<1>5. Length \in 0 .. Length /\ Length + 1 - Length = 1
  BY <1>2
<1>6. Tells(f[Length], 1)
  BY <1>4, <1>5
<1>7. QED
  BY <1>1, <1>6

\* The levels give the series back, down to where they were cut.
LEMMA LevelsTold ==
  ASSUME answer.kind = "series", answer.rows \in [1 .. Length -> Values \cup {None}]
  PROVE  D!LevelsTellTheSeries
<1>1. SUFFICES
        ASSUME D!SummarizeSeries # None, NEW d \in 1 .. Length, D!Dated(d)
        PROVE  \/ \E l \in D!Range(D!SummarizeSeries.levels) :
                     l.since <= d /\ d <= l.day /\ l.value = D!Row(d).value
               \/ D!SummarizeSeries.truncated /\ d < D!Last(D!SummarizeSeries.levels).since
  BY DEF D!LevelsTellTheSeries
<1>2. PICK c : c = D!Collapsed
  OBVIOUS
<1>3. Tells(c, 1) /\ c \in Seq(Level)
  BY <1>2, CollapsedTells DEF Tells
<1>4. PICK m : m = D!Min({MaxLevels, Len(c)})
  OBVIOUS
<1>5. PICK shown : shown = SubSeq(c, 1, m)
  OBVIOUS
<1>6. D!SummarizeSeries.levels = shown /\ D!SummarizeSeries.truncated = (Len(c) > MaxLevels)
  BY <1>1, <1>2, <1>4, <1>5 DEF D!SummarizeSeries
<1>7. PICK i \in 1 .. Len(c) : c[i].since <= d /\ d <= c[i].day /\ c[i].value = D!Row(d).value
  BY <1>1, <1>3 DEF Tells
<1>8. Len(c) \in Nat /\ i \in Nat
  BY <1>3, LenProperties
<1>9. /\ m \in Nat /\ m <= Len(c) /\ (m # Len(c) => m = MaxLevels /\ m # 0 /\ Len(c) > MaxLevels)
  <2>1. MaxLevels \in Int /\ Len(c) \in Int /\ MaxLevels \in Nat /\ MaxLevels # 0
    BY <1>8, SeriesConstants
  <2>2. m <= MaxLevels /\ m <= Len(c) /\ m \in {MaxLevels, Len(c)}
    BY <1>4, <2>1, LesserOf, LeastIsOne
  <2>3. QED
    BY <1>8, <2>1, <2>2
<1>10. /\ shown \in Seq(Level) /\ Len(shown) = m
       /\ \A k \in 1 .. m : shown[k] = c[k]
  <2>1. 1 .. m \subseteq 1 .. Len(c)
    BY <1>8, <1>9
  <2>2. shown \in Seq(Level) /\ Len(shown) = (IF 1 <= m THEN m - 1 + 1 ELSE 0)
    BY <1>3, <1>5, <1>8, <1>9, <2>1, SubSeqProperties
  <2>3. ASSUME NEW k \in 1 .. m PROVE shown[k] = c[k]
    BY <1>3, <1>5, <1>8, <1>9, <2>1, SubSeqProperties
  <2>4. QED
    BY <1>9, <2>2, <2>3
<1>11. CASE i <= m
  <2>1. i \in 1 .. m
    BY <1>8, <1>9, <1>11
  <2>2. DOMAIN shown = 1 .. m
    BY <1>10, LenProperties
  <2>3. c[i] \in D!Range(shown)
    BY <1>10, <2>1, <2>2 DEF D!Range
  <2>4. QED
    BY <1>6, <1>7, <2>3
<1>12. CASE i > m
  <2>1. m # Len(c) /\ m \in 1 .. Len(c) /\ m < i /\ Len(c) > MaxLevels
    BY <1>8, <1>9, <1>12
  <2>2. c[i].day < c[m].since
    BY <1>3, <2>1 DEF Tells
  <2>3. D!Last(shown) = c[m]
    BY <1>8, <1>9, <1>10, <2>1 DEF D!Last
  <2>4. c[i].day \in Nat /\ c[m].since \in Nat
    BY <1>3, <2>1, Levels
  <2>5. d < c[m].since
    BY <1>7, <2>2, <2>4
  <2>6. QED
    BY <1>6, <2>1, <2>3, <2>5
<1>13. QED
  BY <1>8, <1>9, <1>11, <1>12

\* The digest is made of an answer of one of the three kinds, and of one only.
DigestInv == part = "digest" => answer \in D!Serieses \cup D!Books \cup D!Tapes

\* Whatever the answer, its digest is faithful.
LEMMA Faithful ==
  ASSUME answer \in D!Serieses \cup D!Books \cup D!Tapes
  PROVE  D!DigestsAreFaithful
<1>1. CASE answer \in D!Serieses
  <2>1. answer.kind = "series" /\ answer.rows \in [1 .. Length -> Values \cup {None}]
    BY <1>1 DEF D!Serieses
  <2>2. D!TrimKeepsTheBook /\ D!ReactionFollowsEvent /\ D!SnapshotIsFull
    BY <2>1 DEF D!TrimKeepsTheBook, D!ReactionFollowsEvent, D!SnapshotIsFull, D!Kind
  <2>3. QED
    BY <2>1, <2>2, LevelsTold DEF D!DigestsAreFaithful
<1>2. CASE answer \in D!Books
  <2>1. answer.kind = "book" /\ \E n \in 1 .. Length : answer.rows \in [1 .. n -> Chances]
    BY <1>2 DEF D!Books
  <2>2. PICK n \in Nat : answer.kind = "book" /\ answer.rows \in RowsOf(n)
    BY <2>1, SeriesConstants DEF RowsOf
  <2>3. D!LevelsTellTheSeries /\ D!ReactionFollowsEvent /\ D!SnapshotIsFull
    BY <2>2 DEF D!LevelsTellTheSeries, D!ReactionFollowsEvent, D!SnapshotIsFull, D!Kind
  <2>4. QED
    BY <2>2, <2>3, BookKept DEF D!DigestsAreFaithful
<1>3. CASE answer \in D!Tapes
  <2>1. answer.kind = "tape" /\ answer.event \in 1 .. Length /\ answer.asOf \in 1 .. Length
    BY <1>3 DEF D!Tapes
  <2>2. D!LevelsTellTheSeries /\ D!TrimKeepsTheBook
    BY <2>1 DEF D!LevelsTellTheSeries, D!TrimKeepsTheBook, D!Kind
  <2>3. QED
    BY <2>1, <2>2, ReactionFollows, SnapshotFull DEF D!DigestsAreFaithful
<1>4. QED
  BY <1>1, <1>2, <1>3

\* DigestsAreFaithful, of answers of every length and every setting: the levels give every
\* observation back, a trimmed book adds up, a reaction follows its event, and no indicator is
\* missing (research_data.py, research_expectations.py, reaction.py).
THEOREM Digests == Explored => []DigestsAreFaithful
<1>1. Start => DigestInv
  BY DEF Start, DigestInv, D!Init
<1>2. DigestInv /\ [Step]_<<part, answer, feeding, streaming, showing, preferring, enriching>>
         => DigestInv'
  BY DEF Step, DigestInv, D!Serieses, D!Books, D!Tapes
<1>3. DigestInv => DigestsAreFaithful
  BY Faithful DEF DigestInv, DigestsAreFaithful
<1>4. QED
  BY <1>1, <1>2, <1>3, PTL DEF Explored

=============================================================================
