-------------------------- MODULE BanRecoveryProofs --------------------------
(***************************************************************************)
(* What ban recovery keeps, for every limit, window, cooldown and number   *)
(* of faults: its types, that a failure is only reported when every        *)
(* restart is used, the limit of restarts of a window, and the cooldown    *)
(* between two restarts.                                                   *)
(***************************************************************************)
EXTENDS BanRecovery, SequenceTheorems, FiniteSetTheorems, TLAPS

\* A restart is only made while some are left, and is dated when the pod is
\* deleted; afterwards the status has the date of the latest one.
RestartsDated ==
    /\ pc = "commit" => mine.count < MaxRestarts /\ recent # <<>> /\ recent[Len(recent)] = 0
    /\ pc = "idle" /\ blurred = 0 /\ recent # <<>> => status.last = recent[Len(recent)]

\* The inductive invariant.
IInv == TypeOK /\ RestartsDated /\ FailedMeansExhausted

-----------------------------------------------------------------------------
(* What the building blocks write.                                          *)

LEMMA AgesOf ==
    /\ None \in Int /\ None \notin Ages /\ 0 \in Ages /\ Expired \in Ages
    /\ \A a \in Ages \cup {None} : Older(a) \in Ages \cup {None}
  BY ConstantsAssumption DEF None, Ages, Expired, Older

LEMMA ClearIsFields == Clear \in Fields
  BY ConstantsAssumption, AgesOf DEF Clear, Fields

LEMMA AgedIsFields ==
    ASSUME NEW s \in Fields
    PROVE  /\ Aged(s) \in Fields /\ Aged(s).count = s.count /\ Aged(s).cond = s.cond
           /\ Aged(s).last = Older(s.last)
<1>1. Older(s.start) \in Ages \cup {None} /\ Older(s.last) \in Ages \cup {None}
  BY AgesOf DEF Fields
<1> QED  BY <1>1 DEF Aged, Fields

LEMMA WindowResetIsFields ==
    ASSUME NEW s \in Fields
    PROVE  /\ WindowReset(s) \in Fields /\ WindowReset(s).last = s.last
           /\ Exhausted(WindowReset(s)) => s.count = MaxRestarts
           /\ ~Exhausted(WindowReset(s)) => WindowReset(s).count < MaxRestarts
<1>1. CASE s.start = Expired
  <2>1. None \in Ages \cup {None} /\ 0 \in 0 .. MaxRestarts
    BY ConstantsAssumption
  <2>2. /\ [s EXCEPT !.start = None, !.count = 0] \in Fields
        /\ [s EXCEPT !.start = None, !.count = 0].last = s.last
        /\ [s EXCEPT !.start = None, !.count = 0].count = 0
    BY <2>1 DEF Fields
  <2> QED  BY <1>1, <2>2, ConstantsAssumption DEF WindowReset, Exhausted
<1>2. CASE s.start # Expired
  BY <1>2, ConstantsAssumption DEF WindowReset, Exhausted, Fields
<1> QED  BY <1>1, <1>2

LEMMA CountedIsFields ==
    ASSUME NEW s \in Fields, NEW m \in Fields, m.count < MaxRestarts
    PROVE  /\ Counted(s, m) \in Fields /\ Counted(s, m).last = 0
           /\ Counted(s, m).cond = "progress"
<1>1. m.count + 1 \in 0 .. MaxRestarts
  BY ConstantsAssumption DEF Fields
<1> QED  BY <1>1, AgesOf DEF Counted, Fields

LEMMA ResetIsFields ==
    ASSUME NEW s \in Fields, NEW v \in Fields
    PROVE  Reset(s, v) \in Fields
  BY ConstantsAssumption DEF Reset, Fields

\* A decision is one of the outdated ones, or its copy is the status.
LEMMA Deciding ==
    ASSUME TypeOK, Decide
    PROVE  /\ blurred' \in Nat /\ faults' \in 0 .. MaxFaults
           /\ blurred' = 0 => view = status /\ blurred = 0
           /\ blurred > 0 => blurred' > 0
  BY ConstantsAssumption DEF TypeOK, Decide, Spend

LEMMA LatestIsAge ==
    ASSUME recent \in Seq(0 .. Window), recent # <<>>
    PROVE  recent[Len(recent)] \in 0 .. Window
<1>1. Len(recent) \in Nat /\ Len(recent) # 0
  BY EmptySeq
<1>2. Len(recent) \in 1 .. Len(recent)
  BY <1>1
<1> QED  BY <1>2, ElementOfSeq

\* A tick keeps the order and the number of the restarts it does not drop, and
\* the latest of them stays the latest.
LEMMA OneTickOlderKeeps ==
    ASSUME TypeOK, OneTickOlder
    PROVE  /\ recent' \in Seq(0 .. Window)
           /\ Len(recent') <= Len(recent)
           /\ recent' # <<>> => /\ recent # <<>>
                              /\ recent'[Len(recent')] = recent[Len(recent)] + 1
                              /\ recent[Len(recent)] < Window
<1>1. PICK k \in 0 .. Len(recent) :
        /\ \A i \in 1 .. Len(recent) : recent[i] = Window <=> i <= k
        /\ recent' = [i \in 1 .. Len(recent) - k |-> recent[i + k] + 1]
  BY DEF OneTickOlder
<1>2. recent \in Seq(0 .. Window) /\ Len(recent) \in Nat /\ Window \in Nat
  BY ConstantsAssumption DEF TypeOK
<1>3. \A i \in 1 .. Len(recent) - k :
        /\ i + k \in 1 .. Len(recent) /\ recent[i + k] \in 0 .. Window
        /\ recent[i + k] # Window
  BY <1>1, <1>2
<1>4. recent' \in Seq(0 .. Window) /\ Len(recent') = Len(recent) - k
  <2>1. \A i \in 1 .. Len(recent) - k : recent[i + k] + 1 \in 0 .. Window
    BY <1>2, <1>3
  <2> QED  BY <1>1, <1>2, <2>1
<1>5. ASSUME recent' # <<>>
      PROVE  /\ recent # <<>> /\ recent'[Len(recent')] = recent[Len(recent)] + 1
             /\ recent[Len(recent)] < Window
  <2>1. Len(recent) - k \in 1 .. Len(recent) - k
    BY <1>2, <1>4, <1>5
  <2>2. recent'[Len(recent')] = recent[Len(recent)] + 1
    BY <1>1, <1>2, <1>4, <2>1
  <2>3. recent[Len(recent)] < Window
    <3>1. Len(recent) - k + k = Len(recent)
      BY <1>2
    <3>2. recent[Len(recent)] \in 0 .. Window /\ recent[Len(recent)] # Window
      BY <1>3, <2>1, <3>1
    <3> QED  BY <1>2, <3>2
  <2> QED  BY <1>2, <2>1, <2>2, <2>3
<1> QED  BY <1>1, <1>2, <1>4, <1>5

-----------------------------------------------------------------------------
(* The inductive invariant.                                                 *)

LEMMA InitInv == Init => IInv
<1> SUFFICES ASSUME Init PROVE IInv
  OBVIOUS
<1>1. recent \in Seq(0 .. Window) /\ blurred \in Nat /\ faults \in 0 .. MaxFaults
  BY ConstantsAssumption DEF Init
<1>2. TypeOK
  BY <1>1, ClearIsFields DEF Init, TypeOK
<1>3. RestartsDated /\ FailedMeansExhausted
  BY DEF Init, RestartsDated, FailedMeansExhausted, Clear
<1> QED  BY <1>2, <1>3 DEF IInv

LEMMA OperatorKeeps == IInv /\ Operator => IInv'
<1> SUFFICES ASSUME IInv, Operator PROVE IInv'
  OBVIOUS
<1>0. /\ TypeOK /\ RestartsDated /\ FailedMeansExhausted
      /\ status \in Fields /\ view \in Fields /\ mine \in Fields /\ blurred \in Nat
  BY DEF IInv, TypeOK
<1>1. CASE ReportLimit
  <2>1. CASE status' = [status EXCEPT !.cond = "failed"] /\ Decide
    <3>1. /\ blurred' \in Nat /\ faults' \in 0 .. MaxFaults
          /\ blurred' = 0 => view = status /\ blurred = 0
      BY <1>0, <2>1, Deciding
    <3>2. view.count = MaxRestarts
      BY <1>0, <1>1, WindowResetIsFields DEF ReportLimit
    <3>3. /\ status' \in Fields /\ status'.last = status.last
          /\ status'.count = status.count
      BY <1>0, <2>1 DEF Fields
    <3>4. TypeOK'
      BY <1>0, <1>1, <3>1, <3>3 DEF ReportLimit, TypeOK
    <3>5. RestartsDated' /\ FailedMeansExhausted'
      BY <1>0, <1>1, <2>1, <3>1, <3>2, <3>3 DEF ReportLimit, RestartsDated, FailedMeansExhausted
    <3> QED  BY <3>4, <3>5 DEF IInv
  <2>2. CASE Spend /\ UNCHANGED <<status, blurred>>
    <3>1. faults' \in 0 .. MaxFaults
      BY <1>0, <2>2, ConstantsAssumption DEF Spend, TypeOK
    <3>2. TypeOK'
      BY <1>0, <1>1, <2>2, <3>1 DEF ReportLimit, TypeOK
    <3>3. RestartsDated' /\ FailedMeansExhausted'
      BY <1>0, <1>1, <2>2 DEF ReportLimit, RestartsDated, FailedMeansExhausted
    <3> QED  BY <3>2, <3>3 DEF IInv
  <2> QED  BY <1>1, <2>1, <2>2 DEF ReportLimit
<1>2. CASE DeletePod
  <2>1. /\ blurred' \in Nat /\ faults' \in 0 .. MaxFaults
        /\ blurred > 0 => blurred' > 0
    BY <1>0, <1>2, Deciding DEF DeletePod
  <2>2. mine' \in Fields /\ mine'.count < MaxRestarts
    BY <1>0, <1>2, WindowResetIsFields DEF DeletePod
  <2>3. recent' \in Seq(0 .. Window) /\ recent' # <<>> /\ recent'[Len(recent')] = 0
    BY <1>0, <1>2, ConstantsAssumption DEF DeletePod, TypeOK
  <2>4. pod' \in {"up", "starting"}
    BY <1>2 DEF DeletePod, Restarted
  <2>5. banned' \in BOOLEAN
    BY <1>0, <1>2, Zenon DEF DeletePod, Restarted, TypeOK
  <2>6. TypeOK'
    BY <1>0, <1>2, <2>1, <2>2, <2>3, <2>4, <2>5 DEF DeletePod, TypeOK
  <2>7. RestartsDated' /\ FailedMeansExhausted'
    BY <1>0, <1>2, <2>1, <2>2, <2>3 DEF DeletePod, RestartsDated, FailedMeansExhausted
  <2> QED  BY <2>6, <2>7 DEF IInv
<1>3. CASE CountRestart
  <2>0. mine.count < MaxRestarts
    BY <1>0, <1>3 DEF CountRestart, RestartsDated
  <2>1. Counted(status, mine) \in Fields /\ Counted(status, mine).last = 0
        /\ Counted(status, mine).cond = "progress"
    BY <1>0, <2>0, CountedIsFields
  <2>2. /\ status' \in Fields /\ blurred' \in Nat /\ faults' \in 0 .. MaxFaults
        /\ \/ blurred' > 0
           \/ status'.last = 0 /\ status'.cond = "progress"
    BY <1>0, <1>3, <2>1, ConstantsAssumption DEF CountRestart, TypeOK, Spend
  <2>3. TypeOK'
    BY <1>0, <1>3, <2>2, ClearIsFields DEF CountRestart, TypeOK
  <2>4. RestartsDated' /\ FailedMeansExhausted'
    BY <1>0, <1>3, <2>2 DEF CountRestart, RestartsDated, FailedMeansExhausted
  <2> QED  BY <2>3, <2>4 DEF IInv
<1>4. CASE Connect
  <2>1. recent' = <<>>
    BY <1>4 DEF Connect
  <2>2. CASE /\ status' = IF NothingToReset(view) THEN status ELSE Reset(status, view)
             /\ Decide
    <3>1. /\ blurred' \in Nat /\ faults' \in 0 .. MaxFaults
          /\ blurred' = 0 => view = status /\ blurred = 0
      BY <1>0, <2>2, Deciding
    <3>2. Reset(status, view) \in Fields
      BY <1>0, ResetIsFields
    <3>3. TypeOK'
      BY <1>0, <1>4, <2>1, <2>2, <3>1, <3>2 DEF Connect, TypeOK
    <3>4. status'.cond = "failed" => status'.count = MaxRestarts \/ blurred' > 0
      BY <1>0, <2>2, <3>1 DEF Reset, FailedMeansExhausted
    <3>5. RestartsDated' /\ FailedMeansExhausted'
      BY <1>0, <1>4, <2>1, <3>4 DEF Connect, RestartsDated, FailedMeansExhausted
    <3> QED  BY <3>3, <3>5 DEF IInv
  <2>3. CASE Spend /\ UNCHANGED <<status, blurred>>
    <3>1. TypeOK'
      BY <1>0, <1>4, <2>1, <2>3, ConstantsAssumption DEF Connect, TypeOK, Spend
    <3>2. RestartsDated' /\ FailedMeansExhausted'
      BY <1>0, <1>4, <2>1, <2>3 DEF Connect, RestartsDated, FailedMeansExhausted
    <3> QED  BY <3>1, <3>2 DEF IInv
  <2> QED  BY <1>4, <2>2, <2>3 DEF Connect
<1> QED  BY <1>1, <1>2, <1>3, <1>4 DEF Operator

LEMMA EnvironmentKeeps ==
    IInv /\ (Ban \/ Boot \/ RepairByHand \/ InformerSync \/ Tick) => IInv'
<1> SUFFICES ASSUME IInv, Ban \/ Boot \/ RepairByHand \/ InformerSync \/ Tick PROVE IInv'
  OBVIOUS
<1>0. TypeOK /\ RestartsDated /\ FailedMeansExhausted
  BY DEF IInv
<1>1. CASE Ban \/ Boot \/ RepairByHand \/ InformerSync
  <2>0. ASSUME Ban \/ Boot \/ InformerSync PROVE TypeOK'
    BY <1>0, <2>0 DEF Ban, Boot, InformerSync, TypeOK
  <2>1. ASSUME RepairByHand PROVE TypeOK'
    <3>1. faults' \in 0 .. MaxFaults
      BY <1>0, <2>1, ConstantsAssumption DEF RepairByHand, Spend, TypeOK
    <3> QED  BY <1>0, <2>1, <3>1 DEF RepairByHand, TypeOK
  <2>2. RestartsDated' /\ FailedMeansExhausted'
    BY <1>0, <1>1
       DEF Ban, Boot, RepairByHand, InformerSync, RestartsDated, FailedMeansExhausted
  <2> QED  BY <1>1, <2>0, <2>1, <2>2 DEF IInv
<1>2. CASE Tick
  <2>1. /\ recent' \in Seq(0 .. Window)
        /\ recent' # <<>> => /\ recent # <<>>
                           /\ recent'[Len(recent')] = recent[Len(recent)] + 1
                           /\ recent[Len(recent)] < Window
    BY <1>0, <1>2, OneTickOlderKeeps DEF Tick
  <2>2. /\ status' \in Fields /\ status'.count = status.count
        /\ status'.cond = status.cond /\ status'.last = Older(status.last)
        /\ view' \in Fields
    BY <1>0, <1>2, AgedIsFields DEF Tick, TypeOK
  <2>3. TypeOK'
    BY <1>0, <1>2, <2>1, <2>2 DEF Tick, TypeOK
  <2>4. ASSUME blurred = 0, recent' # <<>>
        PROVE  status'.last = recent'[Len(recent')]
    <3>1. status.last = recent[Len(recent)]
      BY <1>0, <1>2, <2>1, <2>4 DEF Tick, RestartsDated
    <3>2. recent[Len(recent)] \in 0 .. Window
      BY <1>0, <2>1, <2>4, LatestIsAge DEF TypeOK
    <3> QED  BY <2>1, <2>2, <2>4, <3>1, <3>2, ConstantsAssumption DEF Older, Expired, None
  <2>5. RestartsDated' /\ FailedMeansExhausted'
    BY <1>0, <1>2, <2>2, <2>4 DEF Tick, RestartsDated, FailedMeansExhausted
  <2> QED  BY <2>3, <2>5 DEF IInv
<1> QED  BY <1>1, <1>2

LEMMA NextInv == IInv /\ [Next]_vars => IInv'
<1>1. IInv /\ UNCHANGED vars => IInv'
  BY DEF vars, IInv, TypeOK, RestartsDated, FailedMeansExhausted
<1> QED  BY <1>1, OperatorKeeps, EnvironmentKeeps DEF Next

-----------------------------------------------------------------------------
(* Counting restarts.                                                       *)

\* Those of them that are at most so old.
Of(seq, age) == {i \in 1 .. Len(seq) : seq[i] <= age}
Made(seq, age) == Cardinality(Of(seq, age))
Series == Seq(0 .. Window)

LEMMA SeriesOfAges ==
    ASSUME NEW seq \in Series
    PROVE  \A i \in 1 .. Len(seq) : seq[i] \in 0 .. Window /\ seq[i] \in Int
<1>1. seq \in Seq(0 .. Window) /\ Window \in Int
  BY ConstantsAssumption DEF Series
<1>2. \A i \in 1 .. Len(seq) : seq[i] \in 0 .. Window
  BY <1>1, ElementOfSeq
<1> QED  BY <1>1, <1>2

LEMMA OfFinite ==
    ASSUME NEW seq \in Series, NEW age \in Int
    PROVE  IsFiniteSet(Of(seq, age)) /\ Made(seq, age) \in Nat
<1>1. Len(seq) \in Nat
  BY DEF Series
<1>2. IsFiniteSet(1 .. Len(seq))
  BY <1>1, FS_Interval
<1>3. Of(seq, age) \subseteq 1 .. Len(seq)
  BY DEF Of
<1> QED  BY <1>2, <1>3, FS_Subset, FS_CardinalityType DEF Made

LEMMA MadeMonotone ==
    ASSUME NEW seq \in Series, NEW age \in Int, NEW limit \in Int, age <= limit
    PROVE  Made(seq, age) <= Made(seq, limit)
<1>1. Of(seq, age) \subseteq Of(seq, limit)
  <2>1. \A i \in 1 .. Len(seq) : seq[i] \in Int
    BY SeriesOfAges
  <2> QED  BY <2>1 DEF Of
<1> QED  BY <1>1, OfFinite, FS_Subset DEF Made

LEMMA MadeEmpty ==
    ASSUME NEW age \in Int
    PROVE  Made(<<>>, age) = 0
<1>1. Of(<<>>, age) = {}
  BY DEF Of
<1> QED  BY <1>1, FS_EmptySet DEF Made

LEMMA MadeAppend ==
    ASSUME NEW seq \in Series, NEW age \in Int
    PROVE  Made(Append(seq, 0), age) <= Made(seq, age) + 1
<1>1. Of(Append(seq, 0), age) \subseteq Of(seq, age) \cup {Len(seq) + 1}
  <2>1. /\ Len(seq) \in Nat /\ Len(Append(seq, 0)) = Len(seq) + 1
        /\ \A i \in 1 .. Len(seq) : Append(seq, 0)[i] = seq[i]
    BY ConstantsAssumption DEF Series
  <2> QED  BY <2>1 DEF Of
<1>2. IsFiniteSet(Of(seq, age)) /\ Cardinality(Of(seq, age)) \in Nat
  BY OfFinite DEF Made
<1>3. /\ IsFiniteSet(Of(seq, age) \cup {Len(seq) + 1})
      /\ Cardinality(Of(seq, age) \cup {Len(seq) + 1}) <= Cardinality(Of(seq, age)) + 1
  <2> DEFINE old == Of(seq, age)
             last == Len(seq) + 1
  <2>1. IsFiniteSet(old) /\ Cardinality(old) \in Nat
    BY <1>2
  <2> HIDE DEF old, last
  <2>2. /\ IsFiniteSet(old \cup {last})
        /\ Cardinality(old \cup {last}) = IF last \in old THEN Cardinality(old) ELSE Cardinality(old) + 1
    BY <2>1, FS_AddElement
  <2> QED  BY <2>1, <2>2 DEF old, last
<1>4. Append(seq, 0) \in Series
  BY ConstantsAssumption DEF Series
<1>5. Cardinality(Of(Append(seq, 0), age)) <= Cardinality(Of(seq, age) \cup {Len(seq) + 1})
  BY <1>1, <1>3, FS_Subset
<1>6. /\ Cardinality(Of(Append(seq, 0), age)) \in Nat
      /\ Cardinality(Of(seq, age) \cup {Len(seq) + 1}) \in Nat
  BY <1>3, <1>4, OfFinite, FS_CardinalityType DEF Made
<1> QED  BY <1>2, <1>3, <1>5, <1>6 DEF Made

\* A tick drops restarts and makes the others older.
LEMMA MadeOlder ==
    ASSUME TypeOK, OneTickOlder, NEW age \in Int
    PROVE  Made(recent', age + 1) <= Made(recent, age) /\ Made(recent', 0) = 0
<1>1. PICK k \in 0 .. Len(recent) :
        recent' = [i \in 1 .. Len(recent) - k |-> recent[i + k] + 1]
  BY DEF OneTickOlder
<1>2. /\ recent \in Series /\ recent' \in Series
      /\ Len(recent) \in Nat
  BY OneTickOlderKeeps DEF TypeOK, Series
<1>3. Len(recent') = Len(recent) - k
  BY <1>1, <1>2
<1>4. \A i \in 1 .. Len(recent') : /\ recent'[i] = recent[i + k] + 1
                                   /\ i + k \in 1 .. Len(recent) /\ recent[i + k] \in 0 .. Window
  <2>1. \A i \in 1 .. Len(recent') : i \in Int /\ i + k \in 1 .. Len(recent)
    BY <1>2, <1>3
  <2>2. \A i \in 1 .. Len(recent) : recent[i] \in 0 .. Window
    BY <1>2, SeriesOfAges
  <2> QED  BY <1>1, <1>3, <2>1, <2>2
<1>5. Made(recent', age + 1) <= Made(recent, age)
  <2> DEFINE shift == [i \in Of(recent', age + 1) |-> i + k]
  <2>1. \A i \in Of(recent', age + 1) : i \in Int /\ i + k \in Of(recent, age)
    BY <1>4, ConstantsAssumption DEF Of
  <2>2. shift \in [Of(recent', age + 1) -> Of(recent, age)]
    BY <2>1
  <2>3. \A i, j \in Of(recent', age + 1) : shift[i] = shift[j] => i = j
    BY <2>1
  <2>4. shift \in Injection(Of(recent', age + 1), Of(recent, age))
    BY <2>2, <2>3 DEF Injection, IsInjective
  <2>5. IsFiniteSet(Of(recent, age))
    BY <1>2, OfFinite
  <2> HIDE DEF shift
  <2> QED  BY <2>4, <2>5, FS_Injection DEF Made
<1>6. Made(recent', 0) = 0
  <2>1. \A i \in 1 .. Len(recent') : ~(recent'[i] <= 0)
    BY <1>4, ConstantsAssumption
  <2>2. Of(recent', 0) = {}
    BY <2>1 DEF Of
  <2> QED  BY <2>2, FS_EmptySet DEF Made
<1> QED  BY <1>5, <1>6

LEMMA MadeBefore ==
    ASSUME NEW seq \in Series
    PROVE  Made(seq, -1) = 0
<1>1. \A i \in 1 .. Len(seq) : ~(seq[i] <= -1)
  BY SeriesOfAges, ConstantsAssumption
<1>2. Of(seq, -1) = {}
  BY <1>1 DEF Of
<1> QED  BY <1>2, FS_EmptySet DEF Made

-----------------------------------------------------------------------------
(* The restarts of a window.                                                *)

InWindow(age) == age \in 0 .. Window
\* The restart that was made and is not recorded yet.
Open == IF pc = "commit" THEN 1 ELSE 0
\* What is more recent than the restart the status has last.
Latest == IF status.last = None THEN Window ELSE status.last - 1

\* Restarts that are more recent than the last recorded one, or made in one tick, were not
\* recorded or not decided on a current status.
SinceLast == Made(recent, Latest) <= blurred + Open
Together == Made(recent, 0) <= blurred + 1
\* Those of the window are counted in the status; the copies from which the counter is
\* written next are at most one behind.
ByStatus ==
    InWindow(status.start) => Made(recent, status.start) <= status.count + blurred + Open
ByView ==
    InWindow(status.start) /\ InWindow(view.start)
    => Made(recent, status.start) <= view.count + blurred + 1
ByMine ==
    pc = "commit" /\ InWindow(status.start)
    => /\ mine.start = None => Made(recent, status.start) <= status.count + blurred
       /\ mine.start # None => Made(recent, status.start) <= mine.count + blurred + 1
Budget == SinceLast /\ Together /\ ByStatus /\ ByView /\ ByMine

LEMMA FieldTypes ==
    ASSUME NEW s \in Fields
    PROVE  /\ s.start \in Int /\ s.count \in Nat /\ s.count <= MaxRestarts /\ s.last \in Int
           /\ s.start = None \/ s.start = Expired \/ InWindow(s.start)
           /\ s.last = None \/ s.last = Expired \/ InWindow(s.last)
  BY ConstantsAssumption DEF Fields, Ages, None, Expired, InWindow

LEMMA BudgetTypes ==
    ASSUME TypeOK
    PROVE  /\ recent \in Series /\ blurred \in Nat /\ Window \in Nat /\ MaxRestarts \in Nat
           /\ status \in Fields /\ view \in Fields /\ mine \in Fields
           /\ Latest \in Int /\ Open \in {0, 1}
           /\ \A age \in Int : Made(recent, age) \in Nat
<1>1. /\ recent \in Series /\ blurred \in Nat /\ Window \in Nat /\ MaxRestarts \in Nat
      /\ status \in Fields /\ view \in Fields /\ mine \in Fields
  BY ConstantsAssumption DEF TypeOK, Series
<1>2. Latest \in Int /\ Open \in {0, 1}
  BY <1>1, FieldTypes DEF Latest, Open
<1> QED  BY <1>1, <1>2, OfFinite

LEMMA Blurring == Decide => (view = status /\ blurred' = blurred) \/ blurred' = blurred + 1
  BY DEF Decide

LEMMA ReportBudget == TypeOK /\ Budget /\ ReportLimit => Budget'
<1> SUFFICES ASSUME TypeOK, Budget, ReportLimit PROVE Budget'
  OBVIOUS
<1>0. /\ recent \in Series /\ blurred \in Nat /\ Latest \in Int /\ Open \in {0, 1}
      /\ status \in Fields /\ view \in Fields /\ \A age \in Int : Made(recent, age) \in Nat
  BY BudgetTypes
<1>1. /\ UNCHANGED <<view, mine, pc, recent>> /\ pc = "idle" /\ blurred' \in {blurred, blurred + 1}
      /\ status' \in {status, [status EXCEPT !.cond = "failed"]}
  BY Blurring DEF ReportLimit, Refused
<1>2. status'.start = status.start /\ status'.count = status.count /\ status'.last = status.last
  BY <1>0, <1>1 DEF Fields
<1>3. Latest' = Latest /\ Open' = Open
  BY <1>1, <1>2 DEF Latest, Open
<1>4. SinceLast' /\ Together'
  BY <1>0, <1>1, <1>3 DEF Budget, SinceLast, Together
<1>5. ByStatus' /\ ByView' /\ ByMine'
  BY <1>0, <1>1, <1>2, <1>3, FieldTypes DEF Budget, ByStatus, ByView, ByMine
<1> QED  BY <1>4, <1>5 DEF Budget

LEMMA DeleteBudget == TypeOK /\ Budget /\ DeletePod => Budget'
<1> SUFFICES ASSUME TypeOK, Budget, DeletePod PROVE Budget'
  OBVIOUS
<1>0. /\ recent \in Series /\ blurred \in Nat /\ Latest \in Int /\ Window \in Nat
      /\ status \in Fields /\ view \in Fields /\ \A age \in Int : Made(recent, age) \in Nat
  BY BudgetTypes
<1>1. /\ UNCHANGED <<status, view>> /\ pc = "idle" /\ pc' = "commit"
      /\ (view = status /\ blurred' = blurred) \/ blurred' = blurred + 1
      /\ recent' = Append(recent, 0) /\ mine' = WindowReset(view) /\ ~CoolingDown(view)
  BY Blurring DEF DeletePod, Refused
<1>2. Latest' = Latest /\ Open = 0 /\ Open' = 1
  BY <1>1 DEF Latest, Open
<1>3. \A age \in Int : Made(recent', age) <= Made(recent, age) + 1 /\ Made(recent', age) \in Nat
  <2>1. recent' \in Series
    BY <1>0, <1>1, ConstantsAssumption DEF Series
  <2> QED  BY <1>0, <1>1, <2>1, MadeAppend, OfFinite
<1>a. /\ Made(recent, Latest) \in Nat /\ Made(recent', Latest) \in Nat
      /\ Made(recent', Latest) <= Made(recent, Latest) + 1
      /\ Made(recent, 0) \in Nat /\ Made(recent', 0) \in Nat
      /\ Made(recent', 0) <= Made(recent, 0) + 1
  BY <1>0, <1>3
<1>b. Made(recent, Latest) <= blurred /\ Made(recent, 0) <= blurred + 1
  <2>1. Made(recent, Latest) <= blurred + Open /\ Made(recent, 0) <= blurred + 1
    BY DEF Budget, SinceLast, Together
  <2> QED  BY <2>1, <1>0, <1>2
<1>c. blurred' \in Nat /\ blurred <= blurred'
  <2>1. blurred \in Nat /\ (blurred' = blurred \/ blurred' = blurred + 1)
    BY <1>0, <1>1, Zenon
  <2> QED  BY <2>1
<1>4. SinceLast'
  <2>1. Made(recent', Latest) <= blurred' + 1
    BY <1>0, <1>a, <1>b, <1>c
  <2> QED  BY <2>1, <1>2 DEF SinceLast
<1>5. Together'
  <2>1. CASE view = status /\ blurred' = blurred
    <3>1. 0 <= Latest
      <4>1. status.last = None \/ status.last >= Cooldown
        BY <1>0, <1>1, <2>1, FieldTypes, ConstantsAssumption DEF CoolingDown
      <4> QED  BY <4>1, <1>0, FieldTypes, ConstantsAssumption DEF Latest
    <3>2. Made(recent, 0) <= Made(recent, Latest)
      BY <1>0, <3>1, MadeMonotone
    <3>3. Made(recent', 0) <= blurred' + 1
      BY <1>0, <1>a, <1>b, <2>1, <3>2
    <3> QED  BY <3>3 DEF Together
  <2>2. CASE blurred' = blurred + 1
    <3>1. Made(recent', 0) <= blurred' + 1
      BY <1>0, <1>a, <1>b, <2>2
    <3> QED  BY <3>1 DEF Together
  <2> QED  BY <1>1, <2>1, <2>2
<1>6. ASSUME InWindow(status.start)
      PROVE  /\ Made(recent', status.start) <= status.count + blurred + 1
             /\ view # status => Made(recent', status.start) <= status.count + blurred'
             /\ InWindow(view.start) => Made(recent', status.start) <= view.count + blurred' + 1
  <2>1. /\ status.start \in Int /\ status.count \in Nat /\ view.count \in Nat
        /\ Made(recent, status.start) \in Nat /\ Made(recent', status.start) \in Nat
        /\ Made(recent', status.start) <= Made(recent, status.start) + 1
    BY <1>0, <1>3, FieldTypes
  <2>2. Made(recent, status.start) <= status.count + blurred
    BY <1>0, <1>2, <1>6, <2>1 DEF Budget, ByStatus
  <2>3. CASE view = status /\ blurred' = blurred
    BY <1>0, <2>1, <2>2, <2>3
  <2>4. CASE blurred' = blurred + 1
    <3>1. InWindow(view.start) => Made(recent, status.start) <= view.count + blurred + 1
      BY <1>6 DEF Budget, ByView
    <3> QED  BY <1>0, <2>1, <2>2, <2>4, <3>1
  <2> QED  BY <1>1, <2>3, <2>4
<1>7. ByStatus'
  <2>1. ASSUME InWindow(status.start)
        PROVE  Made(recent', status.start) <= status.count + blurred' + 1
    <3>1. /\ status.count \in Nat /\ status.start \in Int
          /\ Made(recent', status.start) \in Nat
      BY <1>0, <1>3, FieldTypes
    <3>2. Made(recent', status.start) <= status.count + blurred + 1
      BY <1>6, <2>1
    <3> QED  BY <1>0, <1>c, <3>1, <3>2
  <2>2. status'.start = status.start /\ status'.count = status.count
    BY <1>1
  <2> QED  BY <1>2, <2>1, <2>2 DEF ByStatus
<1>8. ByView'
  BY <1>1, <1>6 DEF ByView
<1>9. ByMine'
  <2>1. CASE view.start = Expired
    <3>1. ~InWindow(view.start)
      BY <1>0, <2>1, ConstantsAssumption DEF InWindow, Expired
    <3>2. mine'.start = None
      BY <1>0, <1>1, <2>1 DEF WindowReset, Fields
    <3> QED  BY <1>1, <1>6, <3>1, <3>2 DEF ByMine
  <2>2. CASE view.start # Expired
    <3>1. mine' = view
      BY <1>1, <2>2 DEF WindowReset
    <3>2. view.start = None \/ InWindow(view.start)
      BY <1>0, <2>2, FieldTypes
    <3>3. view.start = None => ~InWindow(view.start)
      BY <1>0 DEF None, InWindow
    <3> QED  BY <1>1, <1>6, <3>1, <3>2, <3>3 DEF ByMine
  <2> QED  BY <2>1, <2>2
<1> QED  BY <1>4, <1>5, <1>7, <1>8, <1>9 DEF Budget

LEMMA CountBudget == TypeOK /\ Budget /\ CountRestart => Budget'
<1> SUFFICES ASSUME TypeOK, Budget, CountRestart PROVE Budget'
  OBVIOUS
<1>0. /\ recent \in Series /\ blurred \in Nat /\ Latest \in Int
      /\ status \in Fields /\ view \in Fields /\ mine \in Fields
      /\ \A age \in Int : Made(recent, age) \in Nat
  BY BudgetTypes
<1>1. /\ UNCHANGED <<view, recent>> /\ pc = "commit" /\ pc' = "idle"
  BY DEF CountRestart
<1>2. Open = 1 /\ Open' = 0
  BY <1>1 DEF Open
<1>3. ByMine'
  BY <1>1 DEF ByMine
<1>4. Together /\ SinceLast /\ ByStatus /\ ByView /\ ByMine
  BY DEF Budget
<1>5. CASE status' = Counted(status, mine) /\ UNCHANGED blurred
  <2>1. /\ status'.start = IF mine.start = None THEN 0 ELSE status.start
        /\ status'.count = mine.count + 1 /\ status'.last = 0
    BY <1>0, <1>5 DEF Counted, Fields
  <2>2. Latest' = -1
    BY <2>1 DEF Latest, None
  <2>3. SinceLast'
    BY <1>0, <1>1, <1>2, <1>5, <2>2, MadeBefore DEF SinceLast
  <2>4. Together'
    BY <1>1, <1>4, <1>5 DEF Together
  <2>5. CASE mine.start = None
    <3>1. Made(recent, 0) <= blurred + 1 /\ mine.count \in Nat /\ view.count \in Nat
      BY <1>0, <1>4, FieldTypes DEF Together
    <3>2. status'.start = 0 /\ status'.count = mine.count + 1
      BY <2>1, <2>5
    <3>3. Made(recent, 0) \in Nat
      BY <1>0
    <3>4. /\ Made(recent, 0) <= mine.count + 1 + blurred + 0
          /\ Made(recent, 0) <= view.count + blurred + 1
      BY <1>0, <3>1, <3>3
    <3>5. ByStatus'
      BY <1>1, <1>2, <1>5, <3>2, <3>4 DEF ByStatus
    <3>6. ByView'
      BY <1>1, <1>5, <3>2, <3>4 DEF ByView
    <3> QED  BY <1>3, <2>3, <2>4, <3>5, <3>6 DEF Budget
  <2>6. CASE mine.start # None
    <3>1. /\ InWindow(status.start) => Made(recent, status.start) <= mine.count + blurred + 1
          /\ InWindow(status.start) /\ InWindow(view.start)
             => Made(recent, status.start) <= view.count + blurred + 1
      BY <1>1, <1>4, <2>6 DEF ByMine, ByView
    <3>2. mine.count \in Nat /\ status.start \in Int
      BY <1>0, FieldTypes
    <3>a. Made(recent, status.start) \in Nat
      BY <1>0, <3>2
    <3>b. InWindow(status.start)
          => Made(recent, status.start) <= mine.count + 1 + blurred + 0
      <4>1. /\ blurred \in Nat /\ mine.count \in Nat /\ Made(recent, status.start) \in Nat
            /\ InWindow(status.start) => Made(recent, status.start) <= mine.count + blurred + 1
        BY <1>0, <3>1, <3>2, <3>a, Zenon
      <4> QED  BY <4>1
    <3>c. status'.start = status.start /\ status'.count = mine.count + 1
      BY <2>1, <2>6
    <3>3. ByStatus'
      BY <1>1, <1>2, <1>5, <3>b, <3>c DEF ByStatus
    <3>d. view' = view /\ recent' = recent /\ blurred' = blurred
      BY <1>1, <1>5
    <3>4. ByView'
      BY <3>1, <3>c, <3>d, Zenon DEF ByView
    <3> QED  BY <1>3, <2>3, <2>4, <3>3, <3>4 DEF Budget
  <2> QED  BY <2>5, <2>6
<1>6. CASE blurred' = blurred + 1 /\ UNCHANGED status
  <2>1. Latest' = Latest
    BY <1>6 DEF Latest
  <2>2. SinceLast' /\ Together'
    BY <1>0, <1>1, <1>2, <1>4, <1>6, <2>1 DEF SinceLast, Together
  <2>3. status.start \in Int /\ status.count \in Nat /\ view.count \in Nat
    BY <1>0, FieldTypes
  <2>4. ByStatus'
    BY <1>0, <1>1, <1>2, <1>4, <1>6, <2>3 DEF ByStatus
  <2>5. ByView'
    BY <1>0, <1>1, <1>4, <1>6, <2>3 DEF ByView
  <2> QED  BY <1>3, <2>2, <2>4, <2>5 DEF Budget
<1> QED  BY <1>5, <1>6 DEF CountRestart

LEMMA ConnectBudget == IInv /\ IInv' /\ Connect => Budget'
<1> SUFFICES ASSUME IInv, IInv', Connect PROVE Budget'
  OBVIOUS
<1>1. recent' = <<>> /\ pc' = "idle"
  BY DEF Connect
<1>2. status' \in Fields /\ view' \in Fields /\ blurred' \in Nat /\ Window \in Nat
  BY ConstantsAssumption DEF IInv, TypeOK
<1>3. /\ status'.start \in Int /\ status'.count \in Nat /\ view'.count \in Nat
      /\ status'.last \in Int
  BY <1>2, FieldTypes
<1>4. Latest' \in Int
  BY <1>2, <1>3 DEF Latest
<1>5. Made(recent', Latest') = 0 /\ Made(recent', 0) = 0 /\ Made(recent', status'.start) = 0
  BY <1>1, <1>3, <1>4, MadeEmpty
<1>6. SinceLast' /\ Together' /\ ByStatus' /\ ByView' /\ ByMine'
  BY <1>1, <1>2, <1>3, <1>5 DEF SinceLast, Together, ByStatus, ByView, ByMine, Open
<1> QED  BY <1>6 DEF Budget

LEMMA SyncBudget == TypeOK /\ Budget /\ (Ban \/ Boot \/ RepairByHand \/ InformerSync) => Budget'
<1> SUFFICES ASSUME TypeOK, Budget, Ban \/ Boot \/ RepairByHand \/ InformerSync PROVE Budget'
  OBVIOUS
<1>0. /\ blurred \in Nat /\ status \in Fields /\ Open \in {0, 1}
      /\ \A age \in Int : Made(recent, age) \in Nat
  BY BudgetTypes
<1>1. UNCHANGED <<status, mine, pc, recent, blurred>> /\ (UNCHANGED view \/ view' = status)
  BY DEF Ban, Boot, RepairByHand, InformerSync
<1>2. Latest' = Latest /\ Open' = Open
  BY <1>1 DEF Latest, Open
<1>3. Together /\ SinceLast /\ ByStatus /\ ByView /\ ByMine
  BY DEF Budget
<1>4. SinceLast' /\ Together' /\ ByStatus' /\ ByMine'
  BY <1>1, <1>2, <1>3 DEF SinceLast, Together, ByStatus, ByMine
<1>5. ByView'
  BY <1>0, <1>1, <1>3, FieldTypes DEF ByView, ByStatus
<1> QED  BY <1>4, <1>5 DEF Budget

LEMMA TickBudget == TypeOK /\ Budget /\ Tick => Budget'
<1> SUFFICES ASSUME TypeOK, Budget, Tick PROVE Budget'
  OBVIOUS
<1>0. /\ recent \in Series /\ blurred \in Nat /\ Latest \in Int /\ Window \in Nat
      /\ status \in Fields /\ view \in Fields /\ \A age \in Int : Made(recent, age) \in Nat
  BY BudgetTypes
<1>1. /\ UNCHANGED <<mine, pc, blurred>> /\ pc = "idle" /\ OneTickOlder
      /\ status' = Aged(status) /\ view' = Aged(view)
  BY DEF Tick
<1>2. /\ \A age \in Int : Made(recent', age + 1) <= Made(recent, age)
      /\ Made(recent', 0) = 0 /\ recent' \in Series
  BY <1>1, MadeOlder, OneTickOlderKeeps DEF Series
<1>3. \A age \in Int : Made(recent', age) \in Nat
  BY <1>2, OfFinite
<1>4. /\ status'.start = Older(status.start) /\ status'.last = Older(status.last)
      /\ view'.start = Older(view.start) /\ view'.count = view.count /\ status'.count = status.count
  BY <1>0, <1>1 DEF Aged, Fields
<1>5. \A age \in Int : InWindow(Older(age)) => InWindow(age) /\ Older(age) = age + 1
  BY <1>0 DEF InWindow, Older, Expired, None
<1>6. Open = 0 /\ Open' = 0 /\ ByMine'
  BY <1>1 DEF Open, ByMine
<1>7. SinceLast'
  <2>1. Made(recent, Latest) <= blurred
    BY <1>0, <1>6 DEF Budget, SinceLast
  <2>2. CASE InWindow(status.last)
    <3>1. Latest' = Latest + 1
      BY <1>0, <1>4, <2>2 DEF InWindow, Older, Expired, None, Latest
    <3> QED  BY <1>0, <1>1, <1>2, <1>3, <1>6, <2>1, <3>1 DEF SinceLast
  <2>3. CASE status.last \in {None, Expired}
    <3>1. Latest = Window /\ Latest' = Window
      BY <1>0, <1>4, <2>3 DEF Older, Expired, None, Latest
    <3>2. Window - 1 \in Int /\ Window - 1 + 1 = Window
      BY <1>0
    <3>3. Made(recent', Window) <= Made(recent, Window - 1)
      BY <1>2, <3>2
    <3>4. Made(recent, Window - 1) <= Made(recent, Window)
      BY <1>0, <3>2, MadeMonotone
    <3>5. Made(recent', Window) <= blurred
      BY <1>0, <1>3, <2>1, <3>1, <3>2, <3>3, <3>4
    <3> QED  BY <1>0, <1>1, <1>6, <3>1, <3>5 DEF SinceLast
  <2> QED  BY <1>0, <2>2, <2>3, FieldTypes
<1>8. Together'
  BY <1>0, <1>1, <1>2 DEF Together
<1>9. ASSUME InWindow(status'.start)
      PROVE  /\ Made(recent', status'.start) <= status.count + blurred
             /\ InWindow(view'.start) => Made(recent', status'.start) <= view.count + blurred + 1
  <2>1. status.start \in Int /\ view.start \in Int /\ status.count \in Nat /\ view.count \in Nat
    BY <1>0, FieldTypes
  <2>2. InWindow(status.start) /\ status'.start = status.start + 1
    BY <1>4, <1>5, <1>9, <2>1
  <2>3. Made(recent', status'.start) <= Made(recent, status.start)
    BY <1>2, <2>1, <2>2
  <2>4. Made(recent, status.start) <= status.count + blurred
    BY <1>0, <1>6, <2>1, <2>2 DEF Budget, ByStatus
  <2>5. InWindow(view'.start) => Made(recent, status.start) <= view.count + blurred + 1
    BY <1>4, <1>5, <2>1, <2>2 DEF Budget, ByView
  <2>6. Made(recent', status'.start) \in Nat /\ Made(recent, status.start) \in Nat
    BY <1>0, <1>3, <2>1, <2>2
  <2> QED  BY <1>0, <2>1, <2>3, <2>4, <2>5, <2>6
<1>10. ByStatus'
  BY <1>0, <1>1, <1>4, <1>6, <1>9, FieldTypes DEF ByStatus
<1>11. ByView'
  BY <1>1, <1>4, <1>9 DEF ByView
<1> QED  BY <1>6, <1>7, <1>8, <1>10, <1>11 DEF Budget

LEMMA InitBudget == Init => Budget
<1> SUFFICES ASSUME Init PROVE Budget
  OBVIOUS
<1>1. /\ recent = <<>> /\ blurred = 0 /\ pc = "idle" /\ status = Clear
  BY DEF Init
<1>2. status.last = None /\ status.start = None
  BY <1>1 DEF Clear
<1>3. Window \in Int /\ ~InWindow(None)
  BY ConstantsAssumption DEF InWindow, None
<1>4. Made(recent, Latest) = 0 /\ Made(recent, 0) = 0
  BY <1>1, <1>2, <1>3, MadeEmpty DEF Latest
<1> QED  BY <1>1, <1>2, <1>3, <1>4 DEF Budget, SinceLast, Together, ByStatus, ByView, ByMine, Open

LEMMA NextBudget == IInv /\ Budget /\ [Next]_vars => Budget'
<1> SUFFICES ASSUME IInv, Budget, [Next]_vars PROVE Budget'
  OBVIOUS
<1>1. TypeOK /\ IInv'
  BY NextInv DEF IInv
<1>2. CASE UNCHANGED vars
  BY <1>2 DEF vars, Budget, SinceLast, Together, ByStatus, ByView, ByMine, Open, Latest
<1>3. CASE Next
  BY <1>1, <1>3, ReportBudget, DeleteBudget, CountBudget, ConnectBudget, SyncBudget, TickBudget
     DEF Next, Operator
<1> QED  BY <1>2, <1>3

LEMMA BudgetHolds == IInv /\ Budget => WindowBudget
<1> SUFFICES ASSUME IInv, Budget, status.start \in 0 .. Window
             PROVE  Made(recent, status.start) <= MaxRestarts + blurred
  BY DEF WindowBudget, Made, Of
<1>0. /\ TypeOK /\ blurred \in Nat /\ MaxRestarts \in Nat /\ status \in Fields /\ mine \in Fields
      /\ Made(recent, status.start) \in Nat
  BY BudgetTypes, FieldTypes DEF IInv
<1>1. ByStatus /\ ByMine /\ InWindow(status.start)
  BY DEF Budget, InWindow
<1>2. status.count \in Nat /\ status.count <= MaxRestarts /\ mine.count \in Nat
  BY <1>0, FieldTypes
<1>3. CASE pc = "commit"
  <2>1. mine.count < MaxRestarts
    BY <1>3 DEF IInv, RestartsDated
  <2> QED  BY <1>0, <1>1, <1>2, <1>3, <2>1 DEF ByMine
<1>4. CASE pc # "commit"
  BY <1>0, <1>1, <1>2, <1>4 DEF ByStatus, Open
<1> QED  BY <1>3, <1>4

-----------------------------------------------------------------------------
(* The theorems.                                                            *)

\* handleSelfBan, resetBanRecovery and lost or outdated copies keep the ban
\* fields in their types: the counter of the status never passes
\* banRestartMaxCount.
THEOREM TypeCorrect == Spec => []TypeOK
<1>1. IInv => TypeOK
  BY DEF IInv
<1> QED  BY <1>1, InitInv, NextInv, PTL DEF Spec

\* BanRecoveryFailed is only reported once every restart of the window is used,
\* whatever the limit, unless the status missed a restart.
THEOREM FailureJustified == Spec => []FailedMeansExhausted
<1>1. IInv => FailedMeansExhausted
  BY DEF IInv
<1> QED  BY <1>1, InitInv, NextInv, PTL DEF Spec

\* handleSelfBan deletes the pod no more often than banRestartMaxCount in a window, apart from
\* the restarts whose record was lost or decided on an outdated status.
THEOREM BudgetTheorem == Spec => []WindowBudget
<1>1. Init => IInv /\ Budget
  BY InitInv, InitBudget
<1>2. IInv /\ Budget /\ [Next]_vars => (IInv /\ Budget)'
  BY NextInv, NextBudget
<1> QED  BY <1>1, <1>2, BudgetHolds, PTL DEF Spec

\* handleSelfBan leaves a restarted pod alone for selfUnbanCooldown, even across
\* the expiry of a window.
THEOREM CooldownTheorem == Spec => CooldownKept
<1> DEFINE Kept == Len(recent') > Len(recent) /\ recent # <<>> /\ blurred = 0 /\ view = status
                     => recent[Len(recent)] >= Cooldown
<1>1. IInv /\ [Next]_vars => [Kept]_vars
  <2> SUFFICES ASSUME IInv, Next, Len(recent') > Len(recent), recent # <<>>,
                      blurred = 0, view = status
               PROVE  recent[Len(recent)] >= Cooldown
    OBVIOUS
  <2>0. TypeOK /\ RestartsDated /\ recent \in Seq(0 .. Window)
    BY DEF IInv, TypeOK
  <2>1. DeletePod
    <3>1. ~(ReportLimit \/ CountRestart \/ Ban \/ Boot \/ RepairByHand \/ InformerSync)
      BY <2>0 DEF ReportLimit, CountRestart, Ban, Boot, RepairByHand, InformerSync
    <3>2. ~Connect
      BY <2>0 DEF Connect
    <3>3. ~Tick
      BY <2>0, OneTickOlderKeeps DEF Tick
    <3> QED  BY <3>1, <3>2, <3>3 DEF Next, Operator
  <2>2. status.last = recent[Len(recent)]
    BY <2>0, <2>1 DEF DeletePod, Refused, RestartsDated
  <2>3. recent[Len(recent)] \in 0 .. Window
    BY <2>0, LatestIsAge
  <2> QED  BY <2>1, <2>2, <2>3, ConstantsAssumption DEF DeletePod, CoolingDown, None
<1> QED  BY <1>1, InitInv, NextInv, PTL DEF Spec, CooldownKept
=============================================================================
