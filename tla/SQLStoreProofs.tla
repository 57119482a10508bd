--------------------------- MODULE SQLStoreProofs ---------------------------
(***************************************************************************)
(* For any cells, tables, rules and batch size: the store keeps its types, *)
(* no accepted cell is lost before a restart, and a restart costs a batch  *)
(* of cells at most while inserts succeed.                                 *)
(***************************************************************************)
EXTENDS SQLStore, FiniteSetTheorems, TLAPS

LEMMA AppendToSet ==
    ASSUME NEW S, NEW s \in Seq(S), NEW e \in S
    PROVE  /\ Append(s, e) \in Seq(S)
           /\ ToSet(Append(s, e)) = ToSet(s) \cup {e}
<1>1. /\ Append(s, e) \in Seq(S)
      /\ DOMAIN s = 1 .. Len(s)
      /\ Len(s) \in Nat
      /\ DOMAIN Append(s, e) = 1 .. (Len(s) + 1)
      /\ Append(s, e)[Len(s) + 1] = e
      /\ \A i \in 1 .. Len(s) : Append(s, e)[i] = s[i]
  OBVIOUS
<1>2. 1 .. (Len(s) + 1) = (1 .. Len(s)) \cup {Len(s) + 1}
  BY <1>1
<1>3. QED
  BY <1>1, <1>2 DEF ToSet

\* A row belongs to a table that a cell names.
LEMMA RowsType ==
    ASSUME NEW s \in Seq(Cell), s # <<>>, NEW n \in 1 .. Len(s)
    PROVE  Rows(s, n) \subseteq TableName \X Cell
<1>1. Head(s) \in Cell
  OBVIOUS
<1>2. \A i \in 1 .. n : s[i] \in Cell
  OBVIOUS
<1>3. QED
  BY <1>1, <1>2 DEF Rows, TableName

\* Creating a table adds the name of a cell's task, with the kind of a rule.
LEMMA CreatedType ==
    ASSUME TypeOK, NEW c \in Cell, NEW cols \in {columns, Created(c)}
    PROVE  /\ DOMAIN columns \subseteq DOMAIN cols
           /\ DOMAIN cols \subseteq TableName
           /\ \A n \in DOMAIN cols : cols[n] \in DOMAIN Width
<1>1. TableOf[c] \in TableName /\ KindOf[c] \in DOMAIN Width
  BY SQLStoreAssumption DEF TableName
<1>2. CASE cols = columns
  BY <1>2 DEF TypeOK
<1>3. CASE cols = Created(c)
  BY <1>1, <1>3 DEF TypeOK, Created
<1>4. QED
  BY <1>2, <1>3

\* Flush only adds rows, of the types they should have.
LEMMA FlushRows ==
    ASSUME TypeOK, NEW cols, Flush(cols)
    PROVE  /\ rows \subseteq rows'
           /\ rows' \subseteq TableName \X Cell
           /\ flushed' \in BOOLEAN
<1>1. CASE rows' = rows /\ flushed' \in {flushed, FALSE}
  BY <1>1 DEF TypeOK
<1>2. ASSUME dataDocker # <<>>, NEW n \in 1 .. Len(dataDocker),
             rows' = rows \cup Rows(dataDocker, n),
             flushed' \in {FALSE, n = Len(dataDocker)}
      PROVE  /\ rows \subseteq rows'
             /\ rows' \subseteq TableName \X Cell
             /\ flushed' \in BOOLEAN
  <2>1. Rows(dataDocker, n) \subseteq TableName \X Cell
    BY <1>2, RowsType DEF TypeOK
  <2>2. QED
    BY <1>2, <2>1 DEF TypeOK
<1>3. QED
  BY <1>1, <1>2 DEF Flush

\* What Buffer does to a cell: it is accepted, and in the buffer.
LEMMA BufferEffect ==
    ASSUME TypeOK, NEW c \in Cell, NEW cols, Buffer(c, cols)
    PROVE  /\ rows \subseteq rows'
           /\ rows' \subseteq TableName \X Cell
           /\ flushed' \in BOOLEAN
           /\ dataDocker' \in Seq(Cell)
           /\ ToSet(dataDocker') = ToSet(dataDocker) \cup {c}
           /\ accepted' = accepted \cup {c}
           /\ columns' = cols
<1>1. /\ dataDocker' = Append(dataDocker, c)
      /\ accepted' = accepted \cup {c}
      /\ columns' = cols
      /\ Flush(cols) \/ UNCHANGED <<rows, flushed>>
  BY DEF Buffer, LeftByFlush
<1>2. /\ dataDocker' \in Seq(Cell)
      /\ ToSet(dataDocker') = ToSet(dataDocker) \cup {c}
  BY <1>1, AppendToSet DEF TypeOK
<1>3. /\ rows \subseteq rows'
      /\ rows' \subseteq TableName \X Cell
      /\ flushed' \in BOOLEAN
  BY <1>1, FlushRows DEF TypeOK
<1>4. QED
  BY <1>1, <1>2, <1>3

-----------------------------------------------------------------------------
IInv == TypeOK /\ AcceptedKept

LEMMA InitIInv == Init => IInv
<1> SUFFICES ASSUME Init PROVE IInv
  OBVIOUS
<1>1. TypeOK
  BY SQLStoreAssumption DEF Init, TypeOK
<1>2. AcceptedKept
  BY DEF Init, AcceptedKept
<1>3. QED
  BY <1>1, <1>2 DEF IInv

\* Rows are only added, so what is stored stays stored.
LEMMA StoredGrows == ASSUME rows \subseteq rows' PROVE Stored \subseteq Stored'
  BY DEF Stored

LEMMA SaveIInv == ASSUME IInv, NEW c \in Cell, Save(c) PROVE IInv'
<1> USE DEF IInv
<1>1. /\ c \in unsaved
      /\ unsaved' = unsaved \ {c}
      /\ restarts' = restarts
  BY DEF Save
<1>2. ASSUME NEW cols \in {columns, Created(c)}, Buffer(c, cols),
             Table' = Table \/ (Table' = Table \cup {TableOf[c]}
                                /\ cols = Created(c))
      PROVE  IInv'
  <2>1. /\ rows \subseteq rows'
        /\ rows' \subseteq TableName \X Cell
        /\ flushed' \in BOOLEAN
        /\ dataDocker' \in Seq(Cell)
        /\ ToSet(dataDocker') = ToSet(dataDocker) \cup {c}
        /\ accepted' = accepted \cup {c}
        /\ columns' = cols
    BY <1>2, BufferEffect
  <2>2. /\ DOMAIN columns \subseteq DOMAIN columns'
        /\ DOMAIN columns' \subseteq TableName
        /\ \A n \in DOMAIN columns' : columns'[n] \in DOMAIN Width
    BY <1>2, <2>1, CreatedType
  <2>3. Table' \subseteq DOMAIN columns'
    <3>1. cols = Created(c) => TableOf[c] \in DOMAIN columns'
      BY <2>1 DEF Created
    <3>2. QED
      BY <1>2, <2>2, <3>1 DEF TypeOK
  <2>4. /\ unsaved' \subseteq Cell
        /\ accepted' \subseteq Cell \ unsaved'
    BY <1>1, <2>1 DEF TypeOK
  <2>5. TypeOK'
    BY <1>1, <2>1, <2>2, <2>3, <2>4 DEF TypeOK
  <2>6. AcceptedKept'
    BY <2>1, StoredGrows DEF AcceptedKept
  <2>7. QED
    BY <2>5, <2>6
<1>3. CASE CreateFails(c)
  <2>1. /\ columns' \in {columns, Created(c)}
        /\ UNCHANGED <<dataDocker, Table, rows, accepted, flushed>>
    BY <1>3 DEF CreateFails
  <2>2. /\ DOMAIN columns \subseteq DOMAIN columns'
        /\ DOMAIN columns' \subseteq TableName
        /\ \A n \in DOMAIN columns' : columns'[n] \in DOMAIN Width
    BY <2>1, CreatedType
  <2>3. TypeOK'
    BY <1>1, <2>1, <2>2 DEF TypeOK
  <2>4. AcceptedKept'
    BY <2>1 DEF AcceptedKept, Stored
  <2>5. QED
    BY <2>3, <2>4
<1>4. QED
  BY <1>2, <1>3 DEF Save

LEMMA RestartIInv == ASSUME IInv, Restart PROVE IInv'
<1>1. /\ restarts < MaxRestarts
      /\ restarts' = restarts + 1
      /\ dataDocker' = <<>>
      /\ Table' = {}
      /\ accepted' = {}
      /\ flushed' = TRUE
      /\ UNCHANGED <<columns, rows, unsaved>>
  BY DEF Restart
<1>2. restarts' \in 0 .. MaxRestarts
  BY <1>1, SQLStoreAssumption DEF IInv, TypeOK
<1>3. TypeOK'
  BY <1>1, <1>2 DEF IInv, TypeOK
<1>4. AcceptedKept'
  BY <1>1 DEF AcceptedKept
<1>5. QED
  BY <1>3, <1>4 DEF IInv

LEMMA Inductive == Spec => []IInv
<1>1. IInv /\ [Next]_vars => IInv'
  <2> SUFFICES ASSUME IInv, [Next]_vars PROVE IInv'
    OBVIOUS
  <2>1. CASE UNCHANGED vars
    BY <2>1 DEF vars, IInv, TypeOK, AcceptedKept, Stored
  <2>2. CASE Restart
    BY <2>2, RestartIInv
  <2>3. ASSUME NEW c \in Cell, Save(c) PROVE IInv'
    BY <2>3, SaveIInv
  <2>4. QED
    BY <2>1, <2>2, <2>3 DEF Next
<1>2. QED
  BY <1>1, InitIInv, PTL DEF Spec

-----------------------------------------------------------------------------
\* The types; a table that Save takes for created exists.
THEOREM TypeCorrect == Spec => []TypeOK
  BY Inductive, PTL DEF IInv

\* No accepted cell is lost short of a restart, however inserts fail: it is in
\* the buffer or in the database.
THEOREM NoCellLost == Spec => []AcceptedKept
  BY Inductive, PTL DEF IInv

-----------------------------------------------------------------------------
\* What a crash can cost.  While inserts succeed, the buffer is no longer than
\* a batch, or all that it holds but the last cell is in the database.
Pending == accepted \ Stored

FlushedBound == flushed => \/ Len(dataDocker) <= BatchCount
                           \/ \E c \in Cell : Pending \subseteq {c}

\* A sequence has no more different elements than its length.
LEMMA ToSetCardinality ==
    ASSUME NEW S, NEW s \in Seq(S)
    PROVE  IsFiniteSet(ToSet(s)) /\ Cardinality(ToSet(s)) <= Len(s)
<1> DEFINE f == [i \in 1 .. Len(s) |-> s[i]]
<1>1. f \in Surjection(1 .. Len(s), ToSet(s))
  BY DEF Surjection, ToSet
<1>2. Len(s) \in Nat /\ IsFiniteSet(1 .. Len(s)) /\ Cardinality(1 .. Len(s)) = Len(s)
  <2>1. Len(s) \in Nat /\ 1 \in Int
    OBVIOUS
  <2>2. /\ IsFiniteSet(1 .. Len(s))
        /\ Cardinality(1 .. Len(s)) = IF 1 > Len(s) THEN 0 ELSE Len(s) - 1 + 1
    BY <2>1, FS_Interval
  <2> QED BY <2>1, <2>2
<1> HIDE DEF f
<1> QED BY <1>1, <1>2, FS_Surjection

\* An insert of the whole buffer leaves nothing of it pending.
LEMMA FlushStores ==
    ASSUME TypeOK, NEW cols, Flush(cols), flushed'
    PROVE  ToSet(dataDocker) \subseteq Stored'
<1>1. CASE dataDocker = <<>>
  BY <1>1 DEF ToSet
<1>2. CASE dataDocker # <<>>
  <2>1. rows' = rows \cup Rows(dataDocker, Len(dataDocker))
    BY <1>2 DEF Flush
  <2>2. \A i \in 1 .. Len(dataDocker) :
           <<TableOf[Head(dataDocker)], dataDocker[i]>> \in rows'
    BY <2>1 DEF Rows
  <2>3. \A i \in 1 .. Len(dataDocker) : dataDocker[i] \in Stored'
    <3> TAKE i \in 1 .. Len(dataDocker)
    <3> DEFINE row == <<TableOf[Head(dataDocker)], dataDocker[i]>>
    <3>1. row \in rows' /\ row[2] = dataDocker[i]
      BY <2>2
    <3> HIDE DEF row
    <3> QED BY <3>1 DEF Stored
  <2> QED BY <2>3 DEF ToSet
<1> QED BY <1>1, <1>2

\* The buffer grows by one cell; when it was full, a flush came before it.
LEMMA BufferBound ==
    ASSUME IInv, FlushedBound, NEW c \in Cell, NEW cols, Buffer(c, cols)
    PROVE  FlushedBound'
<1> SUFFICES ASSUME flushed' PROVE \/ Len(dataDocker)' <= BatchCount
                                  \/ \E d \in Cell : Pending' \subseteq {d}
  BY DEF FlushedBound
<1>1. CASE Full
  <2>1. Flush(cols)
    BY <1>1 DEF Buffer
  <2>2. rows \subseteq rows' /\ accepted' = accepted \cup {c}
    BY BufferEffect DEF IInv
  <2>3. accepted \subseteq Stored'
    BY <2>1, <2>2, FlushStores, StoredGrows DEF IInv, AcceptedKept
  <2> QED BY <2>2, <2>3 DEF Pending
<1>2. CASE ~Full
  <2>1. dataDocker' = Append(dataDocker, c) /\ dataDocker \in Seq(Cell)
    BY <1>2 DEF Buffer, IInv, TypeOK
  <2> QED BY <1>2, <2>1, SQLStoreAssumption DEF Full
<1> QED BY <1>1, <1>2

\* Save keeps to it: a cell that cannot be given a table is dropped at once.
LEMMA SaveBound == ASSUME IInv, FlushedBound, NEW c \in Cell, Save(c) PROVE FlushedBound'
<1>1. ASSUME NEW cols, Buffer(c, cols) PROVE FlushedBound'
  BY <1>1, BufferBound
<1>2. CASE CreateFails(c)
  BY <1>2 DEF CreateFails, FlushedBound, Pending, Stored
<1> QED BY <1>1, <1>2 DEF Save

\* It holds throughout, together with the invariant above.
LEMMA BoundInductive == Spec => []FlushedBound
<1>1. Init => FlushedBound
  BY SQLStoreAssumption DEF Init, FlushedBound
<1>2. IInv /\ FlushedBound /\ [Next]_vars => FlushedBound'
  <2> SUFFICES ASSUME IInv, FlushedBound, [Next]_vars PROVE FlushedBound'
    OBVIOUS
  <2>1. CASE UNCHANGED vars
    BY <2>1 DEF vars, FlushedBound, Pending, Stored
  <2>2. CASE Restart
    BY <2>2, SQLStoreAssumption DEF Restart, FlushedBound
  <2>3. ASSUME NEW c \in Cell, Save(c) PROVE FlushedBound'
    BY <2>3, SaveBound
  <2> QED BY <2>1, <2>2, <2>3 DEF Next
<1> QED BY <1>1, <1>2, Inductive, PTL DEF Spec

\* While the database answers, a crash costs no more than a batch of cells,
\* and one when there is no batch size.
THEOREM CrashCost == Spec => []CrashLossBound
<1>1. IInv /\ FlushedBound => CrashLossBound
  <2> SUFFICES ASSUME IInv, FlushedBound, flushed
               PROVE  Cardinality(Pending) <= IF BatchCount = 0 THEN 1 ELSE BatchCount
    BY DEF CrashLossBound, Pending
  <2>1. CASE Len(dataDocker) <= BatchCount
    <3>1. /\ IsFiniteSet(ToSet(dataDocker))
          /\ Cardinality(ToSet(dataDocker)) <= Len(dataDocker)
      BY ToSetCardinality DEF IInv, TypeOK
    <3>2. Pending \in SUBSET ToSet(dataDocker)
      BY DEF IInv, AcceptedKept, Pending
    <3>3. Cardinality(Pending) <= Cardinality(ToSet(dataDocker))
      BY <3>1, <3>2, FS_Subset
    <3>4. /\ Cardinality(Pending) \in Nat /\ Cardinality(ToSet(dataDocker)) \in Nat
          /\ Len(dataDocker) \in Nat
      BY <3>1, <3>2, FS_Subset, FS_CardinalityType DEF IInv, TypeOK
    <3> QED BY <2>1, <3>1, <3>3, <3>4, SQLStoreAssumption
  <2>2. ASSUME NEW c \in Cell, Pending \subseteq {c}
        PROVE  Cardinality(Pending) <= IF BatchCount = 0 THEN 1 ELSE BatchCount
    <3>1. Pending = {} \/ Pending = {c}
      BY <2>2
    <3>2. Cardinality(Pending) \in {0, 1}
      BY <3>1, FS_EmptySet, FS_Singleton
    <3> QED BY <3>2, SQLStoreAssumption
  <2> QED BY <2>1, <2>2 DEF FlushedBound
<1> QED BY <1>1, Inductive, BoundInductive, PTL
=============================================================================
