------------------------------ MODULE SQLStore ------------------------------
(***************************************************************************)
(* storage/sqlstorage over sqldb: DataCells are buffered in dataDocker and *)
(* inserted in batches.  HandleResult, on one goroutine, is the only       *)
(* caller, so a call of Save is one step.  The statements may fail at the  *)
(* database, and an error may be reported for work that was done: a create *)
(* that took effect, an insert of some of its rows (the tables are MyISAM, *)
(* which has no transactions).                                             *)
(*                                                                         *)
(* Every cell comes from Context.Output, so it has a task and a rule, and  *)
(* getFields finds the columns of the rule: its kind stands for them.      *)
(***************************************************************************)
EXTENDS Naturals, Sequences, SequencesExt, FiniteSets

CONSTANTS Cell,        \* the DataCells a run may yield
          TableOf,     \* by cell, GetTableName: the name of its task
          KindOf,      \* by cell, its rule's fields
          Width,       \* by kind, the number of columns
          BatchCount,
          MaxRestarts  \* bound: restarts of the worker

ASSUME SQLStoreAssumption == /\ KindOf \in [Cell -> DOMAIN Width]
                             /\ BatchCount \in Nat
                             /\ MaxRestarts \in Nat

VARIABLES dataDocker,  \* SQLStore.dataDocker
          Table,       \* SQLStore.Table: tables known to exist
          columns,     \* the database: by existing table, the kind it was made for
          rows,        \* the database: the inserted rows, as <<table, cell>>
          unsaved,     \* the cells not handed to Save yet
          accepted,    \* history: the cells buffered since the last restart
          flushed,     \* history: the last Insert since then succeeded
          restarts     \* history: for the bound

vars == <<dataDocker, Table, columns, rows, unsaved, accepted, flushed, restarts>>

TableName == {TableOf[c] : c \in Cell}

Init == /\ dataDocker = <<>>
        /\ Table = {}
        /\ columns = <<>>
        /\ rows = {}
        /\ unsaved = Cell
        /\ accepted = {}
        /\ flushed = TRUE
        /\ restarts = 0

\* CREATE TABLE IF NOT EXISTS: a table that exists keeps its columns.
Created(c) == [n \in DOMAIN columns \cup {TableOf[c]} |->
                 IF n \in DOMAIN columns THEN columns[n] ELSE KindOf[c]]

\* The values of all cells against the columns of the first one, which also
\* names the table: the driver refuses another count, the database columns it
\* does not have.
Fits(cells, cols) ==
    LET kind == KindOf[Head(cells)]
        Args[i \in 0 .. Len(cells)] ==
            IF i = 0 THEN 0 ELSE Args[i - 1] + Width[KindOf[cells[i]]]
    IN  /\ Args[Len(cells)] = Len(cells) * Width[kind]
        /\ cols[TableOf[Head(cells)]] = kind

\* The rows of the first n cells of a batch, all in the table of the first.
Rows(cells, n) == {<<TableOf[Head(cells)], cells[i]>> : i \in 1 .. n}

\* Flush, with cols for the tables there are.
Flush(cols) ==
    IF dataDocker = <<>>
    THEN UNCHANGED <<rows, flushed>>
    ELSE \/ /\ flushed' = FALSE
            /\ UNCHANGED rows
         \/ /\ Fits(dataDocker, cols)
            /\ \E n \in 1 .. Len(dataDocker) :
                  /\ rows' = rows \cup Rows(dataDocker, n)
                  /\ flushed' \in {FALSE, n = Len(dataDocker)}

\* Mutant: Flush empties the buffer, whether or not the insert succeeded.
LeftEmpty == <<>>

\* What Flush leaves in dataDocker, which it only reads.
LeftByFlush == dataDocker

\* Mutant: the buffer may hold one cell more.
FullOffByOne == Len(dataDocker) > BatchCount

Full == Len(dataDocker) >= BatchCount

\* The rest of Save, once the table of c is there: an error of Flush is
\* dropped, and the cell is buffered in any case.
Buffer(c, cols) ==
    /\ IF Full
       THEN Flush(cols) /\ dataDocker' = Append(LeftByFlush, c)
       ELSE UNCHANGED <<rows, flushed>> /\ dataDocker' = Append(dataDocker, c)
    /\ accepted' = accepted \cup {c}
    /\ columns' = cols

\* Mutant: the table is taken for created before the error is looked at.
CreateFailsMarked(c) ==
    /\ TableOf[c] \notin Table
    /\ columns' \in {columns, Created(c)}
    /\ Table' = Table \cup {TableOf[c]}
    /\ UNCHANGED <<dataDocker, rows, accepted, flushed>>

\* CreateTable reports an error: the cell is dropped.
CreateFails(c) ==
    /\ TableOf[c] \notin Table
    /\ columns' \in {columns, Created(c)}
    /\ UNCHANGED <<dataDocker, Table, rows, accepted, flushed>>

Save(c) ==
    /\ c \in unsaved
    /\ unsaved' = unsaved \ {c}
    /\ \/ /\ TableOf[c] \in Table
          /\ Buffer(c, columns)
          /\ UNCHANGED Table
       \/ /\ TableOf[c] \notin Table
          /\ Buffer(c, Created(c))
          /\ Table' = Table \cup {TableOf[c]}
       \/ CreateFails(c)
    /\ UNCHANGED restarts

\* The worker process ends and New makes an empty store over the database.
Restart ==
    /\ restarts < MaxRestarts
    /\ restarts' = restarts + 1
    /\ dataDocker' = <<>>
    /\ Table' = {}
    /\ accepted' = {}
    /\ flushed' = TRUE
    /\ UNCHANGED <<columns, rows, unsaved>>

Next == Restart \/ \E c \in Cell : Save(c)

Spec == Init /\ [][Next]_vars

-----------------------------------------------------------------------------
Stored == {row[2] : row \in rows}

\* The types; and Table names only tables that exist in the database.
TypeOK == /\ dataDocker \in Seq(Cell)
          /\ Table \subseteq DOMAIN columns
          /\ DOMAIN columns \subseteq TableName
          /\ \A n \in DOMAIN columns : columns[n] \in DOMAIN Width
          /\ rows \subseteq TableName \X Cell
          /\ unsaved \subseteq Cell
          /\ accepted \subseteq Cell \ unsaved
          /\ flushed \in BOOLEAN
          /\ restarts \in 0 .. MaxRestarts

\* A cell that was buffered is still there to be inserted by a later Flush,
\* or is in the database: neither an insert that fails nor one that stops
\* half way, of which Save takes no notice, loses a cell.
AcceptedKept == accepted \subseteq ToSet(dataDocker) \cup Stored

\* What a crash can cost while the database answers: no more than a batch of
\* buffered cells, and one when BatchCount was left at 0.
CrashLossBound ==
    flushed => Cardinality(accepted \ Stored)
                  <= IF BatchCount = 0 THEN 1 ELSE BatchCount

\* The unit test's view of Flush: it empties the buffer.  Seen from Save, of a
\* Flush that inserted its batch without an error: no cell of the batch is in
\* the buffer any more.  After an error they have to stay (AcceptedKept).
FlushEmptiesBuffer ==
    [][rows' # rows /\ flushed' =>
          ToSet(dataDocker) \cap ToSet(dataDocker') = {}]_vars
=============================================================================
