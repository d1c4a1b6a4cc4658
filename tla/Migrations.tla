----------------------------- MODULE Migrations -----------------------------
(***************************************************************************)
(* cli/main.go: the commands migrate and migrate:rollback.                 *)
(*                                                                         *)
(* A command is a process: it reads the migrations table, then goes over   *)
(* files one by one, executes their statements and inserts or deletes      *)
(* their records.  Nothing of this is in a transaction, so a command that  *)
(* exits leaves what it has done, and a second command may run meanwhile.  *)
(* Files are numbered in the order of their names.  A statement creates or *)
(* drops one object (a table, an index) of its file.                       *)
(***************************************************************************)
EXTENDS Naturals, Sequences, SequencesExt, FiniteSetsExt

CONSTANTS Files,        \* the migration files, in the order of sort.Strings
          Creates,      \* how many objects the UP section of a file creates
          Drops,        \* how many of them its DOWN section drops
          Tolerant,     \* the files written with IF [NOT] EXISTS
          Procs,        \* the processes that run commands
          MaxBatch,     \* bound: no migrate goes beyond this batch
          MaxStops,     \* bound: so many commands are interrupted
          MaxMoves      \* bound: so many files come or go

ASSUME MigrationsAssumption ==
    /\ Files \subseteq Nat /\ IsFiniteSet(Files)
    /\ Creates \in [Files -> Nat]
    /\ Drops \in [Files -> Nat] /\ \A f \in Files : Drops[f] <= Creates[f]
    /\ Tolerant \subseteq Files
    /\ MaxBatch \in Nat /\ MaxStops \in Nat /\ MaxMoves \in Nat

VARIABLES dir,          \* the files under database/migrations
          schema,       \* external: the objects the database has
          table,        \* the rows of the migrations table, by id
          pc,           \* where each process is
          seen,         \* applied, of a migrate that has not listed the files yet
          todo,         \* the files its loop still goes over, the current one first
          batch,        \* nextBatch or maxBatch
          stmts,        \* the objects of the statements it still executes
          mine,         \* history: the files its migrate has recorded
          caveats,      \* history: what happened that a lone command never meets
          left,         \* history: files left with objects and no record
          torn,         \* history: files left with a record and not all objects
          stops, moves  \* bounds

command == <<pc, seen, todo, batch, stmts, mine>>
history == <<caveats, left, torn>>
vars == <<dir, schema, table, command, history, stops, moves>>

\* Before the loop a migrate is at glob and then at batch, a rollback at rows; in
\* the loop it is at migrate or rollback between files, at up or down within one.
MigratePC == {"glob", "batch", "migrate", "up"}
RollbackPC == {"rows", "rollback", "down"}

Objects == UNION {{<<f, i>> : i \in 1..Creates[f]} : f \in Files}
ObjectsOf(f) == {<<f, i>> : i \in 1..Creates[f]}
UpOf(f) == [i \in 1..Creates[f] |-> <<f, i>>]
DownOf(f) == [i \in 1..Drops[f] |-> <<f, Creates[f] + 1 - i>>]

Recorded == {table[i].name : i \in DOMAIN table}
\* MAX(batch), 0 for an empty table.
LastBatch == Max({table[i].batch : i \in DOMAIN table} \cup {0})

\* The numbers of a finite set, the smallest first.
Ascending(S) ==
    CHOOSE s \in [1..Cardinality(S) -> S] : \A i, j \in DOMAIN s : i < j => s[i] < s[j]

TypeOK ==
    /\ dir \subseteq Files
    /\ schema \subseteq Objects
    /\ table \in Seq([name : Files, batch : Nat])
    /\ pc \in [Procs -> {"idle"} \cup MigratePC \cup RollbackPC]
    /\ seen \in [Procs -> SUBSET Files]
    /\ todo \in [Procs -> Seq(Files)]
    /\ batch \in [Procs -> Nat]
    /\ stmts \in [Procs -> Seq(Objects)]
    /\ mine \in [Procs -> SUBSET Files]
    /\ \A p \in Procs : pc[p] \in {"up", "down"} => todo[p] # <<>>
    /\ caveats \subseteq {"mixed", "moved", "lost"}
    /\ left \subseteq Files /\ torn \subseteq Files
    /\ stops \in 0..MaxStops /\ moves \in 0..MaxMoves

Init ==
    /\ dir \in SUBSET Files
    /\ schema = {} /\ table = <<>>
    /\ pc = [p \in Procs |-> "idle"]
    /\ seen = [p \in Procs |-> {}]
    /\ todo = [p \in Procs |-> <<>>]
    /\ batch = [p \in Procs |-> 0]
    /\ stmts = [p \in Procs |-> <<>>]
    /\ mine = [p \in Procs |-> {}]
    /\ caveats = {} /\ left = {} /\ torn = {}
    /\ stops = 0 /\ moves = 0

-----------------------------------------------------------------------------
Running(S) == \E q \in Procs : pc[q] \in S

\* The process ends, by a return or an os.Exit.
Ends(p) ==
    /\ pc' = [pc EXCEPT ![p] = "idle"]
    /\ seen' = [seen EXCEPT ![p] = {}]
    /\ todo' = [todo EXCEPT ![p] = <<>>]
    /\ batch' = [batch EXCEPT ![p] = 0]
    /\ stmts' = [stmts EXCEPT ![p] = <<>>]
    /\ mine' = [mine EXCEPT ![p] = {}]

\* It ends in the middle of a file, whose statements may have been executed.
Breaks(p) ==
    /\ Ends(p)
    /\ left' = IF pc[p] = "up" THEN left \cup {Head(todo[p])} ELSE left
    /\ torn' = IF pc[p] = "down" THEN torn \cup {Head(todo[p])} ELSE torn
    /\ UNCHANGED <<dir, schema, table, caveats, moves>>

\* cmdMigrate: SELECT migration, batch FROM migrations.
MigrateRead(p) ==
    /\ pc[p] = "idle" /\ LastBatch < MaxBatch
    /\ pc' = [pc EXCEPT ![p] = "glob"]
    /\ seen' = [seen EXCEPT ![p] = Recorded]
    /\ caveats' = IF Running(RollbackPC) THEN caveats \cup {"mixed"} ELSE caveats
    /\ UNCHANGED <<dir, schema, table, todo, batch, stmts, mine, left, torn,
                   stops, moves>>

\* filepath.Glob and sort.Strings; the loop skips what was applied.
MigrateGlob(p) ==
    /\ pc[p] = "glob"
    /\ pc' = [pc EXCEPT ![p] = "batch"]
    /\ todo' = [todo EXCEPT ![p] = Ascending(dir \ seen[p])]
    /\ seen' = [seen EXCEPT ![p] = {}]
    /\ UNCHANGED <<dir, schema, table, batch, stmts, mine, history, stops, moves>>

\* Faulty variant: the maximum itself is the batch.
MigrateBatchSame(p) ==
    /\ pc[p] = "batch" /\ LastBatch < MaxBatch
    /\ pc' = [pc EXCEPT ![p] = "migrate"]
    /\ batch' = [batch EXCEPT ![p] = Max({LastBatch, 1})]
    /\ UNCHANGED <<dir, schema, table, seen, todo, stmts, mine, history, stops, moves>>

\* SELECT MAX(batch); when the query fails, the error is ignored.
MigrateBatch(p) ==
    /\ pc[p] = "batch" /\ LastBatch < MaxBatch
    /\ pc' = [pc EXCEPT ![p] = "migrate"]
    /\ \/ /\ batch' = [batch EXCEPT ![p] = LastBatch + 1]
          /\ UNCHANGED <<caveats, stops>>
       \/ /\ stops < MaxStops
          /\ stops' = stops + 1
          /\ batch' = [batch EXCEPT ![p] = 1]
          /\ caveats' = caveats \cup {"lost"}
    /\ UNCHANGED <<dir, schema, table, seen, todo, stmts, mine, left, torn, moves>>

\* The head of the loop: the end of it, or the next file is read.
MigrateOpen(p) ==
    /\ pc[p] = "migrate"
    /\ IF todo[p] # <<>> /\ Head(todo[p]) \in dir
       THEN /\ pc' = [pc EXCEPT ![p] = "up"]
            /\ stmts' = [stmts EXCEPT ![p] = UpOf(Head(todo[p]))]
            /\ UNCHANGED <<seen, todo, batch, mine>>
       ELSE Ends(p)
    /\ UNCHANGED <<dir, schema, table, history, stops, moves>>

\* Faulty variant: an object that exists fails a tolerant statement too, as when the
\* driver's warning is taken for an error.
UpStrict(p) ==
    /\ pc[p] = "up" /\ stmts[p] # <<>>
    /\ IF Head(stmts[p]) \in schema
       THEN Breaks(p)
       ELSE /\ schema' = schema \cup {Head(stmts[p])}
            /\ stmts' = [stmts EXCEPT ![p] = Tail(@)]
            /\ UNCHANGED <<dir, table, pc, seen, todo, batch, mine, history, moves>>
    /\ UNCHANGED stops

\* execSQLStatements on the UP section.
UpStatement(p) ==
    /\ pc[p] = "up" /\ stmts[p] # <<>>
    /\ IF Head(stmts[p]) \in schema /\ Head(todo[p]) \notin Tolerant
       THEN Breaks(p)
       ELSE /\ schema' = schema \cup {Head(stmts[p])}
            /\ stmts' = [stmts EXCEPT ![p] = Tail(@)]
            /\ UNCHANGED <<dir, table, pc, seen, todo, batch, mine, history, moves>>
    /\ UNCHANGED stops

\* Faulty variant: the record is inserted whether the statements are through or not.
InsertEarly(p) ==
    /\ pc[p] = "up"
    /\ IF Head(todo[p]) \in Recorded
       THEN Breaks(p)
       ELSE /\ table' = Append(table, [name |-> Head(todo[p]), batch |-> batch[p]])
            /\ pc' = [pc EXCEPT ![p] = "migrate"]
            /\ todo' = [todo EXCEPT ![p] = Tail(@)]
            /\ stmts' = [stmts EXCEPT ![p] = <<>>]
            /\ mine' = [mine EXCEPT ![p] = @ \cup {Head(todo[p])}]
            /\ UNCHANGED <<dir, schema, seen, batch, history, moves>>
    /\ UNCHANGED stops

\* INSERT INTO migrations, whose column migration is UNIQUE.
Insert(p) ==
    /\ pc[p] = "up" /\ stmts[p] = <<>>
    /\ LET f == Head(todo[p]) IN
       IF f \in Recorded
       THEN Breaks(p)
       ELSE /\ table' = Append(table, [name |-> f, batch |-> batch[p]])
            /\ pc' = [pc EXCEPT ![p] = "migrate"]
            /\ todo' = [todo EXCEPT ![p] = Tail(@)]
            /\ mine' = [mine EXCEPT ![p] = @ \cup {f}]
            /\ UNCHANGED <<dir, schema, seen, batch, stmts, history, moves>>
    /\ UNCHANGED stops

\* cmdMigrateRollback: SELECT MAX(batch).
RollbackMax(p) ==
    /\ pc[p] = "idle" /\ LastBatch > 0
    /\ pc' = [pc EXCEPT ![p] = "rows"]
    /\ batch' = [batch EXCEPT ![p] = LastBatch]
    /\ caveats' = IF Running(MigratePC) THEN caveats \cup {"mixed"} ELSE caveats
    /\ UNCHANGED <<dir, schema, table, seen, todo, stmts, mine, left, torn,
                   stops, moves>>

RowsOf(b) == {i \in DOMAIN table : table[i].batch = b}
NamesOf(rows) == [i \in DOMAIN rows |-> table[rows[i]].name]

\* Faulty variant: the rows in the order of their ids.
RowsAscending(p) ==
    /\ pc[p] = "rows"
    /\ pc' = [pc EXCEPT ![p] = "rollback"]
    /\ todo' = [todo EXCEPT ![p] = NamesOf(Ascending(RowsOf(batch[p])))]
    /\ UNCHANGED <<dir, schema, table, seen, batch, stmts, mine, history, stops, moves>>

\* The rows of that batch, ORDER BY id DESC.
RollbackRows(p) ==
    /\ pc[p] = "rows"
    /\ pc' = [pc EXCEPT ![p] = "rollback"]
    /\ todo' = [todo EXCEPT ![p] = NamesOf(Reverse(Ascending(RowsOf(batch[p]))))]
    /\ UNCHANGED <<dir, schema, table, seen, batch, stmts, mine, history, stops, moves>>

\* The head of the loop; a file that is gone or has no DOWN section has no statements.
RollbackOpen(p) ==
    /\ pc[p] = "rollback"
    /\ IF todo[p] # <<>>
       THEN LET f == Head(todo[p]) IN
            /\ pc' = [pc EXCEPT ![p] = "down"]
            /\ stmts' = [stmts EXCEPT ![p] = IF f \in dir THEN DownOf(f) ELSE <<>>]
            /\ left' = IF f \in dir /\ Drops[f] = Creates[f] THEN left ELSE left \cup {f}
            /\ UNCHANGED <<seen, todo, batch, mine>>
       ELSE Ends(p) /\ UNCHANGED left
    /\ UNCHANGED <<dir, schema, table, caveats, torn, stops, moves>>

\* execSQLStatements on the DOWN section.
DownStatement(p) ==
    /\ pc[p] = "down" /\ stmts[p] # <<>>
    /\ IF Head(stmts[p]) \notin schema /\ Head(todo[p]) \notin Tolerant
       THEN Breaks(p)
       ELSE /\ schema' = schema \ {Head(stmts[p])}
            /\ stmts' = [stmts EXCEPT ![p] = Tail(@)]
            /\ UNCHANGED <<dir, table, pc, seen, todo, batch, mine, history, moves>>
    /\ UNCHANGED stops

\* The table without the row of f; a name is in one row at most.
Without(f) ==
    IF f \in Recorded
    THEN RemoveAt(table, CHOOSE i \in DOMAIN table : table[i].name = f)
    ELSE table

\* Faulty variant: the record goes before the statements are through, and a rollback
\* that stops in between has forgotten the migration.
DeleteEarly(p) ==
    /\ pc[p] = "down" /\ Head(todo[p]) \in Recorded
    /\ table' = Without(Head(todo[p]))
    /\ UNCHANGED <<dir, schema, command, history, stops, moves>>

\* DELETE FROM migrations WHERE migration = name.
Delete(p) ==
    /\ pc[p] = "down" /\ stmts[p] = <<>>
    /\ LET f == Head(todo[p]) IN
       /\ table' = Without(f)
       /\ torn' = torn \ {f}
       /\ left' = IF ObjectsOf(f) \cap schema = {} THEN left \ {f} ELSE left
    /\ pc' = [pc EXCEPT ![p] = "rollback"]
    /\ todo' = [todo EXCEPT ![p] = Tail(@)]
    /\ UNCHANGED <<dir, schema, seen, batch, stmts, mine, caveats, stops, moves>>

\* The process is killed, or the database refuses a call and it exits.
Stop(p) ==
    /\ pc[p] # "idle" /\ stops < MaxStops
    /\ stops' = stops + 1
    /\ Breaks(p)

\* A deployment adds or removes a file.
MoveFile ==
    /\ moves < MaxMoves
    /\ moves' = moves + 1
    /\ \E f \in Files : dir' = IF f \in dir THEN dir \ {f} ELSE dir \cup {f}
    /\ caveats' = IF Running(MigratePC) THEN caveats \cup {"moved"} ELSE caveats
    /\ UNCHANGED <<schema, table, command, left, torn, stops>>

Migrate(p) == MigrateGlob(p) \/ MigrateBatch(p) \/ MigrateOpen(p) \/ UpStatement(p)
                  \/ Insert(p)
Rollback(p) == RollbackRows(p) \/ RollbackOpen(p) \/ DownStatement(p) \/ Delete(p)

Next == \/ \E p \in Procs : \/ MigrateRead(p) \/ RollbackMax(p)
                            \/ Migrate(p) \/ Rollback(p) \/ Stop(p)
        \/ MoveFile

Spec == Init /\ [][Next]_vars

\* The operating system runs a command that has started.
FairSpec == Spec /\ \A p \in Procs : WF_vars(Migrate(p) \/ Rollback(p))

-----------------------------------------------------------------------------
At(S, f) == \E p \in Procs : pc[p] \in S /\ Head(todo[p]) = f

\* A recorded migration is in the database, also when two migrates overlap and when
\* commands are interrupted anywhere; only a rollback of it that is at work or was
\* interrupted takes objects away under its record.  (A migrate and a rollback that
\* overlap are excepted: the one records what the other drops.)
AppliedWhenRecorded ==
    "mixed" \notin caveats =>
        \A f \in Recorded \ torn : ObjectsOf(f) \subseteq schema \/ At({"down"}, f)

\* An object of a file that is not recorded has a known cause: a migrate of that file
\* is at work or was interrupted, or its rollback found no DOWN section that drops the
\* object.  Nothing else leaves tables behind that a later migrate stumbles on.
LeftoversExplained ==
    "mixed" \notin caveats =>
        \A f \in Files \ (Recorded \cup left) :
            ObjectsOf(f) \cap schema = {} \/ At({"up"}, f)

\* The rows of a batch were inserted by one migrate, also when several overlap: of two
\* that read the same MAX(batch) all but one fail before their first insert.
BatchIsRun ==
    [][caveats = {} => \A p \in Procs : Insert(p) /\ table' # table =>
           \A i \in DOMAIN table : table[i].batch = batch[p] => table[i].name \in mine[p]
      ]_vars

\* "Rollback the last batch of migrations" (cli/main.go:64) goes back in time: the
\* record a rollback deletes is the newest there is, whatever migrates and rollbacks
\* have been interrupted or have overlapped with their like before.
RollbackUndoesNewest ==
    [][caveats = {} => \A p \in Procs : Delete(p) =>
           (Head(todo[p]) \in Recorded => table' = Front(table))]_vars

\* A file whose statements tolerate being repeated, as do those of the files before
\* it, gets recorded if migrate is run again and again, whatever was interrupted.
RetryCompletes ==
    \A f \in Files :
        /\ \A g \in Files : g <= f => g \in Tolerant
        /\ []<><<\E p \in Procs : MigrateRead(p)>>_vars
        /\ <>[](f \in dir)
        => <>(f \in Recorded)
=============================================================================
