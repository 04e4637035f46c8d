--------------------------- MODULE MemoryMigration ---------------------------
(***************************************************************************)
(* The shared memory's database as a server that starts brings it to       *)
(* schema 3.  Several servers may start at once, and each may crash at any *)
(* point and be started again.  A row stands for itself, whatever is       *)
(* redacted in it; RowKey is the key it has under the new schema.          *)
(***************************************************************************)
EXTENDS Integers, FiniteSets

CONSTANTS
    Old,         \* the rows of the old schema
    RowKey,      \* [Old -> their scope, effective namespace and key]
    Starters,    \* the processes that open the store
    Plain,       \* the name of the first backup; the others have a time
    NoFile,      \* a backup that does not exist
    MaxClock     \* bound of the model: the clock stops here

ASSUME MigrationAssumption ==
    /\ MaxClock \in Nat /\ Plain \notin 0..MaxClock
    /\ \A rows \in SUBSET Old : rows # NoFile

VARIABLES
    version,    \* PRAGMA user_version: 2 stands for every older one
    table,      \* the rows of key_values
    search,     \* [Old -> how many rows of memory_fts stand for it]
    main,       \* the rows that the database file has without its WAL
    backups,    \* [Plain and times -> a set of rows, or NoFile]
    clock,
    step, held, name,   \* each starter: what is next, rows_to_insert, bak_path
    unsaved,    \* history: rows that some backup should have and has not
    cut,        \* history: a start ended between the drop and the insertion
    together    \* history: two starters have migrated at once

fileVars == <<version, table, search, main>>
history == <<unsaved, cut, together>>
migrationVars == <<fileVars, backups, clock, step, held, name, history>>

Names == {Plain} \cup 0..MaxClock
Migrating == {"choose", "copy", "read", "drop", "insert"}

Goto(p, s) == step' = [step EXCEPT ![p] = s]

----------------------------------------------------------------------------
\* __init__: _needs_repair decides.
StartStore(p) ==
    /\ step[p] = "down"
    /\ Goto(p, IF version < 3 THEN "choose" ELSE "ready")
    /\ together' = (together \/ /\ version < 3
                                /\ \E q \in Starters : step[q] \in Migrating)
    /\ UNCHANGED <<fileVars, backups, clock, held, name, unsaved, cut>>

\* Mutant of ChooseBackup: the name does not depend on what exists.
ChoosePlain(p) ==
    /\ step[p] = "choose"
    /\ name' = [name EXCEPT ![p] = Plain]
    /\ Goto(p, "copy")
    /\ UNCHANGED <<fileVars, backups, clock, held, history>>

ChooseBackup(p) ==
    /\ step[p] = "choose"
    /\ name' = [name EXCEPT ![p] = IF backups[Plain] = NoFile THEN Plain ELSE clock]
    /\ Goto(p, "copy")
    /\ UNCHANGED <<fileVars, backups, clock, held, history>>

\* The database file is copied without its WAL.  A copy that fails leaves a
\* file that is of no use or none, and is only logged.
CopyFile(p) ==
    /\ step[p] = "copy"
    /\ \E copied \in {main, {}, NoFile} :
          /\ backups' = IF copied = NoFile THEN backups
                        ELSE [backups EXCEPT ![name[p]] = copied]
          /\ unsaved' = unsaved \cup (table \ (IF copied = NoFile THEN {}
                                               ELSE copied))
    /\ Goto(p, "read")
    /\ UNCHANGED <<fileVars, clock, held, name, cut, together>>

ReadRows(p) ==
    /\ step[p] = "read"
    /\ held' = [held EXCEPT ![p] = table]
    /\ Goto(p, "drop")
    /\ UNCHANGED <<fileVars, backups, clock, name, history>>

\* Both tables are dropped; executescript commits that before it makes the
\* new ones.
DropTables(p) ==
    /\ step[p] = "drop"
    /\ table' = {} /\ search' = [r \in Old |-> 0]
    /\ Goto(p, "insert")
    /\ UNCHANGED <<version, main, backups, clock, held, name, history>>

\* One transaction: every row with its search row, the last of those with one
\* key replacing the others, and the new version.
InsertRows(p) ==
    /\ step[p] = "insert"
    /\ \E stays \in SUBSET held[p] :
          /\ {RowKey[r] : r \in stays} = {RowKey[r] : r \in held[p]}
          /\ \A r, s \in stays : RowKey[r] = RowKey[s] => r = s
          /\ table' = stays \cup {r \in table : \A s \in stays : RowKey[r] # RowKey[s]}
    /\ search' = [r \in Old |-> search[r] + (IF r \in held[p] THEN 1 ELSE 0)]
    /\ version' = 3
    /\ held' = [held EXCEPT ![p] = {}]
    /\ Goto(p, "ready")
    /\ UNCHANGED <<main, backups, clock, name, history>>

\* A statement fails (the write lock is not granted in time): _migration_error
\* is set, and the store refuses every call.
MigrationFails(p) ==
    /\ step[p] \in {"read", "drop", "insert"}
    /\ cut' = (cut \/ step[p] = "insert")
    /\ held' = [held EXCEPT ![p] = {}]
    /\ Goto(p, "refusing")
    /\ UNCHANGED <<fileVars, backups, clock, name, unsaved, together>>

\* The process ends, or crashes before the store is open.
Stop(p) ==
    /\ step[p] # "down"
    /\ cut' = (cut \/ step[p] = "insert")
    /\ held' = [held EXCEPT ![p] = {}]
    /\ Goto(p, "down")
    /\ UNCHANGED <<fileVars, backups, clock, name, unsaved, together>>

\* SQLite moves the WAL into the file when it likes.
Checkpoint ==
    /\ main # table
    /\ main' = table
    /\ UNCHANGED <<version, table, search, backups, clock, step, held,
                   name, history>>

ClockMoves ==
    /\ clock < MaxClock
    /\ clock' = clock + 1
    /\ UNCHANGED <<fileVars, backups, step, held, name, history>>

----------------------------------------------------------------------------
MigrationInit ==
    /\ version = 2 /\ table = Old /\ search = [r \in Old |-> 1]
    /\ main \in SUBSET Old
    /\ backups = [n \in Names |-> NoFile]
    /\ clock = 0
    /\ step = [p \in Starters |-> "down"]
    /\ held = [p \in Starters |-> {}]
    /\ name = [p \in Starters |-> Plain]
    /\ unsaved = {} /\ cut = FALSE /\ together = FALSE

MigrationNext ==
    \/ \E p \in Starters :
          \/ StartStore(p) \/ ChooseBackup(p) \/ CopyFile(p) \/ ReadRows(p)
          \/ DropTables(p) \/ InsertRows(p) \/ MigrationFails(p) \/ Stop(p)
    \/ Checkpoint \/ ClockMoves

MigrationSpec == MigrationInit /\ [][MigrationNext]_migrationVars

----------------------------------------------------------------------------
MigrationTypeOK ==
    /\ version \in {2, 3} /\ table \subseteq Old /\ main \subseteq Old
    /\ search \in [Old -> Nat]
    /\ \A n \in Names : backups[n] = NoFile \/ backups[n] \subseteq Old
    /\ clock \in 0..MaxClock
    /\ step \in [Starters -> Migrating \cup {"down", "ready", "refusing"}]
    /\ held \in [Starters -> SUBSET Old] /\ name \in [Starters -> Names]
    /\ unsaved \subseteq Old

\* No row is ever without a copy on disk, wherever starts crash, fail and are
\* repeated: it is in the table, was replaced by one of its key, or is in a
\* backup, unless the copy of it failed or stood in the WAL.
RowsStayOnDisk ==
    \A r \in Old \ unsaved :
        \/ \E s \in table : RowKey[s] = RowKey[r]
        \/ \E n \in Names : backups[n] # NoFile /\ r \in backups[n]

\* Under the new schema every key of the old one has one entry, and every row
\* one search row, unless a start ended between the drop and the insertion.
MigratedWhole ==
    version = 3 /\ ~cut =>
        /\ \A r \in Old : Cardinality({s \in table : RowKey[s] = RowKey[r]}) = 1
        /\ \A r \in Old : search[r] = 1

\* A migration loses no row, unless two servers migrate at once.
NoRowLost == together \/ (RowsStayOnDisk /\ MigratedWhole)
=============================================================================
