-------------------------- MODULE SnapshotPublish --------------------------
(***************************************************************************)
(* The index directory of one repository: concurrent index runs that write *)
(* and publish snapshots (build_index) and the age-based collector they    *)
(* and the desktop application run (gc_snapshots, clean_stale_snapshots).  *)
(* The readers are in SnapshotReaders.                                     *)
(*                                                                         *)
(* A snapshot is named by its index_run_id.  Its file is "partial" while   *)
(* write_snapshot fills the temporary, "temp" once that returns, "ready"   *)
(* under its final name.  Time is a counter and GcAge is max_age_seconds.  *)
(* Stall bounds how long one process may take between creating its         *)
(* temporary (for the desktop application: reading the pointer) and its    *)
(* own collection; the code has no such bound, it is the assumption under  *)
(* which ages can be trusted.                                              *)
(***************************************************************************)
EXTENDS Integers, FiniteSets

CONSTANTS
    Builders,    \* processes that run build_index
    Cleaners,    \* desktop applications that collect old snapshots
    Runs,        \* index_run_ids available to the model
    NoRun,
    Legacy,      \* the unversioned path <repo>.sqlite
    Torn,        \* a file truncated by write_text and not yet filled
    ReadErrors,  \* processes whose read of the pointer may fail (a sharing
                 \* violation on Windows while another process replaces it)
    GcAge, Stall,
    MaxTime,     \* bound of the model: the clock stops here
    MaxFaults    \* bound of the model: exceptions and kills

ASSUME NamesAssumption ==
    /\ NoRun \notin Runs /\ Legacy \notin Runs /\ Torn \notin Runs
    /\ Legacy # NoRun /\ Torn # NoRun
ASSUME TimeAssumption ==
    /\ GcAge \in Nat /\ Stall \in Nat
    /\ MaxTime \in Nat /\ MaxFaults \in Nat
    /\ 2 * Stall < GcAge

\* What the proofs assume besides: the desktop application reads the pointer.
NoReadErrors == ReadErrors \cap Cleaners = {}

VARIABLES
    now,
    db,          \* state of the file of each run
    mtime,       \* its modification time; Never before the file exists
    pointer,     \* <repo>.current.json: the run it names
    legacy,      \* run whose content <repo>.sqlite is linked to
    mtmp,        \* <repo>.manifest.tmp.json, one name shared by all runs
    manifest,    \* <repo>.manifest.json
    bpc, brun, bstart, base, fd,          \* build_index, per builder
    gpc, gcur, gstart,                    \* clean_stale_snapshots, per cleaner
    faults,
    described    \* history: runs the pointer has named

diskVars == <<db, mtime, pointer, legacy, described>>
manifestVars == <<mtmp, manifest, fd>>
builderVars == <<bpc, brun, bstart, base>>
cleanerVars == <<gpc, gcur, gstart>>
vars == <<now, diskVars, manifestVars, builderVars, cleanerVars, faults>>

Never == -1
NoPath == NoRun
Paths == Runs \cup {Legacy}

----------------------------------------------------------------------------
(* The index directory. *)

Exists(path) == IF path = Legacy THEN legacy # NoRun
                ELSE path \in Runs /\ db[path] = "ready"

\* database_path: the pointer's snapshot if it exists, else the old name.
Resolve == IF pointer # NoRun /\ Exists(pointer) THEN pointer ELSE Legacy

\* Mutants of Collectable: an age that only covers one window; temporaries
\* taken for the leftovers of killed runs.
CollectableSooner(current) ==
    {r \in Runs : /\ db[r] # "absent"
                  /\ r # current
                  /\ now - mtime[r] >= GcAge - Stall}

CollectableTemporaries(current) ==
    {r \in Runs : /\ db[r] # "absent"
                  /\ r # current
                  /\ \/ db[r] \in {"partial", "temp"}
                     \/ now - mtime[r] >= GcAge}

\* What gc_snapshots unlinks: every versioned file, temporaries included,
\* that is old and is not the one the caller calls current.
Collectable(current) ==
    {r \in Runs : /\ db[r] # "absent"
                  /\ r # current
                  /\ now - mtime[r] >= GcAge}

\* A file that cannot be unlinked (in use on Windows) is skipped.
Collect(current) ==
    /\ \E gone \in SUBSET Collectable(current) :
          db' = [r \in Runs |-> IF r \in gone THEN "absent" ELSE db[r]]
    /\ UNCHANGED <<mtime, pointer, legacy, described>>

----------------------------------------------------------------------------
(* build_index *)

\* Between the creation of a temporary and the collection that follows.
InWindow(b) == bpc[b] \in {"writing", "written", "moved", "pointed", "linked"}

\* database_path and _load_previous, then the scan.  A run without a usable
\* base (--full, another schema, root or parser) starts from nothing.
Scan(b) ==
    /\ bpc[b] = "idle"
    /\ \E p \in {NoPath, Resolve, Legacy} :
          /\ p \in {NoPath, Resolve} \/ b \in ReadErrors
          /\ p # NoPath => Exists(p)
          /\ base' = [base EXCEPT ![b] = p]
    /\ bpc' = [bpc EXCEPT ![b] = "scanned"]
    /\ UNCHANGED <<now, diskVars, manifestVars, brun, bstart, cleanerVars,
                   faults>>

\* write_snapshot starts: a delta write clones the base here, a rewrite
\* copies the text rows of unchanged files from it later.
BeginWrite(b) ==
    /\ bpc[b] = "scanned"
    /\ \E r \in Runs, delta \in BOOLEAN :
          /\ mtime[r] = Never
          /\ delta => Exists(base[b])
          /\ base' = [base EXCEPT ![b] = IF delta THEN NoPath ELSE @]
          /\ brun' = [brun EXCEPT ![b] = r]
          /\ db' = [db EXCEPT ![r] = "partial"]
          /\ mtime' = [mtime EXCEPT ![r] = now]
    /\ bstart' = [bstart EXCEPT ![b] = now]
    /\ bpc' = [bpc EXCEPT ![b] = "writing"]
    /\ UNCHANGED <<now, pointer, legacy, described,
                   manifestVars, cleanerVars, faults>>

\* _copy_text_rows opens the base once; what is unlinked later stays readable.
CopyText(b) ==
    /\ bpc[b] = "writing"
    /\ base[b] # NoPath /\ Exists(base[b])
    /\ base' = [base EXCEPT ![b] = NoPath]
    /\ UNCHANGED <<now, diskVars, manifestVars, bpc, brun, bstart, cleanerVars,
                   faults>>

\* Mutant of EndWrite: the pointer is swapped before the rename.
EndWriteUnmoved(b) ==
    /\ bpc[b] = "writing"
    /\ base[b] = NoPath
    /\ db' = [db EXCEPT ![brun[b]] = "temp"]
    /\ mtime' = [mtime EXCEPT ![brun[b]] = now]
    /\ bpc' = [bpc EXCEPT ![b] = "moved"]
    /\ UNCHANGED <<now, pointer, legacy, described, manifestVars, brun, bstart,
                   base, cleanerVars, faults>>

EndWrite(b) ==
    /\ bpc[b] = "writing"
    /\ base[b] = NoPath
    /\ db[brun[b]] = "partial"
    /\ db' = [db EXCEPT ![brun[b]] = "temp"]
    /\ mtime' = [mtime EXCEPT ![brun[b]] = now]
    /\ bpc' = [bpc EXCEPT ![b] = "written"]
    /\ UNCHANGED <<now, pointer, legacy, described, manifestVars, brun, bstart,
                   base, cleanerVars, faults>>

\* Mutant of Move: the manifest is written before the pointer.
MoveThenDescribe(b) ==
    /\ bpc[b] = "written"
    /\ db[brun[b]] = "temp"
    /\ db' = [db EXCEPT ![brun[b]] = "ready"]
    /\ bpc' = [bpc EXCEPT ![b] = "collected"]
    /\ UNCHANGED <<now, mtime, pointer, legacy, described, manifestVars, brun,
                   bstart, base, cleanerVars, faults>>

\* _atomic_replace: a rename, which keeps the modification time.
Move(b) ==
    /\ bpc[b] = "written"
    /\ db[brun[b]] = "temp"
    /\ db' = [db EXCEPT ![brun[b]] = "ready"]
    /\ bpc' = [bpc EXCEPT ![b] = "moved"]
    /\ UNCHANGED <<now, mtime, pointer, legacy, described, manifestVars, brun,
                   bstart, base, cleanerVars, faults>>

SwapPointer(b) ==
    /\ bpc[b] = "moved"
    /\ pointer' = brun[b]
    /\ described' = described \cup {brun[b]}
    /\ bpc' = [bpc EXCEPT ![b] = "pointed"]
    /\ UNCHANGED <<now, db, mtime, legacy, manifestVars, brun, bstart, base,
                   cleanerVars, faults>>

\* _publish_legacy_copy: link and rename, or leave the old one on an OSError.
LinkLegacy(b) ==
    /\ bpc[b] = "pointed"
    /\ \/ db[brun[b]] = "ready" /\ legacy' = brun[b]
       \/ UNCHANGED legacy
    /\ bpc' = [bpc EXCEPT ![b] = "linked"]
    /\ UNCHANGED <<now, db, mtime, pointer, described,
                   manifestVars, brun, bstart, base, cleanerVars,
                   faults>>

CollectOld(b) ==
    /\ bpc[b] = "linked"
    /\ Collect(brun[b])
    /\ bpc' = [bpc EXCEPT ![b] = "collected"]
    /\ bstart' = [bstart EXCEPT ![b] = 0]
    /\ UNCHANGED <<now, manifestVars, brun, base, cleanerVars,
                   faults>>

\* write_text opens and truncates the shared temporary ...
OpenManifest(b) ==
    /\ bpc[b] = "collected"
    /\ mtmp' = Torn
    /\ fd' = [fd EXCEPT ![b] = "tmp"]
    /\ bpc' = [bpc EXCEPT ![b] = "describing"]
    /\ UNCHANGED <<now, diskVars, manifest, brun, bstart, base, cleanerVars,
                   faults>>

\* ... and fills the file it opened, wherever that has been renamed to.
WriteManifest(b) ==
    /\ bpc[b] = "describing"
    /\ mtmp' = IF fd[b] = "tmp" THEN brun[b] ELSE mtmp
    /\ manifest' = IF fd[b] = "final" THEN brun[b] ELSE manifest
    /\ fd' = [fd EXCEPT ![b] = "closed"]
    /\ bpc' = [bpc EXCEPT ![b] = "filled"]
    /\ UNCHANGED <<now, diskVars, brun, bstart, base, cleanerVars,
                   faults>>

\* temporary_manifest.replace: raises if another run has renamed it away.
ReplaceManifest(b) ==
    /\ bpc[b] = "filled"
    /\ IF mtmp = NoRun
       THEN UNCHANGED manifestVars
       ELSE /\ manifest' = mtmp
            /\ mtmp' = NoRun
            /\ fd' = [c \in Builders |-> CASE fd[c] = "tmp" -> "final"
                                           [] fd[c] = "final" -> "unlinked"
                                           [] OTHER -> fd[c]]
    /\ bpc' = [bpc EXCEPT ![b] = "idle"]
    /\ brun' = [brun EXCEPT ![b] = NoRun]
    /\ UNCHANGED <<now, diskVars, bstart, base, cleanerVars,
                   faults>>

\* Mutant of BaseLost: the failed run keeps its snapshot name.
BaseLostKeepsRun(b) ==
    /\ bpc[b] \in {"scanned", "writing"}
    /\ base[b] # NoPath /\ ~Exists(base[b])
    /\ bpc' = [bpc EXCEPT ![b] = "idle"]
    /\ bstart' = [bstart EXCEPT ![b] = 0]
    /\ base' = [base EXCEPT ![b] = NoPath]
    /\ UNCHANGED <<now, diskVars, manifestVars, brun, cleanerVars, faults>>

\* The base was collected while it was still needed: the copy raises, the
\* finally clause removes the temporary, nothing is published.
BaseLost(b) ==
    /\ bpc[b] \in {"scanned", "writing"}
    /\ base[b] # NoPath /\ ~Exists(base[b])
    /\ db' = IF bpc[b] = "writing" THEN [db EXCEPT ![brun[b]] = "absent"]
             ELSE db
    /\ bpc' = [bpc EXCEPT ![b] = "idle"]
    /\ brun' = [brun EXCEPT ![b] = NoRun]
    /\ bstart' = [bstart EXCEPT ![b] = 0]
    /\ base' = [base EXCEPT ![b] = NoPath]
    /\ UNCHANGED <<now, mtime, pointer, legacy, described, manifestVars,
                   cleanerVars, faults>>

\* Any other exception (the temporary is removed) or a kill (it is left).
Fault(b) ==
    /\ bpc[b] # "idle"
    /\ faults < MaxFaults
    /\ faults' = faults + 1
    /\ \/ UNCHANGED db
       \/ /\ bpc[b] \in {"writing", "written"}
          /\ db' = [db EXCEPT ![brun[b]] = "absent"]
    /\ bpc' = [bpc EXCEPT ![b] = "idle"]
    /\ brun' = [brun EXCEPT ![b] = NoRun]
    /\ bstart' = [bstart EXCEPT ![b] = 0]
    /\ base' = [base EXCEPT ![b] = NoPath]
    /\ fd' = [fd EXCEPT ![b] = "closed"]
    /\ UNCHANGED <<now, mtime, pointer, legacy, described, mtmp, manifest,
                   cleanerVars>>

Build(b) ==
    \/ Scan(b) \/ BeginWrite(b) \/ CopyText(b) \/ EndWrite(b) \/ Move(b)
    \/ SwapPointer(b) \/ LinkLegacy(b) \/ CollectOld(b) \/ OpenManifest(b)
    \/ WriteManifest(b) \/ ReplaceManifest(b) \/ BaseLost(b) \/ Fault(b)

----------------------------------------------------------------------------
(* clean_stale_snapshots of the desktop application, for this repository. *)

\* An error while the pointer is read is ignored: no snapshot is current.
ReadCurrent(g) ==
    /\ gpc[g] = "idle"
    /\ \E current \in {pointer, NoRun} :
          /\ current = pointer \/ g \in ReadErrors
          /\ gcur' = [gcur EXCEPT ![g] = current]
    /\ gstart' = [gstart EXCEPT ![g] = now]
    /\ gpc' = [gpc EXCEPT ![g] = "read"]
    /\ UNCHANGED <<now, diskVars, manifestVars, builderVars,
                   faults>>

CleanOld(g) ==
    /\ gpc[g] = "read"
    /\ Collect(gcur[g])
    /\ gpc' = [gpc EXCEPT ![g] = "idle"]
    /\ gcur' = [gcur EXCEPT ![g] = NoRun]
    /\ gstart' = [gstart EXCEPT ![g] = 0]
    /\ UNCHANGED <<now, manifestVars, builderVars, faults>>

----------------------------------------------------------------------------
Tick ==
    /\ now < MaxTime
    /\ \A b \in Builders : InWindow(b) => now < bstart[b] + Stall
    /\ \A g \in Cleaners : gpc[g] = "read" => now < gstart[g] + Stall
    /\ now' = now + 1
    /\ UNCHANGED <<diskVars, manifestVars, builderVars, cleanerVars,
                   faults>>

Init ==
    /\ now = 0
    /\ db = [r \in Runs |-> "absent"]
    /\ mtime = [r \in Runs |-> Never]
    /\ pointer = NoRun /\ legacy = NoRun
    /\ mtmp = NoRun /\ manifest = NoRun
    /\ bpc = [b \in Builders |-> "idle"]
    /\ brun = [b \in Builders |-> NoRun]
    /\ bstart = [b \in Builders |-> 0]
    /\ base = [b \in Builders |-> NoPath]
    /\ fd = [b \in Builders |-> "closed"]
    /\ gpc = [g \in Cleaners |-> "idle"]
    /\ gcur = [g \in Cleaners |-> NoRun]
    /\ gstart = [g \in Cleaners |-> 0]
    /\ faults = 0
    /\ described = {}

Next ==
    \/ \E b \in Builders : Build(b)
    \/ \E g \in Cleaners : ReadCurrent(g) \/ CleanOld(g)
    \/ Tick

Spec == Init /\ [][Next]_vars

----------------------------------------------------------------------------
TypeOK ==
    /\ now \in 0..MaxTime
    /\ db \in [Runs -> {"absent", "partial", "temp", "ready"}]
    /\ mtime \in [Runs -> 0..MaxTime \cup {Never}]
    /\ pointer \in Runs \cup {NoRun}
    /\ legacy \in Runs \cup {NoRun}
    /\ mtmp \in Runs \cup {NoRun, Torn}
    /\ manifest \in Runs \cup {NoRun, Torn}
    /\ bpc \in [Builders -> {"idle", "scanned", "writing", "written", "moved",
                             "pointed", "linked", "collected", "describing",
                             "filled"}]
    /\ brun \in [Builders -> Runs \cup {NoRun}]
    /\ \A b \in Builders : brun[b] = NoRun <=> bpc[b] \in {"idle", "scanned"}
    /\ bstart \in [Builders -> 0..MaxTime]
    /\ base \in [Builders -> Paths \cup {NoPath}]
    /\ fd \in [Builders -> {"tmp", "final", "unlinked", "closed"}]
    /\ gpc \in [Cleaners -> {"idle", "read"}]
    /\ gcur \in [Cleaners -> Runs \cup {NoRun}]
    /\ gstart \in [Cleaners -> 0..MaxTime]
    /\ faults \in 0..MaxFaults
    /\ described \subseteq Runs

\* The pointer always leads to a complete snapshot: no collection, by a run
\* that lost the race or by a desktop application that read an earlier
\* pointer, removes the snapshot the pointer has moved to (gc_snapshots only
\* spares the one its caller names and the young ones).
PointerResolves == pointer # NoRun => db[pointer] = "ready"

\* A collection by another process never takes the temporary or the moved but
\* unpublished snapshot of a run in progress, whose names its glob matches.
LiveBuildSurvives ==
    \A b \in Builders :
        /\ bpc[b] = "writing" => db[brun[b]] = "partial"
        /\ bpc[b] = "written" => db[brun[b]] = "temp"
        /\ bpc[b] = "moved" => db[brun[b]] = "ready"

\* Neither the manifest, nor its shared temporary, nor the unversioned copy
\* ever leads to a snapshot that was not published before, however the writes
\* of concurrent runs to the one temporary name and their renames interleave.
ManifestBehindPointer ==
    /\ legacy \in described \cup {NoRun}
    /\ manifest \in described \cup {NoRun, Torn}
    /\ mtmp \in described \cup {NoRun, Torn}

\* The index directory as its readers see it.
Published == INSTANCE PublishedSnapshot
    WITH complete <- {r \in Runs : db[r] = "ready"}, current <- pointer

\* Every interleaving of index runs, collections, kills and exceptions looks
\* to readers like atomic publication of complete snapshots.
AtomicPublication == Published!ASpec

\* What the documentation says of the manifest (the database's own sha256):
\* with no run in progress it describes the snapshot the pointer names.
ManifestDescribesCurrent ==
    (\A b \in Builders : bpc[b] = "idle") => manifest = pointer
=============================================================================
