----------------------------- MODULE Freshness ------------------------------
(***************************************************************************)
(* FreshnessCache: is the indexed repository still what the index saw?  A  *)
(* server answers from a snapshot of the tree for Ttl, else it compares    *)
(* sizes and times file by file, reads what differs and keeps the hash by  *)
(* path, size and time.  New files are found by the times of directories.  *)
(* The tree changes meanwhile and an index run stamps it.  Every file has  *)
(* one size here, so that only times tell its versions apart; all files    *)
(* are of the kinds that are parsed.                                       *)
(***************************************************************************)
EXTENDS Integers, FiniteSets

CONSTANTS
    RootPaths,    \* files in the root, a directory every run stamps
    DeepPaths,    \* files each in a directory of its own
    Contents,
    Ttl,          \* ttl of get_snapshot
    MaxClock,     \* bound of the model: the clock stops here
    MaxChanges    \* bound of the model: changes of the tree

ASSUME FreshnessAssumption ==
    /\ RootPaths \cap DeepPaths = {}
    /\ Ttl \in Nat /\ MaxClock \in Nat \ {0} /\ MaxChanges \in Nat

VARIABLES
    clock, changes,
    file,        \* the tree: Absent or [c |-> content, m |-> mtime]
    dirTime,     \* mtime of each directory
    record,      \* the published index: FileRecords
    recDirs,     \* its dir_mtimes, of directories with an indexed file
    scan,        \* the files an index run in progress has read, or NoScan
    snap,        \* _snapshots of the published run, or NoSnap
    hashes,      \* _hash_cache: versions by path and time
    check,       \* the request being served
    versions,    \* history: every [p, c, m] there ever was
    differs,     \* history: since when a path is not as indexed
    slipped      \* history: files the directory times cannot reveal

freshVars == <<clock, changes, file, dirTime, record, recDirs, scan, snap,
               hashes, check, versions, differs, slipped>>
diskVars == <<changes, file, dirTime, versions>>
indexVars == <<record, recDirs, scan, slipped>>

Paths == RootPaths \cup DeepPaths
Absent == [c |-> "absent", m |-> -1]
NoScan == [p \in {} |-> Absent]
NoSnap == [status |-> "none", at |-> -1]
NoCheck == [pc |-> "idle", asked |-> -1, todo |-> {}, stale |-> FALSE,
          p |-> "none", m |-> -1, status |-> "none"]

Dir(p) == IF p \in RootPaths THEN "." ELSE p
Dirs == {Dir(p) : p \in Paths} \cup {"."}

NeverSeen == -1      \* never as indexed since the run was published
AsIndexed == -2

Matches(f, r, p) == f[p].c = r[p].c
\* What differs becomes after the tree has changed to f.
Differing(f) == [p \in Paths |-> IF Matches(f, record, p) THEN AsIndexed
                                 ELSE IF differs[p] = AsIndexed THEN clock
                                 ELSE differs[p]]

----------------------------------------------------------------------------
(* The tree.  The time of a file may be set to an older one, by a copy or  *)
(* a checkout that keeps times.                                            *)

Change(p, new) ==
    /\ changes < MaxChanges
    /\ changes' = changes + 1
    /\ file' = [file EXCEPT ![p] = new]
    /\ differs' = Differing(file')
    /\ dirTime' = [d \in Dirs |->
           IF (file[p] = Absent) # (new = Absent) /\ d \in {Dir(p), "."}
           THEN clock ELSE dirTime[d]]
    /\ slipped' = IF new = Absent THEN slipped \ {p}
                  ELSE IF file[p] = Absent /\ recDirs[Dir(p)] = clock
                  THEN slipped \cup {p} ELSE slipped
    /\ versions' = versions \cup
           (IF new = Absent THEN {} ELSE {[p |-> p, c |-> new.c, m |-> new.m]})
    /\ UNCHANGED <<clock, record, recDirs, scan, snap, hashes, check>>

Save(p) == \E c \in Contents : \E m \in {clock, file[p].m} \ {-1} :
               /\ file[p] # [c |-> c, m |-> m]
               /\ Change(p, [c |-> c, m |-> m])

Delete(p) == file[p] # Absent /\ Change(p, Absent)

\* The cache of hashes is one for all repositories: another one files its own
\* contents under the same path, size and time.
OtherRepository(p) ==
    \E c \in Contents, m \in 0..clock :
        /\ changes < MaxChanges
        /\ changes' = changes + 1
        /\ ~\E h \in hashes : h.p = p /\ h.m = m
        /\ hashes' = hashes \cup {[p |-> p, c |-> c, m |-> m]}
        /\ versions' = versions \cup {[p |-> p, c |-> c, m |-> m]}
        /\ UNCHANGED <<clock, file, dirTime, indexVars, snap, check, differs>>

----------------------------------------------------------------------------
(* An index run reads the files and, when all are parsed, the times of the *)
(* directories they are in.  Requests fall before or after a publication.  *)

ScanTree ==
    /\ scan = NoScan
    /\ scan' = file
    /\ UNCHANGED <<clock, diskVars, record, recDirs, snap, hashes, check,
                   differs, slipped>>

StampAndPublish ==
    /\ scan # NoScan /\ check.pc = "idle"
    /\ record' = scan
    /\ recDirs' = [d \in Dirs |->
           IF d = "." \/ \E p \in Paths : Dir(p) = d /\ scan[p] # Absent
           THEN dirTime[d] ELSE NeverSeen]
    /\ differs' = [p \in Paths |->
           IF Matches(file, scan, p) THEN AsIndexed ELSE NeverSeen]
    /\ slipped' = {p \in Paths : file[p] # Absent /\ scan[p] = Absent}
    /\ scan' = NoScan /\ snap' = NoSnap
    /\ UNCHANGED <<clock, diskVars, hashes, check>>

----------------------------------------------------------------------------
(* get_snapshot *)

AnswerCached ==
    /\ check.pc = "idle"
    /\ snap # NoSnap /\ clock - snap.at <= Ttl
    /\ check' = [NoCheck EXCEPT !.pc = "answered", !.asked = clock,
                              !.status = snap.status]
    /\ UNCHANGED <<clock, diskVars, indexVars, snap, hashes, differs>>

\* Added files: those of known directories whose time has changed.
Added == {p \in Paths : /\ file[p] # Absent /\ record[p] = Absent
                        /\ recDirs[Dir(p)] # NeverSeen
                        /\ recDirs[Dir(p)] # dirTime[Dir(p)]}

StartCheck ==
    /\ check.pc = "idle"
    /\ snap = NoSnap \/ clock - snap.at > Ttl
    /\ check' = [NoCheck EXCEPT !.pc = "checking", !.asked = clock,
                              !.todo = {p \in Paths : record[p] # Absent},
                              !.stale = Added # {}]
    /\ UNCHANGED <<clock, diskVars, indexVars, snap, hashes, differs>>

\* path_state: the time decides, or a hash known for it, or the file is read.
Judge(p, isStale) ==
    check' = [check EXCEPT !.pc = "checking", !.todo = @ \ {p},
                           !.stale = @ \/ isStale]

KnownHash(p, m) == {h \in hashes : h.p = p /\ h.m = m}

StatFile(p) ==
    /\ check.pc = "checking" /\ p \in check.todo
    /\ \/ file[p] = Absent /\ Judge(p, TRUE)
       \/ file[p] # Absent /\ file[p].m = record[p].m /\ Judge(p, FALSE)
       \/ /\ file[p] # Absent /\ file[p].m # record[p].m
          /\ \E h \in KnownHash(p, file[p].m) : Judge(p, h.c # record[p].c)
       \/ /\ file[p] # Absent /\ file[p].m # record[p].m
          /\ KnownHash(p, file[p].m) = {}
          /\ check' = [check EXCEPT !.pc = "reading", !.p = p,
                                    !.m = file[p].m]
    /\ UNCHANGED <<clock, diskVars, indexVars, snap, hashes, differs>>

\* The content read now is filed under the time seen before.
ReadFile ==
    LET p == check.p IN
    /\ check.pc = "reading"
    /\ IF file[p] = Absent
       THEN Judge(p, TRUE) /\ UNCHANGED <<hashes, versions>>
       ELSE /\ Judge(p, file[p].c # record[p].c)
            /\ hashes' = hashes \cup {[p |-> p, c |-> file[p].c, m |-> check.m]}
            /\ versions' = versions \cup
                   {[p |-> p, c |-> file[p].c, m |-> check.m]}
    /\ UNCHANGED <<clock, changes, file, dirTime, indexVars, snap, differs>>

\* Mutant of EndCheck: the snapshot is stamped when it is complete.
EndCheckStampedLate ==
    LET status == IF check.stale THEN "stale" ELSE "fresh" IN
    /\ check.pc = "checking" /\ check.todo = {}
    /\ snap' = [status |-> status, at |-> clock]
    /\ check' = [NoCheck EXCEPT !.pc = "answered", !.asked = check.asked,
                              !.status = status]
    /\ UNCHANGED <<clock, diskVars, indexVars, hashes, differs>>

\* The snapshot counts from before the first look at the tree.
EndCheck ==
    LET status == IF check.stale THEN "stale" ELSE "fresh" IN
    /\ check.pc = "checking" /\ check.todo = {}
    /\ snap' = [status |-> status, at |-> check.asked]
    /\ check' = [NoCheck EXCEPT !.pc = "answered", !.asked = check.asked,
                              !.status = status]
    /\ UNCHANGED <<clock, diskVars, indexVars, hashes, differs>>

AnswerChecked ==
    /\ check.pc = "answered"
    /\ check' = NoCheck
    /\ UNCHANGED <<clock, diskVars, indexVars, snap, hashes, differs>>

InvalidateSnapshots ==
    /\ snap # NoSnap
    /\ snap' = NoSnap
    /\ UNCHANGED <<clock, diskVars, indexVars, hashes, check, differs>>

----------------------------------------------------------------------------
ClockTicks ==
    /\ clock < MaxClock
    /\ clock' = clock + 1
    /\ UNCHANGED <<diskVars, indexVars, snap, hashes, check, differs>>

\* A run has just been published; the files of the root are older than it.
FreshInit ==
    /\ clock = 1 /\ changes = 0
    /\ \E c \in Contents, there \in SUBSET RootPaths :
           file = [p \in Paths |-> IF p \in there THEN [c |-> c, m |-> 0]
                                   ELSE Absent]
    /\ dirTime = [d \in Dirs |-> 0]
    /\ record = file
    /\ recDirs = [d \in Dirs |-> IF d = "." THEN 0 ELSE NeverSeen]
    /\ scan = NoScan /\ snap = NoSnap /\ hashes = {}
    /\ check = NoCheck
    /\ versions = {[p |-> p, c |-> file[p].c, m |-> 0] :
                      p \in {q \in Paths : file[q] # Absent}}
    /\ differs = [p \in Paths |-> AsIndexed]
    /\ slipped = {}

FreshNext ==
    \/ \E p \in Paths : Save(p) \/ Delete(p) \/ OtherRepository(p) \/ StatFile(p)
    \/ ScanTree \/ StampAndPublish
    \/ AnswerCached \/ StartCheck \/ ReadFile \/ EndCheck \/ AnswerChecked
    \/ InvalidateSnapshots \/ ClockTicks

FreshSpec == FreshInit /\ [][FreshNext]_freshVars

----------------------------------------------------------------------------
FreshTypeOK ==
    /\ clock \in 0..MaxClock /\ changes \in 0..MaxChanges
    /\ \A f \in {file, record} :
           f \in [Paths -> [c : Contents, m : 0..MaxClock] \cup {Absent}]
    /\ dirTime \in [Dirs -> 0..MaxClock] /\ recDirs \in [Dirs -> -1..MaxClock]
    /\ hashes \subseteq versions /\ slipped \subseteq Paths
    /\ check.pc \in {"idle", "checking", "reading", "answered"}

\* Two contents of p had the same size and time.
Indistinguishable(p) ==
    \E v, w \in versions : v.p = p /\ w.p = p /\ v.m = w.m /\ v.c # w.c

\* An answer "fresh" is never older than Ttl: each path was as indexed at some
\* moment since Ttl before the question, however the tree changed, runs were
\* published and repositories shared the cache of hashes.  Excepted are the
\* contents that size and time cannot tell apart, and new files that no
\* directory time reveals: in a directory without an indexed file, or created
\* while the published run was between its scan and the directory times.
FreshWithinTtl ==
    check.pc = "answered" /\ check.status = "fresh" =>
        \A p \in Paths :
            \/ differs[p] = AsIndexed
            \/ differs[p] >= check.asked - Ttl
            \/ Indistinguishable(p)
            \/ record[p] = Absent /\ (p \in slipped \/ recDirs[Dir(p)] = NeverSeen)
=============================================================================
