# Verification of token-context-mcp

TLA+ models of token-context-mcp: of everything in it that several processes or
threads change, and of the algorithms whose results are hard to test. They are
model-checked with TLC on small instances; the properties of everything that
processes or threads share are also proved with TLAPS, for every value of the
constants (section 5). Paths below are
relative to `src/token_context_mcp/` unless they name another directory.

    tlc -config MCServer.cfg MCServer.tla
    tlapm SnapshotPublishProofs.tla

`PROJECT.json` lists the runs, the properties they check, mutations of the
model that break each property, the source lines every definition stands for,
and the hazards of the code with the properties that cover them.

## 1. The system and its parts

token-context-mcp indexes source repositories into SQLite files and serves
retrieval calls over MCP. Several processes of one user share one directory:
MCP servers (one per client), `token-context index` runs, a watcher and a
desktop application. They interact only through files (snapshots, pointer,
manifest, the registry) and three SQLite databases (memory, governance, audit),
so almost everything hard about the program is an interleaving of processes at
those files, and of threads at the caches in front of them.

| Part | State | Operations | What is hard | What makes it correct |
|---|---|---|---|---|
| Snapshot publication (`index/runner.py`, `gui/bridge.py`) | versioned `.sqlite` files, their temporaries, pointer, manifest, unversioned copy | `build_index`: base, write, rename, pointer swap, link, collect, manifest; `clean_stale_snapshots` | concurrent runs; a collector that knows only ages and one name; kills between any two file operations; a shared temporary name | readers always find a complete snapshot; runs in progress survive collection |
| Snapshot readers (`retrieve/service.py`, `index/sqlite_store.py`) | pointer cache (1 s), connections per thread and path | `_store`, `get_connection`, `close_db` | threads race from cache miss to cache store; a switch closes other threads' connections; a fallback where the pointer cannot be read | bounded staleness; failures only around a swap or after a fallback |
| Memory locks (`memory/store.py`) | table `locks` | lock, unlock, revocations, list | clock read before waiting for the database; lost answers; expiry | mutual exclusion of what agents believe |
| Shared memory entries (`memory/store.py`, `memory/service.py`) | `key_values`, `memory_fts`, a put counter per process | put with clean-up, get, delete, search, consolidate | look first, delete later; two tables in step | search rows exact; no live entry lost unexplained |
| Control plane (`security/access_control.py`, `security/governance_store.py`) | emergency row, agents, policies; a cache of them per server (0.5 s) | `check_access`, halt/resume, pause/block/unblock, policies | cached decisions, two-part refresh, threads that share the cache without a lock, orders from several processes, failing writes | a refusal takes effect in bounded time everywhere |
| Index watcher (`index/watch.py`) | signature or event flag, time of last change | poll, debounce, index run | changes before, during and after a run | changes are indexed, runs fall on a quiet tree |
| Audit log (`security/audit.py`) | queue, worker, batches, SQLite | log, flush, close, query, clear | writers against close; flushes of several threads; failing batches; the sentinel | every entry stored once, and soon |
| Incremental indexing (`index/runner.py`) | file records, reused artifacts and edges | classify, reuse, resolve edges | trust in size and time; what invalidates an edge | equal to a full build |
| Parse worker pool (`index/runner.py`) | process pool, chunks | map, fall back | a process that dies half way; an interrupt | each task exactly once, no process left |
| Graph cache (`retrieve/graph_cache.py`) | LRU table under a lock | get, load, evict, invalidate | loading outside the lock | the keys used last, one object per key |
| Freshness cache (`retrieve/freshness.py`) | snapshots with a time to live, hashes, directory times | check a tree against the index | a tree that changes during the check and the run | "fresh" is never older than the time to live |
| Rate limiter (`security/access_control.py`) | call times per agent | check | wall clock, boundary of the minute | at most the limit per window |
| Repository registry (`config.py`, `retrieve/service.py`, `gui/bridge.py`) | `repos.toml`, its temporary, a copy per server | register, unregister, renew, clean up | read-modify-write without a lock; a stamp that cannot tell two saves apart | no registration lost; a server serves what it stamps |
| Memory migration (`memory/store.py`) | two schemas, backups | rebuild at start | commits in between; two starts at once | no row lost |
| Graph walks (`retrieve/graph_cache.py`, `retrieve/expansion.py`) | none | bounded search, expansion of anchors | limits, cycles, better paths found later | exact within their bounds |
| Answers within a budget (`retrieve/service.py`, `token_budget.py`) | none | select, pack, give back, tell | numbers fixed before rows are given back | truth about what is missing |
| Body windows (`retrieve/service.py`) | none | bisection of a body | a warning that is part of the size | every line once |
| Context packet (`retrieve/packet.py`) | none | fill, refill, shed | sections that take rows from one another | within its budget |
| Workflows and batch (`retrieve/workflows.py`, `batch.py`) | a request scope per thread | compositions of calls | snapshots published in between; references between operations | one snapshot per inspection, every operation accounted for |
| Desktop windows (`gui/main_window.py`, `bridge.py`, `workers.py`, `widgets/`) | pending refreshes, overlay, cached list | refresh, deliver, render | results in any order; a cache invalidated meanwhile | what is shown is what was asked for, or later |
| Desktop index run (`gui/bridge.py`, `widgets/repositories_tab.py`) | a child process and its pool | start, read, cancel, finish | a family of processes that grows while it is killed | the run is told to have ended, truly |
| Emergency stop in the desktop application (`gui/bridge.py`, `widgets/agents_tab.py`) | a label fed by three threads | poll, refresh, order | one cache refreshed by two threads | the label settles on the database |
| MCP server, profiles, discovery (`server.py`, `discovery/`, `kernel/`) | tool tables | dispatch | - | governed calls pass `check_access` |
| Sampling (`sampling/`) | none | choose a summariser, fall back | - | - |
| Binding of calls (`parse/lexical_edges.py`, `jvm_types.py`) | none | evaluate a receiver's chain, bind a call | overloads, overrides, names that several types share | the member the language means, or none |
| Parsers (`parse/treesitter.py`, `jvm_calls.py`) | none | parse | - | agreement with corpora |
| Other widgets, command line, policies, release, telemetry | none | - | - | - |

All rows but the last four are modelled, wholly or in part; `PROJECT.json` says
for each what is left out.

## 2. Modules

| Module | Contents |
|---|---|
| `PublishedSnapshot` | abstract: complete snapshots, one of them current |
| `SnapshotPublish` | index runs and collectors at the level of file operations; implements `PublishedSnapshot` |
| `SnapshotReaders` | the threads of a server; composed with `PublishedSnapshot`, whose actions are the steps of its directory |
| `MemoryLocks` | the lock table |
| `MemoryEntries` | entries and search rows |
| `ControlPlane` | governance database and the cache that the threads of a server share |
| `WatchIndex` | the watcher |
| `IncrementalIndex` | what an index run takes over from the previous snapshot, reads and resolves again |
| `ParsePool` | the processes that parse, chunks, one that dies, the fallback |
| `JvmMembers` | the binding of a call in Java or C# to a member |
| `GraphCache`, `Freshness`, `Registry` | what a server keeps besides: graphs, knowledge of the tree, the registry |
| `Workflows` | inspect_symbol and batches over snapshots that are published meanwhile |
| `MemoryMigration` | the memory database at the start of servers |
| `AuditLog`, `RateLimit` | the audit log, the limiter |
| `Traversal`, `Answers`, `BodyWindow`, `ContextPacket` | algorithms of retrieval, a step of the algorithm per action |
| `Sizing` | sums along a list and the bisection over a number of rows, by which bodies, packets and answers are cut |
| `DesktopWindow`, `IndexJob`, `SecurityView` | the desktop application |
| `Subsequences` | what is left of a sequence when items are taken out; a set in the order of its items |
| `MCSnapshotPublish` | constants and symmetry for publication |
| `MCServer` | the parts of a server: `SnapshotReaders`, `GraphCache`, `Freshness`, `Registry`, `Workflows` |
| `MCMemory` | `MemoryLocks`, `MemoryEntries`, `MemoryMigration` |
| `MCControl` | `ControlPlane`, `RateLimit`, `DesktopWindow` |
| `MCWatch` | what must happen some day: `WatchIndex`, `AuditLog`, `IndexJob`, `SecurityView` |
| `MCContents` | `IncrementalIndex`, `ParsePool`, `JvmMembers`, `Traversal`, `BodyWindow`, `ContextPacket`, `Answers` |
| `MCSnapshotReaders`, `MCControlPlane`, `MCWatchIndex`, `MCIncrementalIndex`, `MCJvmMembers`, `MCContextPacket` | constants of single parts, for the compositions above and for the runs of section 4 |
| `SnapshotPublishProofs` | proofs about `SnapshotPublish`, with its refinement of `PublishedSnapshot` |
| `ServerProofs` | about all parts of `MCServer` and their composition |
| `MemoryStoreProofs` | about all parts of `MCMemory` and their composition |
| `ControlPlaneProofs` | about all parts of `MCControl` and their composition |
| `WatchProofs` | about all parts of `MCWatch` and their composition |
| `ContentsProofs` | about `IncrementalIndex`, `ParsePool`, `JvmMembers`, `ContextPacket` and `Answers`, and about all parts of `MCContents` together |
| `RetrievalProofs` | about `Traversal` and `BodyWindow`, with induction and recursion over data |
| `SubsequencesProofs` | lemmas about `Subsequences` |

The parts of a composition share no variable. The one that moves is chosen in
the initial state (`part`) and the others stay where they start, so that a
behaviour of the composition is a behaviour of one part: an invariant or an
action property of a part holds of the composition if and only if it holds of the part
alone, and so does a liveness property, since the fairness of a part that does
not move asks for nothing (none of its actions is enabled). One run then checks several
parts at the cost of the sum of their states, not of the product. Parts that
do interact are modelled in one module: readers with the directory of
snapshots, cleaners with the registry, workflows with publication, the worker
of the audit log with its writers.

The same argument is a proof for the server, the store of memory, the control
plane and what works in the background: their proof modules extend the composition, and from the theorem of each part
(ServerParts, MemoryParts, ControlParts, WatchParts: the specification of the whole implies that of every part)
follows the type invariant of the whole. For `MCContents` the invariants of the parts are one invariant
of the whole (ContentsInv), of which each step moves one part.

`Subsequences` is SelectSeq by positions: `Picked(s, I)` has the items of `s` at
the positions `I`, each at its rank among them. SelectSeq is defined by a recursive
function inside a LET, which the provers cannot expand; from ranks, `SubsequencesProofs`
derives with the theorems on finite sets that the items are those chosen, in their order.
`GraphCache` (what move_to_end leaves), `AuditLog` (what a DELETE spares),
`DesktopWindow` (the slots that are free), `Traversal` (the edges at a node), `IncrementalIndex` (the functions
of a name) and `JvmMembers` (levels, owners, new types on the way up) use it. `SortedBy` is a finite set as the sequence in an
order, each item at its rank (RankedBy); `Traversal` sorts with it.

An operator introduced as a "Mutant of" another one is a plausible bug. It is
not used by the specification; `PROJECT.json` says which property finds it.

### SnapshotPublish

A snapshot is named by its `index_run_id`. `db[r]` is the state of its file:
`partial` while `write_snapshot` fills the temporary, `temp` when it is filled,
`ready` under its final name. `pointer`, `manifest`, `mtmp` and `legacy` are
`<repo>.current.json`, `<repo>.manifest.json`, `<repo>.manifest.tmp.json` and
`<repo>.sqlite`; a file's content is the run it describes, or `Torn` between the
truncation and the write of `write_text`.

`build_index` is the sequence Scan, BeginWrite, (CopyText,) EndWrite, Move,
SwapPointer, LinkLegacy, CollectOld, OpenManifest, WriteManifest,
ReplaceManifest, one action per file operation, since another process may act
between any two. An open manifest file follows its inode (`fd`): a run that opened
the shared temporary keeps writing to it after another run has renamed it to the
manifest. BaseLost is the error of a run whose base was collected, Fault any
other exception (the `finally` clause removes the temporary) or a kill (it
stays). A file that is in use cannot be unlinked on Windows, so `Collect`
removes any subset of what is old enough. The desktop application reads the
pointer (ReadCurrent) and collects (CleanOld).

Time is a counter. `GcAge` is `max_age_seconds` (600 s by default) and `Stall` bounds the
time from the creation of a run's temporary to its own collection, and
from the pointer read of the desktop application to its collection. The code has
no such bound; `2 * Stall < GcAge` is the assumption under which a collector
that looks at ages is right, and the model shows that it is enough. A run that
takes longer than the age between its first write and the pointer swap is not
covered: its files may be collected as old while it is still at work.
`ReadErrors` are the processes whose read of the pointer may fail.

### SnapshotReaders

A thread's request is LookUp (the cache hit, or the miss with the entry it saw),
ReadPointer, StoreCache (`close_db` on the entry seen, if that had another path or
another run, then the new entry with the stamp of LookUp), Connect or ConnectFails, Fetch or
FetchFails, Finish. `_store` runs without a lock, so the steps of threads
interleave. An error while the pointer is read, which `_store` swallows, and a snapshot
collected since the pointer named it, lead to the fallback (MissPointer): FindPath is `database_path`,
which reads the pointer for itself and ends at the current snapshot or at the
unversioned database, and StoreFallback keeps an entry without a run. The next renewal
of that entry finds a run that differs, and closes connections to a path that is the current snapshot's. An
entry has the path and the run; since a snapshot's file is named by its run, one value
stands for both in an entry made from the pointer. The directory moves by the actions of
`PublishedSnapshot`, and a first snapshot is published when the process starts; the unversioned
database may be there or not, whenever it is opened. Closing connections of threads that have
ended, and at exit, is left out.

### MemoryLocks

`owner` and `expires` are the row of a resource. A lock call reads the clock
(LockCall) and then waits for the database for at most `Wait` (`busy_timeout`);
it is granted, denied, fails, or is granted and its answer is lost. `till` is
when, by its answers, an agent takes its lock to end: the answer's
`expires_in_sec` is counted from its arrival, so an agent that wants to be safe
subtracts the time its call may have waited (`Trusts`). Unlock and the two
revocations are single transactions.

### MemoryEntries

A key stands for scope, namespace and key, a value for the number of the put
that stored it. One SQLite transaction is one step. Put reads the clock, PutEnds
commits the row, its search row and, every `Interval` puts of the process, the
clean-up by the clock read before. A get of an expired entry deletes it in a second
transaction (GetExpired, GetDelete). Consolidation is List, Summarise,
StoreSummary and one Prune per source. WriteFails is a rolled back transaction,
with or without the put having been counted. `summarised` records which puts
have gone into a stored summary. Ranking of search results and the schema
migration are not modelled.

### ControlPlane

A ground is what a call can be refused for: the halt, an agent's status, an agent's
profile (its policy, together with its list of tools where the policy is CUSTOM). `row` is
what the governance database has for each ground, `told` and `refreshed` are the AccessControlManager
that all threads of a server share, and nothing locks it. Between any two accesses of a
thread to the cache or the database another thread may act: a call enters and looks at the clock, reads the halt
(ReadHalt), puts it into the cache (SetHalt), reads the agents (ReadAgents), puts them in (SetAgents),
stamps the cache with the time it entered (StampRefresh), and is admitted or refused. `got`
is what a thread has read and not yet put in; a refresh that stalls there puts an
older row over a newer one, and a stamp another thread has set since says that the cache is fresh.
`agent_control` changes the cache first (Apply), the database next (Store) and stamps the cache at
last (StampOrder). DatabaseFails ends a call with the cache as it is.

A refresh always overwrites a status, and a policy and its list only if the row has them (Loaded):
what a failed `set_policy` left in the cache stays if the database has no policy for the agent. After is `upsert_agent`,
which gives an agent without a row the status ACTIVE. Desktop is any order written by
the desktop application or by another server. PAUSED and BLOCKED are one status.
Taken as one step, although Python could switch threads inside: the loop over the agents of a refresh, the
tests of `check_access`, and the assignment of a policy with that of its list. `agent_control` gives a policy with
its list; the desktop application gives it alone and the row keeps the list it had, so that what comes of it for
the tool is chosen freely in Desktop. `changed`,
`touched` and `overtaken` are histories: when a row last came to say something else, when an admin call
last had an effect on the cache, and when a refresh last put a row into it that was
no longer the database's. Heartbeats are not modelled.

### WatchIndex

`tree` and `indexed` give each file's version in the tree and in the published
snapshot. A run reads the files one by one and then publishes. The watcher is
OpenSource (after the first run), Notice, Idle, StartRun and Discard. A signature of
the tree is taken in one step. Events of the watchdog library are external:
they are delivered some time after the change (Deliver), and may concern files
the index does not read (Noise).

### IncrementalIndex

`tree` gives each file's text and time; a text stands for its digest and for what
the parser extracts (parents, functions, calls). A run is Begin, Classify for
each file (the time is looked at, and the file is reused, skipped or a candidate),
ReadFile for each candidate in any order (gone, same digest, or parsed) and Finish,
which resolves edges and publishes; Fail leaves nothing. The modes are the default,
`verify_hashes` and `full_rebuild`. A run works from the snapshot it loaded: that it
is complete, and stays so, is the subject of `SnapshotPublish`, and runs do not overlap here.
`Resolve` is a resolution from scratch, by the rules of `_resolve_candidate` for
Python and JavaScript calls with a receiver of inferred type and without a receiver, in one directory;
`ResolveEdges` is `_resolve_edges`: the fingerprint, the changed names, the files resolved
again and the edges that are kept, with `NewId` for functions that moved. Size is left out (texts
of one size are the hard case), and so are file limits, files that do not parse, structural
roles, stubs and the rules for Java and C#. Tools that set times back are a documented limitation
and Edit does not do so.

### ParsePool

A run gives its files to the processes of a pool in chunks (Pick, HandBack), collects the
chunks in order (Collect), and finishes in its own process what a broken pool has not
delivered (Die, PoolBreaks, Fall, ParseAlone). A run with few files never starts a
pool; an interrupt ends it anywhere. The outcome of a file is a set membership: what
parsing finds is in `IncrementalIndex`.

### JvmMembers

A call comes with the declarations it can meet, the types of the repository and
those above them, and the caller. ChainStep is one step of
`evaluate_chain` (a method with the number of its arguments, or a property, whose
type is that of the next owner), Bind is `_resolve_jvm_member`. Between
them stand the operators of the choice: AncestorsOf, Fit (`arg_type_score`), Levels, PoolOf
(the nearest declaration of every list of parameter types), Overload (`_jvm_pick`) and
Extensions. Names of types are sequences of segments; the
text of signatures is read before, and what it says is data. BindAgain begins again.

NearestWins is the rule of the docstring of `_jvm_pick`, "An override ... is the
same method, so the nearest declaration wins", with the exception the code makes: the key of an
empty parameter list is an empty tuple, which `_jvm_pick` takes for no key
(`lexical_edges.py:386`). `this.f()` within `A.f()` is therefore bound to `B.f()` of the class above
if neither has parameters: the caller is avoided in a group that should have had one
member. NoMisfit holds for one and two scalar arguments and not for
three: two exact fits (6 and 6) outweigh one certain misfit (-5) against three loose fits (1 each). Two
more choices are modelled as they are: a step of a chain looks at the members of
the nearest type only, so that an inherited overload with the right number of parameters is not seen; and `int` and
`Integer` share a key, so that overloads on them in a class and the one above count as an override.

### GraphCache, Freshness, Registry

`GraphCache` is the ordered table under its lock, with the loading outside it: two
threads may load the graph of one key, and Keep decides whose is cached. `uses` is the
history that the table's order is compared with.

`Freshness` has a tree, an index run that scans, takes the times of the directories
(StampAndPublish) and publishes, and a request that answers from the snapshot or
compares file by file. All files have one size, the hard case. `OtherRepository` is the
hash cache's other user. `differs` records since when a path is not as indexed.

`Registry`: a command loads the file, changes it and saves it by opening the one
temporary, writing and renaming it; a command's open file follows its inode. The server's start
(BootLoads, BootStamps), the threads that renew its copy by stat, load, keep and
stamp, index runs that check the registry first, and the desktop application's
clean-up of repositories it did not find in it, are actions beside it.

### Workflows

A snapshot knows of one symbol what the resolution of its name tells apart. Inspect enters a
request scope, finds, reads context and relations, or the packet; a batch runs
its operations without a scope, so that its results may come from several
snapshots, and its references name what the operation before has found. Publish and
Renew (of the pointer's cache) happen at any time.

### MemoryMigration

Servers that start see the old schema, choose the name of the backup by what
exists (ChooseBackup), copy the file (CopyFile, without what stands in the WAL), read
the rows, drop and recreate the tables in one commit (executescript commits what is
pending, so that this is a step of its own), and insert the rows in another.
Each may be stopped anywhere and started again.

### AuditLog, RateLimit

`log` is two steps, the look at `_closed` and the put. Everyone who flushes (the
worker, a query, close) collects a batch of at most `BatchSize` from the queue under the write
lock and inserts it; an insertion may fail. Close queues the sentinel, waits for
the worker and flushes what is left. `EntriesKept` follows every entry to the
table, to a failed batch or to the clearing.

`RateLimit` keeps the deque of wall times of each caller beside the times at which calls
were really let in. The wall clock may be set forward or back. The test of the limit and the append
(`access_control.py:328-331`) are one step; they have no lock, so that two calls of a caller in two threads
could both pass the last place.

### Traversal, Answers, BodyWindow, ContextPacket

Each is an algorithm whose loop is the behaviour, one iteration to an action; the
inputs are all of a finite set of graphs, questions, bodies, or packets. `Traversal` compares
the bounded search with the ball around its root, and the expansion of an
anchor with the best product over paths. `Answers` does for nine tools what
`_pack_to_budget` does for all of them: the rows found, what is packed, the
rows given back and what the client is told. `BodyWindow` has a client that
follows the windows and raises its budget when told to. `ContextPacket` has the
shares of the sections, the refills of the second pass, the outer loop that
fits the packet against its real size, and the rows given up until the response fits. Sizes are numbers
of bytes and four of them a token; how a row is written is data.

### DesktopWindow, IndexJob, SecurityView

`DesktopWindow`: the thread of the windows asks for a tab's data, tasks of a pool fetch
them, and results are delivered by events; a task is known by its sequence number. `cached` is
the list of repositories that one kind of tab shares. `IndexJob`: the child process and its
parsers go on while CancelLists and Killing have the thread of the windows;
JobFinished handles the end whatever the child printed. `SecurityView`: a thread asks the
AccessControlManager (Look, ReadHalt, ReadAgents and so on, one action per access to what is
shared), the polling worker reads the database itself, and mail to the
window is handled in order. Orders are given here and by others.

## 3. Runs

| Run | Checks | Instance |
|---|---|---|
| `publish` | TypeOK, PointerResolves, LiveBuildSurvives, ManifestBehindPointer, and that the index directory implements `PublishedSnapshot` (AtomicPublication) | 2 builders, 1 desktop application, 3 snapshots, GcAge 3, Stall 1, clock to 4, 1 exception or kill; builders may fail to read the pointer |
| `server` | ServerTypeOK; ServesRecent, FailuresExplained | readers: 2 threads, 2 snapshots and the unversioned database, PointerTtl 1, GcAge 2, clock to 3 |
| | GraphsShared | 2 threads, 4 keys of 3 repositories, capacity 2, 4 loads |
| | FreshWithinTtl | 3 files (2 of one directory), 2 contents, Ttl 1, clock to 3, 2 changes |
| | RegisteredStays, ServesTheRegistry | 2 repositories, 2 commands, 2 threads, 2 saves, 2 ticks |
| | WorkflowsAgree | 2 snapshots, 5 kinds of symbol, batches of up to 3 operations |
| `memory` | MemoryTypeOK; Mutex, TrustedIsListed, NoSteal | 3 sessions of 2 agents, 1 resource, leases -1, 1 and 3, Wait 1, clock to 5 |
| | SearchExact, LiveLossExplained | 2 servers, 2 keys and the target, leases 1 or none, clean-up every 2 puts, list limit 2, clock to 2, 3 puts |
| | NoRowLost | 2 starting servers, 3 rows of which 2 collide, clock to 1 |
| `control` | ControlTypeOK; RevocationBounded, RefreshAgrees | 2 threads of a server, 1 agent, Ttl 1, clock to 2, 2 orders, 1 database error |
| | RateBounded | 1 caller, window 3, 2 calls, 9 seconds, 2 jumps of the clock |
| | WindowAgrees | 2 tabs, 2 tasks, 2 threads in the pool, 2 changes of the disk |
| `watch` | WatchTypeOK; RunsQuiet, NoIdleRun, WaitingChangeIndexed | 2 files, 3 events, quarters of a second: window 6, poll 4, events 1 |
| | EntriesKept, EveryEntryWritten | 2 writers, worker, closer, querier, batches of 1, 2 entries, 1 failed insertion |
| | DesktopSettles | 1 index run with a pool; 2 orders, 1 failed access, 2 messages |
| `contents` | ContentsTypeOK; ReadsTheTree, EdgesRight (EquivalentToFull) | 3 files with 1, 4 and 2 texts, 2 edits, Racy 2, Granularity 2, clock to 3 |
| | EdgesRight (MembersBound) | two overloads in a class and one above it, pairs of arguments, types that share a name, every form of receiver, chains of up to two calls, a hierarchy with a loop |
| | PoolExact | up to 6 files, chunks of up to 2, 2 processes |
| | WalksExact | 4 nodes and one unknown, every subset of 8 edges, depth to 2, at most 2, 3 or 5 nodes |
| | WithinBudget | up to 2 rows a section, budgets from one that leaves every section out to one that fits everything; and 8 rows in files with long paths |
| | WindowsReadBody | bodies of 1 to 4 lines, neighbours, 10 budgets |
| | AnswersHonest | up to 4 rows of several sizes, 9 tools, several budgets |
| `manifest` | violates ManifestDescribesCurrent | `publish` without faults and read errors |
| `readers_exception` | violates NoReaderException | 2 threads, 3 snapshots, nothing is ever collected |
| `sla` | violates PropagationSla | 1 thread, 1 agent, Ttl 2, Sla 4, clock to 5, 3 orders, no errors |
| `watch_every` | violates EveryChangeIndexed (liveness) | 2 files, 1 event, default times: window 6, poll 8, events 1 |
| `incremental_alias` | violates EquivalentToFull | 2 files, 1 edit, no passing of time |
| `packet_count` | violates RowsAccounted | the packets of `contents` |

What they show:

- `publish`: whatever two overlapping runs, the collector of both and that of
  the desktop application do, and wherever one dies, the pointer leads to a
  complete snapshot. That is not evident from `gc_snapshots`, which spares only the
  snapshot its caller names: a run that lost the race to the pointer names its
  own. It holds because the winner's file is young.
- `server`: what a request is directed to was current `PointerTtl` before the
  request began, although an older pointer read may overwrite a newer cache
  entry; and a request that fails was directed to a superseded snapshot, but for those after
  a fallback has kept an entry for the current snapshot or the unversioned database. Threads that use one
  graph share one object. "Fresh" is never older than its time to live, but
  for contents that times cannot tell apart and new files that no directory reveals. A
  registration stays, and the copy of the registry is that of its stamp, with the exceptions
  the properties name: commands that overlap, threads that renew at once, saves within one tick. An
  inspection is of one snapshot.
- `memory`: no two agents trust one lock, across renewal, shortening, lost answers, expiry and
  revocation. Search rows and entries agree at every moment; an entry that has not
  expired disappears only to a delete, into a stored summary, or because a
  server looked at the key, the entry was put, and the server then deleted by
  key. A migration loses no row, wherever it is killed, unless two servers migrate at
  once or the copy of the backup fails.
- `control`: a call that runs although the database refuses it entered less than
  `Ttl` after the refusal, after an admin call in the same server, or after a refresh of another
  thread had put an older row over the refusal. Where the cache differs from what the
  database has, one of these happened since its stamp. A window of
  the limiter is exact but for the seconds by which the clock was set. What a tab
  of the desktop application shows was read after it was asked for, whatever
  overtakes what, and the overlay stands exactly as long as a result is to come.
- `watch`: the watcher runs on a tree at rest, never for nothing, and indexes
  every change that comes while it waits. Every logged entry is written within the next rounds. The index
  run of the desktop application ends in the window some day, and the emergency stop is
  shown as it is once orders have ended.
- `contents`: whatever the order of edits, runs in the three modes and
  failures, a run publishes a text each file has had since the run began, although
  it may have looked at no more than the file's time; and the edges it keeps and
  moves are those of a full resolution, while return types, members, the hierarchy
  and the places of functions change in files other than the caller's. No file is
  parsed twice or not at all. A call in Java or C# leads to the nearest override and
  to no overload that cannot take its arguments, but for the cases given with `JvmMembers`. Bounded searches are exact, packets and answers keep to their budgets and say
  what they leave out, a body is read once through its windows.

Why the bounds are enough. The hazards need: two runs and a third snapshot that
one of them supersedes, ages on both sides of `GcAge`, and one failure (`publish`);
two threads with one to cross the other's cache update, a swap, and a fallback with a renewal after it (readers); a third key that evicts one in
use (graphs); a change on either side of the scan and of a check (freshness); two commands and a third
save's content (registry); a snapshot that knows another symbol by the name (workflows);
a lease that ends during a wait, one that outlives it, and one that
is over at once, with a rival (locks); a list shorter than the table, an entry that
expires and a replacement between a look and the deletion (entries); a second start after a kill (migration); a
refresh that straddles an order, a second thread that finishes one in the meantime and later calls that trust its stamp, and one
failing operation (control plane); two refreshes of two
tabs over one list (windows). Each of the mutations in `PROJECT.json` is found within these bounds. In the control plane
one server suffices: another acts on it only through the
database, and Desktop writes every order at any time; and one agent, since the grounds of
two agents meet only in the stamp, which the halt shares with them too. In `watch` the poll is
shorter than the window so that changes fall between two polls of one window;
with the default poll of 2 s and window of 1.5 s one quiet poll already covers
the window; batches of one entry are the smallest that fill up, and two entries of two writers suffice to
have one behind the sentinel. In `contents` the clock reaches the first
time at which a file of time 0 is outside the racy window, a write within one granule
follows a run, and two edits with a run between them change each input of the
resolution apart from the others; eight edges have parallel paths of different confidence, a
cycle and an unknown target; the sizes of rows are chosen so that each section is cut, fits, and fits only after
another has given way. The proofs of section 5 have no such bounds. Clocks, faults, puts, loads, saves,
changes and edits are bounded in the guards by the constants whose names begin with `Max`.
Deadlock is checked in every run: a desktop application, a new call or the passing of
time can always make a step, and algorithms begin again.

## 4. Disagreements between text and code

Shown by a run:

1. `manifest`: docs/SETUP.en.md:434 and :506 describe the manifest as that of
   the published snapshot. Two runs that write it in the opposite order of their
   pointer swaps (`runner.py:1077`) leave the manifest of the other one.
2. `readers_exception`: the pool is documented as thread-safe
   (`sqlite_store.py:138`) and a test asserts "No reader exceptions". `close_db`
   closes connections other threads may be fetching from, after a swap as well as after a fallback.
3. `sla`: the cache time is said to keep propagation within 1.1 s
   (`access_control.py:131`). An admin call stamps the cache of its server without
   reading, however long ago it was admitted: a call that enters after it misses a halt ordered elsewhere long before.
4. `watch_every`: "re-index whenever the tree changes and settles"
   (`watch.py:113`). A change to a file that a run has already read is discarded as
   the run's own doing (`watch.py:141`), or falls before the source's first
   signature, and is not indexed until something else changes.
5. `incremental_alias`: an incremental build is said to be equivalent to one from
   scratch (`runner.py:659`, invariant I1). A call by an imported alias is resolved
   through the imported name (`parse/lexical_edges.py:729`), which is not among the
   names `_call_dependency_names` gives (`runner.py:582`): the caller's edges stay as
   they were when the imported function appears in another file.
6. `packet_count`: "what did not fit as a signature is still reachable as a compact
   ref" (tests/test_context_packet.py:265, with an assertion that the rows add up). A refill in the second
   pass takes rows out of the pool after the references were chosen, and
   `omitted.more` (`packet.py:406`) may be negative.

Seen while modelling, without a run of their own:

- `lexical_edges.py:367` "the nearest declaration wins": not without parameters (see `JvmMembers`).
- `access_control.py:145-173`: a refresh that stalls after a read puts what it read over what another thread's later
  refresh or an order has put there, and stamps the cache back to its own start; if the other thread stamps after it, the outdated halt or
  row counts as fresh until the cache expires again. RevocationBounded and RefreshAgrees name the case (`overtaken`).
- `access_control.py:158`: a policy is refreshed only from a row that has one, so that a `set_policy` whose write failed goes on being
  enforced by its server alone, until a policy is stored for the agent or the server ends.
- `service.py:1885`: the fallback's entry has no run, so that its next renewal closes other threads' connections to the current
  snapshot (`service.py:1874`) although nothing has been published. FailuresExplained names the case (`fellBack`).
- `jvm_types.py:638` "a scalar never converts to an array": true of the arguments of arrays that this
  branch sees, but a parameter of a type parameter's array, `T[]`, scores 1 for a scalar.
- docs/BENCHMARK_FINDINGS.en.md:893 says that a cache has no time to live; the freshness cache has one,
  whose docstring (`freshness.py:35`) gives 2.0 s where the default is 30.0.
- `memory/store.py:136`: "Migrate all tables within a single transaction"; `executescript`
  commits what is pending, so there are two.
- `service.py:1513`: the comment on the window of a body. The warning is in place
  while windows are measured, but not while the whole body is.
- docs/gui_manual/GUI_manual.eng.md:3 "Zero UI-thread blocking": a cancellation
  waits up to twice three seconds in the thread of the windows; :74 "recursively
  terminates the entire process tree": a process started after the list was taken survives, and
  the badge is gone.
- `main_window.py:295` says "indexed successfully" after a failure or a cancellation as well.
- `bridge.py:270` lists servers "currently running"; a server writes a heartbeat only with a call.
- docs/PLATFORMS.en.md:124 "96 tokens of each budget are reserved": only from 512 up (`service.py:2171`).
- docs/SETUP.en.md:552 trusts an answer with truncated=false and omitted_count=0:
  get_symbol_context drops the flag of the node limit (`service.py:1424`), and a module's
  answer exceeds its budget and says truncated=false. docs/SETUP.en.md:448
  describes omitted_count as the number of rows left out; a search counts some twice.
- `retrieve/packet.py:431`: the packet "fits `token_budget` whenever that is possible". The reserve counts on 24 bytes for the
  entry of a file (`packet.py:439`) and an entry is its path and about 20 more, so that the first build may be too
  large; each later one reserves its overshoot (`packet.py:456`), another mixture of rows comes out, and after eight builds
  the last one is taken although it is over budget and the empty packet would fit. The same happens to the function itself
  on such rows. PacketFitsAsReserved names the exception (the wide rows of `MCContextPacket`); the response still fits, because
  rows are then shed.
- `batch.py:127`: inspect_symbol is among BATCHABLE_OPERATIONS and is given a
  symbol_id, which it does not accept: it always fails. A batch whose steps all fail is a "success"; a forbidden
  operation later in the list discards the results before it; a `$prev` without a referent is passed on literally.
- `workflows.py:315`: content_omitted_budget is also said when the file is merely stale.
- `access_control.py:348` "with their live status": the table of agents reads "state" where
  the rows have "status" (`widgets/agents_tab.py:214`) and shows every stored agent as ACTIVE.
- `server.py`: "governance DB must never break a request" of the middleware; the heartbeat
  in `_invoke` is unguarded, and a locked database fails the request.

Reading `runner.py` beside the resolver shows two more inputs of the resolution
that neither the fingerprint nor the names cover, which no run shows yet: the
package of another Java or C# file, and overloads of one file that move by exactly
the distance of their starts, so that the old identifier of one is the new one of
another.

## 5. What is proved

All theorems are for every value of the constants that satisfies the named
assumptions of the modules: any number of processes, threads, agents, files, keys,
entries and tasks, any ages and times to live. Each proof shows of an inductive
invariant that it holds initially, that every action preserves it (one step per
action), and that it implies the property; an action property follows from the
same invariant. Every invariant was checked with TLC before it was proved. Each
part has its type invariant as a theorem as well.

`SnapshotPublish` (assumes `2 * Stall < GcAge`, and for all but the types that
desktop applications can read the pointer, `NoReadErrors`: `clean_stale_snapshots`
ignores an error while it reads the pointer, `gui/bridge.py:662`, and then spares
nothing but the young). PointerResolves alone is not inductive: a collector must be known to
find the current snapshot young. The invariant adds that files are dated and not in the
future (Dated), that runs own different names (Own), that a run is in its window
for at most Stall and has written its file since (Window), and, the core, that
if the pointer has left the snapshot a collector will spare, the snapshot it
moved to is at most one window older than the collector's own window
(BuilderSpares, CleanerSpares), hence at most two windows old, hence younger than
GcAge. Announced ties later phases to published snapshots, for ManifestBehindPointer. From it:
PublishPointerResolves, PublishLiveBuildSurvives, PublishManifestBehind, and
PublishImplements, the refinement of `PublishedSnapshot` step by step. PublishTyped needs no invariant but itself.

`MemoryLocks`. The invariant: no call in flight is older than Wait (CallsRecent), and
whatever an agent trusts is backed by its row with the margin for the wait
(Backed). From it LocksMutex, LocksTrustedListed and the action property
LocksNoSteal.

`MemoryEntries`. The invariant: rows have versions given so far (Numbered); what a call
has read can be relied on in so far as a version it has seen is no newer than the row
there now, an expired row it has seen is expired still unless it was
replaced, and what it prunes has been summarised (Sound); SearchExact. From it
EntriesSearchExact and the action property EntriesLossExplained.

`ControlPlane`. The invariant: recorded times are not in the future (Clock); where the cache
differs from what the database has (Differs), something since the stamp accounts for it, a change of the row, an admin
call or an outdated row put into the cache (Since); what a thread holds of a refresh and has not yet put in (Reading), or
has put in and not yet stamped (Setting, IsSet), is the database's row or one that something since the start of its call
accounts for, so that its stamp will be true; and a
call decides, and runs, from a cache that was fresh when it entered (Deciding, Running). That
the other threads' parts survive a step depends only on what the step does to the row, the cache and
the histories (Effect, OtherThread); a step of a thread is shown
to have such an effect (StepEffect) and to keep the thread's own part (OwnStep). From it
ControlRevocationBounded and ControlRefreshAgrees, for any number of threads over the one cache.

`SnapshotReaders`. The invariant: whatever the cache or a thread names is the unversioned database, or is current
or has been (Seen); a snapshot that stops being current never is again
(CurrentNotRetired); a stamp is no later than the moment its snapshot was
replaced (Dated), although an older read may overwrite a newer entry, because the stamp is
taken before the read; an entry for the current snapshot with another run than its own, or none, is the trace of
a fallback (Named); and, unless there is one, a thread about to store closes connections only to what is no longer
current (ClosesRetired). From it ReadersServeRecent and ReadersFailuresExplained.

`Freshness`. The invariant: every version of a file on disk, in the index or in a
scan is among those there have been (Known); a path that is as indexed is known to be (Compared); times
of directories only grow, and a new file shows in its directory's unless named as an exception
(Revealed); and a cached answer "fresh", or the paths a check has passed, were as
indexed at some moment since the stamp or since the check began, or are excused (SnapHonest,
CheckHonest). From it FreshAnswers.

`GraphCache`. The property compares the table with the history of uses, and both
are sequences. The invariant says of positions that what is cached is what was used last
and in that order (LastUsed), and that a thread with a graph has the cached one (OneObject). A use moves
a key to the end of both sequences, an eviction takes the first of one. From it GraphsAreShared.

`Registry`. The invariant: unless commands overlap, the file holds every registration, and a command at work
plans to keep them, writes to the temporary that nobody shares and renames what it has
planned (Kept, Working); and unless two saves share a tick or renewals have met, a
thread or a server whose stamp is the file's has the file's content (Current). From it RegistryKeeps
and RegistryServed.

`Workflows`. A request inside its scope has read one snapshot and nothing else, and
means the symbol that snapshot resolves the name to (Scoped); results of a batch are of its operations in order, and
a context that was read is of what the search before it has found (Chained). From it WorkflowsAgreeAlways.

`MemoryMigration`. While one process migrates at a time (OneMigrates): the backup under the first name,
once it is there, holds every row but those excused, and is never overwritten
(InFirst); until it is there the table holds them (InTable); and unless a process was stopped between drop and
insertion, the one that has dropped the tables holds every row (Held), so that the
migrated table has one row and one search row for each key (Whole). From it MigrationLosesNoRow.

`RateLimit`. The deque of a caller holds the last of the calls that were let in; the age of each
by the wall clock is its true age but for what the clock was set by since (Aged), and what is no
longer in the deque is older than the window but for the same (DroppedOld). That a check leaves the
deque from its first call within the window on needs the least of a set of naturals, which exists by
well-foundedness. From it the action property RateKept.

`DesktopWindow`. The invariant: each task is in one of the two queues or in the pool, and
in a queue once (Kinds, Queues); the cached list, and any listing about to be kept, is no
older than what was asked of the tab that reads the cache (ListKnown); a result that
will be rendered is no older than what was asked (Ready); and while a tab shows less
than that, such a result is on its way (Coming). From it WindowShows, which
holds whichever refresh, deletion or index run overtakes which.

`WatchIndex`. With the poll: versions of a file only grow, so that a changed tree cannot
look like an earlier one (Counted, Behind); no window is open around a run (NoWindow); while
the poll has seen no change, the window is no longer than the tree's rest (Rested); and a change that is
noticed or will be is not in the snapshot (Owing). From it the action properties
WatchRunsQuiet and WatchNoIdleRun.

`AuditLog`. Only the holder of the lock has a batch (Locked); an entry is in one
place and once (Once, Apart, All); the sentinel never stands in front of what a close or a query waits for
(Unobstructed), so that its flush has taken whatever it should (Underway). From it EntriesAreKept.

`IndexJob`. The invariant adds to JobTold that what is told is about a child that is gone and that a
result stands for a snapshot (Over), and that after a cancellation whatever is alive has
still to be signalled, unless the family grew after it was listed (Caught). From it JobToldTruly, the safety
half of JobsEnd.

`SecurityView`. A thread at rest has nothing left of what it did, and each letter in
the mail is of a known kind (ViewShape). From it SecurityTyped, and with it and the other three parts WatchWholeTyped.

`IncrementalIndex` (assumes `Granularity <= Racy`, which is what the racy window is
for). A run follows every text a file has had since it began (Followed); a file whose time lies
before the run's window has had one text since (Untouched); and a snapshot knows the text of a file that
still has the time recorded (SnapshotKnows). From it IndexReadsTheTree. That a snapshot's edges are of
calls its texts make, to symbols they declare (IndexTyped), needs that what is reused is the previous text
(Found) and that an edge is kept only while its target is not lost (EdgesResolved).

I1, that an incremental snapshot is the one a full build would make (EquivalentToFull), is proved where no import
renames what a call names (NoAliases; without it I1 is false, see incremental_alias) and where symbols have ids of
their own (IdsUnique: an id is the path, the qualified name and the start, and the key of a table). Say
that a place is a file and a position in its entry of a name in `_name_index`. If no entry of a name has changed, the symbols of that
name are at the same places in both trees, of the same classes and with the same return types, although
their starts, and so their ids, may differ (PlacesName, SamePlaces, SameReturns). A file that is not
resolved again makes the calls it made, of names whose entries are the same; with the hierarchy unchanged each leads
to the same places (SameLeads), and to all functions of a file and class or to none of them
(LeadsTogether). So if a call leads to one place, its symbol is the only one of its
qualified name in the file, before and after, and `id_map` takes the old id to the new one (Renewed, TargetRenewed):
twins of a name, whose ids are not moved, are never a target. Hence kept and moved edges are those a full
resolution makes (EdgesKept), and by induction over the runs IndexEquivalent.

`ParsePool`. What was collected is a prefix of the chunks, and what has been parsed alone is
outside it; the files of chunks are counted with the theorems on finite
cardinalities. From it PoolIsExact; and as a chunk has at least one file (ChunkCount), PoolTyped.

`JvmMembers` (JvmAssumption: a call meets finitely many declarations, each known by its id). Where a type has two
declarations with one key, or a type above it has one with the key of a type below, PoolOf keeps the one that comes first;
a declaration that comes earlier among the members with a key is still there (EarlierLeft). Two
declarations with the same key take the same numbers of arguments and score the same, so that of an override
and what it overrides only the nearest is among the best (NearestIsBound). One or two arguments score at most what
keeps a candidate with a certain misfit below every candidate without one, which is case analysis
over the scores (TotalOfTwo, ScoresOrdered, NoMisfitBound). A chain goes on from the nearest type that has
members of the name; that its step looks at the same members as the binding of the call does, needs that
no declaration has been left out for a key it shares with one that takes another number
of arguments (OneSignature, StepAgrees). A compiler sees to that in Java. In C# two overloads may be told apart by no more than a `?`, which a key
leaves out (`jvm_types.py:163`), as `m(int a)` and `m(int? a = null)` are. From it BindTyped, OverloadsRight
(which needs no such condition) and ChainsRight.

`MCContents`. From the invariants of the parts ContentsTyped, ContentsRight (all safety properties of the run
that need no condition, and MembersBound) and EdgesAlwaysRight.

Algorithms over data need induction over the data, and recursive functions need to be known to exist. The
library's theorems for both take an operator, which the provers here cannot instantiate.
`RetrievalProofs` gets both from the least element of a set of naturals instead: a set of
numbers that has 0, and i whenever it has i - 1, has all of them (ReachesAll); values
computed each from the one before are the values of a function (RecursionAlong), so that a
recursive definition by CHOOSE is that function. From these it derives what a fold along a sequence is
(FoldsAlong, FoldReads: any sequence of values that starts right and steps right ends in
the fold), that sums grow, and that a finite set of naturals has a largest element.

`BodyWindow` (assumes that a body has a line and that a budget holds the response around the
symbols, EnvelopeFits: the code raises an error otherwise). The bisection over window sizes
keeps a count that fits, or 1, and ends (BisectionEnds: the distance of its bounds shrinks);
with nothing but the root to pack, the root is taken if it fits alone
(PackedAlone). The invariant adds to WindowsReadBody that a client told to raise its budget has
read the lines before its offset too, so that it goes on where it was (BodyInv). From it BodyTyped and WindowsReadAll.

`Traversal` (assumes that symbols are finitely many and ordered, that edges join them, and that a search returns at
least its root). The search (SearchInv): what is visited is no farther than its
depth says (SearchSound); the queue holds visited nodes in the order of their depths, which differ by at most
one (QueueOrdered), each at its distance (QueuedNearest); and the
neighbours of a node that was visited and is no longer queued have been met, or something was dropped
(MetOrQueued). So when the queue is empty every ball up to the depth has been seen (LevelSeen, an
induction over the depth), which is SearchAnswers. The expansion (HopInv): before each hop the weight of a node is the
best product of a path of fewer steps than the number of the hop, and each node either is in the frontier at that weight or has
nothing to offer that its neighbours do not have (HopFrom, HasOffered); one hop takes, through two nested folds over
sorted steps, exactly the largest of the products offered (TakenBy, HopTakes). Here matters that dropping a worse path is
sound, since rounded multiplication is monotone (TimesGrows). From them WalkTyped and WalksAlwaysExact.

`ContextPacket` (assumes that whatever is written has a size and that the shares of the sections add up to at most
all: PacketAssumption). In the first pass a section takes no more than its share and what those before
it have left, except a target whose frame alone is too large (FirstPass, with Over for the frame's excess); so the whole keeps
to the budget of the sections and that excess (Filled), which a refill undoes when it
overshoots. For this excess the first reserve has room if the entries of files are no longer than it counts on
(FirstBuildFits), so that the first build is kept, and whatever is kept fits (PacketInv). The response is measured
again after every shedding, and shedding, the fold of which is unrolled (ShedRowsAlong), takes something as long as there is
something (ShedsUnlessEmpty). That sums along a list grow and what the bisection finds are the lemmas about
`Sizing` that `BodyWindow` uses too. From it PacketTyped and PacketsWithinBudget.

`Answers` (AnswersAssumption: a budget was checked against the server's cap, which the configuration
limits to 8192; a search asks the index for at least twice its limit; sizes are numbers). The rows offered to
the packing are distinct (EntriesOnce, over the orders of all tools), and packing, a fold, puts each of them into
the response or among those left out, once (PackingParts); giving back moves the last row
from the one to the other (PartedStill). So in TellInv the two are a partition of what was offered, and
that a client can add up what it has got and what is missing is a matter of counting (GivenCounts). A search
that says it has left out nothing has selected at most its limit and so has not met the limit of its
queries, which is larger (StoppedAtAll). That the response is as large as it says it is: the estimate,
measured twice, is a fixed point, because a size with another digit has just passed a power of ten,
and the bytes that this adds do not make another token (EstimateSettles; it matters that the
cap leaves an estimate at most four digits). So a response
that fits is never refused when it is measured again. From it AnswersTyped and AnswersAlwaysHonest.

## 6. What is only model-checked, and fairness

EdgesRight is proved under its two conditions (EdgesAlwaysRight: no import renames what is called, and overloads of a type with one
key agree on what is optional). The run's constants satisfy the first, not always the second, so that TLC
says of those declarations more than the theorem. Without the first it is false: of a file that calls by an imported
alias an incremental run may keep edges that a full build would not make (the run incremental_alias).
Every other invariant and action property of the passing runs has a theorem.

Liveness is beyond the proof system here and is checked with TLC:

- WaitingChangeIndexed holds, and EveryChangeIndexed fails, under weak fairness of the
  watcher's steps (a thread that loops until it
  is stopped, in which index runs end), of the passing of time, and of the
  delivery of events. Nothing is assumed of edits, of other events, or of the end of
  the watcher.
- EveryEntryWritten: weak fairness of the worker's loop and of each thread that
  has begun to flush. Writers, queries and close may never come.
- JobsEnd: the child starts, ends, and its parsers end, which the operating system
  sees to once they are told or have done their work; the thread of the windows goes on
  killing and handles the end. Nothing is assumed of the user.
- ViewSettles: the threads, the poll, the window's events, an order begun, and the passing of
  the cache time. Nothing is assumed of people, and accesses fail at most `MaxMisses` times.

No other property needs fairness.

## 7. Not modelled, and plan

Within the modelled components: deletions on request in the desktop application
(`delete_repository`, `purge_all_cache`), ranking of search results, redaction,
heartbeats, the resolution of calls by names where no receiver's type is known, and durability of SQLite and
of renames, which are taken to be atomic and lasting.

Not modelled at all, and why: the parsers (pure functions over the syntax trees of an
external library, whose correctness is a matter of corpora); the scores of ranking and of
search, the choice of a search's neighbours and the search without a full-text index,
projection and serialisation (numbers and text); the sampling router, the hardware
probe and the client's profile (fallbacks without shared state); path and content
policies (predicates on paths); telemetry, release, the command line, and the widgets
that only display or that write the configuration of clients.

Plan:

1. Proofs: refinements that abstract `AuditLog` and `MemoryLocks` to what their callers rely on.
2. `IncrementalIndex`: `JvmMembers` as its resolution, with packages and overloads, files that
   do not parse, and I1 for these.
3. The desktop application's deletions on request, with servers that have the
   repository open.
