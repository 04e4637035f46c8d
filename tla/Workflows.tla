----------------------------- MODULE Workflows ------------------------------
(***************************************************************************)
(* The requests that are made of several: inspect_symbol resolves a name,  *)
(* reads its definition and its relations, and a batch runs operations one *)
(* after the other, each of which may name what the one before has found.  *)
(* Meanwhile index runs publish snapshots.  inspect_symbol holds on to one *)
(* snapshot with a request scope; the scope belongs to its thread, and so  *)
(* one thread is enough here.  What the packet of view=full holds is in    *)
(* ContextPacket, what a read may find of the files in SnapshotReaders.    *)
(***************************************************************************)
EXTENDS Integers, Sequences, FiniteSets

CONSTANTS
    Symbols,     \* what a snapshot may know of the name: [exact, other, edges]
    LastRun,     \* bound of the model: snapshots
    Views,       \* {"minimal", "normal", "full"}
    Batches,     \* sequences of operations
    MaxOperations    \* the 10 of execute_batch

ASSUME WorkAssumption ==
    /\ LastRun \in Nat \ {0} /\ MaxOperations \in Nat
    /\ \A s \in Symbols : /\ s.exact \subseteq Nat \ {0} /\ s.other \subseteq Nat \ {0}
                           /\ s.edges \in Nat
    /\ Batches \subseteq Seq({"find", "context", "inspect", "write"})

VARIABLES
    index,       \* what each snapshot knows
    newest,      \* the published snapshot
    pointed,     \* the snapshot that the pointer cache names
    scope,       \* _active_scope of the thread: a snapshot, or NoScope
    doing,       \* "idle", "enter", "find", "context", "relations", "packet", "batch"
    view, target, content, cut,    \* what the inspection is, and has found
    operations, results,           \* the batch, and what its operations gave
    outcome,     \* what the client is told last
    readFrom     \* history: the snapshots the request has read

inspectVars == <<view, target, content, cut>>
batchVars == <<operations, results>>
workVars == <<index, newest, pointed, scope, doing, inspectVars, batchVars,
              outcome, readFrom>>

NoScope == 0
NoId == 0
Nothing == [status |-> "none"]
FoundIn(run) == index[run].exact \cup index[run].other

----------------------------------------------------------------------------
\* An index run publishes, and the pointer cache expires.
Publish ==
    /\ newest < LastRun
    /\ newest' = newest + 1
    /\ UNCHANGED <<index, pointed, scope, doing, inspectVars, batchVars, outcome, readFrom>>

Renew ==
    /\ pointed # newest
    /\ pointed' = newest
    /\ UNCHANGED <<index, newest, scope, doing, inspectVars, batchVars, outcome, readFrom>>

\* Mutant of StoreOf: the scope of the request is not looked at.
StoreIgnoringScope == pointed

\* _repository_store
StoreOf == IF scope # NoScope THEN scope ELSE pointed

Read == readFrom' = readFrom \cup {StoreOf}

\* The thread leaves the scope however the inspection ends.
End(told) ==
    /\ outcome' = told
    /\ scope' = NoScope
    /\ doing' = "idle"

----------------------------------------------------------------------------
(* inspect_symbol *)

Inspect(v) ==
    /\ doing = "idle"
    /\ doing' = "enter" /\ view' = v /\ readFrom' = {} /\ outcome' = Nothing
    /\ target' = NoId /\ content' = FALSE /\ cut' = FALSE
    /\ operations' = <<>> /\ results' = <<>>
    /\ UNCHANGED <<index, newest, pointed, scope>>

EnterScope ==
    /\ doing = "enter"
    /\ scope' = pointed /\ doing' = "find"
    /\ UNCHANGED <<index, newest, pointed, inspectVars, batchVars, outcome, readFrom>>

\* The only exact match, or the only match.
Resolve(run) ==
    LET one(S) == Cardinality(S) = 1
        S == IF one(index[run].exact) THEN index[run].exact ELSE FoundIn(run)
    IN  IF one(S) THEN CHOOSE id \in S : TRUE ELSE NoId

FindTarget ==
    /\ doing = "find" /\ Read
    /\ target' = Resolve(StoreOf)
    /\ IF target' = NoId
       THEN End([status |-> IF FoundIn(StoreOf) = {} THEN "not_found" ELSE "ambiguous"])
       ELSE /\ doing' = IF view = "full" THEN "packet" ELSE "context"
            /\ UNCHANGED <<scope, outcome>>
    /\ UNCHANGED <<index, newest, pointed, view, content, cut, batchVars>>

\* The body fits the budget, only the symbol does, or not even that.  There is
\* no content either when the file has changed since it was indexed.
ReadContext ==
    /\ doing = "context" /\ target \in FoundIn(StoreOf) /\ Read
    /\ \E fits \in {"body", "symbol", "nothing"}, stale \in BOOLEAN :
          /\ fits = "symbol" => view = "normal" /\ ~stale
          /\ content' = (view = "normal" /\ fits = "body" /\ ~stale)
          /\ cut' = (fits # "body")
    /\ doing' = "relations"
    /\ UNCHANGED <<index, newest, pointed, scope, view, target, batchVars, outcome>>

\* symbol_relationships knows no edges of an id that it does not know.  As many
\* as fit are given.
ReadRelations ==
    /\ doing = "relations" /\ Read
    /\ LET edges == IF target \in FoundIn(StoreOf) THEN index[StoreOf].edges ELSE 0
       IN  \E given \in 0..edges :
              End([status |-> "resolved", id |-> target, given |-> given,
                   omitted |-> edges - given, content |-> content,
                   retry |-> view = "normal" /\ ~content,
                   truncated |-> \/ cut \/ given < edges
                                 \/ view = "normal" /\ ~content])
    /\ UNCHANGED <<index, newest, pointed, inspectVars, batchVars>>

ReadPacket ==
    /\ doing = "packet" /\ target \in FoundIn(StoreOf) /\ Read
    /\ End([status |-> "packet", id |-> target, edges |-> index[StoreOf].edges])
    /\ UNCHANGED <<index, newest, pointed, inspectVars, batchVars>>

\* A snapshot that is no longer the published one may be closed or collected,
\* and symbol_context and the packet refuse an id that they do not know.
MayFail ==
    \/ StoreOf # newest
    \/ doing \in {"context", "packet"} /\ target \notin FoundIn(StoreOf)

ReadFails ==
    /\ doing \in {"find", "context", "relations", "packet"} /\ MayFail
    /\ End([status |-> "raised"])
    /\ UNCHANGED <<index, newest, pointed, inspectVars, batchVars, readFrom>>

----------------------------------------------------------------------------
(* execute_batch *)

Batch(ops) ==
    /\ doing = "idle"
    /\ IF Len(ops) \in 1..MaxOperations
       THEN doing' = "batch" /\ outcome' = Nothing
       ELSE doing' = "idle" /\ outcome' = [status |-> "error"]
    /\ operations' = ops /\ results' = <<>> /\ readFrom' = {}
    /\ target' = NoId /\ content' = FALSE /\ cut' = FALSE /\ view' = "none"
    /\ UNCHANGED <<index, newest, pointed, scope>>

Operation == operations[Len(results) + 1]
MoreOperations == doing = "batch" /\ Len(results) < Len(operations)

\* "$prev.data.symbols[0].symbol_id" stays as it is when the operation before
\* failed or was no search, or has found nothing.
Referred ==
    IF results # <<>> /\ results[Len(results)].op = "find"
    THEN results[Len(results)].id ELSE NoId

FirstOf(S) == IF S = {} THEN NoId ELSE CHOOSE x \in S : \A y \in S : x <= y

Result(op, id, ok) ==
    /\ results' = Append(results, [op |-> op, id |-> id, ok |-> ok, run |-> StoreOf])
    /\ UNCHANGED <<index, newest, pointed, scope, doing, inspectVars, operations, outcome>>

BatchFinds ==
    /\ MoreOperations /\ Operation = "find" /\ Read
    /\ Result("find", FirstOf(FoundIn(StoreOf)), TRUE)

BatchReadsContext ==
    /\ MoreOperations /\ Operation = "context" /\ Read
    /\ Result("context", Referred, Referred \in FoundIn(StoreOf))

\* inspect_symbol takes no symbol_id, and the batch passes one.
BatchInspects ==
    /\ MoreOperations /\ Operation = "inspect" /\ UNCHANGED readFrom
    /\ Result("inspect", NoId, FALSE)

BatchReadFails ==
    /\ MoreOperations /\ Operation \in {"find", "context"} /\ StoreOf # newest
    /\ UNCHANGED readFrom
    /\ Result(Operation, NoId, FALSE)

\* An operation that is not permitted ends the batch, and what it has found.
Forbidden ==
    /\ MoreOperations /\ Operation = "write"
    /\ End([status |-> "error"])
    /\ UNCHANGED <<index, newest, pointed, inspectVars, batchVars, readFrom>>

EndBatch ==
    /\ doing = "batch" /\ Len(results) = Len(operations)
    /\ End([status |-> "success", failed |-> {i \in DOMAIN results : ~results[i].ok}])
    /\ UNCHANGED <<index, newest, pointed, inspectVars, batchVars, readFrom>>

----------------------------------------------------------------------------
WorkInit ==
    /\ index \in [1..LastRun -> Symbols]
    /\ newest = 1 /\ pointed = 1 /\ scope = NoScope /\ doing = "idle"
    /\ view = "none" /\ target = NoId /\ content = FALSE /\ cut = FALSE
    /\ operations = <<>> /\ results = <<>>
    /\ outcome = Nothing /\ readFrom = {}

WorkNext ==
    \/ Publish \/ Renew
    \/ \E v \in Views : Inspect(v)
    \/ EnterScope \/ FindTarget \/ ReadContext \/ ReadRelations
    \/ ReadPacket \/ ReadFails
    \/ \E ops \in Batches : Batch(ops)
    \/ BatchFinds \/ BatchReadsContext \/ BatchInspects \/ BatchReadFails
    \/ Forbidden \/ EndBatch

WorkSpec == WorkInit /\ [][WorkNext]_workVars

----------------------------------------------------------------------------
\* Every variable is of its type.
WorkTypeOK ==
    /\ index \in [1..LastRun -> Symbols]
    /\ newest \in 1..LastRun /\ pointed \in 1..newest /\ scope \in 0..newest
    /\ doing \in {"idle", "enter", "find", "context", "relations", "packet", "batch"}
    /\ content \in BOOLEAN /\ cut \in BOOLEAN
    /\ operations \in Batches \cup {<<>>} /\ Len(results) <= Len(operations)

\* What an inspection tells is all of one snapshot, although others have been
\* published meanwhile, and whatever it leaves out it owns up to.
InspectionsAgree ==
    /\ doing \notin {"idle", "batch"} => Cardinality(readFrom) <= 1
    /\ outcome.status = "resolved" =>
           \E run \in readFrom :
              /\ readFrom = {run} /\ Resolve(run) = outcome.id
              /\ outcome.given + outcome.omitted = index[run].edges
              /\ ~outcome.truncated =>
                     outcome.omitted = 0 /\ (view = "normal" => outcome.content)
    /\ outcome.status = "packet" =>
           \E run \in readFrom :
              readFrom = {run} /\ outcome.edges = index[run].edges

\* A batch that succeeds has a result for every operation, tells which failed,
\* and has read the context only of what the operation before it had found,
\* in whatever snapshot.
BatchesAccount ==
    outcome.status = "success" =>
        /\ [i \in DOMAIN results |-> results[i].op] = operations
        /\ \A i \in DOMAIN results \ outcome.failed :
              results[i].op = "context" =>
                  /\ i > 1 /\ (i - 1) \notin outcome.failed
                  /\ results[i - 1].id = results[i].id
                  /\ results[i].id \in FoundIn(results[i - 1].run) \cap FoundIn(results[i].run)

\* No scope outlives its request (request_scope, inspect_symbol, execute_batch).
WorkflowsAgree ==
    /\ InspectionsAgree /\ BatchesAccount
    /\ scope # NoScope => doing \in {"find", "context", "relations", "packet"}
=============================================================================
