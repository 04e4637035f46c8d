---------------------------- MODULE ServerProofs ----------------------------
(***************************************************************************)
(* What a server keeps between requests, for any number of threads,        *)
(* snapshots, files, repositories and batches: the pointer cache and the   *)
(* pools (SnapshotReaders), the freshness cache (Freshness), the symbol    *)
(* graphs (GraphCache), its copy of the registry (Registry) and the        *)
(* requests that are made of several (Workflows).                          *)
(***************************************************************************)
EXTENDS MCServer, SubsequencesProofs

----------------------------------------------------------------------------
(* The pointer cache is never staler than its time to live, and requests   *)
(* fail on the current snapshot only after a fallback, for any number of   *)
(* threads and snapshots.  The argument: whatever snapshot a thread or the *)
(* cache names has been current (Seen), one that stops being current never *)
(* is again (CurrentNotRetired), an entry was current when its lookup      *)
(* began (Dated), an entry for the current snapshot has its run but for a  *)
(* fallback (Named), and so a thread closes connections only to what is no *)
(* longer current, or has fallen back (ClosesRetired).                     *)

Retired(r) == retiredAt[r] # Never

Seen ==
    LET seen(r) == r \in Runs => r = current \/ Retired(r) IN
    /\ seen(FirstRun)
    /\ seen(cache.path)
    /\ \A t \in Threads : seen(tpath[t]) /\ seen(tcached[t].path)

CurrentNotRetired == ~ Retired(current)

\* The clock bounds the stamps, and a stamp is no later than the moment its
\* snapshot was replaced.
Dated ==
    /\ cache.at <= now
    /\ \A t \in Threads : tlook[t] <= now
    /\ cache.path \in Runs \ {current} => retiredAt[cache.path] >= cache.at
    /\ \A t \in Threads :
          tpc[t] \in {"pointed", "found"} /\ tpath[t] \in Runs \ {current}
              => retiredAt[tpath[t]] >= tlook[t]

Named ==
    /\ cache.path = current /\ cache.run # current => fellBack
    /\ \A t \in Threads :
          tcached[t].path = current /\ tcached[t].run # current => fellBack

ClosesRetired ==
    \A t \in Threads :
        /\ tpc[t] = "pointed" /\ tcached[t].path = current => tpath[t] = current
        /\ tpc[t] = "found" /\ tcached[t].path = current
              => tpath[t] \in {current, Unversioned}
        /\ tpc[t] = "querying" /\ tpath[t] = current => Pooled(t) \/ fellBack

ReadersIInv ==
    /\ TypeOK /\ Seen /\ CurrentNotRetired /\ Dated /\ Named /\ ClosesRetired
    /\ ServesRecent /\ FailuresExplained

LEMMA ReadersConstants ==
    /\ FirstRun \in Runs /\ NoRun \notin Runs /\ FirstRun \in Databases
    /\ Unversioned \in Databases /\ Unversioned \notin Runs /\ Unversioned # NoRun
    /\ Runs \subseteq Databases /\ NoRun \notin Databases
    /\ \A d \in Databases : d \in Runs \/ d = Unversioned
    /\ PointerTtl \in Nat /\ GcAge \in Nat /\ MaxTime \in Nat
  BY ReadersAssumption DEF ReadersAssumption, Databases

----------------------------------------------------------------------------
LEMMA ReadersInit_Inv == Init => ReadersIInv
<1> SUFFICES ASSUME Init PROVE ReadersIInv
  OBVIOUS
<1> USE ReadersConstants
<1>1. /\ now = 0 /\ complete = {FirstRun} /\ current = FirstRun
      /\ born \in [Runs -> 0..MaxTime \cup {Never}]
      /\ retiredAt = [r \in Runs |-> Never]
      /\ cache = [at |-> 0, path |-> NoRun, run |-> NoRun]
      /\ pool = {} /\ fellBack = FALSE
      /\ tpc = [t \in Threads |-> "idle"] /\ tlook = [t \in Threads |-> 0]
      /\ tcached = [t \in Threads |-> NoEntry]
      /\ tpath = [t \in Threads |-> FirstRun]
  BY DEF Init
<1>2. 0 \in 0..MaxTime /\ NoEntry \in [path : Databases \cup {NoRun}, run : Runs \cup {NoRun}]
  BY DEF NoEntry, Entry
<1>3. NoEntry.path = NoRun
  BY DEF NoEntry, Entry
<1>4. TypeOK
  BY <1>1, <1>2 DEF TypeOK
<1>5. Seen /\ CurrentNotRetired /\ Dated /\ Named
  BY <1>1, <1>3 DEF Seen, CurrentNotRetired, Retired, Dated, Named
<1>6. ClosesRetired /\ ServesRecent /\ FailuresExplained
  BY <1>1 DEF ClosesRetired, ServesRecent, FailuresExplained
<1> QED
  BY <1>4, <1>5, <1>6 DEF ReadersIInv

\* What an entry kept makes of the cache and of the thread that keeps it.
LEMMA KeepEffect ==
    ASSUME TypeOK, NEW t \in Threads, NEW path \in Databases,
           NEW run \in Runs \cup {NoRun}, KeepEntry(t, Entry(path, run))
    PROVE  /\ UNCHANGED <<now, complete, current, born, retiredAt, tlook, tpath>>
           /\ cache' \in [at : 0..MaxTime, path : Databases \cup {NoRun},
                          run : Runs \cup {NoRun}]
           /\ cache'.at = tlook[t] /\ cache'.path = path /\ cache'.run = run
           /\ fellBack' = (fellBack \/ (run = NoRun /\ path \in {current, Unversioned}))
           /\ fellBack' \in BOOLEAN
           /\ tcached' \in [Threads -> [path : Databases \cup {NoRun},
                                        run : Runs \cup {NoRun}]]
           /\ tcached'[t] = NoEntry /\ tpc'[t] = "directed"
           /\ tpc' = [tpc EXCEPT ![t] = "directed"]
           /\ \A u \in Threads \ {t} : tcached'[u] = tcached[u] /\ tpc'[u] = tpc[u]
<1>1. /\ Entry(path, run).path = path /\ Entry(path, run).run = run
      /\ NoEntry \in [path : Databases \cup {NoRun}, run : Runs \cup {NoRun}]
  BY DEF Entry, NoEntry
<1>2. /\ cache' = [at |-> tlook[t], path |-> path, run |-> run]
      /\ fellBack' = (fellBack \/ (run = NoRun /\ path \in {current, Unversioned}))
      /\ tcached' = [tcached EXCEPT ![t] = NoEntry]
      /\ tpc' = [tpc EXCEPT ![t] = "directed"]
      /\ UNCHANGED <<now, complete, current, born, retiredAt, tlook, tpath>>
  BY <1>1 DEF KeepEntry, Go, dirVars
<1> QED
  BY <1>1, <1>2 DEF TypeOK

\* Both stores keep an entry for the database the thread has found, and close
\* at most the connections to the one it saw cached.
LEMMA StoreEffect ==
    ASSUME TypeOK, NEW t \in Threads, StoreCache(t) \/ StoreFallback(t)
    PROVE  \E run \in Runs \cup {NoRun} :
              /\ KeepEntry(t, Entry(tpath[t], run))
              /\ \/ pool' = pool
                 \/ pool' = {c \in pool : c[2] # tcached[t].path}
              /\ \/ /\ tpc[t] = "pointed" /\ tpath[t] \in Runs /\ run = tpath[t]
                    /\ pool' = pool \/ tcached[t].path # tpath[t]
                                    \/ tcached[t].run # tpath[t]
                 \/ /\ tpc[t] = "found" /\ run = NoRun
                    /\ pool' = pool \/ tcached[t].path # tpath[t]
<1>1. CASE StoreCache(t)
  <2>1. /\ tpc[t] = "pointed" /\ tpath[t] \in Runs
        /\ KeepEntry(t, Entry(tpath[t], tpath[t]))
        /\ IF tcached[t] \in {NoEntry, Entry(tpath[t], tpath[t])} THEN pool' = pool
           ELSE pool' = {c \in pool : c[2] # tcached[t].path}
    BY <1>1 DEF StoreCache, CloseDb, TypeOK
  <2>2. tcached[t] = [path |-> tcached[t].path, run |-> tcached[t].run]
    BY DEF TypeOK
  <2>3. tcached[t] # Entry(tpath[t], tpath[t])
        => tcached[t].path # tpath[t] \/ tcached[t].run # tpath[t]
    BY <2>2 DEF Entry
  <2> QED
    BY <2>1, <2>3
<1>2. CASE StoreFallback(t)
  BY <1>2 DEF StoreFallback, CloseDb
<1> QED
  BY <1>1, <1>2

\* Where a thread goes.
Places == {"idle", "expired", "pointed", "fallback", "found", "directed", "querying",
           "refused", "interrupted"}

LEMMA GoEffect ==
    ASSUME TypeOK, NEW t \in Threads, NEW place \in Places, Go(t, place)
    PROVE  /\ tpc' \in [Threads -> Places] /\ tpc'[t] = place
           /\ \A u \in Threads \ {t} : tpc'[u] = tpc[u]
<1>1. tpc \in [Threads -> Places] /\ tpc' = [tpc EXCEPT ![t] = place]
  BY DEF TypeOK, Places, Go
<1> QED
  BY <1>1

\* The steps that only move a thread and direct it somewhere.
LEMMA MoveEffect ==
    ASSUME TypeOK, NEW t \in Threads,
           \/ ReadPointer(t) \/ MissPointer(t) \/ FindPath(t)
           \/ ConnectFails(t) \/ Fetch(t) \/ FetchFails(t)
    PROVE  /\ UNCHANGED <<now, dirVars, storeVars, tlook, tcached>>
           /\ tpc' \in [Threads -> Places] /\ tpath' \in [Threads -> Databases]
           /\ \A u \in Threads \ {t} : tpc'[u] = tpc[u] /\ tpath'[u] = tpath[u]
           /\ \/ /\ tpc'[t] = "pointed" /\ tpath'[t] = current
              \/ /\ tpc'[t] = "fallback" /\ tpath'[t] = FirstRun
              \/ /\ tpc'[t] = "found" /\ tpath'[t] \in {current, Unversioned}
              \/ /\ tpath'[t] = tpath[t]
                 /\ \/ tpc'[t] = "refused" /\ tpath[t] # current
                    \/ tpc[t] = "querying" /\ tpc'[t] = "directed"
                    \/ tpc[t] = "querying" /\ tpc'[t] = "interrupted" /\ ~ Pooled(t)
<1>1. /\ tpath \in [Threads -> Databases] /\ current \in Databases
      /\ FirstRun \in Databases /\ Unversioned \in Databases /\ current \in complete
  BY ReadersConstants DEF TypeOK
<1>2. PICK place \in {"pointed", "fallback", "found", "refused", "directed", "interrupted"} :
          Go(t, place)
  BY DEF ReadPointer, MissPointer, FindPath, ConnectFails, Fetch, FetchFails
<1>3. /\ tpc' \in [Threads -> Places] /\ tpc'[t] = place
      /\ \A u \in Threads \ {t} : tpc'[u] = tpc[u]
  BY <1>2, GoEffect DEF Places
<1>4. /\ UNCHANGED <<now, dirVars, storeVars, tlook, tcached>>
      /\ \/ tpath' = tpath
         \/ \E path \in Databases : tpath' = [tpath EXCEPT ![t] = path]
  BY <1>1 DEF ReadPointer, MissPointer, FindPath, ConnectFails, Fetch, FetchFails
<1>5. /\ tpath' \in [Threads -> Databases]
      /\ \A u \in Threads \ {t} : tpath'[u] = tpath[u]
  BY <1>1, <1>4
<1>6. tpc' = [tpc EXCEPT ![t] = place] /\ tpc \in [Threads -> Places]
  BY <1>2 DEF Go, TypeOK, Places
<1>7. CASE ReadPointer(t)
  BY <1>1, <1>3, <1>4, <1>5, <1>6, <1>7 DEF ReadPointer, Go
<1>8. CASE MissPointer(t)
  BY <1>1, <1>3, <1>4, <1>5, <1>6, <1>8 DEF MissPointer, Go
<1>9. CASE FindPath(t)
  BY <1>1, <1>3, <1>4, <1>5, <1>6, <1>9 DEF FindPath, Go
<1>10. CASE ConnectFails(t)
  BY <1>1, <1>3, <1>4, <1>5, <1>6, <1>10 DEF ConnectFails, Go
<1>11. CASE Fetch(t)
  BY <1>1, <1>3, <1>4, <1>5, <1>6, <1>11 DEF Fetch, Go
<1>12. CASE FetchFails(t)
  BY <1>1, <1>3, <1>4, <1>5, <1>6, <1>12 DEF FetchFails, Go
<1> QED
  BY <1>7, <1>8, <1>9, <1>10, <1>11, <1>12

LEMMA ReadersTypeStep == TypeOK /\ [Next]_vars => TypeOK'
<1> SUFFICES ASSUME TypeOK, [Next]_vars PROVE TypeOK'
  OBVIOUS
<1> USE ReadersConstants DEF Never, dirVars, storeVars, threadVars, Go
<1>1. ASSUME NEW r \in Runs, AddSnapshot(r) PROVE TypeOK'
  BY <1>1 DEF AddSnapshot, Directory!Complete, TypeOK
<1>2. ASSUME NEW r \in Runs, SwapPointer(r) PROVE TypeOK'
  BY <1>2 DEF SwapPointer, Directory!Publish, TypeOK
<1>3. CASE CollectOld
  BY <1>3 DEF CollectOld, Directory!Discard, TypeOK
<1>4. ASSUME NEW t \in Threads, LookUp(t) PROVE TypeOK'
  <2>1. /\ UNCHANGED <<now, dirVars, storeVars>> /\ tlook' = [tlook EXCEPT ![t] = now]
        /\ \E place \in {"directed", "expired"} : Go(t, place)
        /\ \/ tpath' = tpath
           \/ cache.path # NoRun /\ tpath' = [tpath EXCEPT ![t] = cache.path]
        /\ \/ tcached' = tcached
           \/ tcached' = [tcached EXCEPT ![t] = Entry(cache.path, cache.run)]
    BY <1>4 DEF LookUp
  <2>2. tpc' \in [Threads -> Places]
    BY <2>1, GoEffect DEF Places
  <2>3. /\ cache.path \in Databases \cup {NoRun} /\ cache.run \in Runs \cup {NoRun}
        /\ tpath \in [Threads -> Databases]
        /\ tcached \in [Threads -> [path : Databases \cup {NoRun}, run : Runs \cup {NoRun}]]
    BY DEF TypeOK
  <2>4. tpath' \in [Threads -> Databases]
    BY <2>1, <2>3
  <2>5. tcached' \in [Threads -> [path : Databases \cup {NoRun}, run : Runs \cup {NoRun}]]
    BY <2>1, <2>3 DEF Entry
  <2> QED
    BY <2>1, <2>2, <2>4, <2>5 DEF TypeOK, Places
<1>5. ASSUME NEW t \in Threads,
             \/ ReadPointer(t) \/ MissPointer(t) \/ FindPath(t)
             \/ ConnectFails(t) \/ Fetch(t) \/ FetchFails(t)
      PROVE TypeOK'
  BY <1>5, MoveEffect DEF TypeOK, Places
<1>6. ASSUME NEW t \in Threads, StoreCache(t) \/ StoreFallback(t) PROVE TypeOK'
  <2>1. PICK run \in Runs \cup {NoRun} : /\ KeepEntry(t, Entry(tpath[t], run))
                                         /\ pool' \subseteq pool
    BY <1>6, StoreEffect
  <2>2. tpath[t] \in Databases
    BY DEF TypeOK
  <2> QED
    BY <2>1, <2>2, KeepEffect DEF TypeOK
<1>7. ASSUME NEW t \in Threads, Connect(t) PROVE TypeOK'
  <2>1. tpc' \in [Threads -> Places]
    BY <1>7, GoEffect DEF Connect, Places
  <2>2. pool' \subseteq Threads \X Databases
    BY <1>7 DEF Connect, TypeOK
  <2>3. UNCHANGED <<now, dirVars, cache, fellBack, tlook, tcached, tpath>>
    BY <1>7 DEF Connect
  <2> QED
    BY <2>1, <2>2, <2>3 DEF TypeOK, Places
<1>8. ASSUME NEW t \in Threads, Finish(t) PROVE TypeOK'
  <2>1. tpc' \in [Threads -> Places]
    BY <1>8, GoEffect DEF Finish, Places
  <2>2. tlook' \in [Threads -> 0..MaxTime] /\ tpath' \in [Threads -> Databases]
    BY <1>8 DEF Finish, TypeOK
  <2>3. UNCHANGED <<now, dirVars, storeVars, tcached>>
    BY <1>8 DEF Finish
  <2> QED
    BY <2>1, <2>2, <2>3 DEF TypeOK, Places
<1>9. CASE Tick
  BY <1>9 DEF Tick, TypeOK
<1>10. CASE UNCHANGED vars
  BY <1>10 DEF vars, TypeOK
<1> QED
  BY <1>1, <1>2, <1>3, <1>4, <1>5, <1>6, <1>7, <1>8, <1>9, <1>10 DEF Next, Request

\* Every state of the readers is well typed, and the current snapshot is
\* always a complete one.
THEOREM ReadersTyped == Spec => []TypeOK
<1>1. Init => TypeOK
  BY ReadersInit_Inv DEF ReadersIInv
<1> QED
  BY <1>1, ReadersTypeStep, PTL DEF Spec

----------------------------------------------------------------------------
LEMMA ReadersSwap ==
    ASSUME ReadersIInv, NEW r \in Runs, SwapPointer(r) PROVE ReadersIInv'
<1> USE ReadersConstants
<1>1. TypeOK /\ TypeOK'
  BY ReadersTypeStep DEF ReadersIInv, Next
<1>2. /\ current' = r /\ r # current /\ ~ Retired(r) /\ current \in Runs
      /\ retiredAt' = [retiredAt EXCEPT ![current] = now] /\ now # Never /\ now \in Int
      /\ fellBack' = FALSE
      /\ UNCHANGED <<now, cache, pool, threadVars>>
  BY <1>1 DEF SwapPointer, Directory!Publish, Retired, TypeOK, Never
<1>3. \A s \in Runs : retiredAt'[s] = IF s = current THEN now ELSE retiredAt[s]
  BY <1>1, <1>2 DEF TypeOK
<1>4. \A s \in Runs : s = current \/ Retired(s) => s # r /\ Retired(s)'
  BY <1>2, <1>3 DEF Retired
<1>5. /\ cache.path # r /\ \A t \in Threads : tpath[t] # r /\ tcached[t].path # r
  BY <1>2 DEF ReadersIInv, Seen
<1>6. Seen'
  BY <1>2, <1>4 DEF ReadersIInv, Seen, threadVars
<1>7. CurrentNotRetired' /\ Named' /\ ClosesRetired' /\ FailuresExplained'
  BY <1>2, <1>3, <1>5
     DEF CurrentNotRetired, Retired, Named, ClosesRetired, FailuresExplained, threadVars
<1>8. Dated'
  BY <1>1, <1>2, <1>3 DEF ReadersIInv, Dated, TypeOK, threadVars
<1>9. ServesRecent'
  <2> SUFFICES ASSUME NEW t \in Threads, tpc[t] \in {"directed", "querying"},
                      tpath[t] # Unversioned
               PROVE  retiredAt'[tpath[t]] # Never
                      /\ retiredAt'[tpath[t]] >= tlook[t] - PointerTtl
    BY <1>2 DEF ServesRecent, threadVars
  <2>1. tpath[t] \in Runs /\ tlook[t] \in Int /\ tlook[t] <= now
    BY <1>1 DEF ReadersIInv, Dated, TypeOK
  <2>2. CASE tpath[t] = current
    BY <1>2, <1>3, <2>1, <2>2
  <2>3. CASE tpath[t] # current
    BY <1>3, <2>1, <2>3 DEF ReadersIInv, ServesRecent
  <2> QED
    BY <2>2, <2>3
<1> QED
  BY <1>1, <1>6, <1>7, <1>8, <1>9 DEF ReadersIInv

LEMMA ReadersLook ==
    ASSUME ReadersIInv, NEW t \in Threads, LookUp(t) PROVE ReadersIInv'
<1> USE ReadersConstants
<1>1. TypeOK /\ TypeOK'
  BY ReadersTypeStep DEF ReadersIInv, Next, Request
<1>2. /\ UNCHANGED <<now, dirVars, storeVars>>
      /\ \A u \in Threads \ {t} : /\ tpc'[u] = tpc[u] /\ tlook'[u] = tlook[u]
                                  /\ tcached'[u] = tcached[u] /\ tpath'[u] = tpath[u]
      /\ tlook'[t] = now
      /\ \/ /\ tpc'[t] = "directed" /\ tpath'[t] = cache.path /\ tcached'[t] = tcached[t]
            /\ cache.path # NoRun /\ now - cache.at <= PointerTtl
         \/ /\ tpc'[t] = "expired" /\ tpath'[t] = tpath[t]
            /\ tcached'[t].path = cache.path /\ tcached'[t].run = cache.run
  BY <1>1 DEF LookUp, Go, Fresh, TypeOK, Entry
<1>3. Seen' /\ CurrentNotRetired' /\ Named'
  BY <1>2 DEF ReadersIInv, Seen, CurrentNotRetired, Retired, Named, dirVars, storeVars
<1>4. Dated'
  BY <1>1, <1>2 DEF ReadersIInv, Dated, dirVars, storeVars, TypeOK
<1>5. ClosesRetired' /\ FailuresExplained'
  BY <1>2 DEF ReadersIInv, ClosesRetired, FailuresExplained, Pooled, dirVars, storeVars
<1>6. ServesRecent'
  <2>1. ASSUME tpc'[t] = "directed", tpath'[t] # Unversioned, tpath'[t] # current
        PROVE  retiredAt[tpath'[t]] # Never
               /\ retiredAt[tpath'[t]] >= tlook'[t] - PointerTtl
    <3>1. /\ cache.path \in Runs /\ tpath'[t] = cache.path
          /\ now - cache.at <= PointerTtl
      BY <1>1, <1>2, <2>1 DEF TypeOK
    <3>2. retiredAt[cache.path] >= cache.at /\ Retired(cache.path)
      BY <2>1, <3>1 DEF ReadersIInv, Dated, Seen
    <3>3. /\ now \in Int /\ cache.at \in Int /\ retiredAt[cache.path] \in Int
      BY <1>1, <3>1 DEF TypeOK, Never
    <3> QED
      BY <1>2, <3>1, <3>2, <3>3 DEF Retired
  <2> QED
    BY <1>2, <2>1 DEF ReadersIInv, ServesRecent, dirVars
<1> QED
  BY <1>1, <1>3, <1>4, <1>5, <1>6 DEF ReadersIInv

LEMMA ReadersStore ==
    ASSUME ReadersIInv, NEW t \in Threads, StoreCache(t) \/ StoreFallback(t)
    PROVE  ReadersIInv'
<1> USE ReadersConstants
<1>1. TypeOK /\ TypeOK'
  BY ReadersTypeStep DEF ReadersIInv, Next, Request
<1>2. PICK run \in Runs \cup {NoRun} :
          /\ KeepEntry(t, Entry(tpath[t], run))
          /\ \/ pool' = pool
             \/ pool' = {c \in pool : c[2] # tcached[t].path}
          /\ \/ /\ tpc[t] = "pointed" /\ tpath[t] \in Runs /\ run = tpath[t]
                /\ pool' = pool \/ tcached[t].path # tpath[t]
                                \/ tcached[t].run # tpath[t]
             \/ /\ tpc[t] = "found" /\ run = NoRun
                /\ pool' = pool \/ tcached[t].path # tpath[t]
  BY <1>1, StoreEffect
<1>3. tpath[t] \in Databases
  BY <1>1 DEF TypeOK
<1>4. /\ UNCHANGED <<now, complete, current, born, retiredAt, tlook, tpath>>
      /\ cache'.at = tlook[t] /\ cache'.path = tpath[t] /\ cache'.run = run
      /\ fellBack' = (fellBack \/ (run = NoRun /\ tpath[t] \in {current, Unversioned}))
      /\ tcached'[t] = NoEntry /\ tpc'[t] = "directed"
      /\ \A u \in Threads \ {t} : tcached'[u] = tcached[u] /\ tpc'[u] = tpc[u]
  BY <1>1, <1>2, <1>3, KeepEffect
<1>5. NoEntry.path = NoRun /\ current # NoRun
  BY <1>1 DEF NoEntry, Entry, TypeOK
<1>6. Seen' /\ CurrentNotRetired'
  BY <1>4, <1>5 DEF ReadersIInv, Seen, CurrentNotRetired, Retired
<1>7. Dated'
  BY <1>2, <1>4 DEF ReadersIInv, Dated
<1>8. Named'
  BY <1>2, <1>4, <1>5 DEF ReadersIInv, Named
\* A connection to the current snapshot is closed only after a fallback.
<1>9. \A u \in Threads : <<u, current>> \in pool => <<u, current>> \in pool' \/ fellBack'
  <2>1. ASSUME pool' # pool, tcached[t].path = current PROVE fellBack'
    <3>1. CASE tpc[t] = "pointed"
      BY <1>2, <1>4, <2>1, <3>1 DEF ReadersIInv, ClosesRetired, Named
    <3>2. CASE tpc[t] = "found"
      BY <1>2, <1>4, <2>1, <3>2 DEF ReadersIInv, ClosesRetired
    <3> QED
      BY <1>2, <3>1, <3>2
  <2> QED
    BY <1>2, <2>1
<1>10. ClosesRetired' /\ FailuresExplained'
  BY <1>4, <1>9 DEF ReadersIInv, ClosesRetired, FailuresExplained, Pooled
<1>11. ServesRecent'
  <2>1. ASSUME tpath[t] # Unversioned, tpath[t] # current
        PROVE  retiredAt[tpath[t]] # Never
               /\ retiredAt[tpath[t]] >= tlook[t] - PointerTtl
    <3>1. tpath[t] \in Runs /\ tlook[t] \in Int /\ retiredAt[tpath[t]] \in Int
      BY <1>1, <1>3, <2>1 DEF TypeOK, Never
    <3>2. Retired(tpath[t]) /\ retiredAt[tpath[t]] >= tlook[t]
      BY <1>2, <2>1, <3>1 DEF ReadersIInv, Seen, Dated
    <3> QED
      BY <3>1, <3>2 DEF Retired
  <2> QED
    BY <1>4, <2>1 DEF ReadersIInv, ServesRecent
<1> QED
  BY <1>1, <1>6, <1>7, <1>8, <1>10, <1>11 DEF ReadersIInv

LEMMA ReadersStep == ReadersIInv /\ [Next]_vars => ReadersIInv'
<1> SUFFICES ASSUME ReadersIInv, [Next]_vars PROVE ReadersIInv'
  OBVIOUS
<1> USE ReadersConstants DEF ReadersIInv
<1>t. TypeOK'
  BY ReadersTypeStep
<1>1. ASSUME NEW t \in Threads,
             \/ ReadPointer(t) \/ MissPointer(t) \/ FindPath(t)
             \/ ConnectFails(t) \/ Fetch(t) \/ FetchFails(t)
      PROVE  ReadersIInv'
  <2>1. /\ UNCHANGED <<now, dirVars, storeVars, tlook, tcached>>
        /\ \A u \in Threads \ {t} : tpc'[u] = tpc[u] /\ tpath'[u] = tpath[u]
        /\ \/ /\ tpc'[t] = "pointed" /\ tpath'[t] = current
           \/ /\ tpc'[t] = "fallback" /\ tpath'[t] = FirstRun
           \/ /\ tpc'[t] = "found" /\ tpath'[t] \in {current, Unversioned}
           \/ /\ tpath'[t] = tpath[t]
              /\ \/ tpc'[t] = "refused" /\ tpath[t] # current
                 \/ tpc[t] = "querying" /\ tpc'[t] = "directed"
                 \/ tpc[t] = "querying" /\ tpc'[t] = "interrupted" /\ ~ Pooled(t)
    BY <1>1, MoveEffect
  <2>2. Seen' /\ CurrentNotRetired' /\ Named'
    BY <2>1 DEF Seen, CurrentNotRetired, Retired, Named, dirVars, storeVars
  <2>3. Dated'
    BY <2>1 DEF Dated, dirVars, storeVars
  <2>4. ClosesRetired'
    BY <2>1 DEF ClosesRetired, Pooled, dirVars, storeVars
  <2>5. FailuresExplained'
    BY <2>1 DEF ClosesRetired, FailuresExplained, dirVars, storeVars
  <2>6. ServesRecent'
    BY <2>1 DEF ServesRecent, dirVars
  <2> QED
    BY <1>t, <2>2, <2>3, <2>4, <2>5, <2>6
<1>2. ASSUME NEW t \in Threads, Connect(t) PROVE ReadersIInv'
  <2>1. /\ UNCHANGED <<now, dirVars, cache, fellBack, tlook, tcached, tpath>>
        /\ tpc[t] = "directed" /\ pool' = pool \cup {<<t, tpath[t]>>} /\ Go(t, "querying")
    BY <1>2 DEF Connect
  <2>2. tpc'[t] = "querying" /\ \A u \in Threads \ {t} : tpc'[u] = tpc[u]
    BY <2>1, GoEffect DEF Places
  <2>3. Seen' /\ CurrentNotRetired' /\ Named' /\ Dated'
    BY <2>1, <2>2 DEF Seen, CurrentNotRetired, Retired, Named, Dated, dirVars
  <2>4. ClosesRetired' /\ FailuresExplained'
    BY <2>1, <2>2 DEF ClosesRetired, FailuresExplained, Pooled, dirVars
  <2>5. ServesRecent'
    BY <2>1, <2>2 DEF ServesRecent, dirVars
  <2> QED
    BY <1>t, <2>3, <2>4, <2>5
<1>3. ASSUME NEW t \in Threads, Finish(t) PROVE ReadersIInv'
  <2>1. /\ UNCHANGED <<now, dirVars, storeVars, tcached>> /\ Go(t, "idle")
        /\ tlook' = [tlook EXCEPT ![t] = 0] /\ tpath' = [tpath EXCEPT ![t] = FirstRun]
    BY <1>3 DEF Finish
  <2>2. tpc'[t] = "idle" /\ \A u \in Threads \ {t} : tpc'[u] = tpc[u]
    BY <2>1, GoEffect DEF Places
  <2>3. /\ tlook'[t] = 0 /\ tpath'[t] = FirstRun /\ 0 <= now
        /\ \A u \in Threads \ {t} : tlook'[u] = tlook[u] /\ tpath'[u] = tpath[u]
    BY <2>1 DEF TypeOK
  <2>4. Seen' /\ CurrentNotRetired' /\ Named' /\ Dated'
    BY <2>1, <2>2, <2>3
       DEF Seen, CurrentNotRetired, Retired, Named, Dated, dirVars, storeVars
  <2>5. ClosesRetired' /\ FailuresExplained' /\ ServesRecent'
    BY <2>1, <2>2, <2>3
       DEF ClosesRetired, FailuresExplained, ServesRecent, Pooled, dirVars, storeVars
  <2> QED
    BY <1>t, <2>4, <2>5
<1>4. ASSUME UNCHANGED <<current, retiredAt, storeVars, threadVars>>,
             now' \in {now, now + 1}
      PROVE  ReadersIInv'
  <2>1. now \in Int /\ cache.at \in Int /\ \A t \in Threads : tlook[t] \in Int
    BY DEF TypeOK
  <2>2. Dated'
    BY <1>4, <2>1 DEF Dated, storeVars, threadVars
  <2>3. Seen' /\ CurrentNotRetired' /\ Named'
    BY <1>4 DEF Seen, CurrentNotRetired, Retired, Named, storeVars, threadVars
  <2>4. ClosesRetired' /\ FailuresExplained' /\ ServesRecent'
    BY <1>4 DEF ClosesRetired, FailuresExplained, ServesRecent, Pooled, storeVars,
                threadVars
  <2> QED
    BY <1>t, <2>2, <2>3, <2>4
<1>5. ASSUME NEW t \in Threads, Request(t) PROVE ReadersIInv'
  BY <1>1, <1>2, <1>3, <1>5, ReadersLook, ReadersStore DEF Request
<1>6. CASE CollectOld \/ \E r \in Runs : AddSnapshot(r)
  BY <1>4, <1>6 DEF CollectOld, AddSnapshot, Directory!Complete, Directory!Discard
<1>7. CASE Tick \/ UNCHANGED vars
  BY <1>4, <1>7 DEF Tick, vars, dirVars
<1> QED
  BY <1>5, <1>6, <1>7, ReadersSwap DEF Next

LEMMA ReadersInv == Spec => []ReadersIInv
  BY ReadersInit_Inv, ReadersStep, PTL DEF Spec

\* Staleness bound of the pointer cache, for any number of threads: a request
\* is directed to a snapshot that was still current PointerTtl before it began.
THEOREM ReadersServeRecent == Spec => []ServesRecent
<1>1. ReadersIInv => ServesRecent
  BY DEF ReadersIInv
<1> QED
  BY <1>1, ReadersInv, PTL

\* A request fails on the current snapshot only where a fallback of the server
\* has, since that was published, kept it without its run or ended at the
\* unversioned database: neither a collection nor a switch takes it.
THEOREM ReadersFailuresExplained == Spec => []FailuresExplained
<1>1. ReadersIInv => FailuresExplained
  BY DEF ReadersIInv
<1> QED
  BY <1>1, ReadersInv, PTL

----------------------------------------------------------------------------
(* An answer "fresh" is never older than the time to live of the cache,    *)
(* for any files and contents.  The argument: what a check has looked at   *)
(* and found as indexed was so at some moment since the question (Since,   *)
(* CheckHonest), or size and time cannot tell it apart, since every        *)
(* version that a file, a record or a cached hash has is among versions    *)
(* (Known); a new file the check does not look for has changed the time of *)
(* its directory, unless it slipped (Revealed).                            *)

File == [c : Contents, m : 0..MaxClock] \cup {Absent}

CheckType ==
    [pc : {"idle", "checking", "reading", "answered"}, asked : Int,
     todo : SUBSET Paths, stale : BOOLEAN, p : Paths \cup {"none"}, m : Int,
     status : {"none", "fresh", "stale"}]

FreshShape ==
    /\ clock \in 0..MaxClock /\ changes \in 0..MaxChanges
    /\ file \in [Paths -> File] /\ record \in [Paths -> File]
    /\ scan # NoScan => scan \in [Paths -> File]
    /\ dirTime \in [Dirs -> 0..MaxClock] /\ recDirs \in [Dirs -> -1..MaxClock]
    /\ differs \in [Paths -> Int]
    /\ hashes \subseteq versions /\ slipped \subseteq Paths
    /\ snap \in [status : {"none", "fresh", "stale"}, at : Int]

CheckShape == check \in CheckType

\* Every version that is on disk, indexed or being indexed is known.
VersionOf(f, p) == [p |-> p, c |-> f[p].c, m |-> f[p].m]
Known ==
    \A p \in Paths :
        /\ file[p] # Absent => VersionOf(file, p) \in versions
        /\ record[p] # Absent => VersionOf(record, p) \in versions
        /\ scan # NoScan /\ scan[p] # Absent => VersionOf(scan, p) \in versions

Compared == \A p \in Paths : Matches(file, record, p) => differs[p] = AsIndexed

\* Times of directories only grow, and a new file shows in them.
Revealed ==
    /\ \A d \in Dirs : recDirs[d] <= dirTime[d] /\ dirTime[d] <= clock
    /\ \A p \in Paths :
          /\ file[p] # Absent /\ record[p] = Absent
          /\ recDirs[Dir(p)] = dirTime[Dir(p)]
          => p \in slipped

Excused(p) ==
    \/ Indistinguishable(p)
    \/ record[p] = Absent /\ (p \in slipped \/ recDirs[Dir(p)] = NeverSeen)

\* The path was as indexed at some moment since t.
Since(p, t) == differs[p] = AsIndexed \/ differs[p] >= t \/ Excused(p)

SnapHonest ==
    /\ snap.at <= clock
    /\ snap.status = "fresh" => \A p \in Paths : Since(p, snap.at)

CheckHonest ==
    /\ check.asked <= clock
    /\ check.pc \in {"checking", "reading"} =>
          /\ \A p \in check.todo : record[p] # Absent
          /\ check.stale = FALSE =>
                \A p \in Paths \ check.todo : Since(p, check.asked)
    /\ check.pc = "reading" => check.p \in check.todo

FreshInv ==
    /\ FreshShape /\ CheckShape /\ Known /\ Compared /\ Revealed
    /\ SnapHonest /\ CheckHonest /\ FreshWithinTtl

LEMMA FreshConstants ==
    Ttl \in Nat /\ MaxClock \in Nat /\ MaxClock > 0 /\ MaxChanges \in Nat
  BY FreshnessAssumption DEF FreshnessAssumption

LEMMA DirOfPath == \A p \in Paths : Dir(p) \in Dirs
  BY DEF Dirs

\* What fixes an answer, where nothing it depends on changes but the versions.
LEMMA SinceStays ==
    ASSUME versions \subseteq versions',
           UNCHANGED <<differs, record, recDirs, slipped>>
    PROVE  \A p \in Paths, t \in Int : Since(p, t) => Since(p, t)'
  BY DEF Since, Excused, Indistinguishable, Dir

\* A change of the tree makes a path differ no earlier than now.
LEMMA SinceChange ==
    ASSUME FreshInv, NEW q \in Paths, NEW new \in File, Change(q, new)
    PROVE  \A p \in Paths, t \in Int : t <= clock /\ Since(p, t) => Since(p, t)'
<1> SUFFICES ASSUME NEW p \in Paths, NEW t \in Int, t <= clock, Since(p, t)
             PROVE  Since(p, t)'
  OBVIOUS
<1>1. differs'[p] = IF Matches(file', record, p) THEN AsIndexed
                    ELSE IF differs[p] = AsIndexed THEN clock ELSE differs[p]
  BY DEF Change, Differing
<1>2. CASE differs[p] = AsIndexed \/ differs[p] >= t
  BY <1>1, <1>2, FreshConstants DEF Since, AsIndexed, FreshInv, FreshShape
<1>3. CASE Indistinguishable(p)
  BY <1>3 DEF Change, Indistinguishable, Since, Excused
<1>4. CASE record[p] = Absent /\ recDirs[Dir(p)] = NeverSeen
  BY <1>4 DEF Change, Since, Excused, Dir
<1>5. CASE record[p] = Absent /\ p \in slipped
  <2>1. CASE new = Absent /\ p = q
    <3>1. file'[p] = Absent
      BY <2>1 DEF Change, FreshInv, FreshShape
    <3> QED
      BY <1>1, <1>5, <3>1 DEF Matches, Since
  <2>2. CASE ~(new = Absent /\ p = q)
    BY <1>5, <2>2 DEF Change, Since, Excused, Dir
  <2> QED
    BY <2>1, <2>2
<1> QED
  BY <1>2, <1>3, <1>4, <1>5 DEF Since, Excused

----------------------------------------------------------------------------
LEMMA FreshInit_Inv == FreshInit => FreshInv
<1> SUFFICES ASSUME FreshInit PROVE FreshInv
  OBVIOUS
<1> USE FreshConstants
<1>1. PICK c \in Contents, there \in SUBSET RootPaths :
        file = [p \in Paths |-> IF p \in there THEN [c |-> c, m |-> 0] ELSE Absent]
  BY DEF FreshInit
<1>2. file \in [Paths -> File]
  BY <1>1 DEF File
<1>3. CheckShape
  <2>1. -1 \in Int /\ {} \in SUBSET Paths /\ FALSE \in BOOLEAN
    OBVIOUS
  <2> QED
    BY <2>1, Zenon DEF FreshInit, CheckShape, NoCheck, CheckType
<1>4. FreshShape
  <2>1. clock \in 0..MaxClock
    BY DEF FreshInit
  <2>2. changes \in 0..MaxChanges /\ hashes \subseteq versions /\ slipped \subseteq Paths
    BY DEF FreshInit
  <2>3. record \in [Paths -> File] /\ scan = NoScan
    BY <1>2 DEF FreshInit
  <2>4. dirTime \in [Dirs -> 0..MaxClock] /\ recDirs \in [Dirs -> -1..MaxClock]
    BY DEF FreshInit, NeverSeen
  <2>5. differs \in [Paths -> Int]
    BY DEF FreshInit, AsIndexed
  <2>6. snap \in [status : {"none", "fresh", "stale"}, at : Int]
    BY DEF FreshInit, NoSnap
  <2> QED
    BY <1>2, <2>1, <2>2, <2>3, <2>4, <2>5, <2>6, Zenon DEF FreshShape
<1>5. Known
  BY <1>2 DEF FreshInit, Known, VersionOf
<1>6. Compared
  BY DEF FreshInit, Compared
<1>7. Revealed
  BY DEF FreshInit, Revealed, NeverSeen
<1>8. SnapHonest /\ CheckHonest /\ FreshWithinTtl
  BY DEF FreshInit, SnapHonest, CheckHonest, FreshWithinTtl, NoSnap, NoCheck
<1> QED
  BY <1>3, <1>4, <1>5, <1>6, <1>7, <1>8 DEF FreshInv

----------------------------------------------------------------------------
(* The tree and the index run. *)

LEMMA ChangeKeeps ==
    ASSUME FreshInv, NEW q \in Paths, NEW new \in File, Change(q, new)
    PROVE  FreshInv'
<1> USE FreshConstants DEF FreshInv
<1>1. file' \in [Paths -> File] /\ file' = [file EXCEPT ![q] = new]
  BY DEF Change, FreshShape
<1>2. differs' \in [Paths -> Int]
  BY DEF Change, Differing, FreshShape, AsIndexed
<1>3. dirTime' \in [Dirs -> 0..MaxClock]
  BY DEF Change, FreshShape
<1>4. FreshShape'
  <2>1. /\ clock' \in 0..MaxClock /\ changes' \in 0..MaxChanges
        /\ hashes' \subseteq versions' /\ slipped' \subseteq Paths
    BY DEF Change, FreshShape
  <2>2. /\ record' \in [Paths -> File]
        /\ scan' # NoScan => scan' \in [Paths -> File]
        /\ recDirs' \in [Dirs -> -1..MaxClock]
        /\ snap' \in [status : {"none", "fresh", "stale"}, at : Int]
    BY Zenon DEF Change, FreshShape
  <2> QED
    BY <1>1, <1>2, <1>3, <2>1, <2>2, Zenon DEF FreshShape, Dirs, Paths, Dir, File, Absent, NoScan
<1>c. CheckShape'
  BY Zenon DEF Change, CheckShape, CheckType, Paths
<1>5. Known'
  BY <1>1 DEF Change, Known, VersionOf, FreshShape, Paths
<1>6. Compared'
  BY DEF Change, Differing, Compared, Matches, FreshShape, Paths
<1>7. \A d \in Dirs : dirTime'[d] = dirTime[d] \/ dirTime'[d] = clock
  BY DEF Change
<1>8. \A d \in Dirs : recDirs[d] <= dirTime'[d] /\ dirTime'[d] <= clock
  BY <1>7, <1>3 DEF Revealed, FreshShape
<1>9. ASSUME NEW p \in Paths, file'[p] # Absent, record[p] = Absent,
             recDirs[Dir(p)] = dirTime'[Dir(p)]
      PROVE  p \in slipped'
  <2>1. CASE p = q /\ file[p] = Absent
    <3>1. new # Absent
      BY <1>1, <1>9, <2>1 DEF FreshShape
    <3>2. dirTime'[Dir(p)] = clock
      BY <2>1, <3>1, DirOfPath DEF Change
    <3> QED
      BY <1>9, <2>1, <3>1, <3>2 DEF Change
  <2>2. CASE ~(p = q /\ file[p] = Absent)
    <3>1. file[p] # Absent
      BY <1>1, <1>9, <2>2 DEF FreshShape
    <3>2. recDirs[Dir(p)] = dirTime[Dir(p)]
      BY <1>7, <1>8, <1>9, DirOfPath DEF Revealed, FreshShape
    <3>3. p \in slipped /\ ~(p = q /\ new = Absent)
      BY <1>1, <1>9, <3>1, <3>2 DEF Revealed, FreshShape
    <3> QED
      BY <3>3 DEF Change
  <2> QED
    BY <2>1, <2>2
<1>10. Revealed'
  BY <1>8, <1>9 DEF Change, Revealed, Dirs, Dir, Paths
<1>11. /\ UNCHANGED <<check, snap, clock, record>>
       /\ \A p \in Paths, t \in Int : t <= clock /\ Since(p, t) => Since(p, t)'
  BY SinceChange DEF Change
<1>12. check.asked \in Int /\ snap.at \in Int /\ check.todo \in SUBSET Paths
  BY DEF FreshShape, CheckShape, CheckType
<1>13. SnapHonest'
  BY <1>11, <1>12 DEF SnapHonest
<1>14. CheckHonest'
  BY <1>11, <1>12 DEF CheckHonest
<1>15. FreshWithinTtl'
  <2> SUFFICES ASSUME check.pc = "answered", check.status = "fresh",
                      NEW p \in Paths
               PROVE  Since(p, check.asked - Ttl)'
    BY <1>11 DEF FreshWithinTtl, Since, Excused, Dir
  <2>1. Since(p, check.asked - Ttl)
    BY DEF FreshWithinTtl, Since, Excused
  <2>2. check.asked - Ttl \in Int /\ check.asked - Ttl <= clock
    BY <1>12 DEF CheckHonest, FreshShape
  <2> QED
    BY <1>11, <2>1, <2>2
<1> QED
  BY <1>4, <1>c, <1>5, <1>6, <1>10, <1>13, <1>14, <1>15

LEMMA TreeKeeps ==
    ASSUME FreshInv, NEW p \in Paths, Save(p) \/ Delete(p)
    PROVE  FreshInv'
<1>1. CASE Delete(p)
  BY <1>1, ChangeKeeps DEF Delete, File
<1>2. CASE Save(p)
  <2>1. PICK c \in Contents, m \in {clock, file[p].m} \ {-1} :
          Change(p, [c |-> c, m |-> m])
    BY <1>2 DEF Save
  <2>2. file[p].m \in 0..MaxClock \cup {-1}
    BY DEF File, Absent, FreshInv, FreshShape
  <2>3. m \in 0..MaxClock
    BY <2>2 DEF FreshInv, FreshShape
  <2>4. [c |-> c, m |-> m] \in File
    BY <2>3 DEF File
  <2> QED
    BY <2>1, <2>4, ChangeKeeps
<1> QED
  BY <1>1, <1>2

\* A step that only adds versions, or passes time, keeps every answer honest.
LEMMA QuietKeeps ==
    ASSUME FreshInv, FreshShape', versions \subseteq versions',
           clock <= clock',
           UNCHANGED <<file, dirTime, record, recDirs, slipped, snap, check, differs>>,
           scan' = scan \/ scan' = file
    PROVE  FreshInv'
<1> USE DEF FreshInv
<1>1. CheckShape'
  BY Zenon DEF CheckShape, CheckType, Paths
<1>2. Known'
  BY DEF Known, VersionOf, Paths, NoScan
<1>3. Compared'
  BY DEF Compared, Matches, Paths
<1>4. Revealed'
  BY DEF Revealed, FreshShape, Paths, Dirs, Dir
<1>5. \A p \in Paths, t \in Int : Since(p, t) => Since(p, t)'
  BY SinceStays
<1>6. /\ check.asked \in Int /\ snap.at \in Int /\ check.todo \in SUBSET Paths
      /\ check.asked - Ttl \in Int
  BY FreshConstants DEF FreshShape, CheckShape, CheckType
<1>7. SnapHonest'
  BY <1>5, <1>6 DEF SnapHonest, FreshShape, Paths
<1>8. CheckHonest'
  BY <1>5, <1>6 DEF CheckHonest, FreshShape, Paths
<1>9. FreshWithinTtl'
  <2>1. FreshWithinTtl =>
            (check.pc = "answered" /\ check.status = "fresh" =>
                \A p \in Paths : Since(p, check.asked - Ttl))
    BY DEF FreshWithinTtl, Since, Excused
  <2>2. (check.pc = "answered" /\ check.status = "fresh" =>
                \A p \in Paths : Since(p, check.asked - Ttl)')
            => FreshWithinTtl'
    BY DEF FreshWithinTtl, Since, Excused, Paths, Dir
  <2> QED
    BY <1>5, <1>6, <2>1, <2>2
<1> QED
  BY <1>1, <1>2, <1>3, <1>4, <1>7, <1>8, <1>9

LEMMA OutsideKeeps ==
    ASSUME FreshInv, ScanTree \/ ClockTicks \/ \E p \in Paths : OtherRepository(p)
    PROVE  FreshInv'
<1> USE FreshConstants DEF FreshInv, FreshShape, diskVars, indexVars, Paths, Dirs, Dir,
        NoScan, File, Absent
<1>1. CASE ScanTree
  <2>1. FreshShape'
    BY <1>1 DEF ScanTree
  <2> QED
    BY <1>1, <2>1, QuietKeeps DEF ScanTree
<1>2. CASE ClockTicks
  <2>1. FreshShape'
    BY <1>2 DEF ClockTicks
  <2> QED
    BY <1>2, <2>1, QuietKeeps DEF ClockTicks
<1>3. ASSUME NEW p \in Paths, OtherRepository(p) PROVE FreshInv'
  <2>1. FreshShape' /\ versions \subseteq versions'
    BY <1>3 DEF OtherRepository
  <2> QED
    BY <1>3, <2>1, QuietKeeps DEF OtherRepository
<1> QED
  BY <1>1, <1>2, <1>3

LEMMA StampKeeps == ASSUME FreshInv, StampAndPublish PROVE FreshInv'
<1> USE FreshConstants DEF FreshInv, StampAndPublish, diskVars
<1>1. FreshShape'
  <2>1. /\ record' \in [Paths -> File] /\ scan' = NoScan
        /\ slipped' \subseteq Paths
    BY DEF FreshShape
  <2>2. recDirs' \in [Dirs -> -1..MaxClock]
    BY DEF FreshShape, NeverSeen
  <2>3. differs' \in [Paths -> Int]
    BY DEF AsIndexed, NeverSeen
  <2>4. snap' \in [status : {"none", "fresh", "stale"}, at : Int]
    BY DEF NoSnap
  <2> QED
    BY <2>1, <2>2, <2>3, <2>4, Zenon
       DEF FreshShape, Paths, Dirs, Dir, File, Absent, NoScan
<1>2. CheckShape'
  BY Zenon DEF CheckShape, CheckType, Paths
<1>3. Known'
  BY DEF Known, VersionOf, Paths
<1>4. Compared'
  BY DEF Compared, Matches, Paths
<1>5. \A d \in Dirs : recDirs'[d] = dirTime[d] \/ recDirs'[d] = NeverSeen
  BY DEF FreshShape
<1>6. Revealed'
  BY <1>5 DEF Revealed, FreshShape, Paths, Dirs, Dir, NeverSeen
<1>7. SnapHonest' /\ CheckHonest' /\ FreshWithinTtl'
  BY DEF SnapHonest, CheckHonest, FreshWithinTtl, NoSnap, FreshShape
<1> QED
  BY <1>1, <1>2, <1>3, <1>4, <1>6, <1>7

----------------------------------------------------------------------------
(* A check. *)

\* What a verdict on one path leaves in the check.
LEMMA Judged ==
    ASSUME CheckShape, NEW p \in Paths, NEW isStale \in BOOLEAN, Judge(p, isStale)
    PROVE  /\ CheckShape'
           /\ check'.pc = "checking" /\ check'.todo = check.todo \ {p}
           /\ check'.asked = check.asked
           /\ check'.stale = FALSE => check.stale = FALSE /\ isStale = FALSE
<1>1. /\ check.stale \in BOOLEAN /\ check.todo \in SUBSET Paths
      /\ check.asked \in Int /\ check.m \in Int
      /\ check.p \in Paths \cup {"none"} /\ check.status \in {"none", "fresh", "stale"}
  BY DEF CheckShape, CheckType
<1> DEFINE now_stale == check.stale \/ isStale
<1>2. now_stale \in BOOLEAN
  BY Zenon
<1>3. check' = [pc |-> "checking", asked |-> check.asked, todo |-> check.todo \ {p},
                stale |-> now_stale, p |-> check.p, m |-> check.m,
                status |-> check.status]
  BY DEF CheckShape, CheckType, Judge
<1>4. now_stale = FALSE => check.stale = FALSE /\ isStale = FALSE
  BY <1>1, Zenon
<1> HIDE DEF now_stale
<1>5. check' \in CheckType
  <2>1. check.todo \ {p} \in SUBSET Paths
    BY <1>1
  <2> QED
    BY <1>1, <1>2, <1>3, <2>1, Zenon DEF CheckType
<1>6. CheckShape'
  BY <1>5, Zenon DEF CheckShape, CheckType, Paths
<1> QED
  BY <1>3, <1>4, <1>6

\* A verdict is honest if "as indexed" is true of the path, now or since.
LEMMA VerdictKeeps ==
    ASSUME FreshInv, check.pc \in {"checking", "reading"}, NEW p \in check.todo,
           NEW isStale \in BOOLEAN, Judge(p, isStale),
           UNCHANGED <<clock, changes, file, dirTime, indexVars, snap, differs>>,
           versions \subseteq versions', hashes' \subseteq versions',
           isStale = FALSE => Since(p, check.asked)
    PROVE  FreshInv'
<1> USE DEF FreshInv, indexVars
<1>0. /\ p \in Paths /\ check.asked \in Int /\ snap.at \in Int
      /\ check.todo \in SUBSET Paths
  BY DEF FreshShape, CheckShape, CheckType
<1>1. /\ CheckShape'
      /\ check'.pc = "checking" /\ check'.todo = check.todo \ {p}
      /\ check'.asked = check.asked
      /\ check'.stale = FALSE => check.stale = FALSE /\ isStale = FALSE
  BY <1>0, Judged
<1>2. FreshShape'
  BY Zenon DEF FreshShape, Paths, Dirs, Dir, File, Absent, NoScan
<1>3. Known' /\ Compared' /\ Revealed'
  BY DEF Known, VersionOf, Compared, Matches, Revealed, Paths, Dirs, Dir, NoScan
<1>4. \A q \in Paths, t \in Int : Since(q, t) => Since(q, t)'
  BY SinceStays
<1>5. SnapHonest'
  BY <1>0, <1>4 DEF SnapHonest, Paths
<1>6. CheckHonest'
  <2>1. ASSUME check'.stale = FALSE, NEW q \in Paths \ check'.todo
        PROVE  Since(q, check.asked)'
    <3>1. q = p \/ q \in Paths \ check.todo
      BY <1>1, <2>1
    <3>2. Since(q, check.asked)
      BY <1>1, <2>1, <3>1 DEF CheckHonest
    <3> QED
      BY <1>0, <1>1, <1>4, <2>1, <3>2
  <2> QED
    BY <1>0, <1>1, <2>1 DEF CheckHonest, Paths
<1>7. FreshWithinTtl'
  BY <1>1 DEF FreshWithinTtl
<1> QED
  BY <1>1, <1>2, <1>3, <1>5, <1>6, <1>7

\* Two versions of one time, one of which is on disk and one indexed, excuse.
LEMMA SameTime ==
    ASSUME FreshInv, NEW p \in Paths, record[p] # Absent,
           NEW v \in versions, v.p = p, v.c = record[p].c,
           file[p] # Absent, file[p].m = v.m
    PROVE  \A t \in Int : Since(p, t)
<1>1. VersionOf(file, p) \in versions
  BY DEF FreshInv, Known
<1>2. CASE file[p].c = record[p].c
  BY <1>2 DEF FreshInv, Compared, Matches, Since
<1>3. CASE file[p].c # record[p].c
  <2>1. Indistinguishable(p)
    BY <1>1, <1>3 DEF Indistinguishable, VersionOf
  <2> QED
    BY <2>1 DEF Since, Excused
<1> QED
  BY <1>2, <1>3

LEMMA StatKeeps == ASSUME FreshInv, NEW p \in Paths, StatFile(p) PROVE FreshInv'
<1>0. /\ check.pc = "checking" /\ p \in check.todo /\ record[p] # Absent
      /\ check.asked \in Int
      /\ UNCHANGED <<clock, changes, file, dirTime, indexVars, snap, differs>>
      /\ versions' = versions /\ hashes' = hashes /\ hashes \subseteq versions
  BY DEF FreshInv, CheckHonest, CheckShape, CheckType, FreshShape, StatFile, diskVars
<1>1. CASE file[p] = Absent /\ Judge(p, TRUE)
  BY <1>0, <1>1, VerdictKeeps
<1>2. CASE file[p] # Absent /\ file[p].m = record[p].m /\ Judge(p, FALSE)
  <2>1. VersionOf(record, p) \in versions
    BY <1>0 DEF FreshInv, Known
  <2>2. Since(p, check.asked)
    BY <1>0, <1>2, <2>1, SameTime DEF VersionOf
  <2> QED
    BY <1>0, <1>2, <2>2, VerdictKeeps
<1>3. ASSUME file[p] # Absent, NEW h \in KnownHash(p, file[p].m),
             Judge(p, h.c # record[p].c)
      PROVE  FreshInv'
  <2>1. h.c = record[p].c => Since(p, check.asked)
    BY <1>0, <1>3, SameTime DEF KnownHash
  <2>2. (h.c # record[p].c) \in BOOLEAN
    OBVIOUS
  <2>3. (h.c # record[p].c) = FALSE => Since(p, check.asked)
    BY <2>1
  <2> QED
    BY <1>0, <1>3, <2>2, <2>3, VerdictKeeps
<1>4. CASE check' = [check EXCEPT !.pc = "reading", !.p = p, !.m = file[p].m]
           /\ file[p] # Absent
  <2>1. CheckShape'
    <3>1. /\ check.stale \in BOOLEAN /\ check.todo \in SUBSET Paths
          /\ check.status \in {"none", "fresh", "stale"}
      BY DEF FreshInv, CheckShape, CheckType
    <3>2. check' = [pc |-> "reading", asked |-> check.asked, todo |-> check.todo,
                    stale |-> check.stale, p |-> p, m |-> file[p].m,
                    status |-> check.status]
      BY <1>4 DEF FreshInv, CheckShape, CheckType
    <3>3. file[p].m \in Int
      BY <1>4 DEF FreshInv, FreshShape, File
    <3> QED
      BY <1>0, <3>1, <3>2, <3>3, Zenon DEF CheckShape, CheckType, Paths
  <2>2. /\ check'.pc = "reading" /\ check'.p = p /\ check'.todo = check.todo
        /\ check'.asked = check.asked /\ check'.stale = check.stale
    BY <1>4 DEF FreshInv, CheckShape, CheckType
  <2>3. /\ FreshShape' /\ Known' /\ Compared' /\ Revealed'
    BY <1>0 DEF FreshInv, FreshShape, Known, VersionOf, Compared, Matches, Revealed,
       Paths, Dirs, Dir, File, Absent, NoScan, indexVars
  <2>4. \A q \in Paths, t \in Int : Since(q, t) => Since(q, t)'
    BY <1>0, SinceStays DEF indexVars
  <2>5. SnapHonest'
    BY <1>0, <2>4 DEF FreshInv, FreshShape, SnapHonest, Paths
  <2>6. CheckHonest'
    BY <1>0, <2>2, <2>4 DEF FreshInv, CheckHonest, Paths, indexVars
  <2>7. FreshWithinTtl'
    BY <2>2 DEF FreshWithinTtl
  <2> QED
    BY <2>1, <2>3, <2>5, <2>6, <2>7 DEF FreshInv
<1> QED
  BY <1>1, <1>2, <1>3, <1>4 DEF StatFile

LEMMA ReadKeeps == ASSUME FreshInv, ReadFile PROVE FreshInv'
<1> DEFINE p == check.p
<1>0. /\ check.pc = "reading" /\ p \in check.todo /\ p \in Paths /\ record[p] # Absent
      /\ UNCHANGED <<clock, changes, file, dirTime, indexVars, snap, differs>>
      /\ hashes \subseteq versions
  BY DEF FreshInv, CheckHonest, CheckShape, CheckType, FreshShape, ReadFile
<1>1. CASE file[p] = Absent
  <2>1. Judge(p, TRUE) /\ UNCHANGED <<hashes, versions>>
    BY <1>1 DEF ReadFile
  <2> QED
    BY <1>0, <2>1, VerdictKeeps
<1>2. CASE file[p] # Absent
  <2>1. /\ Judge(p, file[p].c # record[p].c)
        /\ versions \subseteq versions' /\ hashes' \subseteq versions'
    BY <1>0, <1>2 DEF ReadFile
  <2>2. (file[p].c # record[p].c) = FALSE => Since(p, check.asked)
    BY <1>0 DEF FreshInv, Compared, Matches, Since
  <2>3. (file[p].c # record[p].c) \in BOOLEAN
    OBVIOUS
  <2> QED
    BY <1>0, <2>1, <2>2, <2>3, VerdictKeeps
<1> QED
  BY <1>1, <1>2

\* A step that leaves the tree, the index and the versions as they are.
LEMMA ServingKeeps ==
    ASSUME FreshInv,
           UNCHANGED <<clock, diskVars, indexVars, hashes, differs>>,
           CheckShape', SnapHonest', CheckHonest', FreshWithinTtl',
           snap' \in [status : {"none", "fresh", "stale"}, at : Int]
    PROVE  FreshInv'
<1> USE DEF FreshInv, diskVars, indexVars
<1>1. FreshShape'
  BY Zenon DEF FreshShape, Paths, Dirs, Dir, File, Absent, NoScan
<1>2. Known' /\ Compared' /\ Revealed'
  BY DEF Known, VersionOf, Compared, Matches, Revealed, Paths, Dirs, Dir, NoScan
<1> QED
  BY <1>1, <1>2

LEMMA StartKeeps == ASSUME FreshInv, StartCheck PROVE FreshInv'
<1>0. clock \in Int /\ snap.at \in Int
  BY DEF FreshInv, FreshShape
<1> DEFINE todo == {p \in Paths : record[p] # Absent}
           added == Added # {}
<1>1. check' = [pc |-> "checking", asked |-> clock, todo |-> todo, stale |-> added,
                p |-> "none", m |-> -1, status |-> "none"]
  BY DEF StartCheck, NoCheck
<1>2. added \in BOOLEAN /\ todo \in SUBSET Paths /\ -1 \in Int
  OBVIOUS
<1>3. ASSUME added = FALSE, NEW p \in Paths \ todo PROVE Since(p, clock)
  <2>1. record[p] = Absent /\ p \notin Added
    BY <1>3
  <2>2. CASE file[p] = Absent
    BY <2>1, <2>2 DEF FreshInv, Compared, Matches, Since
  <2>3. CASE file[p] # Absent
    <3>1. recDirs[Dir(p)] = NeverSeen \/ recDirs[Dir(p)] = dirTime[Dir(p)]
      BY <2>1, <2>3 DEF Added
    <3> QED
      BY <2>1, <2>3, <3>1 DEF FreshInv, Revealed, Since, Excused
  <2> QED
    BY <2>2, <2>3
<1>t. \A p \in Paths : p \in todo <=> record[p] # Absent
  OBVIOUS
<1> HIDE DEF added, todo
<1>4. CheckShape'
  BY <1>0, <1>1, <1>2, Zenon DEF CheckShape, CheckType, Paths
<1>5. \A p \in Paths, t \in Int : Since(p, t) => Since(p, t)'
  BY SinceStays DEF StartCheck, diskVars, indexVars
<1>6. SnapHonest'
  BY <1>0, <1>5 DEF FreshInv, StartCheck, SnapHonest, Paths, diskVars
<1>7. /\ check'.pc = "checking" /\ check'.asked = clock /\ check'.todo = todo
      /\ check'.stale = FALSE => added = FALSE
  BY <1>1
<1>8. CheckHonest'
  <2>1. ASSUME check'.stale = FALSE, NEW p \in Paths \ check'.todo
        PROVE  Since(p, check.asked)'
    <3>1. added = FALSE /\ p \in Paths \ todo
      BY <1>7, <2>1
    <3>2. Since(p, clock)
      BY <1>3, <3>1
    <3> QED
      BY <1>0, <1>5, <1>7, <2>1, <3>2
  <2>2. clock' = clock /\ \A p \in check'.todo : record'[p] # Absent
    BY <1>2, <1>7, <1>t DEF StartCheck, indexVars
  <2>3. check'.asked <= clock'
    BY <1>0, <1>7, <2>2
  <2>4. check'.pc # "reading"
    BY <1>7
  <2>5. check'.stale = FALSE => \A p \in Paths \ check'.todo : Since(p, check.asked)'
    BY <2>1
  <2> QED
    BY <2>2, <2>3, <2>4, <2>5 DEF CheckHonest, Paths
<1>9. FreshWithinTtl'
  BY <1>7 DEF FreshWithinTtl
<1> QED
  BY <1>4, <1>6, <1>8, <1>9, ServingKeeps DEF FreshInv, FreshShape, StartCheck

\* The answer is as honest as what it is given from, a cached snapshot or the
\* check that ends.
LEMMA AnswerKeeps == ASSUME FreshInv, AnswerCached \/ EndCheck PROVE FreshInv'
<1> USE FreshConstants DEF FreshInv
<1>0. /\ clock \in Int /\ snap.at \in Int /\ check.asked \in Int
      /\ check.todo \in SUBSET Paths /\ snap.status \in {"none", "fresh", "stale"}
  BY DEF FreshShape, CheckShape, CheckType
<1>1. PICK asked \in Int, status \in {"none", "fresh", "stale"} :
         /\ check' = [NoCheck EXCEPT !.pc = "answered", !.asked = asked,
                                     !.status = status]
         /\ asked <= clock
         /\ status = "fresh" => \A p \in Paths : Since(p, asked - Ttl)
         /\ snap'.at \in Int /\ snap'.at <= clock
         /\ snap' \in [status : {"none", "fresh", "stale"}, at : Int]
         /\ snap'.status = "fresh" => \A p \in Paths : Since(p, snap'.at)
  <2>1. CASE AnswerCached
    <3>1. /\ clock - snap.at <= Ttl
          /\ check' = [NoCheck EXCEPT !.pc = "answered", !.asked = clock,
                                      !.status = snap.status]
          /\ snap' = snap
      BY <2>1 DEF AnswerCached
    <3>2. ASSUME snap.status = "fresh", NEW p \in Paths PROVE Since(p, clock - Ttl)
      BY <1>0, <3>1, <3>2 DEF SnapHonest, Since, FreshShape
    <3>3. /\ clock <= clock /\ snap'.at \in Int /\ snap'.at <= clock
          /\ snap' \in [status : {"none", "fresh", "stale"}, at : Int]
          /\ snap'.status = "fresh" => \A p \in Paths : Since(p, snap'.at)
      BY <1>0, <3>1 DEF SnapHonest, FreshShape
    <3>4. snap.status = "fresh" => \A p \in Paths : Since(p, clock - Ttl)
      BY <3>2
    <3> QED
      BY <1>0, <3>1, <3>3, <3>4, Zenon
  <2>2. CASE EndCheck
    <3> DEFINE status == IF check.stale THEN "stale" ELSE "fresh"
    <3>1. /\ check.pc = "checking" /\ check.todo = {}
          /\ check' = [NoCheck EXCEPT !.pc = "answered", !.asked = check.asked,
                                      !.status = status]
          /\ snap' = [status |-> status, at |-> check.asked]
      BY <2>2 DEF EndCheck
    <3>2. status = "fresh" => check.stale = FALSE
      BY Zenon DEF CheckShape, CheckType
    <3>3. status \in {"fresh", "stale"}
      OBVIOUS
    <3> HIDE DEF status
    <3>4. ASSUME status = "fresh", NEW p \in Paths
          PROVE  Since(p, check.asked) /\ Since(p, check.asked - Ttl)
      <4>1. Since(p, check.asked)
        BY <3>1, <3>2, <3>4 DEF CheckHonest
      <4> QED
        BY <1>0, <4>1 DEF Since, FreshShape
    <3>5. /\ snap'.at = check.asked /\ snap'.status = status
          /\ snap' \in [status : {"none", "fresh", "stale"}, at : Int]
      BY <1>0, <3>1, <3>3
    <3>6. check.asked <= clock
      BY DEF CheckHonest
    <3> QED
      BY <1>0, <3>1, <3>3, <3>4, <3>5, <3>6
  <2> QED
    BY <2>1, <2>2
<1>2. UNCHANGED <<clock, diskVars, indexVars, hashes, differs>>
  BY DEF AnswerCached, EndCheck
<1>3. check' = [pc |-> "answered", asked |-> asked, todo |-> {}, stale |-> FALSE,
                p |-> "none", m |-> -1, status |-> status]
  BY <1>1 DEF NoCheck
<1>4. CheckShape'
  <2>1. -1 \in Int /\ {} \in SUBSET Paths /\ FALSE \in BOOLEAN
    OBVIOUS
  <2> QED
    BY <1>3, <2>1, Zenon DEF CheckShape, CheckType, Paths
<1>5. \A p \in Paths, t \in Int : Since(p, t) => Since(p, t)'
  BY <1>2, SinceStays DEF diskVars, indexVars
<1>6. SnapHonest'
  BY <1>1, <1>2, <1>5 DEF SnapHonest, Paths, diskVars
<1>7. check'.pc = "answered" /\ check'.asked = asked /\ check'.status = status
  BY <1>3
<1>8. CheckHonest'
  BY <1>1, <1>2, <1>7 DEF CheckHonest
<1>9. FreshWithinTtl'
  <2>1. asked - Ttl \in Int
    OBVIOUS
  <2>2. status = "fresh" => \A p \in Paths : Since(p, asked - Ttl)'
    BY <1>1, <1>5, <2>1
  <2> QED
    BY <1>7, <2>2 DEF FreshWithinTtl, Since, Excused, Paths, Dir
<1> QED
  BY <1>1, <1>2, <1>4, <1>6, <1>8, <1>9, ServingKeeps

LEMMA DropKeeps ==
    ASSUME FreshInv, AnswerChecked \/ InvalidateSnapshots
    PROVE  FreshInv'
<1> USE DEF FreshInv
<1>1. /\ UNCHANGED <<clock, diskVars, indexVars, hashes, differs>>
      /\ check' = check \/ check' = NoCheck
      /\ snap' = snap \/ snap' = NoSnap
  BY DEF AnswerChecked, InvalidateSnapshots
<1>2. NoCheck \in CheckType
  <2>1. -1 \in Int /\ {} \in SUBSET Paths /\ FALSE \in BOOLEAN
    OBVIOUS
  <2> QED
    BY <2>1, Zenon DEF NoCheck, CheckType
<1>3. CheckShape'
  BY <1>1, <1>2, Zenon DEF CheckShape, CheckType, Paths
<1>4. \A p \in Paths, t \in Int : Since(p, t) => Since(p, t)'
  BY <1>1, SinceStays DEF diskVars, indexVars
<1>5. /\ clock \in Int /\ clock >= 0 /\ snap.at \in Int /\ check.asked \in Int
      /\ check.asked - Ttl \in Int
      /\ check.todo \in SUBSET Paths
      /\ snap' \in [status : {"none", "fresh", "stale"}, at : Int]
  BY <1>1, FreshConstants DEF FreshShape, CheckShape, CheckType, NoSnap
<1>6. SnapHonest'
  BY <1>1, <1>4, <1>5 DEF SnapHonest, NoSnap, Paths, diskVars
<1>7. CheckHonest'
  BY <1>1, <1>4, <1>5 DEF CheckHonest, NoCheck, Paths, diskVars, indexVars
<1>8. FreshWithinTtl'
  BY <1>1, <1>4, <1>5
     DEF FreshWithinTtl, Since, Excused, Indistinguishable, NoCheck, Paths, Dir,
         diskVars, indexVars
<1> QED
  BY <1>1, <1>3, <1>5, <1>6, <1>7, <1>8, ServingKeeps

----------------------------------------------------------------------------
LEMMA FreshStep == FreshInv /\ [FreshNext]_freshVars => FreshInv'
<1> SUFFICES ASSUME FreshInv, [FreshNext]_freshVars PROVE FreshInv'
  OBVIOUS
<1>1. CASE UNCHANGED freshVars
  <2>1. FreshShape'
    BY <1>1, Zenon DEF freshVars, FreshInv, FreshShape, Paths, Dirs, Dir, File, Absent, NoScan
  <2> QED
    BY <1>1, <2>1, QuietKeeps DEF freshVars, FreshInv, FreshShape
<1> QED
  BY <1>1, TreeKeeps, OutsideKeeps, StampKeeps, StatKeeps, ReadKeeps, StartKeeps,
     AnswerKeeps, DropKeeps
     DEF FreshNext

LEMMA FreshInvariant == FreshSpec => []FreshInv
  BY FreshInit_Inv, FreshStep, PTL DEF FreshSpec

\* Every state of the freshness cache is well typed.
THEOREM FreshTyped == FreshSpec => []FreshTypeOK
<1>1. FreshInv => FreshTypeOK
  BY DEF FreshInv, FreshShape, CheckShape, CheckType, FreshTypeOK, File
<1> QED
  BY <1>1, FreshInvariant, PTL

\* An answer "fresh" is never older than Ttl, for any files, contents and
\* bounds, but for what times and sizes cannot tell and unrevealed new files.
THEOREM FreshAnswers == FreshSpec => []FreshWithinTtl
<1>1. FreshInv => FreshWithinTtl
  BY DEF FreshInv
<1> QED
  BY <1>1, FreshInvariant, PTL

----------------------------------------------------------------------------
(* GraphCache: the keys used last are cached, in the order of their use,    *)
(* and threads share the graph of a key.  The argument is about a sequence  *)
(* of graphs and one of uses (LastUsed): both lists lose the same keys, and *)
(* what is used goes to the end of both.                                    *)

Graph == [key : Keys, load : 1..loads]
In(g, k) == \E i \in 1..Len(g) : g[i].key = k
Once(g) == \A i, j \in 1..Len(g) : g[i].key = g[j].key => i = j

\* g holds the keys that were used last, in the order of uses u.
LastUsed(g, u) ==
    /\ Once(g)
    /\ \A a, b \in 1..Len(u) : u[a] = u[b] => a = b
    /\ \A i \in 1..Len(g) : \E a \in 1..Len(u) : u[a] = g[i].key
    /\ \A i, j \in 1..Len(g), a, b \in 1..Len(u) :
          u[a] = g[i].key /\ u[b] = g[j].key /\ i < j => a < b
    /\ \A a, b \in 1..Len(u) : a < b /\ In(g, u[a]) => In(g, u[b])

GraphShape ==
    /\ graphs \in Seq(Graph) /\ uses \in Seq(Keys)
    /\ gat \in [Getters -> {"idle", "loading", "loaded", "done"}]
    /\ wanted \in [Getters -> Keys] /\ left \subseteq Getters
    /\ loads \in Nat /\ held \in [Getters -> 0..loads]
    /\ \A t \in Getters : gat[t] = "loaded" => held[t] # 0

OneObject ==
    \A t \in Getters : gat[t] = "done" /\ t \notin left =>
        \E i \in 1..Len(graphs) : graphs[i] = [key |-> wanted[t], load |-> held[t]]

GraphInv ==
    GraphShape /\ Len(graphs) <= Capacity /\ LastUsed(graphs, uses) /\ OneObject

----------------------------------------------------------------------------
(* The two lists *)

LEMMA NothingUsed == LastUsed(<<>>, <<>>)
  BY DEF LastUsed, Once, In

\* Both lists lose the same keys.
LEMMA LoseKeys ==
    ASSUME NEW S, NEW g \in Seq(S), NEW u \in Seq(Keys), NEW gone, LastUsed(g, u)
    PROVE  LastUsed(Picked(g, {i \in 1..Len(g) : g[i].key \notin gone}),
                    Picked(u, {a \in 1..Len(u) : u[a] \notin gone}))
<1> DEFINE I == {i \in 1..Len(g) : g[i].key \notin gone}
           A == {a \in 1..Len(u) : u[a] \notin gone}
<1>1. I \in SUBSET (1..Len(g)) /\ A \in SUBSET (1..Len(u))
  OBVIOUS
<1> HIDE DEF I, A
<1>2. PICK f : InOrderOf(f, Picked(g, I), g, I)
  BY <1>1, PickedOrder
<1>3. PICK e : InOrderOf(e, Picked(u, A), u, A)
  BY <1>1, PickedOrder
<1>p. Picked(g, I) \in Seq(S) /\ Picked(u, A) \in Seq(Keys)
  BY <1>1, PickedItems
<1> DEFINE h == Picked(g, I)
           v == Picked(u, A)
<1>4. Len(h) \in Nat /\ Len(v) \in Nat /\ Len(g) \in Nat /\ Len(u) \in Nat
  BY <1>p, LenProperties
<1>5. /\ \A i \in 1..Len(h) : f[i] \in 1..Len(g) /\ g[f[i]].key \notin gone
      /\ \A i \in 1..Len(g) : g[i].key \notin gone => \E j \in 1..Len(h) : f[j] = i
      /\ \A a \in 1..Len(v) : e[a] \in 1..Len(u) /\ u[e[a]] \notin gone
      /\ \A a \in 1..Len(u) : u[a] \notin gone => \E b \in 1..Len(v) : e[b] = a
  BY <1>2, <1>3 DEF I, A, InOrderOf
<1>h. /\ \A i \in 1..Len(h) : h[i] = g[f[i]]
      /\ \A i, j \in 1..Len(h) : i < j <=> f[i] < f[j]
      /\ \A a \in 1..Len(v) : v[a] = u[e[a]]
      /\ \A a, b \in 1..Len(v) : a < b <=> e[a] < e[b]
  BY <1>2, <1>3 DEF InOrderOf
<1> HIDE DEF h, v
<1>6. \A i, j \in 1..Len(h) : f[i] = f[j] => i = j
  BY <1>h, <1>4, <1>5
<1>7. \A a, b \in 1..Len(v) : e[a] = e[b] => a = b
  BY <1>h, <1>4, <1>5
<1>8. Once(h)
  <2>1. Once(g)
    BY DEF LastUsed
  <2>2. SUFFICES ASSUME NEW i \in 1..Len(h), NEW j \in 1..Len(h), h[i].key = h[j].key
                 PROVE  i = j
    BY DEF Once
  <2>3. /\ f[i] \in 1..Len(g) /\ f[j] \in 1..Len(g)
        /\ g[f[i]].key = g[f[j]].key
    BY <1>h, <1>5, <2>2
  <2> QED
    BY <1>6, <2>1, <2>3 DEF Once
<1>9. \A a, b \in 1..Len(v) : v[a] = v[b] => a = b
  <2> TAKE a, b \in 1..Len(v)
  <2> HAVE v[a] = v[b]
  <2>1. e[a] \in 1..Len(u) /\ e[b] \in 1..Len(u) /\ u[e[a]] = u[e[b]]
    BY <1>h, <1>5
  <2>2. e[a] = e[b]
    BY <2>1 DEF LastUsed
  <2> QED
    BY <1>7, <2>2
<1>10. \A i \in 1..Len(h) : \E a \in 1..Len(v) : v[a] = h[i].key
  <2> TAKE i \in 1..Len(h)
  <2>1. PICK c \in 1..Len(u) : u[c] = g[f[i]].key
    BY <1>5 DEF LastUsed
  <2>2. PICK a \in 1..Len(v) : e[a] = c
    BY <1>5, <2>1
  <2> QED
    BY <1>h, <2>1, <2>2
<1>11. ASSUME NEW i \in 1..Len(h), NEW j \in 1..Len(h),
              NEW a \in 1..Len(v), NEW b \in 1..Len(v),
              v[a] = h[i].key, v[b] = h[j].key, i < j
       PROVE  a < b
  <2>1. /\ f[i] \in 1..Len(g) /\ f[j] \in 1..Len(g) /\ f[i] < f[j]
        /\ e[a] \in 1..Len(u) /\ e[b] \in 1..Len(u)
        /\ u[e[a]] = g[f[i]].key /\ u[e[b]] = g[f[j]].key
    BY <1>h, <1>5, <1>11
  <2>2. e[a] < e[b]
    BY <2>1 DEF LastUsed
  <2> QED
    BY <1>h, <2>2
<1>12. \A k : In(h, k) <=> In(g, k) /\ k \notin gone
  <2> TAKE k
  <2>1. ASSUME In(h, k) PROVE In(g, k) /\ k \notin gone
    <3>1. PICK i \in 1..Len(h) : h[i].key = k
      BY <2>1 DEF In
    <3>2. f[i] \in 1..Len(g) /\ g[f[i]].key = k /\ k \notin gone
      BY <1>h, <1>5, <3>1
    <3> QED
      BY <3>2 DEF In
  <2>2. ASSUME In(g, k), k \notin gone PROVE In(h, k)
    <3>1. PICK i \in 1..Len(g) : g[i].key = k
      BY <2>2 DEF In
    <3>2. PICK j \in 1..Len(h) : f[j] = i
      BY <1>5, <2>2, <3>1
    <3> QED
      BY <1>h, <3>1, <3>2 DEF In
  <2> QED
    BY <2>1, <2>2
<1>13. ASSUME NEW a \in 1..Len(v), NEW b \in 1..Len(v), a < b, In(h, v[a])
       PROVE  In(h, v[b])
  <2>1. /\ e[a] < e[b] /\ e[a] \in 1..Len(u) /\ e[b] \in 1..Len(u)
        /\ v[a] = u[e[a]] /\ v[b] = u[e[b]] /\ v[b] \notin gone
    BY <1>h, <1>5, <1>13
  <2>2. In(g, u[e[a]])
    BY <1>12, <1>13, <2>1
  <2> QED
    BY <1>12, <2>1, <2>2 DEF LastUsed
<1>14. LastUsed(h, v)
  BY <1>8, <1>9, <1>10, <1>11, <1>13 DEF LastUsed
<1> QED
  BY <1>14 DEF h, v, I, A

\* A key that neither list has goes to the end of both.
LEMMA UseKey ==
    ASSUME NEW S, NEW g \in Seq(S), NEW u \in Seq(Keys), LastUsed(g, u),
           NEW e \in S, NEW k \in Keys, e.key = k,
           \A a \in 1..Len(u) : u[a] # k
    PROVE  LastUsed(Append(g, e), Append(u, k))
<1> DEFINE h == Append(g, e)
           v == Append(u, k)
<1>1. /\ Len(g) \in Nat /\ Len(u) \in Nat
      /\ Len(h) = Len(g) + 1 /\ Len(v) = Len(u) + 1
      /\ \A i \in 1..Len(g) : h[i] = g[i]
      /\ \A a \in 1..Len(u) : v[a] = u[a]
      /\ h[Len(g) + 1] = e /\ v[Len(u) + 1] = k
  BY AppendProperties, LenProperties
<1> HIDE DEF h, v
<1>2. \A i \in 1..Len(g) : g[i].key # k
  BY DEF LastUsed
<1>3. Once(h)
  <2>1. \A i, j \in 1..Len(g) : g[i].key = g[j].key => i = j
    BY DEF LastUsed, Once
  <2> SUFFICES ASSUME NEW i \in 1..Len(h), NEW j \in 1..Len(h), h[i].key = h[j].key
               PROVE  i = j
    BY DEF Once
  <2>2. \A n \in 1..Len(h) : n \in 1..Len(g) \/ n = Len(g) + 1
    BY <1>1
  <2>3. CASE i = Len(g) + 1
    BY <1>1, <1>2, <2>2, <2>3
  <2>4. CASE i \in 1..Len(g)
    BY <1>1, <1>2, <2>1, <2>2, <2>4
  <2> QED
    BY <2>2, <2>3, <2>4
<1>4. \A a, b \in 1..Len(v) : v[a] = v[b] => a = b
  BY <1>1 DEF LastUsed
<1>5. \A i \in 1..Len(h) : \E a \in 1..Len(v) : v[a] = h[i].key
  <2> TAKE i \in 1..Len(h)
  <2>1. CASE i = Len(g) + 1
    <3>1. Len(u) + 1 \in 1..Len(v)
      BY <1>1
    <3> QED
      BY <1>1, <2>1, <3>1
  <2>2. CASE i \in 1..Len(g)
    <3>1. PICK a \in 1..Len(u) : u[a] = g[i].key
      BY <2>2 DEF LastUsed
    <3>2. a \in 1..Len(v)
      BY <1>1
    <3> QED
      BY <1>1, <2>2, <3>1, <3>2
  <2> QED
    BY <1>1, <2>1, <2>2
<1>6. ASSUME NEW i \in 1..Len(h), NEW j \in 1..Len(h),
             NEW a \in 1..Len(v), NEW b \in 1..Len(v),
             v[a] = h[i].key, v[b] = h[j].key, i < j
      PROVE  a < b
  <2>1. i \in 1..Len(g)
    BY <1>1, <1>6
  <2>2. a \in 1..Len(u)
    BY <1>1, <1>2, <1>6, <2>1
  <2>3. CASE j = Len(g) + 1
    <3>1. b = Len(u) + 1
      BY <1>1, <1>6, <2>3
    <3> QED
      BY <1>1, <2>2, <3>1
  <2>4. CASE j \in 1..Len(g)
    <3>1. b \in 1..Len(u)
      BY <1>1, <1>2, <1>6, <2>4
    <3> QED
      BY <1>1, <1>6, <2>1, <2>2, <2>4, <3>1 DEF LastUsed
  <2> QED
    BY <1>1, <2>3, <2>4
<1>7. In(h, k) /\ \A l : In(g, l) => In(h, l)
  <2>1. Len(g) + 1 \in 1..Len(h) /\ \A i \in 1..Len(g) : i \in 1..Len(h)
    BY <1>1
  <2> QED
    BY <1>1, <2>1 DEF In
<1>8. ASSUME NEW a \in 1..Len(v), NEW b \in 1..Len(v), a < b, In(h, v[a])
      PROVE  In(h, v[b])
  <2>1. CASE b = Len(u) + 1
    BY <1>1, <1>7, <2>1
  <2>2. CASE b \in 1..Len(u)
    <3>1. a \in 1..Len(u) /\ v[a] = u[a] /\ v[b] = u[b]
      BY <1>1, <1>8, <2>2
    <3>2. PICK i \in 1..Len(h) : h[i].key = u[a]
      BY <1>8, <3>1 DEF In
    <3>3. i \in 1..Len(g)
      BY <1>1, <3>1, <3>2
    <3>4. In(g, u[a])
      BY <1>1, <3>2, <3>3 DEF In
    <3>5. In(g, u[b])
      BY <1>8, <2>2, <3>1, <3>4 DEF LastUsed
    <3> QED
      BY <1>7, <3>1, <3>5
  <2> QED
    BY <1>1, <2>1, <2>2
<1>9. LastUsed(h, v)
  BY <1>3, <1>4, <1>5, <1>6, <1>8 DEF LastUsed
<1> QED
  BY <1>9 DEF h, v

\* The graphs used least recently may go.
LEMMA LoseFirst ==
    ASSUME NEW S, NEW g \in Seq(S), NEW u \in Seq(Keys), LastUsed(g, u),
           NEW n \in 1..Len(g)
    PROVE  LastUsed(SubSeq(g, n, Len(g)), u)
<1> DEFINE h == SubSeq(g, n, Len(g))
<1>1. /\ Len(g) \in Nat /\ Len(u) \in Nat /\ Len(h) = Len(g) - n + 1
      /\ \A i \in 1..Len(h) : h[i] = g[n + i - 1]
  BY LenProperties, SubSeqProperties
<1>2. \A i \in 1..Len(h) : n + i - 1 \in 1..Len(g)
  BY <1>1
<1>3. \A i \in n..Len(g) : i - n + 1 \in 1..Len(h) /\ h[i - n + 1] = g[i]
  BY <1>1
<1> HIDE DEF h
<1>4. Once(h)
  <2> SUFFICES ASSUME NEW i \in 1..Len(h), NEW j \in 1..Len(h), h[i].key = h[j].key
               PROVE  i = j
    BY DEF Once
  <2>1. /\ n + i - 1 \in 1..Len(g) /\ n + j - 1 \in 1..Len(g)
        /\ g[n + i - 1].key = g[n + j - 1].key
    BY <1>1, <1>2
  <2>2. n + i - 1 = n + j - 1
    BY <2>1 DEF LastUsed, Once
  <2> QED
    BY <2>2, <1>1
<1>5. \A i \in 1..Len(h) : \E a \in 1..Len(u) : u[a] = h[i].key
  <2> TAKE i \in 1..Len(h)
  <2>1. n + i - 1 \in 1..Len(g) /\ h[i] = g[n + i - 1]
    BY <1>1, <1>2
  <2>2. \E a \in 1..Len(u) : u[a] = g[n + i - 1].key
    BY <2>1 DEF LastUsed
  <2> QED
    BY <2>1, <2>2
<1>6. ASSUME NEW i \in 1..Len(h), NEW j \in 1..Len(h),
             NEW a \in 1..Len(u), NEW b \in 1..Len(u),
             u[a] = h[i].key, u[b] = h[j].key, i < j
      PROVE  a < b
  <2>1. n + i - 1 < n + j - 1
    BY <1>1, <1>6
  <2>2. /\ n + i - 1 \in 1..Len(g) /\ n + j - 1 \in 1..Len(g)
        /\ h[i] = g[n + i - 1] /\ h[j] = g[n + j - 1]
    BY <1>1, <1>2
  <2>3. u[a] = g[n + i - 1].key /\ u[b] = g[n + j - 1].key
    BY <1>6, <2>2
  <2>4. \A x, y \in 1..Len(g) : u[a] = g[x].key /\ u[b] = g[y].key /\ x < y => a < b
    BY DEF LastUsed
  <2> QED
    BY <2>1, <2>2, <2>3, <2>4
<1>7. ASSUME NEW a \in 1..Len(u), NEW b \in 1..Len(u), a < b, In(h, u[a])
      PROVE  In(h, u[b])
  <2>1. PICK i \in 1..Len(h) : h[i].key = u[a]
    BY <1>7 DEF In
  <2>2. n + i - 1 \in 1..Len(g) /\ g[n + i - 1].key = u[a]
    BY <1>1, <1>2, <2>1
  <2>3. PICK j \in 1..Len(g) : g[j].key = u[b]
    BY <1>7, <2>2 DEF LastUsed, In
  <2>4. n + i - 1 < j
    <3>1. n + i - 1 # j
      BY <1>7, <2>2, <2>3 DEF LastUsed
    <3>2. j < n + i - 1 => b < a
      BY <2>2, <2>3 DEF LastUsed
    <3> QED
      BY <1>1, <1>7, <2>2, <2>3, <3>1, <3>2
  <2>5. j \in n..Len(g)
    BY <1>1, <2>4
  <2> QED
    BY <1>3, <2>3, <2>5 DEF In
<1>8. LastUsed(h, u)
  BY <1>4, <1>5, <1>6, <1>7 DEF LastUsed
<1> QED
  BY <1>8 DEF h

----------------------------------------------------------------------------
(* What the operations do to the lists *)

LEMMA GraphConstants ==
    Capacity \in Nat /\ Capacity > 0 /\ MaxLoads \in Nat /\ Keys # {}
  BY GraphAssumption DEF GraphAssumption

LEMMA GraphLists ==
    ASSUME GraphShape
    PROVE  /\ Len(graphs) \in Nat /\ DOMAIN graphs = 1..Len(graphs)
           /\ Len(uses) \in Nat /\ DOMAIN uses = 1..Len(uses)
           /\ \A i \in 1..Len(graphs) : graphs[i] \in Graph
  BY LenProperties, ElementOfSeq DEF GraphShape

\* The cardinality of the places of a list.
LEMMA FirstNumbers ==
    ASSUME NEW n \in Nat PROVE IsFiniteSet(1..n) /\ Cardinality(1..n) = n
<1>1. /\ IsFiniteSet(1..n)
      /\ Cardinality(1..n) = IF 1 > n THEN 0 ELSE n - 1 + 1
  BY FS_Interval
<1> QED
  BY <1>1

\* What is left without some keys.
LEMMA WithoutKeys ==
    ASSUME GraphShape, LastUsed(graphs, uses), NEW gone
    PROVE  /\ Others(gone) \in Seq(Graph) /\ UsesWithout(gone) \in Seq(Keys)
           /\ LastUsed(Others(gone), UsesWithout(gone))
           /\ Len(Others(gone)) <= Len(graphs)
           /\ \A a \in 1..Len(UsesWithout(gone)) : UsesWithout(gone)[a] \notin gone
           /\ \A g : (\E i \in 1..Len(Others(gone)) : Others(gone)[i] = g)
                     <=> (\E i \in 1..Len(graphs) : graphs[i] = g /\ g.key \notin gone)
<1> DEFINE I == {i \in 1..Len(graphs) : graphs[i].key \notin gone}
           A == {a \in 1..Len(uses) : uses[a] \notin gone}
<1>0. Others(gone) = Picked(graphs, I) /\ UsesWithout(gone) = Picked(uses, A)
  BY GraphLists DEF Others, UsesWithout
<1>1. I \in SUBSET (1..Len(graphs)) /\ A \in SUBSET (1..Len(uses))
  OBVIOUS
<1>2. graphs \in Seq(Graph) /\ uses \in Seq(Keys)
  BY DEF GraphShape
<1>3. LastUsed(Picked(graphs, I), Picked(uses, A))
  BY <1>2, LoseKeys
<1>4. \A g : (\E i \in I : graphs[i] = g)
            <=> (\E i \in 1..Len(graphs) : graphs[i] = g /\ g.key \notin gone)
  OBVIOUS
<1>5. \A k : (\E a \in A : uses[a] = k) => k \notin gone
  OBVIOUS
<1> HIDE DEF I, A
<1>6. Picked(graphs, I) \in Seq(Graph) /\ Picked(uses, A) \in Seq(Keys)
  BY <1>1, <1>2, PickedItems
<1>7. Len(Picked(graphs, I)) <= Len(graphs)
  <2>0. Len(graphs) \in Nat
    BY GraphLists
  <2>2. IsFiniteSet(1..Len(graphs)) /\ Cardinality(1..Len(graphs)) = Len(graphs)
    BY <2>0, FirstNumbers
  <2>1. Cardinality(I) <= Cardinality(1..Len(graphs))
    BY <1>1, <2>2, FS_Subset
  <2>3. Len(Picked(graphs, I)) = Cardinality(I)
    BY <1>1, <1>2, PickedItems
  <2> QED
    BY <2>1, <2>2, <2>3
<1>8. \A g : (\E i \in 1..Len(Picked(graphs, I)) : Picked(graphs, I)[i] = g)
            <=> (\E i \in I : graphs[i] = g)
  BY <1>1, <1>2, PickedContents
<1>9. \A k : (\E a \in 1..Len(Picked(uses, A)) : Picked(uses, A)[a] = k)
            <=> (\E a \in A : uses[a] = k)
  BY <1>1, <1>2, PickedContents
<1> QED
  BY <1>0, <1>3, <1>4, <1>5, <1>6, <1>7, <1>8, <1>9

LEMMA EntryCached ==
    ASSUME GraphShape, NEW k, Cached(k)
    PROVE  /\ EntryOf(k) \in Graph /\ EntryOf(k).key = k
           /\ \E i \in 1..Len(graphs) : graphs[i] = EntryOf(k)
<1>1. ToSet(graphs) = {graphs[i] : i \in 1..Len(graphs)}
  BY GraphLists DEF ToSet
<1>2. \E g \in ToSet(graphs) : g.key = k
  BY <1>1, GraphLists DEF Cached
<1>3. EntryOf(k) \in ToSet(graphs) /\ EntryOf(k).key = k
  BY <1>2 DEF EntryOf
<1> QED
  BY <1>1, <1>3, GraphLists

\* A graph that is used goes to the end.
LEMMA MovedToEnd ==
    ASSUME GraphShape, LastUsed(graphs, uses), NEW k \in Keys, Cached(k), Use(k)
    PROVE  /\ MoveToEnd(k) \in Seq(Graph) /\ uses' \in Seq(Keys)
           /\ LastUsed(MoveToEnd(k), uses')
           /\ Len(MoveToEnd(k)) <= Len(graphs)
           /\ \A i \in 1..Len(graphs) : \E j \in 1..Len(MoveToEnd(k)) :
                 MoveToEnd(k)[j] = graphs[i]
<1> DEFINE o == Others({k})
           v == UsesWithout({k})
           e == EntryOf(k)
<1>1. /\ o \in Seq(Graph) /\ v \in Seq(Keys) /\ LastUsed(o, v)
      /\ \A a \in 1..Len(v) : v[a] # k
      /\ \A g : (\E i \in 1..Len(o) : o[i] = g)
                <=> (\E i \in 1..Len(graphs) : graphs[i] = g /\ g.key \notin {k})
  <2>1. \A a \in 1..Len(v) : v[a] \notin {k}
    BY WithoutKeys
  <2> QED
    BY <2>1, WithoutKeys
<1>2. PICK n \in 1..Len(graphs) : graphs[n] = e
  BY EntryCached
<1>3. e \in Graph /\ e.key = k
  BY EntryCached
<1>4. Len(o) = Len(graphs) - 1
  <2>1. {i \in DOMAIN graphs : graphs[i].key \notin {k}} = 1..Len(graphs) \ {n}
    BY <1>2, <1>3, GraphLists DEF LastUsed, Once
  <2> QED
    BY <2>1, PickedAllButOne DEF Others, GraphShape
<1> HIDE DEF o, v, e
<1>5. LastUsed(Append(o, e), Append(v, k))
  BY <1>1, <1>3, UseKey
<1>6. /\ Append(o, e) \in Seq(Graph) /\ Append(v, k) \in Seq(Keys)
      /\ Len(Append(o, e)) = Len(o) + 1 /\ Len(o) \in Nat
      /\ \A i \in 1..Len(o) : Append(o, e)[i] = o[i]
      /\ Append(o, e)[Len(o) + 1] = e
  BY <1>1, <1>3, AppendProperties, LenProperties
<1>7. ASSUME NEW i \in 1..Len(graphs)
      PROVE  \E j \in 1..Len(Append(o, e)) : Append(o, e)[j] = graphs[i]
  <2>1. CASE i = n
    <3>1. Len(o) + 1 \in 1..Len(Append(o, e))
      BY <1>6
    <3> QED
      BY <1>2, <1>6, <2>1, <3>1
  <2>2. CASE i # n
    <3>1. graphs[i].key # k
      BY <1>2, <1>3, <2>2 DEF LastUsed, Once
    <3>2. PICK j \in 1..Len(o) : o[j] = graphs[i]
      BY <1>1, <3>1
    <3>3. j \in 1..Len(Append(o, e))
      BY <1>6
    <3> QED
      BY <1>6, <3>2, <3>3
  <2> QED
    BY <2>1, <2>2
<1>8. MoveToEnd(k) = Append(o, e) /\ uses' = Append(v, k)
  BY DEF MoveToEnd, Use, o, v, e
<1>9. Len(Append(o, e)) <= Len(graphs)
  BY <1>4, <1>6, GraphLists
<1> QED
  BY <1>5, <1>6, <1>7, <1>8, <1>9

\* A new graph goes to the end, and the least used ones may have to go.
LEMMA GraphAdded ==
    ASSUME GraphShape, LastUsed(graphs, uses), Len(graphs) <= Capacity,
           NEW g \in Graph, ~ Cached(g.key), Use(g.key)
    PROVE  LET grown == Append(graphs, g) IN
           /\ Evict(grown) \in Seq(Graph) /\ uses' \in Seq(Keys)
           /\ Len(Evict(grown)) <= Capacity
           /\ LastUsed(Evict(grown), uses')
           /\ \E j \in 1..Len(Evict(grown)) : Evict(grown)[j] = g
           /\ \A i \in 1..Len(graphs) :
                 \/ \E j \in 1..Len(Evict(grown)) : Evict(grown)[j] = graphs[i]
                 \/ graphs[i] \in Evicted(grown)
<1> DEFINE k == g.key
           grown == Append(graphs, g)
           n == 1 + (IF Len(grown) > Capacity THEN Len(grown) - Capacity ELSE 0)
           v == UsesWithout({k})
           h == SubSeq(grown, n, Len(grown))
<1>0. k \in Keys
  BY DEF Graph
<1>1. \A i \in 1..Len(graphs) : graphs[i].key # k
  BY GraphLists DEF Cached
<1>2. Others({k}) = graphs
  <2>1. {i \in DOMAIN graphs : graphs[i].key \notin {k}} = 1..Len(graphs)
    BY <1>1, GraphLists
  <2> QED
    BY <2>1, PickedAll DEF Others, GraphShape
<1>3. /\ v \in Seq(Keys) /\ LastUsed(graphs, v)
      /\ \A a \in 1..Len(v) : v[a] # k
  BY <1>2, WithoutKeys
<1>4. LastUsed(grown, Append(v, k))
  <2>1. graphs \in Seq(Graph)
    BY DEF GraphShape
  <2> HIDE DEF v, k
  <2>2. g.key = k
    BY DEF k
  <2> QED
    BY <1>0, <1>3, <2>1, <2>2, UseKey
<1>5. /\ grown \in Seq(Graph) /\ Len(grown) = Len(graphs) + 1
      /\ \A i \in 1..Len(graphs) : grown[i] = graphs[i]
      /\ grown[Len(graphs) + 1] = g /\ Len(graphs) \in Nat
  BY AppendProperties, GraphLists DEF GraphShape
<1>6. uses' = Append(v, k) /\ Append(v, k) \in Seq(Keys)
  <2>1. uses' = Append(v, k)
    BY DEF Use
  <2> HIDE DEF v, k
  <2> QED
    BY <1>0, <1>3, <2>1, AppendProperties
<1> HIDE DEF k, grown, v
<1>7. n \in 1..Len(grown) /\ n <= 2 /\ Len(grown) - n + 1 <= Capacity
  BY <1>5, GraphConstants
<1> HIDE DEF n
<1>8. /\ h \in Seq(Graph) /\ Len(h) = Len(grown) - n + 1
      /\ \A i \in 1..Len(h) : h[i] = grown[n + i - 1]
  BY <1>5, <1>7, SubSeqProperties
<1>9. LastUsed(h, Append(v, k))
  BY <1>4, <1>5, <1>6, <1>7, LoseFirst
<1> HIDE DEF h
<1>10. \A i \in n..Len(grown) : i - n + 1 \in 1..Len(h) /\ h[i - n + 1] = grown[i]
  BY <1>5, <1>7, <1>8
<1>11. \E j \in 1..Len(h) : h[j] = g
  <2>1. Len(grown) \in n..Len(grown) /\ grown[Len(grown)] = g
    BY <1>5, <1>7
  <2> QED
    BY <1>10, <2>1
<1>12. h = Evict(grown)
  BY DEF Evict, h, n
<1>13. ASSUME NEW i \in 1..Len(graphs), \A j \in 1..Len(h) : h[j] # graphs[i]
       PROVE  graphs[i] \in Evicted(grown)
  <2>1. /\ DOMAIN grown = 1..Len(grown) /\ DOMAIN h = 1..Len(h)
        /\ i \in 1..Len(grown)
    BY <1>5, <1>8, LenProperties
  <2>2. graphs[i] \in ToSet(grown) /\ graphs[i] \notin ToSet(h)
    BY <1>5, <1>13, <2>1 DEF ToSet
  <2> QED
    BY <1>12, <2>2 DEF Evicted
<1>14. Len(h) <= Capacity
  BY <1>7, <1>8
<1> QED
  BY <1>6, <1>8, <1>9, <1>11, <1>12, <1>13, <1>14 DEF grown, k

----------------------------------------------------------------------------
(* The steps *)

LEMMA GraphInit_Inv == GraphInit => GraphInv
<1> SUFFICES ASSUME GraphInit PROVE GraphInv
  OBVIOUS
<1>1. GraphShape
  <2>1. (CHOOSE k \in Keys : TRUE) \in Keys
    BY GraphConstants
  <2> QED
    BY <2>1, EmptySeq DEF GraphInit, GraphShape, NoGraph
<1>2. LastUsed(graphs, uses)
  BY NothingUsed DEF GraphInit
<1>3. Len(graphs) <= Capacity
  BY GraphConstants DEF GraphInit
<1>4. OneObject
  BY DEF GraphInit, OneObject
<1> QED
  BY <1>1, <1>2, <1>3, <1>4 DEF GraphInv

\* A thread that has got the graph of a key holds the one that is cached.
LEMMA GivenIsCached ==
    ASSUME GraphShape, NEW k \in Keys, Cached(k)
    PROVE  /\ EntryOf(k).load \in 1..loads
           /\ \E i \in 1..Len(graphs) :
                 graphs[i] = [key |-> k, load |-> EntryOf(k).load]
  BY EntryCached DEF Graph

LEMMA HitKeeps ==
    ASSUME GraphInv, NEW t \in Getters, NEW k \in Keys, Hit(t, k)
    PROVE  GraphInv'
<1> USE DEF Hit
<1>1. GraphShape /\ Len(graphs) <= Capacity /\ LastUsed(graphs, uses) /\ OneObject
  BY DEF GraphInv
<1>2. /\ graphs' \in Seq(Graph) /\ uses' \in Seq(Keys)
      /\ LastUsed(graphs', uses') /\ Len(graphs') <= Len(graphs)
      /\ \A i \in 1..Len(graphs) : \E j \in 1..Len(graphs') : graphs'[j] = graphs[i]
  BY <1>1, MovedToEnd
<1>3. /\ EntryOf(k).load \in 1..loads
      /\ \E i \in 1..Len(graphs) : graphs[i] = [key |-> k, load |-> EntryOf(k).load]
  BY <1>1, GivenIsCached
<1>4. GraphShape'
  <2>1. Graph' = Graph
    BY DEF Graph
  <2>2. held' \in [Getters -> 0..loads'] /\ loads' \in Nat
    BY <1>1, <1>3 DEF GraphShape
  <2>3. \A u \in Getters : gat'[u] = "loaded" => held'[u] # 0
    BY <1>1 DEF GraphShape
  <2> QED
    BY <1>1, <1>2, <2>1, <2>2, <2>3 DEF GraphShape
<1>5. OneObject'
  <2> SUFFICES ASSUME NEW u \in Getters, gat'[u] = "done", u \notin left'
               PROVE  \E i \in 1..Len(graphs') :
                          graphs'[i] = [key |-> wanted'[u], load |-> held'[u]]
    BY DEF OneObject
  <2>1. CASE u = t
    <3>1. wanted'[u] = k /\ held'[u] = EntryOf(k).load
      BY <1>1, <2>1 DEF GraphShape
    <3> QED
      BY <1>2, <1>3, <3>1
  <2>2. CASE u # t
    <3>1. /\ gat[u] = "done" /\ u \notin left
          /\ wanted'[u] = wanted[u] /\ held'[u] = held[u]
      BY <1>1, <2>2 DEF GraphShape
    <3>2. PICK i \in 1..Len(graphs) : graphs[i] = [key |-> wanted[u], load |-> held[u]]
      BY <1>1, <3>1 DEF OneObject
    <3> QED
      BY <1>2, <3>1, <3>2
  <2> QED
    BY <2>1, <2>2
<1>6. Len(graphs') <= Capacity
  <2>1. Len(graphs') \in Nat /\ Len(graphs) \in Nat
    BY <1>1, <1>2, LenProperties DEF GraphShape
  <2> QED
    BY <1>1, <1>2, <2>1, GraphConstants
<1> QED
  BY <1>2, <1>4, <1>5, <1>6 DEF GraphInv

LEMMA LoadKeeps ==
    ASSUME GraphInv, NEW t \in Getters, Load(t)
    PROVE  GraphInv'
<1> USE DEF Load
<1>1. GraphShape /\ Len(graphs) <= Capacity /\ LastUsed(graphs, uses) /\ OneObject
  BY DEF GraphInv
<1>2. loads \in Nat /\ loads' = loads + 1 /\ loads' \in 1..loads'
  BY <1>1 DEF GraphShape
<1>3. graphs' \in Seq(Graph')
  <2>1. Graph \subseteq Graph'
    BY <1>2 DEF Graph
  <2>2. Seq(Graph) \subseteq Seq(Graph')
    BY <2>1, SeqMonotonic
  <2> QED
    BY <1>1, <2>2 DEF GraphShape
<1>4. GraphShape'
  <2>1. held' \in [Getters -> 0..loads']
    BY <1>1, <1>2 DEF GraphShape
  <2>2. \A u \in Getters : gat'[u] = "loaded" => held'[u] # 0
    BY <1>1, <1>2 DEF GraphShape
  <2>3. gat' \in [Getters -> {"idle", "loading", "loaded", "done"}]
    BY <1>1 DEF GraphShape
  <2> QED
    BY <1>1, <1>2, <1>3, <2>1, <2>2, <2>3 DEF GraphShape
<1>5. OneObject'
  <2> SUFFICES ASSUME NEW u \in Getters, gat'[u] = "done", u \notin left'
               PROVE  \E i \in 1..Len(graphs') :
                          graphs'[i] = [key |-> wanted'[u], load |-> held'[u]]
    BY DEF OneObject
  <2>1. gat[u] = "done" /\ held'[u] = held[u]
    BY <1>1 DEF GraphShape
  <2> QED
    BY <1>1, <2>1 DEF OneObject
<1> QED
  BY <1>1, <1>4, <1>5 DEF GraphInv

LEMMA KeepKeeps ==
    ASSUME GraphInv, NEW t \in Getters, Keep(t)
    PROVE  GraphInv'
<1> DEFINE k == wanted[t]
           g == [key |-> k, load |-> held[t]]
           grown == Append(graphs, g)
<1>1. GraphShape /\ Len(graphs) <= Capacity /\ LastUsed(graphs, uses) /\ OneObject
  BY DEF GraphInv
<1>2. k \in Keys /\ g \in Graph /\ g.key = k
  BY <1>1 DEF GraphShape, Graph, Keep
<1>3. /\ gat' = [gat EXCEPT ![t] = "done"] /\ gat[t] = "loaded"
      /\ Use(k) /\ wanted' = wanted /\ loads' = loads
  BY DEF Keep
<1>4. CASE Cached(k)
  <2>0. /\ graphs' = MoveToEnd(k) /\ left' = left \ {t}
        /\ held' = [held EXCEPT ![t] = EntryOf(k).load]
    BY <1>4 DEF Keep
  <2>1. /\ graphs' \in Seq(Graph) /\ uses' \in Seq(Keys)
        /\ LastUsed(graphs', uses') /\ Len(graphs') <= Len(graphs)
        /\ \A i \in 1..Len(graphs) : \E j \in 1..Len(graphs') : graphs'[j] = graphs[i]
    BY <1>1, <1>2, <1>3, <1>4, <2>0, MovedToEnd
  <2>2. /\ EntryOf(k).load \in 1..loads
        /\ \E i \in 1..Len(graphs) : graphs[i] = [key |-> k, load |-> EntryOf(k).load]
    BY <1>1, <1>2, <1>4, GivenIsCached
  <2> HIDE DEF k, g, grown
  <2>3. GraphShape'
    <3>1. Graph' = Graph
      BY <1>3 DEF Graph
    <3>2. held' \in [Getters -> 0..loads'] /\ loads' \in Nat
      BY <1>1, <1>3, <2>0, <2>2 DEF GraphShape
    <3>3. \A u \in Getters : gat'[u] = "loaded" => held'[u] # 0
      BY <1>1, <1>3, <2>0 DEF GraphShape
    <3> QED
      BY <1>1, <1>3, <2>0, <2>1, <3>1, <3>2, <3>3 DEF GraphShape
  <2>4. OneObject'
    <3> SUFFICES ASSUME NEW u \in Getters, gat'[u] = "done", u \notin left'
                 PROVE  \E i \in 1..Len(graphs') :
                            graphs'[i] = [key |-> wanted'[u], load |-> held'[u]]
      BY DEF OneObject
    <3>1. CASE u = t
      <4>1. wanted'[u] = k /\ held'[u] = EntryOf(k).load
        BY <1>1, <1>3, <2>0, <3>1 DEF GraphShape, k
      <4> QED
        BY <2>1, <2>2, <4>1
    <3>2. CASE u # t
      <4>1. /\ gat[u] = "done" /\ u \notin left
            /\ wanted'[u] = wanted[u] /\ held'[u] = held[u]
        BY <1>1, <1>3, <2>0, <3>2 DEF GraphShape
      <4>2. PICK i \in 1..Len(graphs) :
                    graphs[i] = [key |-> wanted[u], load |-> held[u]]
        BY <1>1, <4>1 DEF OneObject
      <4> QED
        BY <2>1, <4>1, <4>2
    <3> QED
      BY <3>1, <3>2
  <2>5. Len(graphs') <= Capacity
    <3>1. Len(graphs') \in Nat /\ Len(graphs) \in Nat
      BY <1>1, <2>1, LenProperties DEF GraphShape
    <3> QED
      BY <1>1, <2>1, <3>1, GraphConstants
  <2> QED
    BY <2>1, <2>3, <2>4, <2>5 DEF GraphInv
<1>5. CASE ~ Cached(k)
  <2>0. /\ graphs' = Evict(grown) /\ held' = held
        /\ left' = (left \ {t}) \cup Holders({e.key : e \in Evicted(grown)})
    BY <1>5 DEF Keep
  <2>1. /\ graphs' \in Seq(Graph) /\ uses' \in Seq(Keys)
        /\ Len(graphs') <= Capacity /\ LastUsed(graphs', uses')
        /\ \E j \in 1..Len(graphs') : graphs'[j] = g
        /\ \A i \in 1..Len(graphs) :
              \/ \E j \in 1..Len(graphs') : graphs'[j] = graphs[i]
              \/ graphs[i] \in Evicted(grown)
    <3> HIDE DEF g
    <3>1. ~ Cached(g.key) /\ Use(g.key)
      BY <1>2, <1>3, <1>5
    <3> QED
      BY <1>1, <1>2, <2>0, <3>1, GraphAdded
  <2>2. GraphShape'
    <3>1. Graph' = Graph
      BY <1>3 DEF Graph
    <3>2. left' \subseteq Getters
      BY <1>1, <2>0 DEF GraphShape, Holders
    <3>3. \A u \in Getters : gat'[u] = "loaded" => held'[u] # 0
      BY <1>1, <1>3, <2>0 DEF GraphShape
    <3> QED
      BY <1>1, <1>3, <2>0, <2>1, <3>1, <3>2, <3>3 DEF GraphShape
  <2>3. OneObject'
    <3> SUFFICES ASSUME NEW u \in Getters, gat'[u] = "done", u \notin left'
                 PROVE  \E i \in 1..Len(graphs') :
                            graphs'[i] = [key |-> wanted'[u], load |-> held'[u]]
      BY DEF OneObject
    <3>1. CASE u = t
      BY <1>3, <2>0, <2>1, <3>1
    <3>2. CASE u # t
      <4>1. gat[u] = "done" /\ u \notin left
        BY <1>1, <1>3, <2>0, <3>2 DEF GraphShape
      <4>2. PICK i \in 1..Len(graphs) :
                    graphs[i] = [key |-> wanted[u], load |-> held[u]]
        BY <1>1, <4>1 DEF OneObject
      <4>3. graphs[i] \notin Evicted(grown)
        <5>1. ASSUME graphs[i] \in Evicted(grown) PROVE FALSE
          <6>1. wanted[u] \in {e.key : e \in Evicted(grown)}
            BY <4>2, <5>1
          <6>2. u \in Holders({e.key : e \in Evicted(grown)})
            BY <4>1, <6>1 DEF Holders
          <6> QED
            BY <2>0, <6>2
        <5> QED
          BY <5>1
      <4>4. PICK j \in 1..Len(graphs') : graphs'[j] = graphs[i]
        BY <2>1, <4>3
      <4> QED
        BY <1>3, <2>0, <4>2, <4>4
    <3> QED
      BY <3>1, <3>2
  <2> QED
    BY <2>1, <2>2, <2>3 DEF GraphInv
<1> QED
  BY <1>4, <1>5

LEMMA InvalidateKeeps ==
    ASSUME GraphInv, NEW repos, Invalidate(repos)
    PROVE  GraphInv'
<1> DEFINE gone == {k \in Keys : k.repo \in repos}
<1>1. GraphShape /\ Len(graphs) <= Capacity /\ LastUsed(graphs, uses) /\ OneObject
  BY DEF GraphInv
<1>2. /\ graphs' = Others(gone) /\ uses' = UsesWithout(gone)
      /\ left' = left \cup Holders(gone)
      /\ UNCHANGED <<gat, wanted, held, loads>>
  BY DEF Invalidate
<1> HIDE DEF gone
<1>3. /\ graphs' \in Seq(Graph) /\ uses' \in Seq(Keys)
      /\ LastUsed(graphs', uses') /\ Len(graphs') <= Len(graphs)
      /\ \A g : (\E i \in 1..Len(graphs') : graphs'[i] = g)
                <=> (\E i \in 1..Len(graphs) : graphs[i] = g /\ g.key \notin gone)
  <2>1. /\ Others(gone) \in Seq(Graph) /\ UsesWithout(gone) \in Seq(Keys)
        /\ LastUsed(Others(gone), UsesWithout(gone))
        /\ Len(Others(gone)) <= Len(graphs)
        /\ \A g : (\E i \in 1..Len(Others(gone)) : Others(gone)[i] = g)
                  <=> (\E i \in 1..Len(graphs) : graphs[i] = g /\ g.key \notin gone)
    BY <1>1, WithoutKeys
  <2> QED
    BY <1>2, <2>1
<1>4. GraphShape'
  <2>1. Graph' = Graph
    BY <1>2 DEF Graph
  <2>2. left' \subseteq Getters
    BY <1>1, <1>2 DEF GraphShape, Holders
  <2> QED
    BY <1>1, <1>2, <1>3, <2>1, <2>2 DEF GraphShape
<1>5. OneObject'
  <2> SUFFICES ASSUME NEW u \in Getters, gat'[u] = "done", u \notin left'
               PROVE  \E i \in 1..Len(graphs') :
                          graphs'[i] = [key |-> wanted'[u], load |-> held'[u]]
    BY DEF OneObject
  <2> DEFINE g == [key |-> wanted[u], load |-> held[u]]
  <2>1. PICK i \in 1..Len(graphs) : graphs[i] = g
    BY <1>1, <1>2 DEF OneObject
  <2>2. g.key \notin gone
    BY <1>2 DEF Holders
  <2> HIDE DEF g
  <2>3. \E j \in 1..Len(graphs') : graphs'[j] = g
    BY <1>3, <2>1, <2>2
  <2> QED
    BY <1>2, <2>3 DEF g
<1>6. Len(graphs') <= Capacity
  <2>1. Len(graphs') \in Nat /\ Len(graphs) \in Nat
    BY <1>1, <1>3, LenProperties DEF GraphShape
  <2> QED
    BY <1>1, <1>3, <2>1, GraphConstants
<1> QED
  BY <1>3, <1>4, <1>5, <1>6 DEF GraphInv

\* What neither list is touched by.
LEMMA OthersKeep ==
    ASSUME GraphInv,
           \/ \E t \in Getters : (\E k \in Keys : Miss(t, k)) \/ LetGo(t)
           \/ UNCHANGED graphVars
    PROVE  GraphInv'
<1>1. GraphShape /\ Len(graphs) <= Capacity /\ LastUsed(graphs, uses) /\ OneObject
  BY DEF GraphInv
<1>2. /\ graphs' = graphs /\ uses' = uses /\ loads' = loads /\ Graph' = Graph
      /\ left' \subseteq Getters
  BY <1>1 DEF Miss, LetGo, graphVars, Graph, GraphShape
<1>3. /\ gat' \in [Getters -> {"idle", "loading", "loaded", "done"}]
      /\ wanted' \in [Getters -> Keys] /\ held' \in [Getters -> 0..loads]
  <2>1. ASSUME NEW t \in Getters, NEW k \in Keys, Miss(t, k)
        PROVE  /\ gat' \in [Getters -> {"idle", "loading", "loaded", "done"}]
               /\ wanted' \in [Getters -> Keys] /\ held' \in [Getters -> 0..loads]
    BY <1>1, <2>1 DEF Miss, GraphShape
  <2>2. ASSUME NEW t \in Getters, LetGo(t)
        PROVE  /\ gat' \in [Getters -> {"idle", "loading", "loaded", "done"}]
               /\ wanted' \in [Getters -> Keys] /\ held' \in [Getters -> 0..loads]
    BY <1>1, <2>2 DEF LetGo, GraphShape, NoGraph
  <2>3. CASE UNCHANGED graphVars
    BY <1>1, <2>3 DEF graphVars, GraphShape
  <2> QED
    BY <2>1, <2>2, <2>3
<1>4. \A u \in Getters : gat'[u] = "loaded" => held'[u] # 0
  BY <1>1 DEF Miss, LetGo, graphVars, GraphShape
<1>5. ASSUME NEW u \in Getters, gat'[u] = "done", u \notin left'
      PROVE  /\ gat[u] = "done" /\ u \notin left
             /\ wanted'[u] = wanted[u] /\ held'[u] = held[u]
  BY <1>1, <1>5 DEF Miss, LetGo, graphVars, GraphShape
<1>6. OneObject'
  BY <1>1, <1>2, <1>5 DEF OneObject
<1>7. GraphShape'
  BY <1>1, <1>2, <1>3, <1>4 DEF GraphShape
<1> QED
  BY <1>1, <1>2, <1>6, <1>7 DEF GraphInv

LEMMA GraphStep == GraphInv /\ [GraphNext]_graphVars => GraphInv'
  BY HitKeeps, LoadKeeps, KeepKeeps, InvalidateKeeps, OthersKeep DEF GraphNext

LEMMA GraphInvariant == GraphSpec => []GraphInv
  BY GraphInit_Inv, GraphStep, PTL DEF GraphSpec

\* Places that ascend without a gap.
LEMMA NoGap ==
    ASSUME NEW m \in Nat, NEW n \in Nat, NEW p \in Nat,
           NEW c \in [1..m -> (p + 1)..n],
           \A i, j \in 1..m : i < j => c[i] < c[j],
           \A b \in (p + 1)..n : \E i \in 1..m : c[i] = b
    PROVE  \A i \in 1..m : c[i] = p + i
<1> DEFINE Wrong == {i \in 1..m : c[i] # p + i}
<1> SUFFICES ASSUME Wrong # {} PROVE FALSE
  OBVIOUS
<1>1. Wrong \in SUBSET Nat
  OBVIOUS
<1>2. PICK i \in Wrong : \A j \in Wrong : i <= j
  <2> HIDE DEF Wrong
  <2> QED
    BY <1>1, LeastOf
<1>3. i \in 1..m /\ c[i] # p + i /\ c[i] \in (p + 1)..n
  BY <1>2
<1>4. \A j \in 1..m : j < i => c[j] = p + j
  BY <1>2
<1>5. ~ (c[i] < p + i)
  <2> SUFFICES ASSUME c[i] < p + i PROVE FALSE
    OBVIOUS
  <2>0. PICK k \in (p + 1)..n : k = c[i]
    BY <1>3
  <2>1. i \in Int /\ i <= m /\ k < p + i
    BY <1>3, <2>0
  <2>c. k \in Int /\ p + 1 <= k
    BY <2>0
  <2>p. PICK j : j = k - p
    OBVIOUS
  <2>q. j \in Int /\ 1 <= j /\ j < i /\ p + j = k
    BY <2>1, <2>c, <2>p
  <2>2. j \in Int /\ 1 <= j /\ j < i /\ p + j = c[i]
    BY <2>0, <2>q
  <2>3. j \in 1..m
    BY <1>3, <2>2
  <2>4. c[j] = p + j /\ c[j] < c[i]
    BY <1>3, <1>4, <2>2, <2>3
  <2> QED
    BY <1>3, <2>2, <2>4
<1>6. ~ (p + i < c[i])
  <2> SUFFICES ASSUME p + i < c[i] PROVE FALSE
    OBVIOUS
  <2>1. p + i \in (p + 1)..n
    BY <1>3
  <2>2. PICK j \in 1..m : c[j] = p + i
    BY <2>1
  <2>3. ~ (j < i)
    BY <1>4, <2>2
  <2>4. ~ (i < j)
    BY <1>3, <2>2
  <2>5. j = i
    BY <1>3, <2>3, <2>4
  <2> QED
    BY <1>3, <2>2, <2>5
<1>7. \A d \in (p + 1)..n : ~ (d < p + i) /\ ~ (p + i < d) => d = p + i
  BY <1>3
<1> QED
  BY <1>3, <1>5, <1>6, <1>7

\* The keys that are cached are the last ones of the uses.
LEMMA CachedAreLast ==
    ASSUME GraphShape, LastUsed(graphs, uses)
    PROVE  IsSuffix([i \in DOMAIN graphs |-> graphs[i].key], uses)
<1> DEFINE m == Len(graphs)
           n == Len(uses)
           keys == [i \in 1..m |-> graphs[i].key]
           c == [i \in 1..m |-> CHOOSE a \in 1..n : uses[a] = graphs[i].key]
<1>0. m \in Nat /\ n \in Nat /\ DOMAIN graphs = 1..m
  BY GraphLists
<1>1. \A i \in 1..m : c[i] \in 1..n /\ uses[c[i]] = keys[i]
  BY DEF LastUsed
<1>2. \A i, j \in 1..m : i < j => c[i] < c[j]
  <2> HIDE DEF c
  <2>1. \A i, j \in 1..m, a, b \in 1..n :
            uses[a] = graphs[i].key /\ uses[b] = graphs[j].key /\ i < j => a < b
    BY DEF LastUsed
  <2>2. \A i \in 1..m : c[i] \in 1..n /\ uses[c[i]] = graphs[i].key
    BY <1>1
  <2> QED
    BY <2>1, <2>2
<1>3. \A a, b \in 1..n, i \in 1..m :
          uses[a] = keys[i] /\ a < b => \E j \in 1..m : keys[j] = uses[b]
  BY DEF LastUsed, In
<1>4. \A a, b \in 1..n : uses[a] = uses[b] => a = b
  BY DEF LastUsed
<1>k. Len(keys) = m /\ \A i \in 1..m : keys[i] = graphs[i].key
  <2>1. \A i \in 1..m : keys[i] \in Keys
    BY GraphLists DEF Graph
  <2> QED
    BY <1>0, <2>1, IsASeq
<1>d. DOMAIN c = 1..m
  OBVIOUS
<1> HIDE DEF keys, c, m, n
<1>5. m <= n /\ \A i \in 1..m : uses[n - m + i] = keys[i]
  <2>1. CASE m = 0
    BY <1>0, <2>1
  <2>2. CASE m # 0
    <3> DEFINE p == c[1] - 1
    <3>1. 1 \in 1..m /\ m \in 1..m
      BY <1>0, <2>2
    <3>2. p \in Nat /\ p + 1 = c[1] /\ c[1] \in 1..n
      BY <1>0, <1>1, <3>1
    <3> HIDE DEF p
    <3>3. \A i \in 1..m : c[i] \in (p + 1)..n
      <4> TAKE i \in 1..m
      <4>1. i = 1 \/ 1 < i
        BY <1>0
      <4>2. c[1] <= c[i]
        BY <1>1, <1>2, <3>1, <3>2, <4>1
      <4> QED
        BY <1>0, <1>1, <3>2, <4>2
    <3>4. ASSUME NEW b \in (p + 1)..n
          PROVE  \E i \in 1..m : c[i] = b
      <4>1. b \in 1..n
        BY <1>0, <3>2, <3>4
      <4>2. CASE b = c[1]
        BY <3>1, <4>2
      <4>3. CASE c[1] < b
        <5>1. PICK j \in 1..m : keys[j] = uses[b]
          BY <1>1, <1>3, <3>1, <4>1, <4>3
        <5>2. c[j] = b
          BY <1>1, <1>4, <4>1, <5>1
        <5> QED
          BY <5>2
      <4> QED
        BY <1>0, <3>2, <3>4, <4>2, <4>3
    <3>5. \A i \in 1..m : c[i] = p + i
      <4>1. c \in [1..m -> (p + 1)..n]
        <5>1. c = [i \in 1..m |-> c[i]]
          BY DEF c
        <5> QED
          BY <3>3, <5>1
      <4> HIDE DEF c
      <4>2. \A b \in (p + 1)..n : \E i \in 1..m : c[i] = b
        BY <3>4
      <4> QED
        <5>1. \A d \in [1..m -> (p + 1)..n] :
                  /\ \A i, j \in 1..m : i < j => d[i] < d[j]
                  /\ \A b \in (p + 1)..n : \E i \in 1..m : d[i] = b
                  => \A i \in 1..m : d[i] = p + i
          <6>1. \A m1, n1, p1 \in Nat : \A d \in [1..m1 -> (p1 + 1)..n1] :
                  /\ \A i, j \in 1..m1 : i < j => d[i] < d[j]
                  /\ \A b \in (p1 + 1)..n1 : \E i \in 1..m1 : d[i] = b
                  => \A i \in 1..m1 : d[i] = p1 + i
            BY NoGap, Zenon
          <6> QED
            BY <1>0, <3>2, <6>1, Zenon
        <5> QED
          BY <1>2, <4>1, <4>2, <5>1, Zenon
    <3>6. n = p + m
      <4>1. n \in (p + 1)..n
        BY <1>0, <3>2
      <4>2. PICK j \in 1..m : c[j] = n
        BY <3>4, <4>1
      <4>3. n = p + j /\ p + m \in (p + 1)..n
        BY <3>1, <3>3, <3>5, <4>2
      <4> QED
        BY <1>0, <3>2, <4>3
    <3> QED
      BY <1>0, <1>1, <3>2, <3>5, <3>6
  <2> QED
    BY <2>1, <2>2
<1>6. /\ Reverse(keys) = [i \in 1..m |-> keys[(m - i) + 1]]
      /\ Reverse(uses) = [i \in 1..n |-> uses[(n - i) + 1]]
  BY <1>k DEF Reverse, n
<1>7. \A i \in 1..m : Reverse(keys)[i] = Reverse(uses)[i]
  <2> TAKE i \in 1..m
  <2>1. (m - i) + 1 \in 1..m /\ i \in 1..n /\ (n - i) + 1 = n - m + ((m - i) + 1)
    BY <1>0, <1>5
  <2> QED
    BY <1>5, <1>6, <2>1
<1>8. /\ Reverse(keys) \in Seq(Keys) /\ Len(Reverse(keys)) = m
      /\ Reverse(uses) \in Seq(Keys) /\ Len(Reverse(uses)) = n
  <2>1. \A i \in 1..m : (m - i) + 1 \in 1..m /\ keys[(m - i) + 1] \in Keys
    BY <1>0, <1>k, GraphLists DEF Graph, m
  <2>2. \A i \in 1..n : (n - i) + 1 \in 1..n /\ uses[(n - i) + 1] \in Keys
    BY <1>0, ElementOfSeq DEF GraphShape, n
  <2> QED
    BY <1>0, <1>6, <2>1, <2>2, IsASeq
<1>9. SubSeq(Reverse(keys), 1, m) = SubSeq(Reverse(uses), 1, m)
  <2>1. /\ SubSeq(Reverse(keys), 1, m) \in Seq(Keys)
        /\ Len(SubSeq(Reverse(keys), 1, m)) = m
        /\ \A i \in 1..m : SubSeq(Reverse(keys), 1, m)[i] = Reverse(keys)[i]
    BY <1>0, <1>8, SubSeqProperties
  <2>2. /\ SubSeq(Reverse(uses), 1, m) \in Seq(Keys)
        /\ Len(SubSeq(Reverse(uses), 1, m)) = m
        /\ \A i \in 1..m : SubSeq(Reverse(uses), 1, m)[i] = Reverse(uses)[i]
    BY <1>0, <1>5, <1>8, SubSeqProperties
  <2> QED
    BY <1>7, <2>1, <2>2, SeqEqual
<1>10. IsSuffix(keys, uses)
  BY <1>5, <1>8, <1>9 DEF IsSuffix, IsPrefix
<1> QED
  BY <1>0, <1>10 DEF keys

\* Every state of the graph cache is well typed.
THEOREM GraphTyped == GraphSpec => []GraphTypeOK
<1>1. GraphInv => GraphTypeOK
  BY DEF GraphInv, GraphShape, GraphTypeOK, Graph
<1> QED
  BY <1>1, GraphInvariant, PTL

\* The cache holds the keys used last, in order, and the threads that use the
\* graph of a key share it, for any threads, keys and capacity (get_graph).
THEOREM GraphsAreShared == GraphSpec => []GraphsShared
<1>1. ASSUME GraphInv PROVE GraphsShared
  <2>1. GraphShape /\ Len(graphs) <= Capacity /\ LastUsed(graphs, uses) /\ OneObject
    BY <1>1 DEF GraphInv
  <2>2. \A i, j \in DOMAIN graphs : graphs[i].key = graphs[j].key => i = j
    BY <2>1, GraphLists DEF LastUsed, Once
  <2>3. ToSet(graphs) = {graphs[i] : i \in 1..Len(graphs)}
    BY <2>1, GraphLists DEF ToSet
  <2>4. \A t \in Getters : gat[t] = "done" /\ t \notin left =>
            [key |-> wanted[t], load |-> held[t]] \in ToSet(graphs)
    BY <2>1, <2>3 DEF OneObject
  <2> QED
    BY <2>1, <2>2, <2>4, CachedAreLast DEF GraphsShared
<1> QED
  BY <1>1, GraphInvariant, PTL

----------------------------------------------------------------------------
(* What a command has registered stays, and the server's copy is the       *)
(* registry, for any number of commands, threads and repositories.         *)

TomlFiles == [repos : (SUBSET Repos) \cup {Torn}, stamp : 0..MaxTick]
Plans == [repos : SUBSET Repos, adds : SUBSET Repos, drops : SUBSET Repos]
Looks == [at : {"idle", "load", "keep", "stamp"}, stamp : 0..MaxTick,
          repos : SUBSET Repos]

FilesShape == tick \in 1..MaxTick /\ toml \in TomlFiles /\ temp \in TomlFiles \cup {NoTemp}

CommandsShape ==
    /\ saves \in 0..MaxSaves
    /\ cmd \in [Commands -> {"idle", "open", "write", "replace"}]
    /\ handle \in [Commands -> {"closed", "temp", "file", "gone"}]
    /\ \A c \in Commands : handle[c] # "closed" <=> cmd[c] = "write"
    /\ plan \in [Commands -> Plans]
    /\ owned \subseteq Repos

ServerShape ==
    /\ served \in [repos : SUBSET Repos, stamp : 0..MaxTick]
    /\ server \in {"down", "loaded", "up"}
    /\ look \in [ConfigReaders -> Looks]

CleanShape ==
    /\ cleaning = Torn \/ cleaning \subseteq Repos
    /\ known \subseteq Repos /\ snapshots \subseteq Repos

RegistryShape == FilesShape /\ CommandsShape /\ ServerShape /\ CleanShape

\* What a command at work alone keeps to.
Working(c) ==
    /\ \A d \in Commands : cmd[d] # "idle" => d = c
    /\ owned \subseteq plan[c].repos /\ plan[c].adds \subseteq plan[c].repos
    /\ cmd[c] = "write" => handle[c] = "temp" /\ c \notin shared
    /\ cmd[c] = "replace" => temp # NoTemp /\ temp.repos = plan[c].repos

Kept ==
    /\ toml.repos # Torn /\ owned \subseteq toml.repos /\ robbed = {}
    /\ \A c \in Commands : cmd[c] # "idle" => Working(c)
    /\ cleaning # Torn => known \subseteq cleaning

\* What the server's copy keeps to while no renewal has met a hazard.
Current ==
    /\ \A t, u \in ConfigReaders : look[t].at # "idle" /\ look[u].at # "idle" => t = u
    /\ server # "up" => \A t \in ConfigReaders : look[t].at = "idle"
    /\ server = "loaded" => served.repos = toml.repos
    /\ served.stamp <= toml.stamp
    /\ \A t \in ConfigReaders : look[t].stamp <= toml.stamp
    /\ \A t \in ConfigReaders : look[t].at = "keep" /\ look[t].stamp = toml.stamp
                                => look[t].repos = toml.repos
    /\ \A t \in ConfigReaders : look[t].at = "stamp" /\ look[t].stamp = toml.stamp
                                => served.repos = toml.repos
    /\ server = "up" /\ served.stamp = toml.stamp
       /\ (\A t \in ConfigReaders : look[t].at # "stamp")
       => served.repos = toml.repos

RegistryInv == RegistryShape /\ (~overlap => Kept) /\ (~mixed => Current)

LEMMA RegistryConstants ==
    /\ MaxTick \in Nat /\ MaxTick > 0 /\ MaxSaves \in Nat
    /\ Torn \notin SUBSET Repos /\ NoTemp \notin TomlFiles
<1>1. NoTemp \notin TomlFiles
  BY RegistryAssumption DEF RegistryAssumption, TomlFiles, Version
<1> QED
  BY <1>1, RegistryAssumption DEF RegistryAssumption

LEMMA VersionFile ==
    ASSUME NEW repos \in (SUBSET Repos) \cup {Torn}, NEW stamp \in 0..MaxTick
    PROVE  /\ Version(repos, stamp) \in TomlFiles
           /\ Version(repos, stamp).repos = repos
           /\ Version(repos, stamp).stamp = stamp
  BY DEF Version, TomlFiles

LEMMA RegistryShapeInit == RegistryInit => RegistryShape
<1> SUFFICES ASSUME RegistryInit PROVE RegistryShape
  OBVIOUS
<1> USE RegistryConstants DEF RegistryInit
<1>1. FilesShape
  BY DEF FilesShape, TomlFiles, Version
<1>2. CommandsShape
  BY DEF CommandsShape, Plans, Idle
<1>3. ServerShape
  BY DEF ServerShape, Looks, Version, NoLook
<1>4. CleanShape
  BY DEF CleanShape
<1> QED
  BY <1>1, <1>2, <1>3, <1>4 DEF RegistryShape

----------------------------------------------------------------------------
(* The shape of each side, action by action. *)

LEMMA WriteEffect ==
    ASSUME FilesShape, CommandsShape, NEW c \in Commands, WriteText(c)
    PROVE  \E wrote \in (SUBSET Repos) \cup {Torn} :
              /\ wrote = plan[c].repos \/ c \in shared
              /\ \/ handle[c] = "temp" /\ temp' = Version(wrote, tick) /\ toml' = toml
                 \/ handle[c] = "file" /\ toml' = Version(wrote, tick) /\ temp' = temp
                 \/ handle[c] = "gone" /\ toml' = toml /\ temp' = temp
<1>1. PICK wrote \in {plan[c].repos} \cup (IF c \in shared THEN {Torn} ELSE {}) :
         \/ handle[c] = "temp" /\ temp' = Version(wrote, tick) /\ toml' = toml
         \/ handle[c] = "file" /\ toml' = Version(wrote, tick) /\ temp' = temp
         \/ handle[c] = "gone" /\ toml' = toml /\ temp' = temp
  BY DEF WriteText, Changing
<1>2. plan[c].repos \in SUBSET Repos
  BY DEF CommandsShape, Plans
<1>3. wrote \in (SUBSET Repos) \cup {Torn} /\ (wrote = plan[c].repos \/ c \in shared)
  BY <1>2
<1> QED
  BY <1>1, <1>3

LEMMA FilesKeepShape ==
    ASSUME RegistryShape, RegistryNext PROVE FilesShape'
<1> USE RegistryConstants DEF fileVars
<1>0. FilesShape /\ CommandsShape
  BY DEF RegistryShape
<1>1. ASSUME NEW c \in Commands, OpenTemp(c) PROVE FilesShape'
  <2>1. tick \in 0..MaxTick /\ Torn \in (SUBSET Repos) \cup {Torn}
    BY <1>0 DEF FilesShape
  <2> QED
    BY <1>0, <1>1, <2>1, VersionFile DEF OpenTemp, FilesShape
<1>2. ASSUME NEW c \in Commands, WriteText(c) PROVE FilesShape'
  <2>1. tick \in 0..MaxTick /\ tick' = tick
    BY <1>0, <1>2 DEF FilesShape, WriteText
  <2> QED
    BY <1>0, <1>2, <2>1, WriteEffect, VersionFile DEF FilesShape
<1>3. ASSUME NEW c \in Commands, Replace(c) PROVE FilesShape'
  BY <1>0, <1>3 DEF Replace, Changing, FilesShape
<1>4. CASE TickOn
  BY <1>0, <1>4 DEF TickOn, FilesShape
<1>5. CASE UNCHANGED fileVars
  BY <1>0, <1>5 DEF FilesShape
<1>6. ASSUME NEW c \in Commands, LoadFails(c) \/ LoadRegistry(c) \/ ReplaceFails(c)
      PROVE  UNCHANGED fileVars
  BY <1>6, Zenon DEF LoadFails, LoadRegistry, ReplaceFails, registryVars
<1>7. BootLoads \/ BootStamps \/ CleanLooks \/ CleanEnds => UNCHANGED fileVars
  BY Zenon DEF BootLoads, BootStamps, CleanLooks, CleanEnds
<1>8. ASSUME NEW t \in ConfigReaders,
             StatConfig(t) \/ LoadConfig(t) \/ KeepConfig(t) \/ StampConfig(t)
      PROVE  UNCHANGED fileVars
  BY <1>8, Zenon DEF StatConfig, LoadConfig, KeepConfig, StampConfig
<1>9. ASSUME NEW r \in Repos, IndexBegins(r) \/ IndexPublishes(r) \/ CleanDeletes(r)
      PROVE  UNCHANGED fileVars
  BY <1>9, Zenon DEF IndexBegins, IndexPublishes, CleanDeletes
<1> QED
  BY <1>1, <1>2, <1>3, <1>4, <1>5, <1>6, <1>7, <1>8, <1>9 DEF RegistryNext

LEMMA CommandsKeepShape ==
    ASSUME RegistryShape, RegistryNext PROVE CommandsShape'
<1> USE DEF commandVars
<1>0. FilesShape /\ CommandsShape
  BY DEF RegistryShape
<1>1. ASSUME NEW c \in Commands, LoadRegistry(c) PROVE CommandsShape'
  <2>1. toml.repos \in SUBSET Repos
    BY <1>0, <1>1 DEF LoadRegistry, FilesShape, TomlFiles
  <2>2. PICK new \in Plans : plan' = [plan EXCEPT ![c] = new]
    BY <2>1, <1>1 DEF LoadRegistry, Idle, Plans
  <2>3. saves' \in 0..MaxSaves /\ owned' \subseteq Repos /\ handle' = handle
    BY <1>0, <1>1, RegistryConstants DEF LoadRegistry, CommandsShape
  <2>4. cmd' = [cmd EXCEPT ![c] = "open"] /\ cmd[c] = "idle"
    BY <1>1 DEF LoadRegistry
  <2> QED
    BY <1>0, <2>2, <2>3, <2>4 DEF CommandsShape
<1>2. ASSUME NEW c \in Commands, OpenTemp(c) PROVE CommandsShape'
  BY <1>0, <1>2 DEF OpenTemp, CommandsShape
<1>3. ASSUME NEW c \in Commands, WriteText(c) PROVE CommandsShape'
  BY <1>0, <1>3 DEF WriteText, CommandsShape
<1>4. ASSUME NEW c \in Commands, Replace(c) PROVE CommandsShape'
  <2>1. /\ handle' \in [Commands -> {"closed", "temp", "file", "gone"}]
        /\ \A d \in Commands : handle'[d] = "closed" <=> handle[d] = "closed"
    BY <1>0, <1>4 DEF Replace, CommandsShape
  <2>2. /\ cmd' = [cmd EXCEPT ![c] = "idle"] /\ cmd[c] = "replace"
        /\ owned' = owned \cup plan[c].adds /\ UNCHANGED <<saves, plan>>
    BY <1>4 DEF Replace, EndCommand
  <2>3. plan[c].adds \subseteq Repos
    BY <1>0 DEF CommandsShape, Plans
  <2> QED
    BY <1>0, <2>1, <2>2, <2>3 DEF CommandsShape
<1>5. ASSUME NEW c \in Commands, ReplaceFails(c) PROVE CommandsShape'
  BY <1>0, <1>5 DEF ReplaceFails, EndCommand, CommandsShape
<1>6. CASE UNCHANGED commandVars
  BY <1>0, <1>6 DEF CommandsShape
<1>7. /\ \A c \in Commands : LoadFails(c) => UNCHANGED commandVars
      /\ BootLoads \/ BootStamps \/ CleanLooks \/ CleanEnds \/ TickOn
         => UNCHANGED commandVars
  BY Zenon DEF LoadFails, registryVars, BootLoads, BootStamps, CleanLooks, CleanEnds,
     TickOn
<1>8. ASSUME NEW t \in ConfigReaders,
             StatConfig(t) \/ LoadConfig(t) \/ KeepConfig(t) \/ StampConfig(t)
      PROVE  UNCHANGED commandVars
  BY <1>8, Zenon DEF StatConfig, LoadConfig, KeepConfig, StampConfig
<1>9. ASSUME NEW r \in Repos, IndexBegins(r) \/ IndexPublishes(r) \/ CleanDeletes(r)
      PROVE  UNCHANGED commandVars
  BY <1>9, Zenon DEF IndexBegins, IndexPublishes, CleanDeletes
<1> QED
  BY <1>1, <1>2, <1>3, <1>4, <1>5, <1>6, <1>7, <1>8, <1>9 DEF RegistryNext

LEMMA ServerKeepsShape ==
    ASSUME RegistryShape, RegistryNext PROVE ServerShape'
<1> USE DEF serverSide
<1>0. FilesShape /\ ServerShape
  BY DEF RegistryShape
<1>f. /\ toml.repos # Torn => toml.repos \in SUBSET Repos
      /\ toml.stamp \in 0..MaxTick
  BY <1>0 DEF FilesShape, TomlFiles
<1>1. CASE BootLoads
  BY <1>0, <1>f, <1>1 DEF BootLoads, ServerShape
<1>2. CASE BootStamps
  BY <1>0, <1>f, <1>2 DEF BootStamps, ServerShape
<1>3. ASSUME NEW t \in ConfigReaders, StatConfig(t) PROVE ServerShape'
  <2>1. [NoLook EXCEPT !.at = "load", !.stamp = toml.stamp] \in Looks
    BY <1>f DEF NoLook, Looks
  <2> QED
    BY <1>0, <1>3, <2>1 DEF StatConfig, ServerShape
<1>4. ASSUME NEW t \in ConfigReaders, LoadConfig(t) PROVE ServerShape'
  <2>1. PICK new \in Looks : look' = [look EXCEPT ![t] = new]
    <3>1. NoLook \in Looks
      BY RegistryConstants DEF NoLook, Looks
    <3>2. look[t] \in Looks
      BY <1>0 DEF ServerShape
    <3>3. toml.repos # Torn =>
             [look[t] EXCEPT !.at = "keep", !.repos = toml.repos] \in Looks
      BY <1>f, <3>2 DEF Looks
    <3> QED
      BY <1>0, <1>4, <3>1, <3>3 DEF LoadConfig, ServerShape
  <2> QED
    BY <1>0, <1>4, <2>1 DEF LoadConfig, ServerShape
<1>5. ASSUME NEW t \in ConfigReaders, KeepConfig(t) PROVE ServerShape'
  <2>1. look[t] \in Looks
    BY <1>0 DEF ServerShape
  <2>2. [look[t] EXCEPT !.at = "stamp"] \in Looks /\ look[t].repos \in SUBSET Repos
    BY <2>1 DEF Looks
  <2>3. look' = [look EXCEPT ![t] = [look[t] EXCEPT !.at = "stamp"]]
    BY <1>0, <1>5 DEF KeepConfig, ServerShape
  <2> QED
    BY <1>0, <1>5, <2>2, <2>3 DEF KeepConfig, ServerShape
<1>6. ASSUME NEW t \in ConfigReaders, StampConfig(t) PROVE ServerShape'
  <2>1. look[t].stamp \in 0..MaxTick /\ NoLook \in Looks
    BY <1>0, RegistryConstants DEF ServerShape, Looks, NoLook
  <2> QED
    BY <1>0, <1>6, <2>1 DEF StampConfig, ServerShape
<1>7. CASE UNCHANGED serverSide
  BY <1>0, <1>7 DEF ServerShape
<1>8. ASSUME NEW c \in Commands,
             LoadFails(c) \/ LoadRegistry(c) \/ OpenTemp(c) \/ WriteText(c)
             \/ Replace(c) \/ ReplaceFails(c)
      PROVE  UNCHANGED serverSide
  BY <1>8, Zenon DEF LoadFails, LoadRegistry, OpenTemp, WriteText, Replace,
     ReplaceFails, registryVars
<1>9. CleanLooks \/ CleanEnds \/ TickOn => UNCHANGED serverSide
  BY Zenon DEF CleanLooks, CleanEnds, TickOn
<1>10. ASSUME NEW r \in Repos, IndexBegins(r) \/ IndexPublishes(r) \/ CleanDeletes(r)
       PROVE  UNCHANGED serverSide
  BY <1>10, Zenon DEF IndexBegins, IndexPublishes, CleanDeletes
<1> QED
  BY <1>1, <1>2, <1>3, <1>4, <1>5, <1>6, <1>7, <1>8, <1>9, <1>10 DEF RegistryNext

LEMMA CleanKeepsShape ==
    ASSUME RegistryShape, RegistryNext PROVE CleanShape'
<1> USE DEF cleanVars
<1>0. FilesShape /\ CleanShape /\ owned \subseteq Repos
  BY DEF RegistryShape, CommandsShape
<1>1. CASE CleanLooks
  BY <1>0, <1>1 DEF CleanLooks, FilesShape, TomlFiles, CleanShape
<1>2. CASE CleanEnds
  BY <1>0, <1>2 DEF CleanEnds, CleanShape
<1>3. ASSUME NEW r \in Repos, IndexBegins(r) \/ IndexPublishes(r) \/ CleanDeletes(r)
      PROVE  CleanShape'
  BY <1>0, <1>3 DEF IndexBegins, IndexPublishes, CleanDeletes, CleanShape
<1>4. CASE UNCHANGED cleanVars
  BY <1>0, <1>4 DEF CleanShape
<1>5. ASSUME NEW c \in Commands,
             LoadFails(c) \/ LoadRegistry(c) \/ OpenTemp(c) \/ WriteText(c)
             \/ Replace(c) \/ ReplaceFails(c)
      PROVE  UNCHANGED cleanVars
  BY <1>5, Zenon DEF LoadFails, LoadRegistry, OpenTemp, WriteText, Replace,
     ReplaceFails, registryVars
<1>6. BootLoads \/ BootStamps \/ TickOn => UNCHANGED cleanVars
  BY Zenon DEF BootLoads, BootStamps, TickOn
<1>7. ASSUME NEW t \in ConfigReaders,
             StatConfig(t) \/ LoadConfig(t) \/ KeepConfig(t) \/ StampConfig(t)
      PROVE  UNCHANGED cleanVars
  BY <1>7, Zenon DEF StatConfig, LoadConfig, KeepConfig, StampConfig
<1> QED
  BY <1>1, <1>2, <1>3, <1>4, <1>5, <1>6, <1>7 DEF RegistryNext

LEMMA RegistryShapeStep == RegistryShape /\ [RegistryNext]_registryVars => RegistryShape'
<1>1. RegistryShape /\ UNCHANGED registryVars => RegistryShape'
  BY DEF RegistryShape, FilesShape, CommandsShape, ServerShape, CleanShape,
     registryVars, fileVars, commandVars, serverSide, cleanVars
<1> QED
  BY <1>1, FilesKeepShape, CommandsKeepShape, ServerKeepsShape, CleanKeepsShape
     DEF RegistryShape

LEMMA RegistryShaped == RegistrySpec => []RegistryShape
  BY RegistryShapeInit, RegistryShapeStep, PTL DEF RegistrySpec

\* Every state of the registry is well typed.
THEOREM RegistryTyped == RegistrySpec => []RegistryTypeOK
<1>1. RegistryShape => RegistryTypeOK
  <2> SUFFICES ASSUME RegistryShape PROVE RegistryTypeOK
    OBVIOUS
  <2>1. /\ tick \in 1..MaxTick
        /\ toml.repos = Torn \/ toml.repos \subseteq Repos
        /\ temp = NoTemp \/ temp.repos = Torn \/ temp.repos \subseteq Repos
    BY DEF RegistryShape, FilesShape, TomlFiles
  <2>2. \A t \in ConfigReaders : look[t].at \in {"idle", "load", "keep", "stamp"}
    BY DEF RegistryShape, ServerShape, Looks
  <2>3. \A c \in Commands : (handle[c] # "closed") = (cmd[c] = "write")
    BY DEF RegistryShape, CommandsShape
  <2>4. served.repos \subseteq Repos /\ server \in {"down", "loaded", "up"}
    BY DEF RegistryShape, ServerShape
  <2> QED
    BY <2>1, <2>2, <2>3, <2>4
       DEF RegistryShape, CommandsShape, Plans, CleanShape, RegistryTypeOK
<1> QED
  BY <1>1, RegistryShaped, PTL
----------------------------------------------------------------------------
(* A save by one command at a time keeps what earlier ones have saved. *)

LEMMA KeptLoad ==
    ASSUME RegistryShape, Kept, NEW c \in Commands, LoadRegistry(c),
           \A d \in Commands \ {c} : cmd[d] = "idle"
    PROVE  Kept'
<1>1. /\ cmd' = [cmd EXCEPT ![c] = "open"] /\ owned' = owned \ plan'[c].drops
      /\ UNCHANGED <<toml, temp, robbed, cleaning, known>>
  BY DEF LoadRegistry, fileVars, cleanVars
<1>2. /\ plan'[c].adds \subseteq plan'[c].repos
      /\ toml.repos \ plan'[c].drops \subseteq plan'[c].repos
  BY DEF LoadRegistry, Idle, RegistryShape, CommandsShape, Plans
<1>3. cmd'[c] = "open" /\ \A d \in Commands \ {c} : cmd'[d] = "idle"
  BY <1>1 DEF RegistryShape, CommandsShape
<1>4. Working(c)'
  BY <1>1, <1>2, <1>3 DEF Kept, Working
<1> QED
  BY <1>1, <1>3, <1>4 DEF Kept

LEMMA KeptOpen ==
    ASSUME RegistryShape, Kept, NEW c \in Commands, OpenTemp(c)
    PROVE  Kept'
<1>1. /\ cmd' = [cmd EXCEPT ![c] = "write"] /\ cmd[c] = "open"
      /\ handle' = [handle EXCEPT ![c] = "temp"]
      /\ UNCHANGED <<toml, plan, owned, robbed, cleaning, known>>
  BY DEF OpenTemp, cleanVars
<1>2. Working(c)
  BY <1>1 DEF Kept
<1>3. \A d \in Commands : handle[d] # "temp"
  BY <1>1, <1>2 DEF Working, RegistryShape, CommandsShape
<1>4. c \notin shared'
  BY <1>3 DEF OpenTemp
<1>5. cmd'[c] = "write" /\ handle'[c] = "temp" /\ \A d \in Commands \ {c} : cmd'[d] = "idle"
  BY <1>1, <1>2 DEF Working, RegistryShape, CommandsShape
<1>6. Working(c)'
  BY <1>1, <1>2, <1>4, <1>5 DEF Working
<1> QED
  BY <1>1, <1>5, <1>6 DEF Kept

LEMMA KeptWrite ==
    ASSUME RegistryShape, Kept, NEW c \in Commands, WriteText(c)
    PROVE  Kept'
<1>1. /\ cmd' = [cmd EXCEPT ![c] = "replace"] /\ cmd[c] = "write"
      /\ UNCHANGED <<plan, owned, robbed, cleaning, known>>
  BY DEF WriteText, cleanVars
<1>2. Working(c) /\ handle[c] = "temp" /\ c \notin shared
  BY <1>1 DEF Kept, Working
<1>3. temp' = Version(plan[c].repos, tick) /\ toml' = toml
  BY <1>2, WriteEffect DEF RegistryShape
<1>4. temp' # NoTemp /\ temp'.repos = plan[c].repos
  <2>1. plan[c].repos \in (SUBSET Repos) \cup {Torn} /\ tick \in 0..MaxTick
    BY RegistryConstants DEF RegistryShape, FilesShape, CommandsShape, Plans
  <2> QED
    BY <1>3, <2>1, VersionFile, RegistryConstants
<1>5. cmd'[c] = "replace" /\ \A d \in Commands \ {c} : cmd'[d] = "idle"
  BY <1>1, <1>2 DEF Working, RegistryShape, CommandsShape
<1>6. Working(c)'
  BY <1>1, <1>2, <1>4, <1>5 DEF Working
<1> QED
  BY <1>1, <1>3, <1>5, <1>6 DEF Kept

LEMMA KeptReplace ==
    ASSUME RegistryShape, Kept, NEW c \in Commands, Replace(c) \/ ReplaceFails(c)
    PROVE  Kept'
<1>1. /\ cmd' = [cmd EXCEPT ![c] = "idle"] /\ cmd[c] = "replace"
      /\ UNCHANGED <<robbed, cleaning, known>>
  BY DEF Replace, ReplaceFails, EndCommand, cleanVars
<1>2. Working(c) /\ temp # NoTemp /\ temp.repos = plan[c].repos
  BY <1>1 DEF Kept, Working
<1>3. toml' = temp /\ owned' = owned \cup plan[c].adds
  BY <1>2 DEF Replace, ReplaceFails, Changing
<1>4. \A d \in Commands : cmd'[d] = "idle"
  BY <1>1, <1>2 DEF Working, RegistryShape, CommandsShape
<1>5. plan[c].repos \subseteq Repos
  BY DEF RegistryShape, CommandsShape, Plans
<1>6. toml'.repos # Torn /\ owned' \subseteq toml'.repos
  BY <1>2, <1>3, <1>5, RegistryConstants DEF Working
<1> QED
  BY <1>1, <1>4, <1>6 DEF Kept

LEMMA KeptClean ==
    ASSUME Kept, RegistryShape,
           CleanLooks \/ CleanEnds \/ (\E r \in Repos : CleanDeletes(r))
    PROVE  Kept'
<1>1. /\ UNCHANGED <<toml, temp, cmd, plan, handle, shared, owned>>
      /\ \A c \in Commands : Working(c) => Working(c)'
  BY DEF CleanLooks, CleanEnds, CleanDeletes, fileVars, commandVars, Working
<1>2. robbed' = {} /\ (cleaning' # Torn => known' \subseteq cleaning')
  BY DEF CleanLooks, CleanEnds, CleanDeletes, Kept
<1> QED
  BY <1>1, <1>2 DEF Kept

\* Steps that change neither the files nor a command nor what a clean-up found.
LEMMA KeptElse ==
    ASSUME Kept,
           UNCHANGED <<toml, temp, cmd, plan, handle, shared, owned, cleaning, known, robbed>>
    PROVE  Kept'
  BY DEF Kept, Working

LEMMA KeptStep ==
    ASSUME RegistryShape, ~overlap => Kept, RegistryNext, ~overlap'
    PROVE  Kept'
<1> USE DEF fileVars, commandVars, cleanVars
<1>1. ASSUME NEW c \in Commands, LoadRegistry(c) PROVE Kept'
  <2>1. ~overlap /\ ~\E d \in Commands \ {c} : cmd[d] # "idle"
    BY <1>1, Zenon DEF LoadRegistry
  <2> QED
    BY <1>1, <2>1, KeptLoad
<1>2. ASSUME NEW c \in Commands, OpenTemp(c) \/ WriteText(c) \/ Replace(c) \/ ReplaceFails(c)
      PROVE  Kept'
  <2>1. overlap' = overlap
    BY <1>2, Zenon DEF OpenTemp, WriteText, Replace, ReplaceFails
  <2>2. Kept
    BY <2>1, Zenon
  <2> QED
    BY <1>2, <2>2, KeptOpen, KeptWrite, KeptReplace
<1>3. ASSUME CleanLooks \/ CleanEnds \/ (\E r \in Repos : CleanDeletes(r)) PROVE Kept'
  <2>1. overlap' = overlap
    BY <1>3, Zenon DEF CleanLooks, CleanEnds, CleanDeletes
  <2>2. Kept
    BY <2>1, Zenon
  <2> QED
    BY <1>3, <2>2, KeptClean
<1>4. ASSUME UNCHANGED <<toml, temp, commandVars, cleaning, known, robbed>> PROVE Kept'
  <2>1. overlap' = overlap
    BY <1>4, Zenon
  <2>2. Kept
    BY <2>1, Zenon
  <2> QED
    BY <1>4, <2>2, KeptElse
<1>5. /\ \A c \in Commands :
            LoadFails(c) => UNCHANGED <<toml, temp, commandVars, cleaning, known, robbed>>
      /\ BootLoads \/ BootStamps \/ TickOn
         => UNCHANGED <<toml, temp, commandVars, cleaning, known, robbed>>
  BY DEF LoadFails, registryVars, BootLoads, BootStamps, TickOn
<1>6. ASSUME NEW t \in ConfigReaders,
             StatConfig(t) \/ LoadConfig(t) \/ KeepConfig(t) \/ StampConfig(t)
      PROVE  UNCHANGED <<toml, temp, commandVars, cleaning, known, robbed>>
  BY <1>6 DEF StatConfig, LoadConfig, KeepConfig, StampConfig
<1>7. ASSUME NEW r \in Repos, IndexBegins(r) \/ IndexPublishes(r)
      PROVE  UNCHANGED <<toml, temp, commandVars, cleaning, known, robbed>>
  BY <1>7 DEF IndexBegins, IndexPublishes
<1> QED
  BY <1>1, <1>2, <1>3, <1>4, <1>5, <1>6, <1>7 DEF RegistryNext

----------------------------------------------------------------------------
(* A copy that is renewed by one thread at a time is the registry's. *)

\* A save with a later time than the one before tells the copy's stamp apart.
LEMMA CurrentSave ==
    ASSUME RegistryShape, FilesShape', Current, UNCHANGED serverSide,
           toml'.stamp > toml.stamp, server # "loaded"
    PROVE  Current'
<1>1. toml.stamp \in Int /\ toml'.stamp \in Int /\ served.stamp \in Int
  BY RegistryConstants DEF RegistryShape, FilesShape, ServerShape, TomlFiles
<1>2. \A t \in ConfigReaders : look[t].stamp \in Int
  BY RegistryConstants DEF RegistryShape, ServerShape, Looks
<1>3. served.stamp < toml'.stamp /\ \A t \in ConfigReaders : look[t].stamp < toml'.stamp
  BY <1>1, <1>2 DEF Current
<1>4. UNCHANGED <<served, server, look>>
  BY DEF serverSide
<1> QED
  BY <1>1, <1>2, <1>3, <1>4 DEF Current

LEMMA CurrentBoot ==
    ASSUME RegistryShape, Current, BootLoads \/ BootStamps
    PROVE  Current'
<1>1. \A t \in ConfigReaders : look[t].at = "idle"
  BY DEF Current, BootLoads, BootStamps
<1>2. UNCHANGED <<toml, look>>
  BY DEF BootLoads, BootStamps, fileVars
<1>3. toml.stamp \in Int
  BY RegistryConstants DEF RegistryShape, FilesShape, TomlFiles
<1>4. CASE BootLoads
  <2>1. server' = "loaded" /\ served'.repos = toml.repos /\ served'.stamp = served.stamp
    BY <1>4 DEF BootLoads, RegistryShape, ServerShape
  <2> QED
    BY <1>1, <1>2, <2>1 DEF Current
<1>5. CASE BootStamps
  <2>1. /\ server = "loaded" /\ server' = "up"
        /\ served'.repos = served.repos /\ served'.stamp = toml.stamp
    BY <1>5 DEF BootStamps, RegistryShape, ServerShape
  <2> QED
    BY <1>1, <1>2, <1>3, <2>1 DEF Current
<1> QED
  BY <1>4, <1>5

\* What a thread that renews the copy alone leaves, step by step.
LEMMA CurrentLook ==
    ASSUME RegistryShape, Current, NEW t \in ConfigReaders,
           \A u \in ConfigReaders \ {t} : look[u].at = "idle",
           StatConfig(t) \/ LoadConfig(t) \/ KeepConfig(t) \/ StampConfig(t)
    PROVE  Current'
<1>0. /\ server = "up" /\ server' = server /\ toml' = toml
      /\ toml.stamp \in Int /\ served.stamp \in Int /\ look[t].stamp \in Int
      /\ look \in [ConfigReaders -> Looks] /\ look[t] \in Looks
      /\ toml.repos # Torn => toml.repos \in SUBSET Repos
      /\ served \in [repos : SUBSET Repos, stamp : 0..MaxTick]
  BY RegistryConstants
     DEF StatConfig, LoadConfig, KeepConfig, StampConfig, fileVars, Current,
         RegistryShape, FilesShape, ServerShape, TomlFiles, Looks
<1>1. \A u \in ConfigReaders \ {t} : look'[u] = look[u]
  BY <1>0 DEF StatConfig, LoadConfig, KeepConfig, StampConfig
<1>2. \A u, w \in ConfigReaders : look'[u].at # "idle" /\ look'[w].at # "idle" => u = w
  BY <1>1
<1>3. ASSUME look'[t].stamp <= toml.stamp, served'.stamp <= toml.stamp,
             look'[t].at = "keep" /\ look'[t].stamp = toml.stamp
                => look'[t].repos = toml.repos,
             look'[t].at = "stamp" /\ look'[t].stamp = toml.stamp
                => served'.repos = toml.repos,
             served'.stamp = toml.stamp /\ look'[t].at # "stamp"
                => served'.repos = toml.repos
      PROVE  Current'
  <2>1. \A u \in ConfigReaders \ {t} :
           look'[u].stamp <= toml.stamp /\ look'[u].at = "idle"
    BY <1>1 DEF Current
  <2>2. server' = "up" /\ toml' = toml
    BY <1>0
  <2>3. \A u \in ConfigReaders :
           /\ look'[u].stamp <= toml.stamp
           /\ look'[u].at = "keep" /\ look'[u].stamp = toml.stamp
              => look'[u].repos = toml.repos
           /\ look'[u].at = "stamp" /\ look'[u].stamp = toml.stamp
              => served'.repos = toml.repos
    BY <1>3, <2>1
  <2> QED
    BY <1>2, <1>3, <2>2, <2>3 DEF Current
<1>4. /\ served.stamp <= toml.stamp /\ look[t].stamp <= toml.stamp
      /\ look[t].at # "stamp" /\ served.stamp = toml.stamp => served.repos = toml.repos
  BY <1>0 DEF Current
<1>5. CASE StatConfig(t)
  <2>1. /\ look'[t].at = "load" /\ look'[t].stamp = toml.stamp /\ served' = served
        /\ look[t].at = "idle"
    BY <1>0, <1>5 DEF StatConfig, NoLook
  <2> QED
    BY <1>0, <1>3, <1>4, <2>1
<1>6. CASE LoadConfig(t)
  <2>1. served' = served /\ look[t].at = "load"
    BY <1>6 DEF LoadConfig
  <2>2. \/ look'[t] = NoLook
        \/ /\ look'[t].at = "keep" /\ look'[t].stamp = look[t].stamp
           /\ look'[t].repos = toml.repos
    BY <1>0, <1>6 DEF LoadConfig, Looks
  <2>3. 0 <= toml.stamp
    BY RegistryConstants DEF RegistryShape, FilesShape, TomlFiles
  <2> QED
    BY <1>0, <1>3, <1>4, <2>1, <2>2, <2>3 DEF NoLook
<1>7. CASE KeepConfig(t)
  <2>1. /\ look[t].at = "keep" /\ look'[t].at = "stamp"
        /\ look'[t].stamp = look[t].stamp
        /\ served'.repos = look[t].repos /\ served'.stamp = served.stamp
    BY <1>0, <1>7 DEF KeepConfig, Looks
  <2>2. look[t].stamp = toml.stamp => look[t].repos = toml.repos
    BY <2>1 DEF Current
  <2> QED
    BY <1>0, <1>3, <1>4, <2>1, <2>2
<1>8. CASE StampConfig(t)
  <2>1. /\ look[t].at = "stamp" /\ look'[t].at = "idle" /\ look'[t].stamp = 0
        /\ served'.repos = served.repos /\ served'.stamp = look[t].stamp
    BY <1>0, <1>8 DEF StampConfig, NoLook
  <2>2. look[t].stamp = toml.stamp => served.repos = toml.repos
    BY <2>1 DEF Current
  <2>3. 0 <= toml.stamp
    BY RegistryConstants DEF RegistryShape, FilesShape, TomlFiles
  <2> QED
    BY <1>0, <1>3, <1>4, <2>1, <2>2, <2>3
<1> QED
  BY <1>5, <1>6, <1>7, <1>8

LEMMA CurrentElse ==
    ASSUME Current, UNCHANGED <<toml, serverSide>> PROVE Current'
  BY DEF Current, serverSide

LEMMA CurrentStep ==
    ASSUME RegistryShape, ~mixed => Current, RegistryNext, ~mixed'
    PROVE  Current'
<1>1. ASSUME UNCHANGED <<toml, serverSide, mixed>> PROVE Current'
  <2>1. mixed' = mixed
    BY <1>1, Zenon
  <2>2. Current
    BY <2>1, Zenon
  <2> QED
    BY <1>1, <2>2, CurrentElse
<1>2. ASSUME NEW new, Changing(new), UNCHANGED serverSide, new \in TomlFiles PROVE Current'
  <2>1. ~mixed /\ server # "loaded" /\ ~(new.stamp <= toml.stamp) /\ toml' = new
    BY <1>2, Zenon DEF Changing
  <2>2. toml.stamp \in Int /\ new.stamp \in Int
    BY <1>2, RegistryConstants DEF RegistryShape, FilesShape, TomlFiles
  <2>3. Current
    BY <2>1, Zenon
  <2> QED
    BY <1>2, <2>1, <2>2, <2>3, CurrentSave, FilesKeepShape
<1>3. ASSUME NEW c \in Commands, WriteText(c) PROVE Current'
  <2>1. PICK wrote \in {plan[c].repos} \cup (IF c \in shared THEN {Torn} ELSE {}) :
          \/ UNCHANGED <<toml, mixed>>
          \/ Changing(Version(wrote, tick))
    BY <1>3 DEF WriteText
  <2>2. wrote \in (SUBSET Repos) \cup {Torn} /\ tick \in 0..MaxTick
    BY <2>1, RegistryConstants DEF RegistryShape, FilesShape, CommandsShape, Plans
  <2>3. Version(wrote, tick) \in TomlFiles
    BY <2>2, VersionFile
  <2>4. UNCHANGED serverSide
    BY <1>3 DEF WriteText
  <2> QED
    BY <1>1, <1>2, <2>1, <2>3, <2>4
<1>4. ASSUME NEW c \in Commands, Replace(c) PROVE Current'
  <2>1. Changing(temp) /\ UNCHANGED serverSide /\ temp \in TomlFiles
    BY <1>4 DEF Replace, RegistryShape, FilesShape
  <2> QED
    BY <1>2, <2>1
<1>5. ASSUME NEW c \in Commands,
             LoadFails(c) \/ LoadRegistry(c) \/ OpenTemp(c) \/ ReplaceFails(c)
      PROVE  UNCHANGED <<toml, serverSide, mixed>>
  BY <1>5 DEF LoadFails, LoadRegistry, OpenTemp, ReplaceFails, registryVars, fileVars
<1>6. ASSUME BootLoads \/ BootStamps PROVE Current'
  <2>1. mixed' = mixed
    BY <1>6, Zenon DEF BootLoads, BootStamps
  <2>2. Current
    BY <2>1, Zenon
  <2> QED
    BY <1>6, <2>2, CurrentBoot
<1>7. ASSUME NEW t \in ConfigReaders, StatConfig(t) PROVE Current'
  <2>1. ~mixed /\ ~\E u \in ConfigReaders \ {t} : look[u].at # "idle"
    BY <1>7, Zenon DEF StatConfig
  <2>2. Current
    BY <2>1, Zenon
  <2> QED
    BY <1>7, <2>1, <2>2, CurrentLook
<1>8. ASSUME NEW t \in ConfigReaders, LoadConfig(t) \/ KeepConfig(t) \/ StampConfig(t)
      PROVE  Current'
  <2>1. mixed' = mixed
    BY <1>8, Zenon DEF LoadConfig, KeepConfig, StampConfig
  <2>2. Current
    BY <2>1, Zenon
  <2>3. \A u \in ConfigReaders \ {t} : look[u].at = "idle"
    BY <1>8, <2>2 DEF LoadConfig, KeepConfig, StampConfig, Current
  <2> QED
    BY <1>8, <2>2, <2>3, CurrentLook
<1>9. ASSUME NEW r \in Repos, IndexBegins(r) \/ IndexPublishes(r) \/ CleanDeletes(r)
      PROVE  UNCHANGED <<toml, serverSide, mixed>>
  BY <1>9 DEF IndexBegins, IndexPublishes, CleanDeletes, fileVars
<1>10. CleanLooks \/ CleanEnds \/ TickOn => UNCHANGED <<toml, serverSide, mixed>>
  BY DEF CleanLooks, CleanEnds, TickOn, fileVars
<1> QED
  BY <1>1, <1>3, <1>4, <1>5, <1>6, <1>7, <1>8, <1>9, <1>10 DEF RegistryNext

----------------------------------------------------------------------------
LEMMA RegistryInit_Inv == RegistryInit => RegistryInv
<1> SUFFICES ASSUME RegistryInit PROVE RegistryInv
  OBVIOUS
<1>1. RegistryShape
  BY RegistryShapeInit
<1>2. Kept
  BY RegistryConstants DEF RegistryInit, Kept, Version
<1>3. Current
  BY RegistryConstants DEF RegistryInit, Current, Version, NoLook
<1> QED
  BY <1>1, <1>2, <1>3 DEF RegistryInv

LEMMA RegistryStep == RegistryInv /\ [RegistryNext]_registryVars => RegistryInv'
<1>1. ASSUME RegistryInv, RegistryNext PROVE RegistryInv'
  BY <1>1, RegistryShapeStep, KeptStep, CurrentStep DEF RegistryInv
<1>2. ASSUME RegistryInv, UNCHANGED registryVars PROVE RegistryInv'
  <2>1. RegistryShape'
    BY <1>2, RegistryShapeStep DEF RegistryInv
  <2>2. overlap' = overlap /\ mixed' = mixed
    BY <1>2, Zenon DEF registryVars, commandVars
  <2>3. Kept => Kept'
    BY <1>2, KeptElse DEF registryVars, fileVars, commandVars, cleanVars
  <2>4. Current => Current'
    BY <1>2, CurrentElse DEF registryVars, fileVars
  <2> QED
    BY <1>2, <2>1, <2>2, <2>3, <2>4, Zenon DEF RegistryInv
<1> QED
  BY <1>1, <1>2

LEMMA RegistryInvariant == RegistrySpec => []RegistryInv
  BY RegistryInit_Inv, RegistryStep, PTL DEF RegistrySpec

\* For any number of commands, saves and repositories, what a command has
\* registered stays in a registry that is whole, and no clean-up takes its
\* snapshots, unless two commands have been at work at once.
THEOREM RegistryKeeps == RegistrySpec => []RegisteredStays
<1>1. RegistryInv => RegisteredStays
  BY Zenon DEF RegistryInv, Kept, RegisteredStays
<1> QED
  BY <1>1, RegistryInvariant, PTL

\* For any number of threads and saves, a copy whose stamp is the registry's
\* is the registry's, unless its renewals have met one of their hazards.
THEOREM RegistryServed == RegistrySpec => []ServesTheRegistry
<1>1. RegistryInv => ServesTheRegistry
  <2> SUFFICES ASSUME RegistryInv, ~mixed, server = "up", served.stamp = toml.stamp,
                      \A t \in ConfigReaders : look[t].at = "idle"
               PROVE  served.repos = toml.repos
    BY Zenon DEF ServesTheRegistry
  <2>1. Current
    BY Zenon DEF RegistryInv
  <2> QED
    BY <2>1 DEF Current
<1> QED
  BY <1>1, RegistryInvariant, PTL

----------------------------------------------------------------------------
(* Workflows: an inspection is of one snapshot and a batch accounts for     *)
(* what it ran, for any snapshots, symbols and batches.  The argument: a    *)
(* request that holds a scope has read nothing else (Scoped), and what a    *)
(* batch has found so far leads from each result to the next (Chained).     *)

OpNames == {"find", "context", "inspect", "write"}
Results == Seq([op : OpNames, id : Nat, ok : BOOLEAN, run : 1..LastRun])

WorkShape ==
    /\ index \in [1..LastRun -> Symbols]
    /\ newest \in 1..LastRun /\ pointed \in 1..newest /\ scope \in 0..newest
    /\ doing \in {"idle", "enter", "find", "context", "relations", "packet", "batch"}
    /\ content \in BOOLEAN /\ cut \in BOOLEAN
    /\ operations \in Batches \cup {<<>>}
    /\ results \in Results /\ Len(results) <= Len(operations)

Inside == {"find", "context", "relations", "packet"}

Scoped ==
    /\ scope # NoScope <=> doing \in Inside
    /\ doing \in {"enter", "find"} => readFrom = {}
    /\ doing \in {"context", "relations", "packet"} =>
          readFrom = {scope} /\ target = Resolve(scope)
    /\ doing = "relations" => target \in FoundIn(scope)
    /\ doing # "idle" => outcome = Nothing

\* Every result is one of its operation, and a context that was read is of what
\* the search before it has found.
Chained ==
    doing = "batch" =>
        /\ \A i \in 1..Len(results) : results[i].op = operations[i]
        /\ \A i \in 1..Len(results) :
              results[i].op = "find" /\ results[i].id # NoId =>
                  results[i].ok = TRUE /\ results[i].id \in FoundIn(results[i].run)
        /\ \A i \in 1..Len(results) :
              results[i].op = "context" /\ results[i].ok = TRUE =>
                  /\ i > 1 /\ results[i - 1].ok = TRUE
                  /\ results[i - 1].id = results[i].id
                  /\ results[i].id \in FoundIn(results[i - 1].run) \cap FoundIn(results[i].run)

WorkInv == WorkShape /\ Scoped /\ Chained /\ WorkflowsAgree

LEMMA WorkConstants ==
    /\ LastRun \in Nat /\ LastRun > 0 /\ Batches \subseteq Seq(OpNames)
    /\ \A s \in Symbols : /\ s.exact \subseteq Nat \ {0} /\ s.other \subseteq Nat \ {0}
                          /\ s.edges \in Nat
  BY WorkAssumption DEF WorkAssumption, OpNames

LEMMA FoundIds ==
    ASSUME WorkShape, NEW run \in 1..LastRun
    PROVE  /\ index[run] \in Symbols /\ index[run].edges \in Nat
           /\ FoundIn(run) \subseteq Nat \ {0}
           /\ FirstOf(FoundIn(run)) \in FoundIn(run) \cup {NoId}
<1>1. index[run] \in Symbols
  BY DEF WorkShape
<1>2. FoundIn(run) \subseteq Nat \ {0} /\ index[run].edges \in Nat
  BY <1>1, WorkConstants DEF FoundIn
<1>3. FoundIn(run) # {} => \E m \in FoundIn(run) : \A n \in FoundIn(run) : m <= n
  BY <1>2, LeastOf
<1> QED
  BY <1>1, <1>2, <1>3 DEF FirstOf

\* The snapshot that a read goes to.
LEMMA StoreKnown ==
    ASSUME WorkShape
    PROVE  StoreOf \in 1..LastRun /\ pointed \in 1..LastRun
  BY WorkConstants DEF WorkShape, StoreOf, NoScope

LEMMA WorkInit_Inv == WorkInit => WorkInv
<1> SUFFICES ASSUME WorkInit PROVE WorkInv
  OBVIOUS
<1>1. WorkShape
  <2>1. results \in Results /\ Len(results) <= Len(operations)
    BY EmptySeq DEF WorkInit, Results
  <2>2. newest \in 1..LastRun /\ pointed \in 1..newest /\ scope \in 0..newest
    BY WorkConstants DEF WorkInit, NoScope
  <2> QED
    BY <2>1, <2>2, Zenon DEF WorkInit, WorkShape
<1>2. Scoped /\ Chained
  BY DEF WorkInit, Scoped, Chained, Inside
<1>3. WorkflowsAgree
  BY DEF WorkInit, WorkflowsAgree, InspectionsAgree, BatchesAccount, Nothing
<1> QED
  BY <1>1, <1>2, <1>3 DEF WorkInv

----------------------------------------------------------------------------
(* What is published meanwhile changes nothing a request has read. *)

LEMMA PublishKeeps == ASSUME WorkInv, Publish \/ Renew PROVE WorkInv'
<1>1. /\ UNCHANGED <<index, scope, doing, view, target, content, cut, operations,
                     results, outcome, readFrom>>
      /\ newest' \in 1..LastRun /\ pointed' \in 1..newest' /\ newest <= newest'
  BY WorkConstants DEF Publish, Renew, WorkInv, WorkShape, inspectVars, batchVars
<1>2. WorkShape'
  BY <1>1, WorkConstants DEF WorkInv, WorkShape, Results
<1>3. Scoped'
  BY <1>1 DEF WorkInv, Scoped, Resolve, FoundIn, Inside, NoScope, Nothing
<1>4. Chained'
  BY <1>1 DEF WorkInv, Chained, FoundIn, NoId
<1>5. WorkflowsAgree'
  <2>1. InspectionsAgree'
    <3>1. UNCHANGED <<index, doing, view, outcome, readFrom>>
      BY <1>1
    <3>2. InspectionsAgree
      BY DEF WorkInv, WorkflowsAgree
    <3> QED
      BY <3>1, <3>2, Zenon DEF InspectionsAgree, Resolve, FoundIn, NoId
  <2>2. BatchesAccount'
    BY <1>1, Zenon DEF WorkInv, WorkflowsAgree, BatchesAccount, FoundIn
  <2> QED
    BY <1>1, <2>1, <2>2 DEF WorkInv, WorkflowsAgree, NoScope
<1> QED
  BY <1>2, <1>3, <1>4, <1>5 DEF WorkInv

----------------------------------------------------------------------------
(* A request that goes on has told nothing; one that ends lets its scope go. *)

LEMMA GoingOn == WorkShape /\ Scoped /\ doing # "idle" => WorkflowsAgree
<1> SUFFICES ASSUME WorkShape, Scoped, doing # "idle" PROVE WorkflowsAgree
  OBVIOUS
<1>1. outcome = Nothing /\ (scope # NoScope => doing \in Inside)
  BY DEF Scoped
<1>2. doing \notin {"idle", "batch"} => readFrom = {} \/ readFrom = {scope}
  BY DEF Scoped, WorkShape
<1>3. Cardinality({scope}) = 1
  BY FS_Singleton
<1>4. Cardinality({}) = 0
  BY FS_EmptySet
<1>6. InspectionsAgree
  BY <1>1, <1>2, <1>3, <1>4 DEF InspectionsAgree, Nothing
<1>5. BatchesAccount
  BY <1>1 DEF BatchesAccount, Nothing
<1> QED
  BY <1>1, <1>6, <1>5 DEF WorkflowsAgree, Inside

LEMMA GoesOn == ASSUME WorkShape', Scoped', doing' # "idle", Chained' PROVE WorkInv'
<1>1. (WorkShape /\ Scoped /\ doing # "idle" => WorkflowsAgree)'
  BY GoingOn, PTL
<1> QED
  BY <1>1 DEF WorkInv

LEMMA Ends ==
    ASSUME WorkShape', doing' = "idle", scope' = NoScope,
           outcome'.status \notin {"resolved", "packet", "success"}
    PROVE  WorkInv'
<1>1. Scoped' /\ Chained'
  BY DEF Scoped, Chained, Inside
<1>2. WorkflowsAgree'
  BY DEF WorkflowsAgree, InspectionsAgree, BatchesAccount
<1> QED
  BY <1>1, <1>2 DEF WorkInv

\* What keeps the shape: the snapshots stay, and the batch is of its shape.
LEMMA ShapeKept ==
    ASSUME WorkShape, UNCHANGED <<index, newest, pointed>>,
           scope' \in 0..newest,
           doing' \in {"idle", "enter", "find", "context", "relations", "packet", "batch"},
           content' \in BOOLEAN, cut' \in BOOLEAN,
           \/ operations' = operations /\ results' = results
           \/ operations' \in Batches \cup {<<>>} /\ results' = <<>>
    PROVE  WorkShape'
<1>1. /\ operations' \in Batches \cup {<<>>} /\ results' \in Results
      /\ Len(results') <= Len(operations')
  <2>1. CASE operations' = operations /\ results' = results
    BY <2>1 DEF WorkShape
  <2>2. CASE operations' \in Batches \cup {<<>>} /\ results' = <<>>
    <3>1. operations' \in Seq(OpNames)
      BY <2>2, WorkConstants, EmptySeq
    <3>2. Len(operations') \in Nat
      BY <3>1, LenProperties
    <3> QED
      BY <2>2, <3>2, EmptySeq DEF Results
  <2> QED
    BY <2>1, <2>2
<1>2. /\ index' \in [1..LastRun -> Symbols] /\ newest' \in 1..LastRun
      /\ pointed' \in 1..newest' /\ scope' \in 0..newest'
  BY DEF WorkShape
<1> QED
  BY <1>1, <1>2, Zenon DEF WorkShape, Results

\* A request goes on within its batch or inspection, or is over.
LEMMA ShapeGoesOn ==
    ASSUME WorkShape, UNCHANGED <<index, newest, pointed, operations, results>>,
           scope' \in 0..newest, content' \in BOOLEAN, cut' \in BOOLEAN,
           doing' \in {"idle", "enter", "find", "context", "relations", "packet", "batch"}
    PROVE  WorkShape'
<1>1. operations' = operations /\ results' = results /\ UNCHANGED <<index, newest, pointed>>
  OBVIOUS
<1> QED
  BY <1>1, ShapeKept

LEMMA ShapeEnds ==
    ASSUME WorkShape, UNCHANGED <<index, newest, pointed, operations, results>>,
           scope' = NoScope, content' \in BOOLEAN, cut' \in BOOLEAN, doing' = "idle"
    PROVE  WorkShape'
<1>1. /\ scope' \in 0..newest
      /\ doing' \in {"idle", "enter", "find", "context", "relations", "packet", "batch"}
  BY DEF WorkShape, NoScope
<1> QED
  BY <1>1, ShapeGoesOn

----------------------------------------------------------------------------
(* inspect_symbol *)

LEMMA InspectKeeps ==
    ASSUME WorkInv, NEW v \in Views, Inspect(v)
    PROVE  WorkInv'
<1>0. WorkShape
  BY DEF WorkInv
<1>1. /\ UNCHANGED <<index, newest, pointed, scope>>
      /\ doing = "idle" /\ doing' = "enter" /\ readFrom' = {} /\ outcome' = Nothing
      /\ operations' = <<>> /\ results' = <<>>
  BY DEF Inspect
<1>2. content' = FALSE /\ cut' = FALSE
  BY Zenon DEF Inspect
<1>3. WorkShape'
  <2>1. FALSE \in BOOLEAN
    OBVIOUS
  <2>2. content' \in BOOLEAN /\ cut' \in BOOLEAN
    BY <1>2, <2>1, Zenon
  <2> QED
    BY <1>0, <1>1, <2>2, ShapeKept DEF WorkShape
<1>4. scope = NoScope
  BY <1>1 DEF WorkInv, Scoped, Inside
<1>5. Scoped' /\ Chained'
  BY <1>1, <1>4 DEF Scoped, Chained, Inside, NoScope
<1> QED
  BY <1>1, <1>3, <1>5, GoesOn

LEMMA EnterKeeps == ASSUME WorkInv, EnterScope PROVE WorkInv'
<1>0. WorkShape
  BY DEF WorkInv
<1>1. /\ UNCHANGED <<index, newest, pointed, operations, results, outcome, readFrom>>
      /\ doing = "enter" /\ doing' = "find" /\ scope' = pointed
  BY DEF EnterScope, batchVars
<1>2. content' \in BOOLEAN /\ cut' \in BOOLEAN
  BY Zenon DEF EnterScope, inspectVars, WorkInv, WorkShape
<1>3. scope' \in 0..newest /\ scope' # NoScope
  BY <1>0, <1>1, WorkConstants DEF WorkShape, NoScope
<1>4. WorkShape'
  <2>1. doing' \in {"idle", "enter", "find", "context", "relations", "packet", "batch"}
    BY <1>1
  <2> QED
    BY <1>0, <1>1, <1>2, <1>3, <2>1, ShapeGoesOn
<1>5. Scoped' /\ Chained'
  BY <1>1, <1>3 DEF WorkInv, Scoped, Chained, Inside, NoScope
<1> QED
  BY <1>1, <1>4, <1>5, GoesOn

\* A request with a scope reads the snapshot of its scope.
LEMMA ScopeRead ==
    ASSUME WorkInv, doing \in Inside
    PROVE  /\ StoreOf = scope /\ scope # NoScope /\ scope \in 1..LastRun
           /\ outcome = Nothing /\ doing # "idle"
           /\ doing = "find" => readFrom \cup {StoreOf} = {scope}
           /\ doing \in {"context", "relations", "packet"} =>
                 readFrom = {scope} /\ target = Resolve(scope)
  BY WorkConstants DEF WorkInv, WorkShape, Scoped, StoreOf, NoScope, Inside

LEMMA FindKeeps == ASSUME WorkInv, FindTarget PROVE WorkInv'
<1>0. WorkShape /\ doing \in Inside
  BY DEF WorkInv, FindTarget, Inside
<1>1. /\ UNCHANGED <<index, newest, pointed, operations, results>>
      /\ doing = "find" /\ readFrom' = {scope} /\ target' = Resolve(scope)
  BY <1>0, ScopeRead DEF FindTarget, Read, batchVars
<1>2. content' \in BOOLEAN /\ cut' \in BOOLEAN
  BY Zenon DEF FindTarget, WorkInv, WorkShape
<1>3. CASE target' = NoId
  <2>1. /\ scope' = NoScope /\ doing' = "idle"
        /\ outcome' = [status |-> IF FoundIn(StoreOf) = {} THEN "not_found"
                                                          ELSE "ambiguous"]
    BY <1>3 DEF FindTarget, End
  <2>2. WorkShape'
    BY <1>0, <1>1, <1>2, <2>1, ShapeKept DEF WorkShape, NoScope
  <2>3. outcome'.status \notin {"resolved", "packet", "success"}
    BY <2>1
  <2> QED
    BY <2>1, <2>2, <2>3, Ends
<1>4. CASE target' # NoId
  <2>1. /\ scope' = scope /\ outcome' = outcome
        /\ doing' = IF view = "full" THEN "packet" ELSE "context"
    BY <1>4 DEF FindTarget
  <2>2. WorkShape'
    BY <1>0, <1>1, <1>2, <2>1, ShapeKept DEF WorkShape, NoScope
  <2>3. Scoped' /\ Chained'
    BY <1>0, <1>1, <2>1, ScopeRead DEF Scoped, Chained, Inside, NoScope, Nothing, Resolve, FoundIn
  <2> QED
    BY <2>1, <2>2, <2>3, GoesOn
<1> QED
  BY <1>3, <1>4

LEMMA ContextKeeps == ASSUME WorkInv, ReadContext PROVE WorkInv'
<1>0. WorkShape /\ doing \in Inside
  BY DEF WorkInv, ReadContext, Inside
<1>1. /\ UNCHANGED <<index, newest, pointed, scope, target, operations, results, outcome>>
      /\ doing = "context" /\ doing' = "relations" /\ readFrom' = {scope}
      /\ target \in FoundIn(scope)
  BY <1>0, ScopeRead DEF ReadContext, Read, batchVars
<1>2. content' \in BOOLEAN /\ cut' \in BOOLEAN
  <2>1. PICK fits \in {"body", "symbol", "nothing"}, stale \in BOOLEAN :
           /\ content' = (view = "normal" /\ fits = "body" /\ ~stale)
           /\ cut' = (fits # "body")
    BY Zenon DEF ReadContext
  <2> QED
    BY <2>1
<1>3. WorkShape'
  BY <1>0, <1>1, <1>2, ShapeKept DEF WorkShape
<1>4. Scoped' /\ Chained'
  BY <1>0, <1>1, ScopeRead DEF Scoped, Chained, Inside, NoScope, Nothing, Resolve, FoundIn
<1> QED
  BY <1>1, <1>3, <1>4, GoesOn

LEMMA RelationsKeep == ASSUME WorkInv, ReadRelations PROVE WorkInv'
<1>0. WorkShape /\ doing \in Inside /\ doing = "relations"
  BY DEF WorkInv, ReadRelations, Inside
<1>1. /\ StoreOf = scope /\ scope \in 1..LastRun /\ target = Resolve(scope)
      /\ target \in FoundIn(scope)
  BY <1>0, ScopeRead DEF WorkInv, Scoped
<1>2. PICK given \in 0..index[scope].edges :
         End([status |-> "resolved", id |-> target, given |-> given,
              omitted |-> index[scope].edges - given, content |-> content,
              retry |-> view = "normal" /\ ~content,
              truncated |-> \/ cut \/ given < index[scope].edges
                            \/ view = "normal" /\ ~content])
  BY <1>1, Zenon DEF ReadRelations
<1>3. /\ UNCHANGED <<index, newest, pointed, view, target, operations, results>>
      /\ readFrom' = {scope}
  BY <1>0, <1>1, ScopeRead DEF ReadRelations, Read, inspectVars, batchVars
<1>4. content' \in BOOLEAN /\ cut' \in BOOLEAN
  BY Zenon DEF ReadRelations, inspectVars, WorkInv, WorkShape
<1>5. scope' = NoScope /\ doing' = "idle"
  BY <1>2 DEF End
<1>6. /\ outcome'.status = "resolved" /\ outcome'.id = target
      /\ outcome'.given = given /\ outcome'.omitted = index[scope].edges - given
  BY <1>2 DEF End
<1>7. /\ outcome'.content = content
      /\ outcome'.truncated = (\/ cut \/ given < index[scope].edges
                               \/ view = "normal" /\ ~content)
  BY <1>2, Zenon DEF End
<1>8. WorkShape'
  BY <1>0, <1>3, <1>4, <1>5, ShapeEnds
<1>9. Scoped' /\ Chained'
  BY <1>5 DEF Scoped, Chained, Inside
<1>10. index[scope].edges \in Nat
  BY <1>0, <1>1, FoundIds
<1>11. ~outcome'.truncated =>
          outcome'.omitted = 0 /\ (view = "normal" => outcome'.content)
  <2>1. SUFFICES ASSUME ~outcome'.truncated
                 PROVE  outcome'.omitted = 0 /\ (view = "normal" => outcome'.content)
    OBVIOUS
  <2>2. ~(given < index[scope].edges) /\ (view = "normal" => content)
    BY <2>1, <1>7, Zenon
  <2>3. outcome'.omitted = 0
    BY <2>2, <1>6, <1>10
  <2>4. view = "normal" => outcome'.content
    BY <2>2, <1>7, Zenon
  <2> QED
    BY <2>3, <2>4
<1>12. \A run : Resolve(run)' = Resolve(run)
  BY <1>3 DEF Resolve, FoundIn, NoId
<1>13. InspectionsAgree'
  <2>1. PICK run : run = scope
    OBVIOUS
  <2>2. /\ readFrom' = {run} /\ Resolve(run)' = outcome'.id
        /\ outcome'.given + outcome'.omitted = index'[run].edges
    BY <1>1, <1>3, <1>6, <1>10, <1>12, <2>1
  <2>3. run \in readFrom' /\ view' = view
    BY <1>3, <2>1
  <2>4. ~outcome'.truncated =>
            outcome'.omitted = 0 /\ (view' = "normal" => outcome'.content)
    BY <1>11, <2>3, Zenon
  <2>5. outcome'.status # "packet" /\ doing' = "idle"
    BY <1>5, <1>6
  <2> QED
    BY <2>2, <2>3, <2>4, <2>5, Zenon DEF InspectionsAgree
<1>14. WorkflowsAgree'
  BY <1>5, <1>6, <1>13 DEF WorkflowsAgree, BatchesAccount
<1> QED
  BY <1>8, <1>9, <1>14 DEF WorkInv

LEMMA PacketKeeps == ASSUME WorkInv, ReadPacket PROVE WorkInv'
<1>0. WorkShape /\ doing \in Inside /\ doing = "packet"
  BY DEF WorkInv, ReadPacket, Inside
<1>1. /\ UNCHANGED <<index, newest, pointed, operations, results>>
      /\ readFrom' = {scope} /\ scope' = NoScope /\ doing' = "idle"
      /\ outcome' = [status |-> "packet", id |-> target, edges |-> index[scope].edges]
  BY <1>0, ScopeRead DEF ReadPacket, Read, End, batchVars
<1>2. content' \in BOOLEAN /\ cut' \in BOOLEAN
  BY Zenon DEF ReadPacket, inspectVars, WorkInv, WorkShape
<1>3. WorkShape'
  BY <1>0, <1>1, <1>2, ShapeEnds
<1>4. Scoped' /\ Chained'
  BY <1>1 DEF Scoped, Chained, Inside
<1>5. outcome'.status = "packet" /\ outcome'.edges = index'[scope].edges
  BY <1>1
<1>6. InspectionsAgree' /\ BatchesAccount'
  BY <1>1, <1>5 DEF InspectionsAgree, BatchesAccount
<1> QED
  BY <1>1, <1>3, <1>4, <1>6 DEF WorkInv, WorkflowsAgree

LEMMA FailureKeeps == ASSUME WorkInv, ReadFails \/ Forbidden PROVE WorkInv'
<1>0. WorkShape
  BY DEF WorkInv
<1>1. /\ UNCHANGED <<index, newest, pointed, operations, results>>
      /\ scope' = NoScope /\ doing' = "idle"
      /\ outcome'.status \notin {"resolved", "packet", "success"}
  BY DEF ReadFails, Forbidden, End, batchVars
<1>2. content' \in BOOLEAN /\ cut' \in BOOLEAN
  BY Zenon DEF ReadFails, Forbidden, inspectVars, WorkInv, WorkShape
<1>3. WorkShape'
  BY <1>0, <1>1, <1>2, ShapeEnds
<1> QED
  BY <1>1, <1>3, Ends

----------------------------------------------------------------------------
(* execute_batch *)

LEMMA BatchKeeps == ASSUME WorkInv, NEW ops \in Batches, Batch(ops) PROVE WorkInv'
<1>0. WorkShape /\ scope = NoScope
  BY DEF WorkInv, Scoped, Batch, Inside
<1>1. /\ UNCHANGED <<index, newest, pointed, scope>>
      /\ operations' = ops /\ results' = <<>> /\ readFrom' = {}
      /\ \/ doing' = "batch" /\ outcome' = Nothing
         \/ doing' = "idle" /\ outcome' = [status |-> "error"]
  BY DEF Batch
<1>2. content' \in BOOLEAN /\ cut' \in BOOLEAN
  <2>1. content' = FALSE /\ cut' = FALSE
    BY Zenon DEF Batch
  <2>2. FALSE \in BOOLEAN
    OBVIOUS
  <2> QED
    BY <2>1, <2>2, Zenon
<1>3. WorkShape'
  <2>1. /\ UNCHANGED <<index, newest, pointed>> /\ scope' \in 0..newest
        /\ doing' \in {"idle", "enter", "find", "context", "relations", "packet", "batch"}
        /\ operations' \in Batches \cup {<<>>} /\ results' = <<>>
    BY <1>0, <1>1 DEF WorkShape
  <2> QED
    BY <1>0, <1>2, <2>1, ShapeKept
<1>4. CASE doing' = "batch" /\ outcome' = Nothing
  <2>1. Scoped'
    BY <1>0, <1>1, <1>4 DEF Scoped, Inside, NoScope
  <2>2. Chained'
    BY <1>1, <1>4, EmptySeq DEF Chained
  <2> QED
    BY <1>3, <1>4, <2>1, <2>2, GoesOn
<1>5. CASE doing' = "idle" /\ outcome' = [status |-> "error"]
  BY <1>0, <1>1, <1>3, <1>5, Ends
<1> QED
  BY <1>1, <1>4, <1>5

\* What a batch adds keeps the chain.
LEMMA ResultKeeps ==
    ASSUME WorkInv, MoreOperations, NEW id \in Nat, NEW ok \in BOOLEAN,
           Result(Operation, id, ok),
           Operation = "find" /\ id # NoId => ok = TRUE /\ id \in FoundIn(StoreOf),
           Operation = "context" /\ ok = TRUE =>
               id = Referred /\ id # NoId /\ id \in FoundIn(StoreOf)
    PROVE  WorkInv'
<1> DEFINE n == Len(results) + 1
           r == [op |-> Operation, id |-> id, ok |-> ok, run |-> StoreOf]
<1>0. WorkShape /\ doing = "batch" /\ StoreOf \in 1..LastRun
  BY StoreKnown DEF WorkInv, MoreOperations
<1>1. /\ UNCHANGED <<index, newest, pointed, scope, doing, operations, outcome>>
      /\ results' = Append(results, r)
  BY DEF Result
<1>2. content' \in BOOLEAN /\ cut' \in BOOLEAN
  BY Zenon DEF Result, inspectVars, WorkInv, WorkShape
<1>3. operations \in Seq(OpNames) /\ Len(operations) \in Nat
  <2>1. operations \in Seq(OpNames)
    BY <1>0, WorkConstants, EmptySeq DEF WorkShape
  <2> QED
    BY <2>1, LenProperties
<1>4. results \in Results /\ Len(results) \in Nat /\ n \in 1..Len(operations)
  <2>1. results \in Results /\ Len(results) < Len(operations)
    BY <1>0 DEF WorkShape, MoreOperations
  <2>2. Len(results) \in Nat
    BY <2>1, LenProperties DEF Results
  <2> QED
    BY <2>1, <2>2, <1>3
<1>5. Operation \in OpNames
  BY <1>3, <1>4, ElementOfSeq DEF Operation
<1>6. r \in [op : OpNames, id : Nat, ok : BOOLEAN, run : 1..LastRun]
  BY <1>0, <1>5
<1>7. /\ results' \in Results /\ Len(results') = n /\ results'[n] = r
      /\ \A i \in 1..Len(results) : results'[i] = results[i]
  BY <1>1, <1>4, <1>6, AppendProperties DEF Results
<1>8. WorkShape'
  <2>1. /\ index' \in [1..LastRun -> Symbols] /\ newest' \in 1..LastRun
        /\ pointed' \in 1..newest' /\ scope' \in 0..newest'
        /\ doing' \in {"idle", "enter", "find", "context", "relations", "packet", "batch"}
        /\ operations' \in Batches \cup {<<>>}
    BY <1>0, <1>1 DEF WorkShape
  <2>2. results' \in Results /\ Len(results') <= Len(operations')
    BY <1>1, <1>3, <1>4, <1>7
  <2> QED
    BY <1>2, <2>1, <2>2, Zenon DEF WorkShape, Results
<1>9. Scoped'
  BY <1>0, <1>1 DEF WorkInv, Scoped, Inside, NoScope, Nothing
<1>10. /\ r.op = Operation /\ r.id = id /\ r.run = StoreOf
  OBVIOUS
<1>11. r.ok = ok
  BY Zenon
<1>12. \A run : FoundIn(run)' = FoundIn(run)
  BY <1>1 DEF FoundIn
<1>13. ASSUME NEW i \in 1..Len(results')
       PROVE  /\ results'[i].op = operations'[i]
              /\ results'[i].op = "find" /\ results'[i].id # NoId =>
                    results'[i].ok = TRUE /\ results'[i].id \in FoundIn(results'[i].run)
              /\ results'[i].op = "context" /\ results'[i].ok = TRUE =>
                    /\ i > 1 /\ results'[i - 1].ok = TRUE
                    /\ results'[i - 1].id = results'[i].id
                    /\ results'[i].id \in FoundIn(results'[i - 1].run)
                                            \cap FoundIn(results'[i].run)
  <2>1. CASE i \in 1..Len(results)
    <3>1. results'[i] = results[i] /\ (i > 1 => results'[i - 1] = results[i - 1])
      BY <2>1, <1>4, <1>7
    <3> QED
      BY <2>1, <3>1, <1>0, <1>1 DEF WorkInv, Chained
  <2>2. CASE i = n
    <3>1. results'[i] = r
      BY <2>2, <1>7
    <3>2. results'[i].op = operations'[i]
      BY <2>2, <3>1, <1>1, <1>10 DEF Operation
    <3>3. results'[i].op = "find" /\ results'[i].id # NoId =>
             results'[i].ok = TRUE /\ results'[i].id \in FoundIn(results'[i].run)
      BY <3>1, <1>10, <1>11, Zenon
    <3>4. ASSUME results'[i].op = "context", results'[i].ok = TRUE
          PROVE  /\ i > 1 /\ results'[i - 1].ok = TRUE
                 /\ results'[i - 1].id = results'[i].id
                 /\ results'[i].id \in FoundIn(results'[i - 1].run)
                                         \cap FoundIn(results'[i].run)
      <4>1. Operation = "context" /\ ok = TRUE
        BY <3>1, <3>4, <1>10, <1>11, Zenon
      <4>2. id = Referred /\ id # NoId /\ id \in FoundIn(StoreOf)
        BY <4>1, Zenon
      <4>3. results # <<>> /\ results[Len(results)].op = "find"
            /\ results[Len(results)].id = id
        BY <4>2 DEF Referred
      <4>4. Len(results) \in 1..Len(results)
        BY <4>3, <1>4, EmptySeq DEF Results
      <4>5. /\ results[Len(results)].ok = TRUE
            /\ results[Len(results)].id \in FoundIn(results[Len(results)].run)
        BY <4>2, <4>3, <4>4, <1>0 DEF WorkInv, Chained
      <4>6. i > 1 /\ i - 1 = Len(results) /\ results'[i - 1] = results[Len(results)]
        BY <2>2, <4>4, <1>4, <1>7
      <4> QED
        BY <3>1, <4>2, <4>3, <4>5, <4>6, <1>10
    <3> QED
      BY <3>2, <3>3, <3>4, Zenon
  <2>3. i \in 1..Len(results) \/ i = n
    BY <1>4, <1>7
  <2> QED
    BY <2>1, <2>2, <2>3, Zenon
<1>14. Chained'
  BY <1>12, <1>13, Zenon DEF Chained, FoundIn
<1> QED
  BY <1>0, <1>1, <1>8, <1>9, <1>14, GoesOn

LEMMA OperationKeeps ==
    ASSUME WorkInv,
           BatchFinds \/ BatchReadsContext \/ BatchInspects \/ BatchReadFails
    PROVE  WorkInv'
<1>0. WorkShape /\ MoreOperations /\ StoreOf \in 1..LastRun
  BY StoreKnown DEF WorkInv, BatchFinds, BatchReadsContext, BatchInspects, BatchReadFails
<1>1. FoundIn(StoreOf) \subseteq Nat \ {0} /\ FirstOf(FoundIn(StoreOf)) \in FoundIn(StoreOf) \cup {NoId}
  BY <1>0, FoundIds
<1>2. CASE BatchFinds
  <2>1. Operation = "find" /\ Result(Operation, FirstOf(FoundIn(StoreOf)), TRUE)
    BY <1>2 DEF BatchFinds
  <2>2. FirstOf(FoundIn(StoreOf)) \in Nat
    BY <1>1 DEF NoId
  <2> QED
    BY <1>0, <1>1, <2>1, <2>2, ResultKeeps
<1>3. CASE BatchReadsContext
  <2>1. Operation = "context" /\ Result(Operation, Referred, Referred \in FoundIn(StoreOf))
    BY <1>3 DEF BatchReadsContext
  <2>2. Referred \in Nat
    <3>1. results \in Results
      BY <1>0 DEF WorkShape
    <3>2. results # <<>> => Len(results) \in 1..Len(results)
      BY <3>1, EmptySeq DEF Results
    <3>3. results # <<>> => results[Len(results)] \in
                [op : OpNames, id : Nat, ok : BOOLEAN, run : 1..LastRun]
      BY <3>1, <3>2, ElementOfSeq DEF Results
    <3> QED
      BY <3>3 DEF Referred, NoId
  <2>3. (Referred \in FoundIn(StoreOf)) \in BOOLEAN
    OBVIOUS
  <2>4. (Referred \in FoundIn(StoreOf)) = TRUE => Referred # NoId /\ Referred \in FoundIn(StoreOf)
    BY <1>1 DEF NoId
  <2> QED
    BY <1>0, <2>1, <2>2, <2>3, <2>4, ResultKeeps
<1>4. CASE BatchInspects
  <2>1. Operation = "inspect" /\ Result(Operation, NoId, FALSE)
    BY <1>4 DEF BatchInspects
  <2> QED
    BY <1>0, <2>1, ResultKeeps DEF NoId
<1>5. CASE BatchReadFails
  <2>1. Result(Operation, NoId, FALSE)
    BY <1>5 DEF BatchReadFails
  <2> QED
    BY <1>0, <2>1, ResultKeeps DEF NoId
<1> QED
  BY <1>2, <1>3, <1>4, <1>5

LEMMA EndKeeps == ASSUME WorkInv, EndBatch PROVE WorkInv'
<1>0. WorkShape /\ doing = "batch" /\ Len(results) = Len(operations)
  BY DEF WorkInv, EndBatch
<1>1. /\ UNCHANGED <<index, newest, pointed, operations, results>>
      /\ scope' = NoScope /\ doing' = "idle"
      /\ outcome' = [status |-> "success", failed |-> {i \in DOMAIN results : ~results[i].ok}]
  BY DEF EndBatch, End, batchVars
<1>2. content' \in BOOLEAN /\ cut' \in BOOLEAN
  BY Zenon DEF EndBatch, inspectVars, WorkInv, WorkShape
<1>3. WorkShape'
  BY <1>0, <1>1, <1>2, ShapeEnds
<1>4. Scoped' /\ Chained'
  BY <1>1 DEF Scoped, Chained, Inside
<1>5. results \in Results /\ operations \in Seq(OpNames) /\ Len(results) \in Nat
  BY <1>0, WorkConstants, EmptySeq, LenProperties DEF WorkShape, Results
<1>6. DOMAIN results = 1..Len(results) /\ DOMAIN operations = 1..Len(results)
  BY <1>0, <1>5, LenProperties DEF Results
<1>7. [i \in DOMAIN results |-> results[i].op] = operations
  <2>1. \A i \in 1..Len(results) : results[i].op = operations[i]
    BY <1>0 DEF WorkInv, Chained
  <2>2. operations = [i \in DOMAIN operations |-> operations[i]]
    BY <1>5, LenProperties
  <2> QED
    BY <1>6, <2>1, <2>2
<1>8. outcome'.failed = {i \in DOMAIN results : ~results[i].ok}
  BY <1>1
<1>9. ASSUME NEW i \in DOMAIN results \ outcome'.failed, results[i].op = "context"
      PROVE  /\ i > 1 /\ (i - 1) \notin outcome'.failed
             /\ results[i - 1].id = results[i].id
             /\ results[i].id \in FoundIn(results[i - 1].run) \cap FoundIn(results[i].run)
  <2>1. results[i] \in [op : OpNames, id : Nat, ok : BOOLEAN, run : 1..LastRun]
    BY <1>5, <1>6, ElementOfSeq DEF Results
  <2>2. results[i].ok = TRUE
    BY <1>8, <2>1
  <2>3. /\ i > 1 /\ results[i - 1].ok = TRUE /\ results[i - 1].id = results[i].id
        /\ results[i].id \in FoundIn(results[i - 1].run) \cap FoundIn(results[i].run)
    BY <1>0, <1>6, <1>9, <2>2 DEF WorkInv, Chained
  <2> QED
    BY <1>8, <2>3
<1>10. BatchesAccount'
  <2>1. \A run : FoundIn(run)' = FoundIn(run)
    BY <1>1 DEF FoundIn
  <2> QED
    BY <1>1, <1>7, <1>9, <2>1, Zenon DEF BatchesAccount, FoundIn
<1>11. InspectionsAgree'
  BY <1>1 DEF InspectionsAgree
<1> QED
  BY <1>1, <1>3, <1>4, <1>10, <1>11 DEF WorkInv, WorkflowsAgree

LEMMA WorkStep == ASSUME WorkInv, [WorkNext]_workVars PROVE WorkInv'
<1>1. CASE UNCHANGED workVars
  <2>1. UNCHANGED <<index, newest, pointed, scope, doing, view, target, content, cut,
                    operations, results, outcome, readFrom>>
    BY <1>1 DEF workVars, inspectVars, batchVars
  <2>2. WorkShape'
    BY <2>1, Zenon DEF WorkInv, WorkShape, Results
  <2>3. Scoped'
    BY <2>1 DEF WorkInv, Scoped, Resolve, FoundIn, Inside, NoScope, NoId, Nothing
  <2>4. Chained'
    BY <2>1, Zenon DEF WorkInv, Chained, FoundIn, NoId
  <2>e. \A run : Resolve(run)' = Resolve(run) /\ FoundIn(run)' = FoundIn(run)
    <3>1. \A run : FoundIn(run)' = FoundIn(run)
      BY <2>1 DEF FoundIn
    <3>2. \A run : Resolve(run)' = Resolve(run)
      BY <2>1 DEF Resolve, FoundIn, NoId
    <3> QED
      BY <3>1, <3>2
  <2>5. InspectionsAgree'
    BY <2>1, <2>e, Zenon DEF WorkInv, WorkflowsAgree, InspectionsAgree
  <2>6. BatchesAccount'
    BY <2>1, Zenon DEF WorkInv, WorkflowsAgree, BatchesAccount, FoundIn
  <2>7. WorkflowsAgree'
    BY <2>1, <2>5, <2>6 DEF WorkInv, WorkflowsAgree, NoScope
  <2> QED
    BY <2>2, <2>3, <2>4, <2>7 DEF WorkInv
<1>2. CASE Publish \/ Renew
  BY <1>2, PublishKeeps
<1>3. CASE \E v \in Views : Inspect(v)
  BY <1>3, InspectKeeps
<1>4. CASE EnterScope
  BY <1>4, EnterKeeps
<1>5. CASE FindTarget \/ ReadContext \/ ReadRelations
  BY <1>5, FindKeeps, ContextKeeps, RelationsKeep
<1>6. CASE ReadPacket \/ ReadFails \/ Forbidden
  BY <1>6, PacketKeeps, FailureKeeps
<1>7. CASE \E ops \in Batches : Batch(ops)
  BY <1>7, BatchKeeps
<1>8. CASE BatchFinds \/ BatchReadsContext \/ BatchInspects \/ BatchReadFails
  BY <1>8, OperationKeeps
<1>9. CASE EndBatch
  BY <1>9, EndKeeps
<1> QED
  BY <1>1, <1>2, <1>3, <1>4, <1>5, <1>6, <1>7, <1>8, <1>9 DEF WorkNext

\* Every variable of a request is of its type, in every state
\* (inspect_symbol, execute_batch).
THEOREM WorkTyped == WorkSpec => []WorkTypeOK
<1>1. WorkInv => WorkTypeOK
  BY Zenon DEF WorkInv, WorkShape, WorkTypeOK
<1> QED
  BY <1>1, WorkInit_Inv, WorkStep, PTL DEF WorkSpec

\* What an inspection tells is of one snapshot, and what a batch tells is what
\* it ran, whatever is published while they run (request_scope, inspect_symbol,
\* execute_batch).
THEOREM WorkflowsAgreeAlways == WorkSpec => []WorkflowsAgree
<1>1. WorkInv => WorkflowsAgree
  BY DEF WorkInv
<1> QED
  BY <1>1, WorkInit_Inv, WorkStep, PTL DEF WorkSpec

----------------------------------------------------------------------------
(* The server: its parts take turns and share no variable, so that what is *)
(* proved of each part holds of the whole.                                 *)

LEMMA ServerParts ==
    ServerSpec => Spec /\ GraphSpec /\ FreshSpec /\ RegistrySpec /\ WorkSpec
<1>1. ServerInit => Init /\ GraphInit /\ FreshInit /\ RegistryInit /\ WorkInit
  BY DEF ServerInit
<1>2. [ServerNext /\ UNCHANGED part]_serverVars =>
          /\ [Next]_vars /\ [GraphNext]_graphVars /\ [FreshNext]_freshVars
          /\ [RegistryNext]_registryVars /\ [WorkNext]_workVars
  BY DEF ServerNext, serverVars
<1> QED
  BY <1>1, <1>2, PTL
     DEF ServerSpec, Spec, GraphSpec, FreshSpec, RegistrySpec, WorkSpec

\* Every part of what a server keeps is well typed, whichever of them moves.
THEOREM ServerTyped == ServerSpec => []ServerTypeOK
<1>1. TypeOK /\ GraphTypeOK /\ FreshTypeOK /\ RegistryTypeOK /\ WorkTypeOK => ServerTypeOK
  BY DEF ServerTypeOK
<1> QED
  BY <1>1, ServerParts, ReadersTyped, GraphTyped, FreshTyped, RegistryTyped, WorkTyped, PTL
=============================================================================
