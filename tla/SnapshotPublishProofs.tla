----------------------- MODULE SnapshotPublishProofs -----------------------
(***************************************************************************)
(* The published snapshot is never collected, for any number of index runs *)
(* and desktop applications and any number of kills: the ages a collector  *)
(* sees are bounded below by the time the snapshot's writer and the        *)
(* collector itself have been in their windows, and two windows are        *)
(* shorter than GcAge (TimeAssumption), as long as the desktop application *)
(* reads the pointer (NoReadErrors).                                       *)
(***************************************************************************)
EXTENDS SnapshotPublish, TLAPS

\* A file that exists, or that a run owns, has been given a time, not a
\* future one.
Dated ==
    /\ \A r \in Runs : db[r] # "absent" => mtime[r] # Never
    /\ \A r \in Runs : mtime[r] <= now
    /\ \A b \in Builders : brun[b] # NoRun => mtime[brun[b]] # Never

Own == \A b, c \in Builders : b # c /\ brun[b] = brun[c] => brun[b] = NoRun

\* A run is in its window for at most Stall, and has written its file since.
Window ==
    \A b \in Builders : InWindow(b) =>
        /\ bstart[b] <= now /\ now <= bstart[b] + Stall
        /\ mtime[brun[b]] >= bstart[b]

\* If another run moved the pointer off the snapshot that a run is about to
\* spare, the other snapshot is at most one window older than that run.
BuilderSpares ==
    \A b \in Builders :
        bpc[b] \in {"pointed", "linked"} /\ pointer \notin {NoRun, brun[b]}
            => mtime[pointer] >= bstart[b] - Stall

CleanerSpares ==
    \A g \in Cleaners : gpc[g] = "read" =>
        /\ gstart[g] <= now /\ now <= gstart[g] + Stall
        /\ pointer \notin {NoRun, gcur[g]}
               => mtime[pointer] >= gstart[g] - Stall

Announced ==
    \A b \in Builders :
        bpc[b] \in {"pointed", "linked", "collected", "describing", "filled"}
            => brun[b] \in described

IInv ==
    /\ TypeOK /\ Dated /\ Own /\ Window
    /\ PointerResolves /\ LiveBuildSurvives /\ ManifestBehindPointer
    /\ BuilderSpares /\ CleanerSpares /\ Announced

LEMMA Constants ==
    /\ NoRun \notin Runs /\ Legacy \notin Runs /\ Torn \notin Runs
    /\ Legacy # NoRun /\ Torn # NoRun
    /\ GcAge \in Nat /\ Stall \in Nat
    /\ MaxTime \in Nat /\ MaxFaults \in Nat
    /\ 2 * Stall < GcAge
  BY NamesAssumption, TimeAssumption DEF NamesAssumption, TimeAssumption

----------------------------------------------------------------------------
LEMMA TypeInit == Init => TypeOK
  BY Constants DEF Init, TypeOK, Never, NoPath, Paths

LEMMA TypeStep == TypeOK /\ [Next]_vars => TypeOK'
<1> SUFFICES ASSUME TypeOK, [Next]_vars PROVE TypeOK'
  OBVIOUS
<1> USE Constants DEF TypeOK, Paths, NoPath, Never, diskVars, manifestVars,
        builderVars, cleanerVars
<1>1. ASSUME NEW b \in Builders, Scan(b) PROVE TypeOK'
  BY <1>1 DEF Scan, Resolve
<1>2. ASSUME NEW b \in Builders, BeginWrite(b) PROVE TypeOK'
  BY <1>2 DEF BeginWrite
<1>3. ASSUME NEW b \in Builders, CopyText(b) PROVE TypeOK'
  BY <1>3 DEF CopyText
<1>4. ASSUME NEW b \in Builders, EndWrite(b) PROVE TypeOK'
  BY <1>4 DEF EndWrite
<1>5. ASSUME NEW b \in Builders, Move(b) PROVE TypeOK'
  BY <1>5 DEF Move
<1>6. ASSUME NEW b \in Builders, SwapPointer(b) PROVE TypeOK'
  BY <1>6 DEF SwapPointer
<1>7. ASSUME NEW b \in Builders, LinkLegacy(b) PROVE TypeOK'
  BY <1>7 DEF LinkLegacy
<1>8. ASSUME NEW b \in Builders, CollectOld(b) PROVE TypeOK'
  BY <1>8 DEF CollectOld, Collect
<1>9. ASSUME NEW b \in Builders, OpenManifest(b) PROVE TypeOK'
  BY <1>9 DEF OpenManifest
<1>10. ASSUME NEW b \in Builders, WriteManifest(b) PROVE TypeOK'
  BY <1>10 DEF WriteManifest
<1>11. ASSUME NEW b \in Builders, ReplaceManifest(b) PROVE TypeOK'
  BY <1>11 DEF ReplaceManifest
<1>12. ASSUME NEW b \in Builders, BaseLost(b) PROVE TypeOK'
  BY <1>12 DEF BaseLost
<1>13. ASSUME NEW b \in Builders, Fault(b) PROVE TypeOK'
  BY <1>13 DEF Fault
<1>14. ASSUME NEW g \in Cleaners, ReadCurrent(g) PROVE TypeOK'
  BY <1>14 DEF ReadCurrent
<1>15. ASSUME NEW g \in Cleaners, CleanOld(g) PROVE TypeOK'
  BY <1>15 DEF CleanOld, Collect
<1>16. CASE Tick
  BY <1>16 DEF Tick
<1>17. CASE UNCHANGED vars
  BY <1>17 DEF vars
<1> QED
  BY <1>1, <1>2, <1>3, <1>4, <1>5, <1>6, <1>7, <1>8, <1>9, <1>10, <1>11,
     <1>12, <1>13, <1>14, <1>15, <1>16, <1>17 DEF Next, Build

\* Every reachable state of the index directory is well typed; a run in
\* progress owns a snapshot name exactly from its first write on.
THEOREM PublishTyped == Spec => []TypeOK
  BY TypeInit, TypeStep, PTL DEF Spec

----------------------------------------------------------------------------
\* What a collection may take while the clock and every age are as IInv says.
LEMMA CollectSpares ==
    ASSUME IInv, NEW current, Collect(current)
    PROVE  /\ \A r \in Runs : db'[r] = db[r] \/ db'[r] = "absent"
           /\ \A r \in Runs : r = current \/ now - mtime[r] < GcAge
                                => db'[r] = db[r]
<1>1. PICK gone \in SUBSET Collectable(current) :
        db' = [r \in Runs |-> IF r \in gone THEN "absent" ELSE db[r]]
  BY DEF Collect
<1>2. \A r \in gone : r # current /\ now - mtime[r] >= GcAge
  BY DEF Collectable
<1>3. \A r \in Runs : now - mtime[r] \in Int
  BY DEF IInv, TypeOK, Never
<1> QED
  BY <1>1, <1>2, <1>3, Constants

\* No file of a run in its window has reached GcAge.
LEMMA WindowYoung ==
    ASSUME IInv, NEW b \in Builders, InWindow(b)
    PROVE  brun[b] \in Runs /\ now - mtime[brun[b]] < GcAge
<1>1. brun[b] \in Runs /\ mtime[brun[b]] \in Int
  BY DEF IInv, TypeOK, InWindow, Never
<1>2. bstart[b] \in Int /\ now \in Int /\ GcAge \in Int /\ Stall \in Nat
  BY Constants DEF IInv, TypeOK
<1>3. now <= bstart[b] + Stall /\ mtime[brun[b]] >= bstart[b]
  BY DEF IInv, Window
<1> QED
  BY <1>1, <1>2, <1>3, Constants

\* A collector that began less than Stall ago leaves alone the snapshot of the
\* pointer and the files of the runs in their window.
LEMMA CollectKeeps ==
    ASSUME IInv, NEW current, Collect(current),
           NEW start \in Int, now <= start + Stall,
           pointer \notin {NoRun, current} => mtime[pointer] >= start - Stall
    PROVE  /\ PointerResolves'
           /\ \A b \in Builders : InWindow(b) => db'[brun[b]] = db[brun[b]]
<1>1. pointer' = pointer
  BY DEF Collect
<1>2. ASSUME pointer # NoRun PROVE db'[pointer] = "ready"
  <2>1. pointer \in Runs /\ db[pointer] = "ready"
    BY <1>2 DEF IInv, TypeOK, PointerResolves
  <2>2. CASE pointer # current
    <3>1. now \in Int /\ mtime[pointer] \in Int
      BY <2>1 DEF IInv, TypeOK, Never
    <3>2. now - mtime[pointer] < GcAge
      BY <1>2, <2>2, <3>1, Constants
    <3> QED
      BY <2>1, <3>2, CollectSpares
  <2> QED
    BY <2>1, <2>2, CollectSpares
<1>3. ASSUME NEW b \in Builders, InWindow(b) PROVE db'[brun[b]] = db[brun[b]]
  BY <1>3, WindowYoung, CollectSpares
<1> QED
  BY <1>1, <1>2, <1>3 DEF PointerResolves

----------------------------------------------------------------------------
LEMMA InvInit == Init => IInv
<1> SUFFICES ASSUME Init PROVE IInv
  OBVIOUS
<1>1. Dated /\ Own
  BY Constants DEF Init, Dated, Own, Never
<1>2. Window /\ LiveBuildSurvives /\ BuilderSpares /\ Announced
  BY DEF Init, Window, InWindow, LiveBuildSurvives, BuilderSpares, Announced
<1>3. PointerResolves /\ ManifestBehindPointer /\ CleanerSpares
  BY DEF Init, PointerResolves, ManifestBehindPointer, CleanerSpares
<1> QED
  BY <1>1, <1>2, <1>3, TypeInit DEF IInv

LEMMA InvStep ==
    ASSUME NoReadErrors, IInv, [Next]_vars
    PROVE  IInv'
<1>t. TypeOK'
  BY TypeStep DEF IInv
<1> USE DEF IInv, InWindow, diskVars, manifestVars, builderVars, cleanerVars
<1>1. ASSUME NEW b \in Builders, Scan(b) PROVE IInv'
  <2>1. Dated' /\ Own' /\ Window' /\ PointerResolves' /\ LiveBuildSurvives'
    BY <1>1 DEF Scan, Dated, Own, Window, PointerResolves, LiveBuildSurvives,
       TypeOK
  <2>2. ManifestBehindPointer' /\ BuilderSpares' /\ CleanerSpares' /\ Announced'
    BY <1>1 DEF Scan, ManifestBehindPointer, BuilderSpares, CleanerSpares,
       Announced, TypeOK
  <2> QED
    BY <1>t, <2>1, <2>2
<1>2. ASSUME NEW b \in Builders, BeginWrite(b) PROVE IInv'
  <2>1. Dated'
    BY <1>2, <1>t, Constants DEF BeginWrite, Dated, TypeOK, Never
  <2>2. Own'
    BY <1>2, <1>t, Constants DEF BeginWrite, Own, Dated, TypeOK, Never
  <2>3. Window'
    BY <1>2, <1>t, Constants DEF BeginWrite, Window, Dated, TypeOK, Never
  <2>4. PointerResolves'
    BY <1>2, <1>t, Constants DEF BeginWrite, PointerResolves, Dated, TypeOK,
       Never
  <2>5. LiveBuildSurvives'
    BY <1>2, <1>t, Constants DEF BeginWrite, LiveBuildSurvives, Dated, TypeOK,
       Never
  <2>6. BuilderSpares'
    BY <1>2, <1>t, Constants DEF BeginWrite, BuilderSpares, PointerResolves,
       Dated, TypeOK, Never
  <2>7. CleanerSpares'
    BY <1>2, <1>t, Constants DEF BeginWrite, CleanerSpares, PointerResolves,
       Dated, TypeOK, Never
  <2>8. ManifestBehindPointer' /\ Announced'
    BY <1>2 DEF BeginWrite, ManifestBehindPointer, Announced, TypeOK
  <2> QED
    BY <1>t, <2>1, <2>2, <2>3, <2>4, <2>5, <2>6, <2>7, <2>8
<1>3. ASSUME NEW b \in Builders, CopyText(b) PROVE IInv'
  <2>1. Dated' /\ Own' /\ Window' /\ PointerResolves' /\ LiveBuildSurvives'
    BY <1>3 DEF CopyText, Dated, Own, Window, PointerResolves,
       LiveBuildSurvives, TypeOK
  <2>2. ManifestBehindPointer' /\ BuilderSpares' /\ CleanerSpares' /\ Announced'
    BY <1>3 DEF CopyText, ManifestBehindPointer, BuilderSpares, CleanerSpares,
       Announced, TypeOK
  <2> QED
    BY <1>t, <2>1, <2>2
<1>4. ASSUME NEW b \in Builders, EndWrite(b) PROVE IInv'
  <2>1. Dated'
    BY <1>4, <1>t, Constants DEF EndWrite, Dated, TypeOK, Never
  <2>2. Window'
    BY <1>4, <1>t, Constants DEF EndWrite, Window, Own, Dated, TypeOK, Never
  <2>3. PointerResolves'
    BY <1>4, <1>t, Constants DEF EndWrite, PointerResolves, TypeOK, Never
  <2>4. LiveBuildSurvives'
    BY <1>4, <1>t, Constants DEF EndWrite, LiveBuildSurvives, Own, TypeOK,
       Never
  <2>5. BuilderSpares'
    BY <1>4, <1>t, Constants DEF EndWrite, BuilderSpares, Window, Dated,
       TypeOK, Never
  <2>6. CleanerSpares'
    BY <1>4, <1>t, Constants DEF EndWrite, CleanerSpares, Dated, TypeOK, Never
  <2>7. Own'
    BY <1>4 DEF EndWrite, Own, TypeOK
  <2>8. ManifestBehindPointer' /\ Announced'
    BY <1>4 DEF EndWrite, ManifestBehindPointer, Announced, TypeOK
  <2> QED
    BY <1>t, <2>1, <2>2, <2>3, <2>4, <2>5, <2>6, <2>7, <2>8
<1>5. ASSUME NEW b \in Builders, Move(b) PROVE IInv'
  <2>1. Dated'
    BY <1>5, <1>t, Constants DEF Move, Dated, TypeOK, Never
  <2>2. PointerResolves'
    BY <1>5, <1>t, Constants DEF Move, PointerResolves, TypeOK, Never
  <2>3. LiveBuildSurvives'
    BY <1>5, <1>t, Constants DEF Move, LiveBuildSurvives, Own, TypeOK, Never
  <2>4. Own' /\ Window'
    BY <1>5 DEF Move, Own, Window, TypeOK
  <2>5. ManifestBehindPointer' /\ BuilderSpares' /\ CleanerSpares' /\ Announced'
    BY <1>5 DEF Move, ManifestBehindPointer, BuilderSpares, CleanerSpares,
       Announced, TypeOK
  <2> QED
    BY <1>t, <2>1, <2>2, <2>3, <2>4, <2>5
<1>6. ASSUME NEW b \in Builders, SwapPointer(b) PROVE IInv'
  <2>1. PointerResolves'
    BY <1>6, <1>t, Constants DEF SwapPointer, PointerResolves,
       LiveBuildSurvives, TypeOK, Never
  <2>2. ManifestBehindPointer'
    BY <1>6, <1>t, Constants DEF SwapPointer, ManifestBehindPointer, TypeOK,
       Never
  <2>3. BuilderSpares'
    BY <1>6, <1>t, Constants DEF SwapPointer, BuilderSpares, Window, TypeOK,
       Never
  <2>4. CleanerSpares'
    BY <1>6, <1>t, Constants DEF SwapPointer, CleanerSpares, Window, TypeOK,
       Never
  <2>5. Announced'
    BY <1>6, <1>t, Constants DEF SwapPointer, Announced, TypeOK, Never
  <2>6. Dated' /\ Own' /\ Window' /\ LiveBuildSurvives'
    BY <1>6 DEF SwapPointer, Dated, Own, Window, LiveBuildSurvives, TypeOK
  <2> QED
    BY <1>t, <2>1, <2>2, <2>3, <2>4, <2>5, <2>6
<1>7. ASSUME NEW b \in Builders, LinkLegacy(b) PROVE IInv'
  <2>1. ManifestBehindPointer'
    BY <1>7, <1>t, Constants DEF LinkLegacy, ManifestBehindPointer, Announced,
       TypeOK, Never
  <2>2. Dated' /\ Own' /\ Window' /\ PointerResolves' /\ LiveBuildSurvives'
    BY <1>7 DEF LinkLegacy, Dated, Own, Window, PointerResolves,
       LiveBuildSurvives, TypeOK
  <2>3. BuilderSpares' /\ CleanerSpares' /\ Announced'
    BY <1>7 DEF LinkLegacy, BuilderSpares, CleanerSpares, Announced, TypeOK
  <2> QED
    BY <1>t, <2>1, <2>2, <2>3
<1>8. ASSUME NEW b \in Builders, CollectOld(b) PROVE IInv'
  <2>1. Collect(brun[b]) /\ bstart[b] \in Int
    BY <1>8 DEF CollectOld, TypeOK
  <2>2. /\ now <= bstart[b] + Stall
        /\ pointer \notin {NoRun, brun[b]} => mtime[pointer] >= bstart[b] - Stall
    BY <1>8 DEF CollectOld, BuilderSpares, Window
  <2>3. PointerResolves' /\ LiveBuildSurvives'
    <3>1. /\ PointerResolves'
          /\ \A c \in Builders : InWindow(c) => db'[brun[c]] = db[brun[c]]
      BY <2>1, <2>2, CollectKeeps
    <3> QED
      BY <1>8, <3>1 DEF CollectOld, LiveBuildSurvives, TypeOK
  <2>4. Dated'
    BY <1>8, <2>1, CollectSpares DEF CollectOld, Collect, Dated, TypeOK
  <2>5. Own' /\ Window' /\ BuilderSpares' /\ CleanerSpares'
    BY <1>8 DEF CollectOld, Collect, Own, Window, BuilderSpares, CleanerSpares, TypeOK
  <2>6. ManifestBehindPointer' /\ Announced'
    BY <1>8 DEF CollectOld, Collect, ManifestBehindPointer, Announced, TypeOK
  <2> QED
    BY <1>t, <2>3, <2>4, <2>5, <2>6
<1>9. ASSUME NEW b \in Builders, OpenManifest(b) PROVE IInv'
  <2>1. Dated' /\ Own' /\ Window' /\ PointerResolves' /\ LiveBuildSurvives'
    BY <1>9 DEF OpenManifest, Dated, Own, Window, PointerResolves,
       LiveBuildSurvives, TypeOK
  <2>2. ManifestBehindPointer' /\ BuilderSpares' /\ CleanerSpares' /\ Announced'
    BY <1>9 DEF OpenManifest, ManifestBehindPointer, BuilderSpares,
       CleanerSpares, Announced, TypeOK
  <2> QED
    BY <1>t, <2>1, <2>2
<1>10. ASSUME NEW b \in Builders, WriteManifest(b) PROVE IInv'
  <2>1. ManifestBehindPointer'
    BY <1>10, <1>t, Constants DEF WriteManifest, ManifestBehindPointer,
       Announced, TypeOK, Never
  <2>2. Dated' /\ Own' /\ Window' /\ PointerResolves' /\ LiveBuildSurvives'
    BY <1>10 DEF WriteManifest, Dated, Own, Window, PointerResolves,
       LiveBuildSurvives, TypeOK
  <2>3. BuilderSpares' /\ CleanerSpares' /\ Announced'
    BY <1>10 DEF WriteManifest, BuilderSpares, CleanerSpares, Announced,
       TypeOK
  <2> QED
    BY <1>t, <2>1, <2>2, <2>3
<1>11. ASSUME NEW b \in Builders, ReplaceManifest(b) PROVE IInv'
  <2>1. ManifestBehindPointer'
    BY <1>11, <1>t, Constants DEF ReplaceManifest, ManifestBehindPointer,
       TypeOK, Never
  <2>2. Dated' /\ Own' /\ Window' /\ PointerResolves' /\ LiveBuildSurvives'
    BY <1>11 DEF ReplaceManifest, Dated, Own, Window, PointerResolves,
       LiveBuildSurvives, TypeOK
  <2>3. BuilderSpares' /\ CleanerSpares' /\ Announced'
    BY <1>11 DEF ReplaceManifest, BuilderSpares, CleanerSpares, Announced,
       TypeOK
  <2> QED
    BY <1>t, <2>1, <2>2, <2>3
<1>12. ASSUME NEW b \in Builders, BaseLost(b) PROVE IInv'
  <2>1. Dated'
    BY <1>12, <1>t, Constants DEF BaseLost, Dated, TypeOK, Never
  <2>2. PointerResolves'
    BY <1>12, <1>t, Constants DEF BaseLost, PointerResolves,
       LiveBuildSurvives, TypeOK, Never
  <2>3. LiveBuildSurvives'
    BY <1>12, <1>t, Constants DEF BaseLost, LiveBuildSurvives, Own, TypeOK,
       Never
  <2>4. Own' /\ Window'
    BY <1>12 DEF BaseLost, Own, Window, TypeOK
  <2>5. ManifestBehindPointer' /\ BuilderSpares' /\ CleanerSpares' /\ Announced'
    BY <1>12 DEF BaseLost, ManifestBehindPointer, BuilderSpares,
       CleanerSpares, Announced, TypeOK
  <2> QED
    BY <1>t, <2>1, <2>2, <2>3, <2>4, <2>5
<1>13. ASSUME NEW b \in Builders, Fault(b) PROVE IInv'
  <2>1. Dated'
    BY <1>13, <1>t, Constants DEF Fault, Dated, TypeOK, Never
  <2>2. PointerResolves'
    BY <1>13, <1>t, Constants DEF Fault, PointerResolves, LiveBuildSurvives,
       TypeOK, Never
  <2>3. LiveBuildSurvives'
    BY <1>13, <1>t, Constants DEF Fault, LiveBuildSurvives, Own, TypeOK, Never
  <2>4. Own' /\ Window'
    BY <1>13 DEF Fault, Own, Window, TypeOK
  <2>5. ManifestBehindPointer' /\ BuilderSpares' /\ CleanerSpares' /\ Announced'
    BY <1>13 DEF Fault, ManifestBehindPointer, BuilderSpares, CleanerSpares,
       Announced, TypeOK
  <2> QED
    BY <1>t, <2>1, <2>2, <2>3, <2>4, <2>5
<1>14. ASSUME NEW g \in Cleaners, ReadCurrent(g) PROVE IInv'
  <2>0. gcur' = [gcur EXCEPT ![g] = pointer]
    BY <1>14 DEF ReadCurrent, NoReadErrors
  <2>1. CleanerSpares'
    BY <1>14, <2>0, <1>t, Constants DEF ReadCurrent, CleanerSpares, TypeOK, Never
  <2>2. Dated' /\ Own' /\ Window' /\ PointerResolves' /\ LiveBuildSurvives'
    BY <1>14 DEF ReadCurrent, Dated, Own, Window, PointerResolves,
       LiveBuildSurvives, TypeOK
  <2>3. ManifestBehindPointer' /\ BuilderSpares' /\ Announced'
    BY <1>14 DEF ReadCurrent, ManifestBehindPointer, BuilderSpares, Announced,
       TypeOK
  <2> QED
    BY <1>t, <2>1, <2>2, <2>3
<1>15. ASSUME NEW g \in Cleaners, CleanOld(g) PROVE IInv'
  <2>1. Collect(gcur[g]) /\ gstart[g] \in Int
    BY <1>15 DEF CleanOld, TypeOK
  <2>2. /\ now <= gstart[g] + Stall
        /\ pointer \notin {NoRun, gcur[g]} => mtime[pointer] >= gstart[g] - Stall
    BY <1>15 DEF CleanOld, CleanerSpares
  <2>3. PointerResolves' /\ LiveBuildSurvives'
    <3>1. /\ PointerResolves'
          /\ \A c \in Builders : InWindow(c) => db'[brun[c]] = db[brun[c]]
      BY <2>1, <2>2, CollectKeeps
    <3> QED
      BY <1>15, <3>1 DEF CleanOld, LiveBuildSurvives, TypeOK
  <2>4. Dated'
    BY <1>15, <2>1, CollectSpares DEF CleanOld, Collect, Dated, TypeOK
  <2>5. Own' /\ Window' /\ BuilderSpares' /\ CleanerSpares'
    BY <1>15 DEF CleanOld, Collect, Own, Window, BuilderSpares, CleanerSpares, TypeOK
  <2>6. ManifestBehindPointer' /\ Announced'
    BY <1>15 DEF CleanOld, Collect, ManifestBehindPointer, Announced, TypeOK
  <2> QED
    BY <1>t, <2>3, <2>4, <2>5, <2>6
<1>16. CASE Tick
  <2>1. Dated' /\ Own' /\ PointerResolves' /\ LiveBuildSurvives'
    BY <1>16 DEF Tick, Dated, Own, PointerResolves, LiveBuildSurvives, TypeOK,
       Never
  <2>2. Window' /\ BuilderSpares'
    BY <1>16, Constants DEF Tick, Window, BuilderSpares, TypeOK
  <2>3. CleanerSpares'
    BY <1>16, Constants DEF Tick, CleanerSpares, TypeOK
  <2>4. ManifestBehindPointer' /\ Announced'
    BY <1>16 DEF Tick, ManifestBehindPointer, Announced
  <2> QED
    BY <1>t, <2>1, <2>2, <2>3, <2>4
<1>17. CASE UNCHANGED vars
  BY <1>17, <1>t DEF vars, Dated, Own, Window, PointerResolves,
     LiveBuildSurvives, ManifestBehindPointer, BuilderSpares, CleanerSpares,
     Announced
<1> QED
  BY <1>1, <1>2, <1>3, <1>4, <1>5, <1>6, <1>7, <1>8, <1>9, <1>10, <1>11,
     <1>12, <1>13, <1>14, <1>15, <1>16, <1>17 DEF Next, Build

LEMMA PublishInv ==
    ASSUME NoReadErrors
    PROVE  Spec => []IInv
<1>1. IInv /\ [Next]_vars => IInv'
  BY InvStep
<1> QED
  BY <1>1, InvInit, PTL DEF Spec

----------------------------------------------------------------------------
\* The snapshot the pointer names is never collected.
THEOREM PublishPointerResolves ==
    ASSUME NoReadErrors
    PROVE  Spec => []PointerResolves
<1>1. IInv => PointerResolves
  BY DEF IInv
<1> QED
  BY <1>1, PublishInv, PTL

\* No collection takes the file of a run that is still being written or is
\* about to be published.
THEOREM PublishLiveBuildSurvives ==
    ASSUME NoReadErrors
    PROVE  Spec => []LiveBuildSurvives
<1>1. IInv => LiveBuildSurvives
  BY DEF IInv
<1> QED
  BY <1>1, PublishInv, PTL

\* The manifest, its temporary and the unversioned copy trail the pointer.
THEOREM PublishManifestBehind ==
    ASSUME NoReadErrors
    PROVE  Spec => []ManifestBehindPointer
<1>1. IInv => ManifestBehindPointer
  BY DEF IInv
<1> QED
  BY <1>1, PublishInv, PTL

----------------------------------------------------------------------------
(* The index directory implements atomic publication. *)

Ready == {r \in Runs : db[r] = "ready"}

LEMMA PublishedInit == Init => Published!AInit
  BY DEF Init, Published!AInit

\* A step that makes no file ready and moves no pointer shows readers nothing.
LEMMA PublishedStutters ==
    ASSUME UNCHANGED pointer, Ready' = Ready
    PROVE  UNCHANGED Published!avars
  BY DEF Ready, Published!avars

\* A collection discards complete snapshots other than the current one.
LEMMA PublishedDiscards ==
    ASSUME IInv, NEW current, Collect(current), PointerResolves'
    PROVE  Published!ANext
<1> DEFINE S == Ready \ Ready'
<1>1. Ready' \subseteq Ready
  BY CollectSpares DEF Ready
<1>2. pointer' = pointer /\ pointer \notin S
  BY Constants DEF Collect, PointerResolves, Ready
<1>3. S \in SUBSET Ready /\ Ready' = Ready \ S
  BY <1>1
<1>4. Published!Discard(S)
  BY <1>2, <1>3 DEF Published!Discard, Ready
<1> HIDE DEF S
<1> QED
  BY <1>3, <1>4, Zenon DEF Published!ANext, Published!Discard, Ready

LEMMA PublishedStep ==
    ASSUME NoReadErrors, IInv, [Next]_vars
    PROVE  [Published!ANext]_(Published!avars)
<1>i. IInv' /\ PointerResolves'
  BY InvStep DEF IInv
<1> USE DEF diskVars, manifestVars, builderVars, cleanerVars
<1>1. ASSUME NEW b \in Builders, Move(b) PROVE Published!ANext
  <2>1. brun[b] \in Runs /\ db[brun[b]] = "temp"
    BY <1>1 DEF Move, IInv, TypeOK
  <2>2. Ready' = Ready \cup {brun[b]} /\ brun[b] \notin Ready
    BY <1>1, <2>1 DEF Move, Ready, IInv, TypeOK
  <2>3. Published!Complete(brun[b])
    BY <1>1, <2>1, <2>2 DEF Move, Published!Complete, Ready
  <2> QED
    BY <2>1, <2>3 DEF Published!ANext, Published!Complete
<1>2. ASSUME NEW b \in Builders, SwapPointer(b) PROVE Published!ANext
  <2>1. brun[b] \in Runs /\ db[brun[b]] = "ready"
    BY <1>2 DEF SwapPointer, IInv, TypeOK, LiveBuildSurvives
  <2>2. Published!Publish(brun[b])
    BY <1>2, <2>1 DEF SwapPointer, Published!Publish
  <2> QED
    BY <2>1, <2>2 DEF Published!ANext
<1>3. ASSUME NEW b \in Builders, CollectOld(b) PROVE Published!ANext
  BY <1>3, <1>i, PublishedDiscards DEF CollectOld
<1>4. ASSUME NEW g \in Cleaners, CleanOld(g) PROVE Published!ANext
  BY <1>4, <1>i, PublishedDiscards DEF CleanOld
<1>5. ASSUME NEW b \in Builders, BeginWrite(b) PROVE UNCHANGED Published!avars
  <2>1. PICK r \in Runs : mtime[r] = Never /\ db' = [db EXCEPT ![r] = "partial"]
    BY <1>5 DEF BeginWrite
  <2>2. db[r] = "absent"
    BY <2>1 DEF IInv, Dated
  <2>3. Ready' = Ready
    BY <2>1, <2>2 DEF Ready, IInv, TypeOK
  <2> QED
    BY <1>5, <2>3, PublishedStutters DEF BeginWrite
<1>6. ASSUME NEW b \in Builders, EndWrite(b) PROVE UNCHANGED Published!avars
  <2>1. Ready' = Ready
    BY <1>6 DEF EndWrite, Ready, IInv, TypeOK
  <2> QED
    BY <1>6, <2>1, PublishedStutters DEF EndWrite
<1>7. ASSUME NEW b \in Builders, BaseLost(b) \/ Fault(b)
      PROVE  UNCHANGED Published!avars
  <2>1. Ready' = Ready
    BY <1>7 DEF BaseLost, Fault, Ready, IInv, TypeOK, LiveBuildSurvives
  <2> QED
    BY <1>7, <2>1, PublishedStutters DEF BaseLost, Fault
<1>8. ASSUME UNCHANGED <<db, pointer>> PROVE UNCHANGED Published!avars
  BY <1>8, PublishedStutters DEF Ready
<1> QED
  BY <1>1, <1>2, <1>3, <1>4, <1>5, <1>6, <1>7, <1>8
     DEF Next, Build, Scan, CopyText, LinkLegacy, OpenManifest, WriteManifest,
         ReplaceManifest, ReadCurrent, Tick, vars

\* Whatever index runs, collections, kills and exceptions interleave, readers
\* see complete snapshots published one at a time and never taken away while
\* they are current.
THEOREM PublishImplements ==
    ASSUME NoReadErrors
    PROVE  Spec => AtomicPublication
<1>1. IInv /\ [Next]_vars => [Published!ANext]_(Published!avars)
  BY PublishedStep
<1> QED
  BY <1>1, PublishedInit, PublishInv, PTL
     DEF Spec, AtomicPublication, Published!ASpec
=============================================================================
