------------------------- MODULE ControlPlaneProofs -------------------------
(***************************************************************************)
(* What check_access decides: from the cache of the governance database    *)
(* (ControlPlane) and from the calls of the last minute (RateLimit); and   *)
(* what the windows of the desktop application show (DesktopWindow).       *)
(***************************************************************************)
EXTENDS MCControl, SubsequencesProofs

----------------------------------------------------------------------------
(* ControlPlane, for any number of threads, agents, orders and faults, any *)
(* cache time and any rows the database starts with.  The argument: where  *)
(* the cache differs from the database, something has gone into one of the *)
(* two since the cache was stamped (RefreshAgrees); the halves of that     *)
(* which hold while a thread refreshes are Reading and Setting, and what a *)
(* call decides from inherits it (Deciding).  No step makes them differ    *)
(* without leaving its time behind (StepEffect), whichever thread takes    *)
(* it, so that each thread only has to answer for its own steps.           *)

Differs(g) == row[g] # "none" /\ told[g] # row[g]

Since(g, s) == changed[g] >= s \/ touched >= s \/ overtaken[g] >= s

\* The administrator's orders are what is applied.
Calling ==
    \A t \in Threads :
        pc[t] \in {"apply", "store", "stampOrder"} => call[t] \in AdminCalls

\* Nothing is stamped with the future.
Clock ==
    /\ refreshed <= now /\ touched <= now
    /\ \A g \in Grounds : changed[g] <= now /\ overtaken[g] <= now
    /\ \A t \in Threads : start[t] <= now

\* What has been read differs from the row only if that has changed since.
Covers(t) == IF pc[t] = "setHalt" THEN {Halt} ELSE Grounds \ {Halt}

Reading(t) ==
    pc[t] \in {"setHalt", "setAgents"} =>
        \A g \in Grounds :
            IF g \in Covers(t) THEN got[t][g] # row[g] => changed[g] >= start[t]
            ELSE got[t][g] = "none"

\* What a refresh has set agrees from its start on, the halt first.
IsSet(t) ==
    CASE pc[t] \in {"readAgents", "setAgents"} -> {Halt}
      [] pc[t] = "stampRefresh" -> Grounds
      [] OTHER -> {}

Setting(t) == \A g \in IsSet(t) : Differs(g) => Since(g, start[t])

Excused(t, g) ==
    Lately(t, changed[g]) \/ Lately(t, touched) \/ Lately(t, overtaken[g])

Deciding(t) ==
    pc[t] = "decide" =>
        \A g \in Grounds :
            row[g] = "closed" /\ told[g] # "closed" => Excused(t, g)

Running(t) ==
    pc[t] = "running" =>
        \A g \in GroundsOf(call[t]) : row[g] = "closed" => Excused(t, g)

ThreadFine(t) == Reading(t) /\ Setting(t) /\ Deciding(t) /\ Running(t)

IInv ==
    /\ TypeOK /\ Calling /\ Clock /\ RefreshAgrees
    /\ \A t \in Threads : ThreadFine(t)

----------------------------------------------------------------------------
LEMMA GroundFacts ==
    /\ Halt \in Grounds
    /\ \A a \in Agents : /\ <<a, "status">> \in Grounds
                         /\ <<a, "profile">> \in Grounds
    /\ \A g \in Grounds : \/ g = Halt
                          \/ g[1] \in Agents /\ g[2] \in {"status", "profile"}
                             /\ g = <<g[1], g[2]>> /\ g # Halt
    /\ \A c \in Calls : GroundsOf(c) \subseteq Grounds
<1>1. \A g \in Agents \X {"status", "profile"} :
          g[1] \in Agents /\ g[2] \in {"status", "profile"}
          /\ g = <<g[1], g[2]>> /\ g # Halt
  BY ControlAssumption DEF ControlAssumption, Halt
<1>2. \A c \in Calls : GroundsOf(c) \subseteq Grounds
  BY DEF Calls, ToolCalls, AdminCalls, StatusCall, GroundsOf, Grounds
<1> QED
  BY <1>1, <1>2 DEF Grounds

LEMMA TimesTyped ==
    ASSUME TypeOK
    PROVE  /\ now \in Int /\ now >= 0 /\ now # Never /\ Never \in Int
           /\ refreshed \in Int /\ refreshed >= 0 /\ touched \in Int
           /\ \A g \in Grounds : changed[g] \in Int /\ overtaken[g] \in Int
           /\ \A t \in Threads : start[t] \in Int /\ start[t] >= 0
           /\ Ttl \in Int /\ Ttl > 0
  BY ControlAssumption DEF ControlAssumption, TypeOK, Never

\* An order's effect on the database: what comes to say something else does so
\* now.
LEMMA WriteEffect ==
    ASSUME TypeOK, NEW o \in Orders, Write(o)
    PROVE  /\ row' \in Tables
           /\ changed' \in [Grounds -> 0..MaxTime \cup {Never}]
           /\ \A g \in Grounds :
                 \/ changed'[g] = now
                 \/ changed'[g] = changed[g] /\ row'[g] = row[g]
<1> DEFINE Values == {"none", "open", "listed", "closed"}
<1>1. /\ row \in [Grounds -> Values] /\ row[Halt] # "none"
      /\ \A g \in Grounds : row[g] = "listed" => g[2] = "profile"
      /\ \A a \in Agents : row[<<a, "profile">>] # "none"
                               => row[<<a, "status">>] # "none"
  BY DEF TypeOK, Tables
<1>2. /\ o.ground \in Grounds /\ o.value \in {"open", "listed", "closed"}
      /\ o.value = "listed" => o.ground[2] = "profile"
  BY DEF Orders
<1>3. row' = After(o)
  BY DEF Write
<1>4. row' \in [Grounds -> Values]
  BY <1>1, <1>2, <1>3 DEF After
<1>5. \A g \in Grounds :
          \/ g = o.ground /\ row'[g] = o.value
          \/ row'[g] = "open"
          \/ row'[g] = row[g]
  BY <1>3 DEF After
<1>6. \A g \in Grounds : row'[g] = "none" => row[g] = "none"
  BY <1>2, <1>3 DEF After
<1>7. \A g \in Grounds : row'[g] = "listed" => g[2] = "profile"
  BY <1>1, <1>2, <1>5
<1>8. ASSUME NEW a \in Agents, row'[<<a, "profile">>] # "none"
      PROVE  row'[<<a, "status">>] # "none"
  <2>1. <<a, "profile">> \in Grounds /\ <<a, "status">> \in Grounds
    BY GroundFacts
  <2>2. CASE o.ground = <<a, "profile">>
    BY <1>2, <1>3, <2>1, <2>2 DEF After
  <2>3. CASE o.ground # <<a, "profile">>
    <3>1. row'[<<a, "profile">>] = row[<<a, "profile">>]
      BY <1>3, <2>1, <2>3 DEF After
    <3> QED
      BY <1>1, <1>6, <1>8, <2>1, <3>1
  <2> QED
    BY <2>2, <2>3
<1>9. row'[Halt] # "none"
  BY <1>1, <1>6, GroundFacts
<1>10. row' \in Tables
  BY <1>4, <1>7, <1>8, <1>9 DEF Tables
<1>11. changed' = [g \in Grounds |-> IF row'[g] # row[g] THEN now ELSE changed[g]]
  BY DEF Write
<1> QED
  BY <1>10, <1>11 DEF TypeOK

\* What a refresh does to the cache: where it puts something that is not in
\* the row, it leaves the time.
LEMMA PutEffect ==
    ASSUME TypeOK, NEW t \in Threads, Put(t)
    PROVE  /\ told' \in [Grounds -> {"open", "listed", "closed"}]
           /\ overtaken' \in [Grounds -> 0..MaxTime \cup {Never}]
           /\ got' \in [Threads -> [Grounds -> {"none", "open", "listed", "closed"}]]
           /\ \A g \in Grounds :
                 /\ told'[g] = IF got[t][g] # "none" THEN got[t][g] ELSE told'[g]
                 /\ overtaken'[g] \in {overtaken[g], now}
                 /\ \/ told'[g] = told[g] \/ overtaken'[g] = now
                    \/ got[t][g] = row[g] /\ row[g] # "none" /\ told'[g] = row[g]
                    \/ row[g] = "none"
           /\ got[t][Halt] = "none" => told'[Halt] = told[Halt]
<1>1. /\ got[t] \in [Grounds -> {"none", "open", "listed", "closed"}]
      /\ told \in [Grounds -> {"open", "listed", "closed"}]
      /\ overtaken \in [Grounds -> 0..MaxTime \cup {Never}] /\ now \in 0..MaxTime
  BY DEF TypeOK
<1>2. /\ told' = [g \in Grounds |-> Loaded(got[t], g)]
      /\ overtaken' = [g \in Grounds |->
             IF told'[g] # told[g] /\ got[t][g] # row[g] THEN now ELSE overtaken[g]]
      /\ got' = [got EXCEPT ![t] = Nothing]
  BY DEF Put
<1>3. \A g \in Grounds :
          /\ got[t][g] # "none" => Loaded(got[t], g) = got[t][g]
          /\ got[t][g] = "none" => Loaded(got[t], g) \in {told[g], "closed"}
          /\ Loaded(got[t], g) \in {"open", "listed", "closed"}
  BY <1>1 DEF Loaded
<1>4. Loaded(got[t], Halt) = IF got[t][Halt] # "none" THEN got[t][Halt] ELSE told[Halt]
  BY DEF Loaded, Halt
<1>5. Nothing \in [Grounds -> {"none", "open", "listed", "closed"}]
  BY DEF Nothing
<1>6. got' \in [Threads -> [Grounds -> {"none", "open", "listed", "closed"}]]
  BY <1>2, <1>5 DEF TypeOK
<1>7. told' \in [Grounds -> {"open", "listed", "closed"}]
  BY <1>2, <1>3
<1>8. overtaken' \in [Grounds -> 0..MaxTime \cup {Never}]
  BY <1>1, <1>2
<1>9. \A g \in Grounds : told'[g] = Loaded(got[t], g)
  BY <1>2
<1>10. \A g \in Grounds :
          overtaken'[g] = IF told'[g] # told[g] /\ got[t][g] # row[g] THEN now
                          ELSE overtaken[g]
  BY <1>2
<1> QED
  BY <1>3, <1>4, <1>6, <1>7, <1>8, <1>9, <1>10, GroundFacts

----------------------------------------------------------------------------
LEMMA TypeInit == Init => TypeOK
<1> SUFFICES ASSUME Init PROVE TypeOK
  OBVIOUS
<1>1. /\ now = 0 /\ refreshed = 0 /\ orders = 0 /\ faults = 0
      /\ touched = Never /\ row \in Tables
      /\ changed = [g \in Grounds |-> Never] /\ overtaken = [g \in Grounds |-> Never]
  BY DEF Init
<1>2. 0 \in 0..MaxTime /\ 0 \in 0..MaxOrders /\ 0 \in 0..MaxFaults
  BY ControlAssumption DEF ControlAssumption
<1>3. told \in [Grounds -> {"open", "listed", "closed"}]
  BY DEF Init, Tables
<1>4. /\ pc = [t \in Threads |-> "idle"] /\ call = [t \in Threads |-> StatusCall]
      /\ start = [t \in Threads |-> 0] /\ got = [t \in Threads |-> Nothing]
  BY DEF Init
<1>5. StatusCall \in Calls /\ Nothing \in [Grounds -> {"none", "open", "listed", "closed"}]
  BY DEF Calls, Nothing
<1> QED
  BY <1>1, <1>2, <1>3, <1>4, <1>5 DEF TypeOK

LEMMA LeaveEffect ==
    ASSUME TypeOK, NEW t \in Threads, Leave(t)
    PROVE  /\ now' = now /\ orders' = orders
           /\ pc' = [pc EXCEPT ![t] = "idle"] /\ pc'[t] = "idle"
           /\ call' \in [Threads -> Calls]
           /\ start' \in [Threads -> 0..MaxTime] /\ start'[t] = 0
           /\ got' \in [Threads -> [Grounds -> {"none", "open", "listed", "closed"}]]
           /\ \A u \in Threads \ {t} :
                 /\ pc'[u] = pc[u] /\ call'[u] = call[u]
                 /\ start'[u] = start[u] /\ got'[u] = got[u]
<1>1. StatusCall \in Calls /\ Nothing \in [Grounds -> {"none", "open", "listed", "closed"}]
  BY DEF Calls, Nothing
<1>2. 0 \in 0..MaxTime
  BY ControlAssumption DEF ControlAssumption
<1>3. /\ pc' = [pc EXCEPT ![t] = "idle"] /\ call' = [call EXCEPT ![t] = StatusCall]
      /\ start' = [start EXCEPT ![t] = 0] /\ got' = [got EXCEPT ![t] = Nothing]
      /\ now' = now /\ orders' = orders
  BY DEF Leave
<1> QED
  BY <1>1, <1>2, <1>3 DEF TypeOK

LEMMA TypeStep == TypeOK /\ Calling /\ [Next]_vars => TypeOK'
<1> SUFFICES ASSUME TypeOK, Calling, [Next]_vars PROVE TypeOK'
  OBVIOUS
<1> USE DEF dbVars, cacheVars, threadVars
<1>1. ASSUME NEW o \in Orders, Desktop(o) PROVE TypeOK'
  <2>1. orders' \in 0..MaxOrders
    BY <1>1, ControlAssumption DEF ControlAssumption, Desktop, TypeOK
  <2> QED
    BY <1>1, <2>1, WriteEffect DEF Desktop, TypeOK
<1>2. ASSUME NEW t \in Threads, NEW c \in Calls, Enter(t, c) PROVE TypeOK'
  <2>1. orders' \in 0..MaxOrders
    BY <1>2, ControlAssumption DEF ControlAssumption, Enter, TypeOK
  <2> QED
    BY <1>2, <2>1 DEF Enter, TypeOK
<1>3. ASSUME NEW t \in Threads, ReadHalt(t) \/ ReadAgents(t) PROVE TypeOK'
  <2> DEFINE Rows == [Grounds -> {"none", "open", "listed", "closed"}]
  <2>1. [Nothing EXCEPT ![Halt] = row[Halt]] \in Rows /\ [row EXCEPT ![Halt] = "none"] \in Rows
    BY GroundFacts DEF Nothing, TypeOK, Tables
  <2>2. \E rows \in Rows : Reads(t, rows)
    BY <1>3, <2>1 DEF ReadHalt, ReadAgents
  <2>3. got' \in [Threads -> Rows]
    BY <2>2 DEF Reads, TypeOK
  <2>4. UNCHANGED <<now, dbVars, cacheVars, call, start, orders, faults>>
    BY <2>2 DEF Reads
  <2> QED
    BY <1>3, <2>3, <2>4 DEF ReadHalt, ReadAgents, TypeOK
<1>4. ASSUME NEW t \in Threads, SetHalt(t) \/ SetAgents(t) PROVE TypeOK'
  <2>1. Put(t)
    BY <1>4 DEF SetHalt, SetAgents
  <2>2. UNCHANGED <<now, dbVars, refreshed, touched, call, start, orders, faults>>
    BY <2>1 DEF Put
  <2>3. pc' = [pc EXCEPT ![t] = "readAgents"] \/ pc' = [pc EXCEPT ![t] = "stampRefresh"]
    BY <1>4 DEF SetHalt, SetAgents
  <2> QED
    BY <2>1, <2>2, <2>3, PutEffect DEF TypeOK
<1>5. ASSUME NEW t \in Threads, StampRefresh(t) PROVE TypeOK'
  BY <1>5 DEF StampRefresh, TypeOK
<1>6. ASSUME NEW t \in Threads, Admit(t) PROVE TypeOK'
  BY <1>6 DEF Admit, TypeOK
<1>7. ASSUME NEW t \in Threads, Deny(t) \/ Finish(t) PROVE TypeOK'
  BY <1>7, LeaveEffect DEF Deny, Finish, TypeOK
<1>8. ASSUME NEW t \in Threads, Apply(t) PROVE TypeOK'
  <2>1. call[t].order \in Orders
    BY <1>8 DEF Apply, Calling, AdminCalls
  <2>2. told' \in [Grounds -> {"open", "listed", "closed"}]
    BY <1>8, <2>1 DEF Apply, TypeOK, Orders
  <2> QED
    BY <1>8, <2>2 DEF Apply, TypeOK
<1>9. ASSUME NEW t \in Threads, Store(t) PROVE TypeOK'
  <2>1. call[t].order \in Orders
    BY <1>9 DEF Store, Calling, AdminCalls
  <2> QED
    BY <1>9, <2>1, WriteEffect DEF Store, TypeOK
<1>10. ASSUME NEW t \in Threads, StampOrder(t) PROVE TypeOK'
  <2>1. /\ refreshed' = now /\ touched' = now /\ Leave(t)
        /\ UNCHANGED <<dbVars, told, overtaken, faults>>
    BY <1>10 DEF StampOrder
  <2> QED
    BY <2>1, LeaveEffect DEF TypeOK
<1>11. ASSUME NEW t \in Threads, DatabaseFails(t) PROVE TypeOK'
  <2>1. faults' \in 0..MaxFaults
    BY <1>11, ControlAssumption DEF ControlAssumption, DatabaseFails, TypeOK
  <2> QED
    BY <1>11, <2>1, LeaveEffect DEF DatabaseFails, TypeOK
<1>12. CASE Tick
  BY <1>12, ControlAssumption DEF ControlAssumption, Tick, TypeOK
<1>13. CASE UNCHANGED vars
  BY <1>13 DEF vars, TypeOK
<1> QED
  BY <1>1, <1>2, <1>3, <1>4, <1>5, <1>6, <1>7, <1>8, <1>9, <1>10, <1>11,
     <1>12, <1>13 DEF Next, Serve

LEMMA CallingStep == TypeOK /\ Calling /\ [Next]_vars => Calling'
<1> SUFFICES ASSUME TypeOK, Calling, [Next]_vars PROVE Calling'
  OBVIOUS
<1> USE DEF dbVars, cacheVars, threadVars
<1>1. ASSUME NEW o \in Orders, Desktop(o) PROVE Calling'
  BY <1>1 DEF Desktop, Calling
<1>2. ASSUME NEW t \in Threads, Serve(t) PROVE Calling'
  <2>1. ASSUME NEW c \in Calls, Enter(t, c) PROVE Calling'
    BY <2>1 DEF Enter, TypeOK, Calling
  <2>2. CASE ReadHalt(t) \/ ReadAgents(t) \/ StampRefresh(t)
    BY <2>2 DEF ReadHalt, ReadAgents, Reads, StampRefresh, TypeOK, Calling
  <2>3. CASE SetHalt(t) \/ SetAgents(t)
    <3>1. /\ pc' = [pc EXCEPT ![t] = "readAgents"] \/ pc' = [pc EXCEPT ![t] = "stampRefresh"]
          /\ call' = call
      BY <2>3 DEF SetHalt, SetAgents, Put
    <3> QED
      BY <3>1 DEF TypeOK, Calling
  <2>4. CASE Admit(t)
    <3>1. call[t].order # NoOrder => call[t] \in AdminCalls
      BY DEF TypeOK, Calls, ToolCalls, StatusCall
    <3> QED
      BY <2>4, <3>1 DEF Admit, TypeOK, Calling
  <2>5. CASE Deny(t) \/ Finish(t) \/ StampOrder(t) \/ DatabaseFails(t)
    <3>1. Leave(t)
      BY <2>5 DEF Deny, Finish, StampOrder, DatabaseFails
    <3> QED
      BY <3>1, LeaveEffect DEF Calling
  <2>6. CASE Apply(t) \/ Store(t)
    BY <2>6 DEF Apply, Store, TypeOK, Calling
  <2> QED
    BY <1>2, <2>1, <2>2, <2>3, <2>4, <2>5, <2>6 DEF Serve
<1>3. CASE Tick
  BY <1>3 DEF Tick, Calling
<1>4. CASE UNCHANGED vars
  BY <1>4 DEF vars, threadVars, Calling
<1> QED
  BY <1>1, <1>2, <1>3, <1>4 DEF Next

----------------------------------------------------------------------------
\* What a step may do to the times, and what it leaves behind where it makes
\* the cache and the database differ.
Effect ==
    /\ now' \in {now, now + 1}
    /\ touched' \in {touched, now}
    /\ \A g \in Grounds :
          /\ changed'[g] \in {changed[g], now} /\ overtaken'[g] \in {overtaken[g], now}
          /\ row'[g] = row[g] \/ changed'[g] = now
          /\ \/ Differs(g)' => Differs(g)
             \/ changed'[g] = now \/ touched' = now \/ overtaken'[g] = now

LEMMA StepEffect == TypeOK /\ Calling /\ [Next]_vars => Effect
<1> SUFFICES ASSUME TypeOK, Calling, [Next]_vars PROVE Effect
  OBVIOUS
<1> USE DEF dbVars, cacheVars, threadVars
<1>1. ASSUME NEW o \in Orders, Write(o), UNCHANGED <<now, cacheVars>>
      PROVE  Effect
  <2>1. \A g \in Grounds :
           \/ changed'[g] = now
           \/ changed'[g] = changed[g] /\ row'[g] = row[g]
    BY <1>1, WriteEffect
  <2> QED
    BY <1>1, <2>1 DEF Effect, Differs
<1>2. ASSUME UNCHANGED <<dbVars, told, touched, overtaken>>, now' \in {now, now + 1}
      PROVE  Effect
  BY <1>2 DEF Effect, Differs
<1>3. ASSUME NEW t \in Threads, Put(t) PROVE Effect
  <2>1. UNCHANGED <<now, dbVars, touched>>
    BY <1>3 DEF Put
  <2>2. \A g \in Grounds :
            /\ overtaken'[g] \in {overtaken[g], now}
            /\ \/ told'[g] = told[g] \/ overtaken'[g] = now \/ told'[g] = row[g]
               \/ row[g] = "none"
    BY <1>3, PutEffect
  <2> QED
    BY <2>1, <2>2 DEF Effect, Differs
<1>4. ASSUME touched' = now, UNCHANGED <<now, dbVars, overtaken>> PROVE Effect
  BY <1>4 DEF Effect
<1>5. ASSUME NEW o \in Orders, Desktop(o) PROVE Effect
  BY <1>1, <1>5 DEF Desktop
<1>6. ASSUME NEW t \in Threads, Serve(t) PROVE Effect
  <2>1. ASSUME NEW c \in Calls, Enter(t, c) PROVE Effect
    BY <1>2, <2>1 DEF Enter
  <2>2. CASE ReadHalt(t) \/ ReadAgents(t)
    BY <1>2, <2>2 DEF ReadHalt, ReadAgents, Reads
  <2>3. CASE SetHalt(t) \/ SetAgents(t)
    BY <1>3, <2>3 DEF SetHalt, SetAgents
  <2>4. CASE StampRefresh(t) \/ Admit(t)
    BY <1>2, <2>4 DEF StampRefresh, Admit
  <2>5. CASE Deny(t) \/ Finish(t) \/ DatabaseFails(t)
    BY <1>2, <2>5 DEF Deny, Finish, DatabaseFails, Leave
  <2>6. CASE Apply(t)
    BY <1>4, <2>6 DEF Apply
  <2>7. CASE StampOrder(t)
    BY <1>4, <2>7 DEF StampOrder, Leave
  <2>8. CASE Store(t)
    <3>1. call[t].order \in Orders
      BY <2>8 DEF Store, Calling, AdminCalls
    <3> QED
      BY <1>1, <2>8, <3>1 DEF Store
  <2> QED
    BY <1>6, <2>1, <2>2, <2>3, <2>4, <2>5, <2>6, <2>7, <2>8 DEF Serve
<1>7. CASE Tick
  BY <1>2, <1>7 DEF Tick
<1>8. CASE UNCHANGED vars
  BY <1>2, <1>8 DEF vars
<1> QED
  BY <1>5, <1>6, <1>7, <1>8 DEF Next

\* What has been excused from a time on stays so, and new differences are.
LEMMA SinceKept ==
    ASSUME TypeOK, Clock, Effect
    PROVE  \A g \in Grounds, s \in Int :
              s <= now /\ (Differs(g) => Since(g, s)) => (Differs(g)' => Since(g, s)')
<1> SUFFICES ASSUME NEW g \in Grounds, NEW s \in Int, s <= now,
                    Differs(g) => Since(g, s), Differs(g)'
             PROVE  Since(g, s)'
  OBVIOUS
<1>1. /\ now \in Int /\ touched \in Int /\ changed[g] \in Int /\ overtaken[g] \in Int
      /\ touched <= now /\ changed[g] <= now /\ overtaken[g] <= now
  BY TimesTyped DEF Clock
<1>2. /\ touched' \in {touched, now} /\ changed'[g] \in {changed[g], now}
      /\ overtaken'[g] \in {overtaken[g], now}
      /\ \/ Differs(g)
         \/ changed'[g] = now \/ touched' = now \/ overtaken'[g] = now
  BY DEF Effect
<1>3. CASE changed'[g] = now \/ touched' = now \/ overtaken'[g] = now
  BY <1>1, <1>3 DEF Since
<1>4. CASE /\ changed'[g] = changed[g] /\ touched' = touched
           /\ overtaken'[g] = overtaken[g] /\ Differs(g)
  BY <1>4 DEF Since
<1> QED
  BY <1>2, <1>3, <1>4

\* And so does what a call is excused for.
LEMMA ExcusedKept ==
    ASSUME TypeOK, Clock, Effect, NEW t \in Threads, start'[t] = start[t],
           NEW g \in Grounds
    PROVE  /\ Excused(t, g) => Excused(t, g)'
           /\ \/ changed'[g] = now \/ touched' = now \/ overtaken'[g] = now
              => Excused(t, g)'
<1>1. /\ now \in Int /\ now >= 0 /\ now # Never /\ start[t] \in Int /\ start[t] <= now
      /\ Ttl \in Int /\ Ttl > 0
  BY TimesTyped DEF Clock
<1>2. start[t] - now < Ttl
  BY <1>1
<1>3. /\ touched' \in {touched, now} /\ changed'[g] \in {changed[g], now}
      /\ overtaken'[g] \in {overtaken[g], now}
  BY DEF Effect
<1>4. changed'[g] = now \/ touched' = now \/ overtaken'[g] = now => Excused(t, g)'
  BY <1>1, <1>2 DEF Excused, Lately
<1>5. /\ changed'[g] = changed[g] /\ touched' = touched /\ overtaken'[g] = overtaken[g]
      => (Excused(t, g) => Excused(t, g)')
  BY DEF Excused, Lately
<1> QED
  BY <1>3, <1>4, <1>5

LEMMA ClockStep == TypeOK /\ Calling /\ Clock /\ [Next]_vars => Clock'
<1> SUFFICES ASSUME TypeOK, Calling, Clock, [Next]_vars PROVE Clock'
  OBVIOUS
<1> USE DEF dbVars, cacheVars, threadVars
<1>1. Effect
  BY StepEffect
<1>2. /\ now \in Int /\ now >= 0
      /\ \A g \in Grounds : changed[g] \in Int /\ overtaken[g] \in Int
      /\ refreshed \in Int /\ touched \in Int /\ \A t \in Threads : start[t] \in Int
  BY TimesTyped
<1>3. /\ touched' <= now' /\ now <= now'
      /\ \A g \in Grounds : changed'[g] <= now' /\ overtaken'[g] <= now'
  BY <1>1, <1>2 DEF Effect, Clock
<1>4. SUFFICES /\ refreshed' = refreshed \/ refreshed' <= now
               /\ \A u \in Threads : start'[u] = start[u] \/ start'[u] <= now
  BY <1>2, <1>3, TypeStep DEF Clock, TypeOK
<1>5. ASSUME NEW t \in Threads, Serve(t)
      PROVE  /\ refreshed' = refreshed \/ refreshed' <= now
             /\ \A u \in Threads : start'[u] = start[u] \/ start'[u] <= now
  <2>1. ASSUME NEW c \in Calls, Enter(t, c)
        PROVE  refreshed' = refreshed /\ \A u \in Threads : start'[u] = start[u] \/ start'[u] <= now
    BY <1>2, <2>1 DEF Enter, TypeOK
  <2>2. CASE ReadHalt(t) \/ ReadAgents(t) \/ SetHalt(t) \/ SetAgents(t) \/ Admit(t)
             \/ Apply(t) \/ Store(t)
    BY <2>2 DEF ReadHalt, ReadAgents, Reads, SetHalt, SetAgents, Put, Admit, Apply, Store
  <2>3. CASE StampRefresh(t)
    BY <2>3 DEF StampRefresh, Clock
  <2>4. CASE Deny(t) \/ Finish(t) \/ DatabaseFails(t)
    BY <1>2, <2>4, LeaveEffect DEF Deny, Finish, DatabaseFails
  <2>5. CASE StampOrder(t)
    BY <1>2, <2>5, LeaveEffect DEF StampOrder
  <2> QED
    BY <1>5, <2>1, <2>2, <2>3, <2>4, <2>5 DEF Serve
<1>6. CASE (\E o \in Orders : Desktop(o)) \/ Tick \/ UNCHANGED vars
  BY <1>6 DEF Desktop, Tick, vars
<1> QED
  BY <1>5, <1>6 DEF Next

----------------------------------------------------------------------------
LEMMA RestInit ==
    Init => Calling /\ Clock /\ RefreshAgrees /\ \A t \in Threads : ThreadFine(t)
<1> SUFFICES ASSUME Init
             PROVE  Calling /\ Clock /\ RefreshAgrees
                    /\ \A t \in Threads : ThreadFine(t)
  OBVIOUS
<1>1. Calling /\ \A t \in Threads : ThreadFine(t)
  BY DEF Init, Calling, ThreadFine, Reading, Setting, IsSet, Deciding, Running
<1>2. Clock
  BY DEF Init, Clock, Never
<1>3. RefreshAgrees
  BY DEF Init, RefreshAgrees
<1> QED
  BY <1>1, <1>2, <1>3

LEMMA CacheStep == IInv /\ [Next]_vars => RefreshAgrees'
<1> SUFFICES ASSUME IInv, [Next]_vars PROVE RefreshAgrees'
  OBVIOUS
<1> USE DEF dbVars, cacheVars, threadVars
<1>1. TypeOK /\ Calling /\ Clock /\ RefreshAgrees /\ Effect
  BY StepEffect DEF IInv
<1>2. RefreshAgrees <=> \A g \in Grounds : Differs(g) => Since(g, refreshed)
  BY DEF RefreshAgrees, Differs, Since
<1>3. RefreshAgrees' <=> \A g \in Grounds : Differs(g)' => Since(g, refreshed)'
  BY DEF RefreshAgrees, Differs, Since
<1>4. ASSUME refreshed' = refreshed PROVE RefreshAgrees'
  <2>1. refreshed \in Int /\ refreshed <= now
    BY <1>1, TimesTyped DEF Clock
  <2>2. \A g \in Grounds : Differs(g)' => changed'[g] >= refreshed \/ touched' >= refreshed
                                          \/ overtaken'[g] >= refreshed
    BY <1>1, <1>2, <2>1, SinceKept DEF Since
  <2> QED
    BY <1>3, <1>4, <2>2 DEF Since
<1>5. ASSUME NEW t \in Threads, StampRefresh(t) PROVE RefreshAgrees'
  <2>1. /\ pc[t] = "stampRefresh" /\ refreshed' = start[t]
        /\ UNCHANGED <<dbVars, told, touched, overtaken>>
    BY <1>5 DEF StampRefresh
  <2>2. \A g \in Grounds : Differs(g) => Since(g, start[t])
    BY <2>1 DEF IInv, ThreadFine, Setting, IsSet
  <2> QED
    BY <2>1, <2>2 DEF RefreshAgrees, Differs, Since
<1>6. ASSUME NEW t \in Threads, StampOrder(t) PROVE RefreshAgrees'
  <2>1. refreshed' = now /\ touched' = now
    BY <1>6 DEF StampOrder
  <2> QED
    BY <1>1, <2>1, TimesTyped DEF RefreshAgrees
<1>7. ASSUME NEW t \in Threads, Serve(t), ~ StampRefresh(t), ~ StampOrder(t)
      PROVE  refreshed' = refreshed
  BY <1>7 DEF Serve, Enter, ReadHalt, ReadAgents, Reads, SetHalt, SetAgents, Put,
     Admit, Deny, Finish, Apply, Store, DatabaseFails, Leave
<1>8. CASE (\E o \in Orders : Desktop(o)) \/ Tick \/ UNCHANGED vars
  BY <1>4, <1>8 DEF Desktop, Tick, vars
<1> QED
  BY <1>4, <1>5, <1>6, <1>7, <1>8 DEF Next

\* What a step does to the threads that do not take it.
LEMMA OtherThread ==
    ASSUME TypeOK, Clock, Effect, NEW t \in Threads, ThreadFine(t),
           pc'[t] = pc[t], call'[t] = call[t], start'[t] = start[t], got'[t] = got[t]
    PROVE  ThreadFine(t)'
<1>1. /\ now \in Int /\ start[t] \in Int /\ start[t] <= now
      /\ \A g \in Grounds : changed[g] \in Int
  BY TimesTyped DEF Clock
<1>2. Reading(t)'
  <2>1. \A g \in Grounds : changed[g] >= start[t] => changed'[g] >= start[t]
    BY <1>1 DEF Effect
  <2>2. \A g \in Grounds : row'[g] = row[g] \/ changed'[g] >= start[t]
    BY <1>1 DEF Effect
  <2> QED
    BY <2>1, <2>2 DEF ThreadFine, Reading, Covers
<1>3. Setting(t)'
  <2>1. IsSet(t)' = IsSet(t) /\ IsSet(t) \subseteq Grounds
    BY GroundFacts DEF IsSet
  <2>2. \A g \in IsSet(t) : Differs(g)' => \/ changed'[g] >= start[t] \/ touched' >= start[t]
                                           \/ overtaken'[g] >= start[t]
    BY <1>1, <2>1, SinceKept DEF ThreadFine, Setting, Since
  <2> QED
    BY <2>1, <2>2 DEF Setting, Since
<1>4. Deciding(t)'
  <2> SUFFICES ASSUME pc[t] = "decide", NEW g \in Grounds,
                      row'[g] = "closed", told'[g] # "closed"
               PROVE  Excused(t, g)'
    BY DEF Deciding
  <2>1. Differs(g)'
    BY DEF Differs
  <2>2. CASE changed'[g] = now \/ touched' = now \/ overtaken'[g] = now
    BY <2>2, ExcusedKept
  <2>3. CASE row'[g] = row[g] /\ Differs(g)
    BY <2>3, ExcusedKept DEF ThreadFine, Deciding, Differs
  <2> QED
    BY <2>1, <2>2, <2>3 DEF Effect
<1>5. Running(t)'
  <2> SUFFICES ASSUME pc[t] = "running", NEW g \in GroundsOf(call[t]), row'[g] = "closed"
               PROVE  Excused(t, g)'
    BY DEF Running, GroundsOf
  <2>1. g \in Grounds
    BY GroundFacts DEF TypeOK
  <2>2. CASE changed'[g] = now
    BY <2>1, <2>2, ExcusedKept
  <2>3. CASE row'[g] = row[g]
    BY <2>1, <2>3, ExcusedKept DEF ThreadFine, Running
  <2> QED
    BY <2>1, <2>2, <2>3 DEF Effect
<1> QED
  BY <1>2, <1>3, <1>4, <1>5 DEF ThreadFine

\* Whoever takes a step leaves the other threads alone.
LEMMA Alone ==
    ASSUME TypeOK, NEW t \in Threads, Serve(t), NEW u \in Threads, u # t
    PROVE  /\ pc'[u] = pc[u] /\ call'[u] = call[u]
           /\ start'[u] = start[u] /\ got'[u] = got[u]
<1> USE DEF dbVars, cacheVars, threadVars
<1>1. CASE Deny(t) \/ Finish(t) \/ StampOrder(t) \/ DatabaseFails(t)
  BY <1>1, LeaveEffect DEF Deny, Finish, StampOrder, DatabaseFails
<1>2. CASE ~ (Deny(t) \/ Finish(t) \/ StampOrder(t) \/ DatabaseFails(t))
  BY <1>2 DEF Serve, Enter, ReadHalt, ReadAgents, Reads, SetHalt, SetAgents, Put,
     StampRefresh, Admit, Apply, Store, TypeOK
<1> QED
  BY <1>1, <1>2

\* A thread's own step.
LEMMA OwnStep ==
    ASSUME IInv, NEW t \in Threads, Serve(t), Effect PROVE ThreadFine(t)'
<1> USE DEF dbVars, cacheVars, threadVars
<1>1. /\ TypeOK /\ Calling /\ Clock /\ RefreshAgrees /\ ThreadFine(t)
  BY DEF IInv
<1>2. /\ now \in Int /\ now >= 0 /\ start[t] \in Int /\ start[t] >= 0
      /\ Never = -1 /\ touched \in Int /\ refreshed \in Int /\ refreshed >= 0
      /\ \A g \in Grounds : changed[g] \in Int /\ overtaken[g] \in Int
      /\ Ttl \in Int /\ Ttl > 0
  BY <1>1, TimesTyped DEF Never
<1>3. ASSUME pc'[t] \in {"idle", "readHalt", "apply", "store", "stampOrder"}
      PROVE  ThreadFine(t)'
  BY <1>3 DEF ThreadFine, Reading, Setting, IsSet, Deciding, Running
<1>4. ASSUME NEW c \in Calls, Enter(t, c) PROVE ThreadFine(t)'
  <2>1. CASE Expired
    BY <1>1, <1>3, <1>4, <2>1 DEF Enter, TypeOK
  <2>2. CASE ~ Expired
    <3>1. /\ pc'[t] = "decide" /\ start'[t] = now /\ UNCHANGED <<dbVars, cacheVars>>
      BY <1>1, <1>4, <2>2 DEF Enter, TypeOK
    <3>2. now - refreshed < Ttl
      BY <1>2, <2>2 DEF Expired
    <3>3. \A e \in Int : e >= refreshed => e # Never /\ now - e < Ttl
      BY <1>2, <3>2
    <3>4. ASSUME NEW g \in Grounds, row[g] = "closed", told[g] # "closed"
          PROVE  Excused(t, g)'
      <4>1. changed[g] >= refreshed \/ touched >= refreshed \/ overtaken[g] >= refreshed
        BY <1>1, <3>4 DEF RefreshAgrees
      <4> QED
        BY <1>2, <3>1, <3>3, <4>1 DEF Excused, Lately
    <3> QED
      BY <3>1, <3>4 DEF ThreadFine, Reading, Setting, IsSet, Deciding, Running
  <2> QED
    BY <2>1, <2>2
<1>5. CASE ReadHalt(t)
  <2>1. /\ pc'[t] = "setHalt" /\ row' = row
        /\ got'[t] = [Nothing EXCEPT ![Halt] = row[Halt]]
    BY <1>1, <1>5 DEF ReadHalt, Reads, TypeOK
  <2>2. got'[t][Halt] = row[Halt] /\ \A g \in Grounds \ {Halt} : got'[t][g] = "none"
    BY <2>1, GroundFacts DEF Nothing
  <2>3. Reading(t)'
    BY <2>1, <2>2 DEF Reading, Covers
  <2> QED
    BY <2>1, <2>3 DEF ThreadFine, Setting, IsSet, Deciding, Running
<1>6. CASE ReadAgents(t)
  <2>1. /\ pc[t] = "readAgents" /\ pc'[t] = "setAgents" /\ start' = start
        /\ UNCHANGED <<dbVars, cacheVars>>
        /\ got'[t] = [row EXCEPT ![Halt] = "none"]
    BY <1>1, <1>6 DEF ReadAgents, Reads, TypeOK
  <2>2. got'[t][Halt] = "none" /\ \A g \in Grounds \ {Halt} : got'[t][g] = row[g]
    BY <1>1, <2>1, GroundFacts DEF TypeOK, Tables
  <2>3. Reading(t)'
    BY <2>1, <2>2 DEF Reading, Covers
  <2>4. Setting(t)'
    BY <1>1, <2>1 DEF ThreadFine, Setting, IsSet, Differs, Since
  <2> QED
    BY <2>1, <2>3, <2>4 DEF ThreadFine, Deciding, Running
<1>7. CASE SetHalt(t)
  <2>1. /\ pc[t] = "setHalt" /\ pc'[t] = "readAgents" /\ Put(t)
        /\ UNCHANGED <<now, dbVars, start>>
    BY <1>1, <1>7 DEF SetHalt, Put, TypeOK
  <2>2. got[t][Halt] # row[Halt] => changed[Halt] >= start[t]
    BY <1>1, <2>1, GroundFacts DEF ThreadFine, Reading, Covers
  <2>3. got[t][Halt] = row[Halt] => ~ Differs(Halt)'
    <3>1. told'[Halt] = IF got[t][Halt] # "none" THEN got[t][Halt] ELSE told'[Halt]
      BY <1>1, <2>1, PutEffect, GroundFacts
    <3> QED
      BY <2>1, <3>1 DEF Differs
  <2>4. Setting(t)'
    BY <2>1, <2>2, <2>3 DEF Setting, IsSet, Since
  <2> QED
    BY <2>1, <2>4 DEF ThreadFine, Reading, Deciding, Running
<1>8. CASE SetAgents(t)
  <2>1. /\ pc[t] = "setAgents" /\ pc'[t] = "stampRefresh" /\ Put(t)
        /\ UNCHANGED <<now, dbVars, touched, start>>
    BY <1>1, <1>8 DEF SetAgents, Put, TypeOK
  <2>2. ASSUME NEW g \in Grounds, Differs(g)' PROVE Since(g, start[t])'
    <3>1. CASE g = Halt
      <4>1. got[t][Halt] = "none" /\ (Differs(Halt) => Since(Halt, start[t]))
        BY <1>1, <2>1, GroundFacts DEF ThreadFine, Reading, Covers, Setting, IsSet
      <4>2. told'[Halt] = told[Halt]
        BY <1>1, <2>1, <4>1, PutEffect
      <4>3. overtaken'[Halt] \in {overtaken[Halt], now}
        BY <1>1, <2>1, PutEffect, GroundFacts
      <4>4. start[t] <= now
        BY <1>1 DEF Clock
      <4>5. Differs(Halt)
        BY <2>1, <2>2, <3>1, <4>2 DEF Differs
      <4> QED
        BY <1>2, <2>1, <3>1, <4>1, <4>3, <4>4, <4>5 DEF Since
    <3>2. CASE g # Halt
      <4>1. got[t][g] # row[g] => changed[g] >= start[t]
        BY <1>1, <2>1, <3>2 DEF ThreadFine, Reading, Covers
      <4>2. told'[g] = IF got[t][g] # "none" THEN got[t][g] ELSE told'[g]
        BY <1>1, <2>1, PutEffect
      <4>3. got[t][g] # row[g]
        BY <2>1, <2>2, <4>2 DEF Differs
      <4> QED
        BY <2>1, <4>1, <4>3 DEF Since
    <3> QED
      BY <3>1, <3>2
  <2>3. Setting(t)'
    BY <2>1, <2>2, GroundFacts DEF Setting, IsSet, Since
  <2> QED
    BY <2>1, <2>3 DEF ThreadFine, Reading, Deciding, Running
<1>9. CASE StampRefresh(t)
  <2>1. /\ pc[t] = "stampRefresh" /\ pc'[t] = "decide"
        /\ UNCHANGED <<dbVars, told, touched, overtaken, start>>
    BY <1>1, <1>9 DEF StampRefresh, TypeOK
  <2>2. \A e \in Int : e >= start[t] => e # Never /\ start[t] - e < Ttl
    BY <1>2
  <2>3. ASSUME NEW g \in Grounds, row[g] = "closed", told[g] # "closed"
        PROVE  Excused(t, g)'
    <3>1. Since(g, start[t])
      BY <1>1, <2>1, <2>3 DEF ThreadFine, Setting, IsSet, Differs
    <3> QED
      BY <1>2, <2>1, <2>2, <3>1 DEF Excused, Lately, Since
  <2> QED
    BY <2>1, <2>3 DEF ThreadFine, Reading, Setting, IsSet, Deciding, Running
<1>10. CASE Admit(t)
  <2>1. /\ pc[t] = "decide" /\ Allowed(t)
        /\ UNCHANGED <<dbVars, cacheVars, call, start>>
        /\ pc'[t] = IF call[t].order = NoOrder THEN "running" ELSE "apply"
    BY <1>1, <1>10 DEF Admit, TypeOK
  <2>2. CASE pc'[t] = "apply"
    BY <1>3, <2>2
  <2>3. CASE pc'[t] = "running"
    <3>1. ASSUME NEW g \in GroundsOf(call[t]), row[g] = "closed"
          PROVE  Excused(t, g)
      <4>1. call[t] \in Calls /\ call[t].caller # Admin /\ call[t].caller \in Agents
        BY <1>1, <3>1
           DEF TypeOK, GroundsOf, Calls, ToolCalls, AdminCalls, StatusCall
      <4>2. told[g] # "closed"
        <5>1. g = Halt \/ g \in {call[t].caller} \X {"status", "profile"}
          BY <4>1 DEF GroundsOf
        <5>2. told[Halt] # "closed"
          BY <2>1, <4>1 DEF Allowed
        <5>3. \A k \in {"status", "profile"} : told[<<call[t].caller, k>>] # "closed"
          BY <2>1, <4>1 DEF Allowed
        <5> QED
          BY <5>1, <5>2, <5>3
      <4>3. g \in Grounds
        BY <3>1, <4>1, GroundFacts
      <4> QED
        BY <1>1, <2>1, <3>1, <4>2, <4>3 DEF ThreadFine, Deciding
    <3>2. Running(t)'
      BY <2>1, <3>1 DEF Running, GroundsOf, Excused, Lately
    <3> QED
      BY <2>3, <3>2 DEF ThreadFine, Reading, Setting, IsSet, Deciding
  <2> QED
    BY <2>1, <2>2, <2>3
<1>11. CASE Deny(t) \/ Finish(t) \/ StampOrder(t) \/ DatabaseFails(t)
  <2>1. pc'[t] = "idle"
    BY <1>1, <1>11, LeaveEffect DEF Deny, Finish, StampOrder, DatabaseFails
  <2> QED
    BY <1>3, <2>1
<1>12. CASE Apply(t) \/ Store(t)
  <2>1. pc'[t] \in {"store", "stampOrder"}
    BY <1>1, <1>12 DEF Apply, Store, TypeOK
  <2> QED
    BY <1>3, <2>1
<1> QED
  BY <1>4, <1>5, <1>6, <1>7, <1>8, <1>9, <1>10, <1>11, <1>12 DEF Serve

LEMMA ThreadsStep == IInv /\ [Next]_vars => \A t \in Threads : ThreadFine(t)'
<1> SUFFICES ASSUME IInv, [Next]_vars, NEW t \in Threads PROVE ThreadFine(t)'
  OBVIOUS
<1>1. TypeOK /\ Calling /\ Clock /\ Effect /\ ThreadFine(t)
  BY StepEffect DEF IInv
<1>2. ASSUME NEW u \in Threads, Serve(u) PROVE ThreadFine(t)'
  <2>1. CASE u = t
    BY <1>1, <1>2, <2>1, OwnStep
  <2>2. CASE u # t
    BY <1>1, <1>2, <2>2, Alone, OtherThread
  <2> QED
    BY <2>1, <2>2
<1>3. CASE (\E o \in Orders : Desktop(o)) \/ Tick \/ UNCHANGED vars
  <2>1. UNCHANGED threadVars
    BY <1>3 DEF Desktop, Tick, vars
  <2> QED
    BY <1>1, <2>1, OtherThread DEF threadVars
<1> QED
  BY <1>2, <1>3 DEF Next

----------------------------------------------------------------------------
\* What a cache knows, all of it (check_access).
THEOREM ControlInvariant == Spec => []IInv
<1>1. Init => IInv
  BY TypeInit, RestInit DEF IInv
<1>2. IInv /\ [Next]_vars => IInv'
  BY TypeStep, CallingStep, ClockStep, CacheStep, ThreadsStep DEF IInv
<1> QED
  BY <1>1, <1>2, PTL DEF Spec

\* The types of the control plane: an agent whose policy is stored always has a
\* status, and what threads have read of the rows is of their kinds.
THEOREM ControlTyped == Spec => []TypeOK
BY ControlInvariant, PTL DEF IInv

\* A call that runs on a ground the database refuses entered less than Ttl
\* after the refusal, after an admin call through its server, or after a
\* stalled refresh put an older row for that ground into the cache.
THEOREM ControlRevocationBounded == Spec => []RevocationBounded
<1>1. IInv => RevocationBounded
  BY DEF IInv, ThreadFine, Running, Excused, RevocationBounded
<1> QED
  BY <1>1, ControlInvariant, PTL

\* Where the cache differs from a row that says something, the row has changed
\* since the stamp of the cache, or an admin call or an outdated row has gone
\* into the cache since.
THEOREM ControlRefreshAgrees == Spec => []RefreshAgrees
BY ControlInvariant, PTL DEF IInv

----------------------------------------------------------------------------
(* RateLimit: the limiter is exact but for what the wall clock was set by,  *)
(* for any callers, window and number of calls.  The argument: the deque   *)
(* has the last of the calls that were let in, and the age of each by the  *)
(* wall clock is its true age but for what the clock was set by since      *)
(* (Aged); what was dropped is older than the window (DroppedOld).         *)

RateShape ==
    /\ wall \in Int /\ elapsed \in 0..MaxSeconds
    /\ recent \in [Callers -> Seq(Int)] /\ admitted \in [Callers -> Seq(Nat)]
    /\ refused \subseteq Callers /\ ahead \in Nat /\ back \in Nat /\ jumps \in 0..MaxJumps
    /\ \A a \in Callers : Len(recent[a]) <= MaxCalls /\ Len(recent[a]) <= Len(admitted[a])

\* How many of the calls let in are no longer in the deque.
Gone(a) == Len(admitted[a]) - Len(recent[a])

Aged ==
    \A a \in Callers : \A i \in 1..Len(recent[a]) :
        LET age == elapsed - admitted[a][Gone(a) + i]
        IN  age - back <= wall - recent[a][i] /\ wall - recent[a][i] <= age + ahead

DroppedOld ==
    \A a \in Callers : \A i \in 1..Gone(a) : elapsed - admitted[a][i] > Window - ahead

InOrder ==
    \A a \in Callers : \A i, j \in 1..Len(admitted[a]) :
        i <= j => admitted[a][i] <= admitted[a][j] /\ admitted[a][j] <= elapsed

RateInv == RateShape /\ Aged /\ DroppedOld /\ InOrder

LEMMA RateConstants ==
    Window \in Nat /\ MaxCalls \in Nat /\ MaxCalls > 0 /\ MaxSeconds \in Nat /\ MaxJumps \in Nat
    /\ Forward \subseteq Nat /\ Backward \subseteq Nat
  BY RateAssumption DEF RateAssumption

LEMMA RateNumbers ==
    ASSUME RateShape
    PROVE  /\ wall \in Int /\ elapsed \in Nat /\ ahead \in Nat /\ back \in Nat
           /\ \A a \in Callers :
                 /\ recent[a] \in Seq(Int) /\ admitted[a] \in Seq(Nat)
                 /\ Len(recent[a]) \in Nat /\ Len(admitted[a]) \in Nat
                 /\ DOMAIN admitted[a] = 1..Len(admitted[a])
                 /\ Gone(a) \in Nat /\ Len(admitted[a]) = Gone(a) + Len(recent[a])
                 /\ \A i \in 1..Len(recent[a]) : recent[a][i] \in Int
                 /\ \A i \in 1..Len(admitted[a]) : admitted[a][i] \in Nat
<1>1. wall \in Int /\ elapsed \in Nat /\ ahead \in Nat /\ back \in Nat
  BY RateConstants DEF RateShape
<1>2. ASSUME NEW a \in Callers
      PROVE  /\ recent[a] \in Seq(Int) /\ admitted[a] \in Seq(Nat)
             /\ Len(recent[a]) <= Len(admitted[a])
  BY DEF RateShape
<1>3. ASSUME NEW a \in Callers
      PROVE  /\ Len(recent[a]) \in Nat /\ Len(admitted[a]) \in Nat
             /\ DOMAIN admitted[a] = 1..Len(admitted[a])
  BY <1>2, LenProperties
<1>4. ASSUME NEW a \in Callers
      PROVE  /\ \A i \in 1..Len(recent[a]) : recent[a][i] \in Int
             /\ \A i \in 1..Len(admitted[a]) : admitted[a][i] \in Nat
  BY <1>2, ElementOfSeq
<1>5. ASSUME NEW a \in Callers
      PROVE  Gone(a) \in Nat /\ Len(admitted[a]) = Gone(a) + Len(recent[a])
  BY <1>2, <1>3 DEF Gone
<1> QED
  BY <1>1, <1>2, <1>3, <1>4, <1>5

LEMMA NumbersOf ==
    ASSUME RateInv, NEW a \in Callers
    PROVE  /\ wall \in Int /\ elapsed \in Int /\ ahead \in Int /\ back \in Int /\ Window \in Int
           /\ recent[a] \in Seq(Int) /\ admitted[a] \in Seq(Nat)
           /\ Len(recent[a]) \in Nat /\ Len(admitted[a]) \in Nat
           /\ DOMAIN admitted[a] = 1..Len(admitted[a])
           /\ Gone(a) \in Nat /\ Len(admitted[a]) = Gone(a) + Len(recent[a])
           /\ \A i \in 1..Len(recent[a]) : recent[a][i] \in Int
           /\ \A i \in 1..Len(admitted[a]) : admitted[a][i] \in Int
           /\ \A i \in 1..Len(recent[a]) : Gone(a) + i \in 1..Len(admitted[a])
           /\ \A i \in 1..Gone(a) : i \in 1..Len(admitted[a])
<1>1. RateShape
  BY DEF RateInv
<1>2. /\ wall \in Int /\ elapsed \in Int /\ ahead \in Int /\ back \in Int /\ Window \in Int
  BY <1>1, RateNumbers, RateConstants
<1>3. /\ recent[a] \in Seq(Int) /\ admitted[a] \in Seq(Nat)
      /\ Len(recent[a]) \in Nat /\ Len(admitted[a]) \in Nat
      /\ DOMAIN admitted[a] = 1..Len(admitted[a])
      /\ Gone(a) \in Nat /\ Len(admitted[a]) = Gone(a) + Len(recent[a])
      /\ \A i \in 1..Len(recent[a]) : recent[a][i] \in Int
      /\ \A i \in 1..Len(admitted[a]) : admitted[a][i] \in Nat
  BY <1>1, RateNumbers
<1>4. /\ \A i \in 1..Len(recent[a]) : Gone(a) + i \in 1..Len(admitted[a])
      /\ \A i \in 1..Gone(a) : i \in 1..Len(admitted[a])
  BY <1>3
<1> QED
  BY <1>2, <1>3, <1>4

\* What is younger or older than what.
LEMMA Sums ==
    ASSUME NEW m \in Nat, NEW k \in 0..m, NEW o \in Nat, NEW n \in Nat, n = o + m
    PROVE  /\ o + k \in Nat /\ o + k <= n /\ n - (o + k) = m - k
           /\ k < m => k + 1 \in 1..m /\ o + k + 1 <= n /\ o + (k + 1) = o + k + 1
           /\ \A i \in 1..(o + k) : i \in 1..o \/ (i - o \in 1..k /\ i - o \in 1..m /\ i \in 1..n)
  OBVIOUS

\* A call of age e - d that the deque takes to be of age w - r.
LEMMA AgedOld ==
    ASSUME NEW w \in Int, NEW r \in Int, NEW e \in Int, NEW d \in Int, NEW f \in Int,
           NEW v \in Int, w - r <= e - d + f, r < w - v
    PROVE  e - d > v - f
  OBVIOUS

LEMMA AgedYoung ==
    ASSUME NEW w \in Int, NEW r \in Int, NEW e \in Int, NEW d \in Int, NEW b \in Int,
           NEW v \in Int, e - d - b <= w - r, r >= w - v
    PROVE  e - d <= v + b
  OBVIOUS

LEMMA RateInit_Inv == RateInit => RateInv
<1> SUFFICES ASSUME RateInit PROVE RateInv
  OBVIOUS
<1>1. <<>> \in Seq(Int) /\ <<>> \in Seq(Nat) /\ Len(<<>>) = 0
  BY EmptySeq
<1>2. \A a \in Callers : recent[a] = <<>> /\ admitted[a] = <<>>
  BY DEF RateInit
<1>3. RateShape
  BY <1>1, <1>2, RateConstants DEF RateInit, RateShape
<1>4. \A a \in Callers : Len(recent[a]) = 0 /\ Len(admitted[a]) = 0 /\ Gone(a) = 0
  BY <1>1, <1>2 DEF Gone
<1>5. Aged /\ DroppedOld /\ InOrder
  BY <1>4 DEF Aged, DroppedOld, InOrder
<1> QED
  BY <1>3, <1>5 DEF RateInv

\* What is left of the deque is what stands behind its first calls, all of them
\* older than the window, and its head is not older.
LEMMA PrunedIs ==
    ASSUME RateShape, NEW a \in Callers
    PROVE  \E k \in 0..Len(recent[a]) :
              /\ Pruned(a) \in Seq(Int) /\ Len(Pruned(a)) = Len(recent[a]) - k
              /\ \A i \in 1..Len(Pruned(a)) : Pruned(a)[i] = recent[a][k + i]
              /\ \A i \in 1..k : recent[a][i] < wall - Window
              /\ k < Len(recent[a]) => recent[a][k + 1] >= wall - Window
<1> DEFINE r == recent[a]
           m == Len(r)
           old == {i \in 0..m : \A j \in 1..i : r[j] < wall - Window}
           left == {x \in Nat : x <= m /\ m - x \in old}
<1>1. r \in Seq(Int) /\ m \in Nat /\ wall - Window \in Int
  BY RateConstants, LenProperties DEF RateShape
<1>2. 0 \in old /\ old \subseteq 0..m
  BY <1>1
<1>3. PICK x \in left : \A y \in left : ~ (<<y, x>> \in OpToRel(<, Nat))
  <2>1. m \in left
    BY <1>1, <1>2
  <2> QED
    BY <2>1, WFMin, NatLessThanWellFounded
<1>4. \A y \in left : x <= y
  <2>1. x \in Nat /\ \A y \in left : y \in Nat /\ ~(y < x)
    BY <1>3 DEF OpToRel
  <2> QED
    BY <2>1
<1> DEFINE k == m - x
<1> HIDE DEF left
<1>5. k \in old /\ \A i \in old : i <= k
  <2>1. x \in Nat /\ x <= m /\ k \in old
    BY <1>3 DEF left
  <2>2. ASSUME NEW i \in old PROVE i <= k
    <3>1. m - i \in left
      BY <1>1, <1>2 DEF left
    <3> QED
      BY <1>1, <1>2, <1>4, <2>1, <3>1
  <2> QED
    BY <2>1, <2>2
<1> HIDE DEF k
<1>6. (CHOOSE i \in old : \A j \in old : j <= i) = k
  <2> DEFINE c == CHOOSE i \in old : \A j \in old : j <= i
  <2>1. c \in old /\ \A j \in old : j <= c
    BY <1>5
  <2>2. c <= k /\ k <= c
    BY <1>5, <2>1
  <2>3. c \in Int /\ k \in Int
    BY <1>2, <1>5, <2>1
  <2>4. \A u, v \in Int : u <= v /\ v <= u => u = v
    OBVIOUS
  <2> QED
    BY <2>2, <2>3, <2>4
<1>7. Pruned(a) = SubSeq(r, 1 + k, m)
  BY <1>6 DEF Pruned
<1>8. k \in 0..m
  BY <1>2, <1>5
<1>9. Pruned(a) \in Seq(Int) /\ Len(Pruned(a)) = m - k
  BY <1>1, <1>7, <1>8, SubSeqProperties
<1>10. \A i \in 1..Len(Pruned(a)) : Pruned(a)[i] = r[k + i]
  BY <1>1, <1>7, <1>8, <1>9, SubSeqProperties
<1>11. \A i \in 1..k : r[i] < wall - Window
  BY <1>5
<1>12. k < m => r[k + 1] >= wall - Window
  <2>1. SUFFICES ASSUME k < m, ~(r[k + 1] >= wall - Window) PROVE FALSE
    OBVIOUS
  <2>2. r[k + 1] \in Int
    BY <1>1, <1>8, <2>1, ElementOfSeq
  <2>3. r[k + 1] < wall - Window
    BY <1>1, <2>1, <2>2
  <2>4. k + 1 \in old
    BY <1>1, <1>8, <1>11, <2>1, <2>3
  <2> QED
    BY <1>5, <1>8, <1>1, <2>4
<1> QED
  BY <1>8, <1>9, <1>10, <1>11, <1>12

\* A call that is pruned from the deque, or not.
LEMMA PruneKeeps ==
    ASSUME RateInv, NEW a \in Callers, NEW k \in 0..Len(recent[a]),
           \A i \in 1..k : recent[a][i] < wall - Window
    PROVE  \A i \in 1..(Gone(a) + k) : elapsed - admitted[a][i] > Window - ahead
<1> SUFFICES ASSUME NEW i \in 1..(Gone(a) + k)
             PROVE  elapsed - admitted[a][i] > Window - ahead
  OBVIOUS
<1>1. /\ Len(recent[a]) \in Nat /\ Len(admitted[a]) \in Nat /\ Gone(a) \in Nat
      /\ Len(admitted[a]) = Gone(a) + Len(recent[a])
  BY NumbersOf
<1>2. \/ i \in 1..Gone(a)
      \/ /\ i - Gone(a) \in 1..k /\ i - Gone(a) \in 1..Len(recent[a])
         /\ i \in 1..Len(admitted[a]) /\ Gone(a) + (i - Gone(a)) = i
  <2>1. \/ i \in 1..Gone(a)
        \/ /\ i - Gone(a) \in 1..k /\ i - Gone(a) \in 1..Len(recent[a])
           /\ i \in 1..Len(admitted[a])
    BY <1>1, Sums
  <2>2. i \in Int /\ Gone(a) \in Int
    BY <1>1
  <2>3. Gone(a) + (i - Gone(a)) = i
    BY <2>2
  <2> QED
    BY <2>1, <2>3
<1>3. CASE i \in 1..Gone(a)
  BY <1>3 DEF RateInv, DroppedOld
<1>4. CASE /\ i - Gone(a) \in 1..k /\ i - Gone(a) \in 1..Len(recent[a])
           /\ i \in 1..Len(admitted[a]) /\ Gone(a) + (i - Gone(a)) = i
  <2>1. wall - recent[a][i - Gone(a)] <= elapsed - admitted[a][i] + ahead
    BY <1>4 DEF RateInv, Aged
  <2>2. recent[a][i - Gone(a)] < wall - Window
    BY <1>4
  <2>3. /\ recent[a][i - Gone(a)] \in Int /\ admitted[a][i] \in Int
        /\ wall \in Int /\ elapsed \in Int /\ ahead \in Int /\ Window \in Int
    BY <1>4, NumbersOf
  <2> QED
    BY <2>1, <2>2, <2>3, AgedOld
<1> QED
  BY <1>2, <1>3, <1>4

\* Where pruning leaves the calls of a: the k first of the deque go, and the g
\* first of all that were let in are gone then.
Left(a, k, g) ==
    /\ k \in 0..Len(recent[a]) /\ g = Gone(a) + k
    /\ g \in Nat /\ g <= Len(admitted[a]) /\ Len(admitted[a]) - g = Len(Pruned(a))
    /\ \A i \in 1..g : elapsed - admitted[a][i] > Window - ahead
    /\ g < Len(admitted[a]) => elapsed - admitted[a][g + 1] <= Window + back

LEMMA PruneLeaves ==
    ASSUME RateInv, NEW a \in Callers
    PROVE  \E k, g \in Nat :
              /\ Left(a, k, g)
              /\ Pruned(a) \in Seq(Int) /\ Len(Pruned(a)) = Len(recent[a]) - k
              /\ \A i \in 1..Len(Pruned(a)) : Pruned(a)[i] = recent[a][k + i]
<1>1. PICK k \in 0..Len(recent[a]) :
         /\ Pruned(a) \in Seq(Int) /\ Len(Pruned(a)) = Len(recent[a]) - k
         /\ \A i \in 1..Len(Pruned(a)) : Pruned(a)[i] = recent[a][k + i]
         /\ \A i \in 1..k : recent[a][i] < wall - Window
         /\ k < Len(recent[a]) => recent[a][k + 1] >= wall - Window
  BY PrunedIs DEF RateInv
<1>2. /\ Len(recent[a]) \in Nat /\ Len(admitted[a]) \in Nat /\ Gone(a) \in Nat
      /\ Len(admitted[a]) = Gone(a) + Len(recent[a])
  BY NumbersOf
<1>3. PICK g : g = Gone(a) + k
  OBVIOUS
<1>4. /\ g \in Nat /\ g <= Len(admitted[a]) /\ Len(admitted[a]) - g = Len(recent[a]) - k
      /\ k \in Nat
  BY <1>2, <1>3, Sums
<1>5. \A i \in 1..g : elapsed - admitted[a][i] > Window - ahead
  BY <1>1, <1>3, PruneKeeps
<1>6. ASSUME g < Len(admitted[a]) PROVE elapsed - admitted[a][g + 1] <= Window + back
  <2>1. k < Len(recent[a])
    BY <1>2, <1>3, <1>6
  <2>2. k + 1 \in 1..Len(recent[a]) /\ Gone(a) + (k + 1) = g + 1 /\ g + 1 \in 1..Len(admitted[a])
    <3>1. k + 1 \in 1..Len(recent[a]) /\ Gone(a) + (k + 1) = g + 1
      BY <1>2, <1>3, <2>1, Sums
    <3>2. g + 1 \in 1..Len(admitted[a])
      BY <1>2, <1>4, <1>6
    <3> QED
      BY <3>1, <3>2
  <2>3. elapsed - admitted[a][g + 1] - back <= wall - recent[a][k + 1]
    BY <2>2 DEF RateInv, Aged
  <2>4. recent[a][k + 1] >= wall - Window
    BY <1>1, <2>1
  <2>5. /\ recent[a][k + 1] \in Int /\ admitted[a][g + 1] \in Int
        /\ wall \in Int /\ elapsed \in Int /\ back \in Int /\ Window \in Int
    BY <2>2, NumbersOf
  <2>6. PICK d, r : d = admitted[a][g + 1] /\ r = recent[a][k + 1]
    OBVIOUS
  <2>7. elapsed - d - back <= wall - r /\ r >= wall - Window /\ d \in Int /\ r \in Int
    BY <2>3, <2>4, <2>5, <2>6, Zenon
  <2>8. elapsed - d <= Window + back
    BY <2>5, <2>7, AgedYoung
  <2> QED
    BY <2>6, <2>8, Zenon
<1>7. Left(a, k, g)
  BY <1>1, <1>3, <1>4, <1>5, <1>6 DEF Left
<1> QED
  BY <1>1, <1>4, <1>7

\* The calls of the last moments are those that pruning leaves.
LEMMA Interval ==
    ASSUME NEW g \in Nat, NEW n \in Nat, g <= n
    PROVE  IsFiniteSet((g + 1)..n) /\ Cardinality((g + 1)..n) = n - g
<1>1. g + 1 \in Int /\ n \in Int
  OBVIOUS
<1>2. /\ IsFiniteSet((g + 1)..n)
      /\ Cardinality((g + 1)..n) = IF g + 1 > n THEN 0 ELSE n - (g + 1) + 1
  BY <1>1, FS_Interval
<1> QED
  BY <1>2

LEMMA AdmitExact ==
    ASSUME RateInv, NEW a \in Callers, AdmitCall(a)
    PROVE  Cardinality(LetIn(a, Window - ahead)) < MaxCalls
<1> DEFINE n == Len(admitted[a])
<1>1. PICK k \in Nat, g \in Nat : Left(a, k, g)
  BY PruneLeaves
<1>2. /\ g <= n /\ n - g = Len(Pruned(a))
      /\ \A i \in 1..g : elapsed - admitted[a][i] > Window - ahead
  BY <1>1 DEF Left
<1>3. /\ n \in Nat /\ DOMAIN admitted[a] = 1..n
      /\ \A i \in 1..n : admitted[a][i] \in Int
      /\ elapsed \in Int /\ Window \in Int /\ ahead \in Int
  BY NumbersOf
<1>4. LetIn(a, Window - ahead) \subseteq (g + 1)..n
  <2>1. SUFFICES ASSUME NEW i \in 1..n, elapsed - admitted[a][i] <= Window - ahead
                 PROVE  i \in (g + 1)..n
    BY <1>3 DEF LetIn
  <2>2. i \notin 1..g
    BY <1>2, <1>3, <2>1
  <2> QED
    BY <1>3, <2>2
<1>5. Cardinality(LetIn(a, Window - ahead)) <= n - g
  <2>1. IsFiniteSet((g + 1)..n) /\ Cardinality((g + 1)..n) = n - g
    BY <1>2, <1>3, Interval
  <2>2. Cardinality(LetIn(a, Window - ahead)) <= Cardinality((g + 1)..n)
    BY <1>4, <2>1, FS_Subset, Zenon
  <2> QED
    BY <2>1, <2>2
<1>6. Cardinality(LetIn(a, Window - ahead)) \in Nat
  BY <1>2, <1>3, <1>4, Interval, FS_Subset, FS_CardinalityType
<1>7. Len(Pruned(a)) < MaxCalls
  BY DEF AdmitCall
<1> QED
  BY <1>2, <1>3, <1>5, <1>6, <1>7, RateConstants

LEMMA RefuseExact ==
    ASSUME RateInv, NEW a \in Callers, RefuseCall(a)
    PROVE  Cardinality(LetIn(a, Window + back)) >= MaxCalls
<1> DEFINE n == Len(admitted[a])
<1>1. PICK k \in Nat, g \in Nat : Left(a, k, g)
  BY PruneLeaves
<1>2. Len(Pruned(a)) >= MaxCalls
  BY DEF RefuseCall
<1>3. /\ n \in Nat /\ DOMAIN admitted[a] = 1..n
      /\ \A i \in 1..n : admitted[a][i] \in Int
      /\ elapsed \in Int /\ Window \in Int /\ back \in Int
  BY NumbersOf
<1>4. g <= n /\ n - g = Len(Pruned(a))
  BY <1>1 DEF Left
<1>5. g < n /\ elapsed - admitted[a][g + 1] <= Window + back
  <2>1. g < n
    BY <1>2, <1>3, <1>4, RateConstants
  <2> QED
    BY <1>1, <2>1 DEF Left
<1>6. (g + 1)..n \subseteq LetIn(a, Window + back)
  <2>1. SUFFICES ASSUME NEW i \in (g + 1)..n
                 PROVE  i \in 1..n /\ elapsed - admitted[a][i] <= Window + back
    BY <1>3 DEF LetIn
  <2>2. i \in 1..n /\ g + 1 \in 1..n /\ g + 1 <= i
    BY <1>3, <1>5
  <2>3. admitted[a][g + 1] <= admitted[a][i]
    BY <2>2 DEF RateInv, InOrder
  <2> QED
    BY <1>3, <1>5, <2>2, <2>3
<1>7. IsFiniteSet(LetIn(a, Window + back))
  <2>1. 0 \in Nat /\ 0 <= n /\ 0 + 1 = 1
    BY <1>3
  <2>2. IsFiniteSet(1..n)
    BY <1>3, <2>1, Interval
  <2> QED
    BY <1>3, <2>2, FS_Subset DEF LetIn
<1>8. Cardinality((g + 1)..n) <= Cardinality(LetIn(a, Window + back))
  BY <1>6, <1>7, FS_Subset
<1>9. Cardinality((g + 1)..n) = n - g
  BY <1>3, <1>4, Interval
<1>10. Cardinality(LetIn(a, Window + back)) \in Nat
  BY <1>7, FS_CardinalityType
<1> QED
  BY <1>2, <1>3, <1>4, <1>8, <1>9, <1>10, RateConstants

LEMMA ClockKeeps ==
    ASSUME RateInv, UNCHANGED <<recent, admitted>>, NEW by \in Nat,
           \/ wall' = wall + 1 /\ elapsed' = elapsed + 1 /\ ahead' = ahead /\ back' = back
           \/ wall' = wall + by /\ elapsed' = elapsed /\ ahead' = ahead + by /\ back' = back
           \/ wall' = wall - by /\ elapsed' = elapsed /\ ahead' = ahead /\ back' = back + by
    PROVE  Aged' /\ DroppedOld' /\ InOrder'
<1>1. \A a : Gone(a)' = Gone(a)
  BY DEF Gone
<1>2. Aged'
  <2>1. SUFFICES ASSUME NEW a \in Callers, NEW i \in 1..Len(recent[a])
                 PROVE  LET age == elapsed' - admitted[a][Gone(a) + i]
                        IN  age - back' <= wall' - recent[a][i] /\ wall' - recent[a][i] <= age + ahead'
    BY <1>1 DEF Aged
  <2>2. /\ elapsed - admitted[a][Gone(a) + i] - back <= wall - recent[a][i]
        /\ wall - recent[a][i] <= elapsed - admitted[a][Gone(a) + i] + ahead
    BY DEF RateInv, Aged
  <2>3. /\ admitted[a][Gone(a) + i] \in Int /\ recent[a][i] \in Int
        /\ wall \in Int /\ elapsed \in Int /\ ahead \in Int /\ back \in Int
    BY NumbersOf
  <2>4. PICK d, r : d = admitted[a][Gone(a) + i] /\ r = recent[a][i]
    OBVIOUS
  <2>5. /\ elapsed - d - back <= wall - r /\ wall - r <= elapsed - d + ahead
        /\ d \in Int /\ r \in Int
    BY <2>2, <2>3, <2>4, Zenon
  <2>6. elapsed' - d - back' <= wall' - r /\ wall' - r <= elapsed' - d + ahead'
    <3> DEFINE w == wall  e == elapsed  f == ahead  b == back
    <3>0. /\ w \in Int /\ e \in Int /\ f \in Int /\ b \in Int /\ by \in Nat
          /\ d \in Int /\ r \in Int
          /\ e - d - b <= w - r /\ w - r <= e - d + f
      BY <2>3, <2>5
    <3> HIDE DEF w, e, f, b
    <3>1. CASE wall' = w + 1 /\ elapsed' = e + 1 /\ ahead' = f /\ back' = b
      <4>1. (e + 1) - d - b <= (w + 1) - r /\ (w + 1) - r <= (e + 1) - d + f
        BY ONLY <3>0, SMTT(20)
      <4> QED
        BY ONLY <3>1, <4>1
    <3>2. CASE wall' = w + by /\ elapsed' = e /\ ahead' = f + by /\ back' = b
      <4>1. e - d - b <= (w + by) - r /\ (w + by) - r <= e - d + (f + by)
        BY ONLY <3>0, SMTT(20)
      <4> QED
        BY ONLY <3>2, <4>1
    <3>3. CASE wall' = w - by /\ elapsed' = e /\ ahead' = f /\ back' = b + by
      <4>1. e - d - (b + by) <= (w - by) - r /\ (w - by) - r <= e - d + f
        BY ONLY <3>0, SMTT(20)
      <4> QED
        BY ONLY <3>3, <4>1
    <3> QED
      BY <3>1, <3>2, <3>3 DEF w, e, f, b
  <2> QED
    BY <2>4, <2>6, Zenon
<1>3. DroppedOld'
  <2>1. SUFFICES ASSUME NEW a \in Callers, NEW i \in 1..Gone(a)
                 PROVE  elapsed' - admitted[a][i] > Window - ahead'
    BY <1>1 DEF DroppedOld
  <2>2. elapsed - admitted[a][i] > Window - ahead
    BY DEF RateInv, DroppedOld
  <2>3. admitted[a][i] \in Int /\ Window \in Int /\ elapsed \in Int /\ ahead \in Int
    BY NumbersOf
  <2> QED
    BY <2>2, <2>3
<1>4. InOrder'
  <2>1. SUFFICES ASSUME NEW a \in Callers, NEW i \in 1..Len(admitted[a]),
                        NEW j \in 1..Len(admitted[a]), i <= j
                 PROVE  admitted[a][i] <= admitted[a][j] /\ admitted[a][j] <= elapsed'
    BY DEF InOrder
  <2>2. admitted[a][i] <= admitted[a][j] /\ admitted[a][j] <= elapsed
    BY <2>1 DEF RateInv, InOrder
  <2>3. admitted[a][j] \in Int /\ elapsed \in Int
    BY NumbersOf
  <2> QED
    BY <2>2, <2>3
<1> QED
  BY <1>2, <1>3, <1>4

\* What a call leaves of the deque: without its k first, and with the call
\* itself when it is let in.
LEMMA CallKeeps ==
    ASSUME RateInv, NEW a \in Callers, AdmitCall(a) \/ RefuseCall(a)
    PROVE  RateInv'
<1>1. PICK k \in Nat, g \in Nat :
         /\ Left(a, k, g)
         /\ Pruned(a) \in Seq(Int) /\ Len(Pruned(a)) = Len(recent[a]) - k
         /\ \A i \in 1..Len(Pruned(a)) : Pruned(a)[i] = recent[a][k + i]
  BY PruneLeaves
<1> DEFINE n == Len(admitted[a])
           m == Len(Pruned(a))
<1>2. /\ n \in Nat /\ m \in Nat /\ g <= n /\ n - g = m /\ g = Gone(a) + k
      /\ \A i \in 1..g : elapsed - admitted[a][i] > Window - ahead
      /\ Len(recent[a]) \in Nat /\ k \in 0..Len(recent[a])
  BY <1>1, NumbersOf, LenProperties DEF Left
<1>3. /\ UNCHANGED <<wall, elapsed, ahead, back, jumps>> /\ refused' \subseteq Callers
      /\ wall \in Int /\ elapsed \in Nat
      /\ recent \in [Callers -> Seq(Int)] /\ admitted \in [Callers -> Seq(Nat)]
  BY RateNumbers DEF AdmitCall, RefuseCall, RateInv, RateShape
<1>4. /\ recent' \in [Callers -> Seq(Int)] /\ admitted' \in [Callers -> Seq(Nat)]
      /\ \A b \in Callers \ {a} : recent'[b] = recent[b] /\ admitted'[b] = admitted[b]
  <2>1. CASE AdmitCall(a)
    <3>1. Append(Pruned(a), wall) \in Seq(Int) /\ Append(admitted[a], elapsed) \in Seq(Nat)
      BY <1>1, <1>3, AppendProperties
    <3> QED
      BY <1>3, <2>1, <3>1 DEF AdmitCall
  <2>2. CASE RefuseCall(a)
    BY <1>1, <1>3, <2>2 DEF RefuseCall
  <2> QED
    BY <2>1, <2>2
\* The deque of a and the calls let in, one by one.
<1>5. PICK more \in {0, 1} :
         /\ Len(recent'[a]) = m + more /\ Len(admitted'[a]) = n + more
         /\ m + more <= MaxCalls
         /\ \A i \in 1..m : recent'[a][i] = recent[a][k + i]
         /\ \A i \in 1..n : admitted'[a][i] = admitted[a][i]
         /\ more = 1 => recent'[a][m + 1] = wall /\ admitted'[a][n + 1] = elapsed
  <2>1. CASE AdmitCall(a)
    <3>1. recent'[a] = Append(Pruned(a), wall) /\ admitted'[a] = Append(admitted[a], elapsed)
          /\ m < MaxCalls
      BY <1>3, <2>1 DEF AdmitCall
    <3>2. /\ Len(recent'[a]) = m + 1 /\ recent'[a][m + 1] = wall
          /\ \A i \in 1..m : recent'[a][i] = Pruned(a)[i]
      <4>1. PICK s \in Seq(Int) : s = Pruned(a)
        BY <1>1
      <4>2. /\ Len(Append(s, wall)) = Len(s) + 1 /\ Append(s, wall)[Len(s) + 1] = wall
            /\ \A i \in 1..Len(s) : Append(s, wall)[i] = s[i]
        BY <1>3, AppendProperties
      <4> QED
        BY <3>1, <4>1, <4>2
    <3>3. /\ Len(admitted'[a]) = n + 1 /\ admitted'[a][n + 1] = elapsed
          /\ \A i \in 1..n : admitted'[a][i] = admitted[a][i]
      BY <1>3, <3>1, AppendProperties
    <3>4. m + 1 <= MaxCalls
      BY <1>2, <3>1, RateConstants
    <3> QED
      BY <1>1, <3>2, <3>3, <3>4
  <2>2. CASE RefuseCall(a)
    <3>1. recent'[a] = Pruned(a) /\ admitted'[a] = admitted[a]
      BY <1>3, <2>2 DEF RefuseCall
    <3>2. m <= MaxCalls
      <4>1. Len(recent[a]) <= MaxCalls
        BY DEF RateInv, RateShape
      <4> QED
        BY <1>1, <1>2, <4>1, RateConstants
    <3>3. m + 0 = m /\ n + 0 = n
      BY <1>2
    <3> QED
      BY <1>1, <3>1, <3>2, <3>3
  <2> QED
    BY <2>1, <2>2
<1>6. Gone(a)' = g /\ \A b \in Callers \ {a} : Gone(b)' = Gone(b)
  <2>1. (n + more) - (m + more) = g
    BY <1>2, <1>5
  <2> QED
    BY <1>4, <1>5, <2>1 DEF Gone
<1>7. RateShape'
  <2>1. \A b \in Callers : Len(recent'[b]) <= MaxCalls /\ Len(recent'[b]) <= Len(admitted'[b])
    <3>1. Len(recent'[a]) <= MaxCalls /\ Len(recent'[a]) <= Len(admitted'[a])
      BY <1>2, <1>5
    <3> QED
      BY <1>4, <3>1 DEF RateInv, RateShape
  <2> QED
    BY <1>3, <1>4, <2>1 DEF RateInv, RateShape
<1>8. Aged'
  <2>1. SUFFICES ASSUME NEW b \in Callers, NEW i \in 1..Len(recent'[b])
                 PROVE  LET age == elapsed - admitted'[b][Gone(b)' + i]
                        IN  age - back <= wall - recent'[b][i] /\ wall - recent'[b][i] <= age + ahead
    BY <1>3 DEF Aged
  <2>2. CASE b # a
    <3>1. recent'[b] = recent[b] /\ admitted'[b] = admitted[b] /\ Gone(b)' = Gone(b)
      BY <1>4, <1>6, <2>2
    <3> QED
      BY <2>1, <3>1 DEF RateInv, Aged
  <2>3. CASE b = a /\ i \in 1..m
    <3>1. recent'[a][i] = recent[a][k + i] /\ k + i \in 1..Len(recent[a])
      BY <1>1, <1>2, <1>5, <2>3
    <3>2. g + i \in 1..n /\ g + i = Gone(a) + (k + i)
      <4>1. n \in Int /\ m \in Int /\ g \in Nat /\ n = g + m /\ i \in Int /\ 1 <= i /\ i <= m
        BY <1>2, <2>3
      <4>2. Gone(a) \in Int /\ k \in Int /\ g = Gone(a) + k
        BY <1>2, NumbersOf
      <4>3. \A x, y, z \in Int : (x + y) + z = x + (y + z)
        OBVIOUS
      <4>4. g + i \in 1..n
        BY <4>1
      <4> QED
        BY <4>1, <4>2, <4>3, <4>4
    <3>3. admitted'[a][g + i] = admitted[a][Gone(a) + (k + i)]
      BY <1>5, <3>2
    <3>4. LET age == elapsed - admitted[a][Gone(a) + (k + i)]
          IN  age - back <= wall - recent[a][k + i] /\ wall - recent[a][k + i] <= age + ahead
      BY <3>1 DEF RateInv, Aged
    <3> QED
      BY <1>6, <2>3, <3>1, <3>3, <3>4
  <2>4. CASE b = a /\ more = 1 /\ i = m + 1
    <3>1. g + i = n + 1
      <4>1. n \in Int /\ m \in Int /\ g \in Int /\ n = g + m /\ i = m + 1
        BY <1>2, <2>4
      <4> QED
        BY <4>1
    <3>2. recent'[a][i] = wall /\ admitted'[a][g + i] = elapsed
      BY <1>5, <2>4, <3>1
    <3>3. ahead \in Nat /\ back \in Nat
      BY DEF RateInv, RateShape
    <3> QED
      BY <1>3, <1>6, <2>4, <3>2, <3>3
  <2>5. b # a \/ (b = a /\ i \in 1..m) \/ (b = a /\ more = 1 /\ i = m + 1)
    BY <1>2, <1>5, <2>1
  <2> QED
    BY <2>2, <2>3, <2>4, <2>5
<1>9. DroppedOld'
  <2>1. SUFFICES ASSUME NEW b \in Callers, NEW i \in 1..(Gone(b)')
                 PROVE  elapsed - admitted'[b][i] > Window - ahead
    BY <1>3 DEF DroppedOld
  <2>2. CASE b # a
    BY <1>4, <1>6, <2>2 DEF RateInv, DroppedOld
  <2>3. CASE b = a
    <3>1. i \in 1..g /\ i \in 1..n
      BY <1>2, <1>6, <2>3
    <3> QED
      BY <1>2, <1>5, <2>3, <3>1
  <2> QED
    BY <2>2, <2>3
<1>10. InOrder'
  <2>1. SUFFICES ASSUME NEW b \in Callers, NEW i \in 1..Len(admitted'[b]),
                        NEW j \in 1..Len(admitted'[b]), i <= j
                 PROVE  admitted'[b][i] <= admitted'[b][j] /\ admitted'[b][j] <= elapsed
    BY <1>3 DEF InOrder
  <2>2. CASE b # a
    BY <1>4, <2>1, <2>2 DEF RateInv, InOrder
  <2>3. CASE b = a /\ j \in 1..n
    <3>1. i \in 1..n
      BY <1>2, <1>5, <2>1, <2>3
    <3> QED
      BY <1>5, <2>1, <2>3, <3>1 DEF RateInv, InOrder
  <2>4. CASE b = a /\ more = 1 /\ j = n + 1
    <3>1. admitted'[a][j] = elapsed /\ (i \in 1..n \/ i = n + 1)
      BY <1>2, <1>5, <2>1, <2>4
    <3>2. i \in 1..n => admitted'[a][i] = admitted[a][i] /\ admitted[a][i] <= elapsed
      <4>1. i \in 1..n => i <= i
        BY <1>2
      <4> QED
        BY <1>5, <4>1 DEF RateInv, InOrder
    <3> QED
      BY <1>3, <2>4, <3>1, <3>2
  <2>5. b # a \/ (b = a /\ j \in 1..n) \/ (b = a /\ more = 1 /\ j = n + 1)
    BY <1>2, <1>5, <2>1
  <2> QED
    BY <2>2, <2>3, <2>4, <2>5
<1> QED
  BY <1>7, <1>8, <1>9, <1>10 DEF RateInv

LEMMA RateStep == ASSUME RateInv, [RateNext]_rateVars PROVE RateInv'
<1>1. CASE \E a \in Callers : AdmitCall(a) \/ RefuseCall(a)
  BY <1>1, CallKeeps
<1>2. CASE SecondPasses \/ (\E by \in Forward : SetForward(by))
           \/ (\E by \in Backward : SetBack(by))
  <2>1. PICK by \in Nat :
           \/ SecondPasses \/ SetForward(by) \/ SetBack(by)
    BY <1>2, RateConstants
  <2>2. /\ UNCHANGED <<recent, admitted>>
        /\ \/ wall' = wall + 1 /\ elapsed' = elapsed + 1 /\ ahead' = ahead /\ back' = back
           \/ wall' = wall + by /\ elapsed' = elapsed /\ ahead' = ahead + by /\ back' = back
           \/ wall' = wall - by /\ elapsed' = elapsed /\ ahead' = ahead /\ back' = back + by
    BY <2>1 DEF SecondPasses, SetForward, SetBack
  <2>3. Aged' /\ DroppedOld' /\ InOrder'
    BY <2>2, ClockKeeps
  <2>4. wall' \in Int /\ elapsed' \in 0..MaxSeconds /\ ahead' \in Nat /\ back' \in Nat
        /\ jumps' \in 0..MaxJumps /\ refused' = {}
    BY <2>1, RateConstants DEF SecondPasses, SetForward, SetBack, RateInv, RateShape
  <2>5. RateShape'
    BY <2>2, <2>4 DEF RateInv, RateShape
  <2> QED
    BY <2>3, <2>5 DEF RateInv
<1>3. CASE UNCHANGED rateVars
  <2>1. UNCHANGED <<wall, elapsed, recent, admitted, refused, ahead, back, jumps>>
    BY <1>3 DEF rateVars
  <2> QED
    BY <2>1 DEF RateInv, RateShape, Aged, DroppedOld, InOrder, Gone
<1> QED
  BY <1>1, <1>2, <1>3 DEF RateNext

LEMMA RateInvariant == RateSpec => []RateInv
  BY RateInit_Inv, RateStep, PTL DEF RateSpec

\* The deque of a caller never grows beyond the limit (check_access).
THEOREM RateTyped == RateSpec => []RateTypeOK
<1>1. RateInv => RateTypeOK
  <2> SUFFICES ASSUME RateInv PROVE RateTypeOK
    OBVIOUS
  <2>1. ASSUME NEW a \in Callers PROVE admitted[a] \in Seq(0..elapsed)
    <3>1. /\ admitted[a] \in Seq(Nat) /\ elapsed \in Int /\ Len(admitted[a]) \in Nat
      BY NumbersOf
    <3>2. ASSUME NEW i \in 1..Len(admitted[a]) PROVE admitted[a][i] \in 0..elapsed
      <4>1. admitted[a][i] <= elapsed
        BY <3>1 DEF RateInv, InOrder
      <4>2. admitted[a][i] \in Nat
        BY <3>1, ElementOfSeq
      <4> QED
        BY <3>1, <4>1, <4>2
    <3>3. admitted[a] \in [1..Len(admitted[a]) -> 0..elapsed]
      <4>1. admitted[a] = [i \in 1..Len(admitted[a]) |-> admitted[a][i]]
        BY <3>1, LenProperties
      <4> QED
        BY <3>2, <4>1
    <3> QED
      BY <3>1, <3>3
  <2>2. /\ wall \in Int /\ elapsed \in 0..MaxSeconds
        /\ \A a \in Callers : recent[a] \in Seq(Int) /\ Len(recent[a]) <= MaxCalls
        /\ refused \subseteq Callers /\ ahead \in Nat /\ back \in Nat /\ jumps \in 0..MaxJumps
    BY DEF RateInv, RateShape
  <2> QED
    BY <2>1, <2>2 DEF RateTypeOK
<1> QED
  BY <1>1, RateInvariant, PTL

\* The limiter lets no more calls into a window than it may, and refuses only
\* who has used up the window, but for what the wall clock was set by (the
\* deque of check_access).
THEOREM RateKept == RateSpec => RateBounded
<1>1. RateInv /\ [RateNext]_rateVars =>
         [\A a \in Callers :
            /\ AdmitCall(a) => Cardinality(LetIn(a, Window - ahead)) < MaxCalls
            /\ RefuseCall(a) => Cardinality(LetIn(a, Window + back)) >= MaxCalls]_rateVars
  BY AdmitExact, RefuseExact
<1> QED
  BY <1>1, RateInvariant, PTL DEF RateSpec, RateBounded

----------------------------------------------------------------------------
(* DesktopWindow: a tab shows what it was asked for, for any tasks in       *)
(* flight, threads and changes of the disk.  The argument: each task waits  *)
(* in one place (Queues), so that a result is delivered once; the cache and *)
(* the listings about to be kept are no older than what was asked of the    *)
(* tab that reads the cache (ListKnown); a result that will be shown is no  *)
(* older than what was asked (Ready); and while a tab does not show that,   *)
(* such a result is on its way (Coming).                                    *)

Places == {"free", "queued", "hit", "read", "keep", "remove", "forget", "emitted", "failed"}
Tasks == [tab : Tabs \cup {"none"}, direct : BOOLEAN, at : Places, value : 0..MaxDisk]

WindowShape ==
    /\ disk \in 0..MaxDisk /\ cached \in 0..MaxDisk \cup {NoList} /\ fresh \in 0..disk
    /\ task \in [Slots -> Tasks]
    /\ line \in Seq(Slots) /\ inbox \in Seq(Slots)
    /\ pending \in [Tabs -> Slots \cup {0}] /\ overlay \in BOOLEAN
    /\ display \in [Tabs -> 0..MaxDisk] /\ asked \in [Tabs -> 0..disk]

\* What a task does goes with its tab, and only the table has a refresh of its own.
Kinds ==
    \A s \in Slots :
        /\ AtStep(s, "free") => task[s].tab = "none"
        /\ AtStep(s, "hit") => task[s].tab = "tasks"
        /\ task[s].at \in {"read", "keep"} => task[s].tab # "none"
        /\ task[s].at \in {"remove", "forget"} => task[s].tab = "none"
        /\ task[s].direct => task[s].tab # "tasks"

Queues ==
    /\ \A i \in 1..Len(line) : AtStep(line[i], "queued")
    /\ \A i, j \in 1..Len(line) : line[i] = line[j] => i = j
    /\ \A i \in 1..Len(inbox) : task[inbox[i]].at \in {"emitted", "failed"}
    /\ \A i, j \in 1..Len(inbox) : inbox[i] = inbox[j] => i = j

ListKnown ==
    /\ cached # NoList => cached >= fresh /\ cached >= asked["tasks"]
    /\ \A s \in Slots : AtStep(s, "keep") =>
          task[s].value >= fresh /\ task[s].value >= asked["tasks"]

\* The result of s counts: a direct one, or the latest of its tab.
Counts(s) == task[s].tab # "none" /\ (task[s].direct \/ pending[task[s].tab] = s)

Ready ==
    \A s \in Slots : Counts(s) /\ task[s].at \in {"keep", "emitted"} =>
        task[s].value >= asked[task[s].tab]

Coming ==
    \A t \in Tabs : display[t] < asked[t] => \E s \in Slots : task[s].tab = t /\ Counts(s)

WindowInv ==
    WindowShape /\ Kinds /\ Queues /\ OverlayMatches /\ ListKnown /\ Ready /\ Coming

LEMMA WindowConstants ==
    /\ Cardinality(Slots) \in Nat /\ Slots = 1..Cardinality(Slots) /\ 0 \notin Slots
    /\ MaxDisk \in Nat /\ Tabs = {"repos", "tasks"} /\ "none" \notin Tabs /\ NoList = -1
  BY WindowAssumption DEF WindowAssumption, Tabs, NoList

LEMMA SlotNumbers == Slots \subseteq Nat
  BY WindowConstants

LEMMA WindowInit_Inv == WindowInit => WindowInv
<1> SUFFICES ASSUME WindowInit PROVE WindowInv
  OBVIOUS
<1> USE WindowConstants DEF WindowInit, Free
<1>0. <<>> \in Seq(Slots) /\ Len(<<>>) = 0
  BY EmptySeq
<1>1. WindowShape
  <2>1. Free \in Tasks
    BY DEF Tasks, Places
  <2>2. task \in [Slots -> Tasks]
    BY <2>1
  <2>3. 0 \in 0..MaxDisk /\ 0 \in 0..0
    BY WindowConstants
  <2>4. pending \in [Tabs -> Slots \cup {0}] /\ display \in [Tabs -> 0..MaxDisk]
        /\ asked \in [Tabs -> 0..disk]
    BY <2>3
  <2> QED
    BY <1>0, <2>2, <2>3, <2>4 DEF WindowShape
<1>2. Kinds /\ Queues
  BY <1>0 DEF Kinds, Queues, AtStep
<1>3. OverlayMatches /\ ListKnown
  BY DEF OverlayMatches, ListKnown, AtStep
<1>4. Ready /\ Coming
  BY DEF Ready, Coming, Counts
<1> QED
  BY <1>1, <1>2, <1>3, <1>4 DEF WindowInv

----------------------------------------------------------------------------
(* run_async *)

LEMMA FreeOnes ==
    ASSUME WindowInv
    PROVE  /\ FreeSlots \in Seq(Slots) /\ Len(FreeSlots) \in Nat
           /\ DOMAIN FreeSlots = 1..Len(FreeSlots)
           /\ \A i \in 1..Len(FreeSlots) : FreeSlots[i] \in Slots /\ AtStep(FreeSlots[i], "free")
           /\ \A i, j \in 1..Len(FreeSlots) : FreeSlots[i] = FreeSlots[j] => i = j
<1> DEFINE all == [s \in Slots |-> s]
           I == {s \in Slots : AtStep(s, "free")}
<1>1. all \in Seq(Slots) /\ Len(all) = Cardinality(Slots)
  <2>1. all = [s \in 1..Cardinality(Slots) |-> s]
    BY WindowConstants
  <2>2. \A s \in 1..Cardinality(Slots) : s \in Slots
    BY WindowConstants
  <2> QED
    BY <2>1, <2>2, WindowConstants, IsASeq
<1>2. I \in SUBSET (1..Len(all)) /\ \A k \in I : all[k] = k
  BY <1>1, WindowConstants
<1>3. FreeSlots = Picked(all, I) /\ \A k \in I : AtStep(k, "free")
  BY DEF FreeSlots
<1> HIDE DEF all, I
<1>4. FreeSlots \in Seq(Slots)
  BY <1>1, <1>2, <1>3, PickedItems
<1>5. PICK f : InOrderOf(f, FreeSlots, all, I)
  BY <1>1, <1>2, <1>3, PickedOrder
<1>6. /\ \A i \in 1..Len(FreeSlots) : f[i] \in I /\ FreeSlots[i] = f[i]
      /\ \A i, j \in 1..Len(FreeSlots) : i < j <=> f[i] < f[j]
  BY <1>2, <1>5 DEF InOrderOf
<1>7. Len(FreeSlots) \in Nat /\ DOMAIN FreeSlots = 1..Len(FreeSlots)
  BY <1>4, LenProperties
<1>8. \A i \in 1..Len(FreeSlots) : FreeSlots[i] \in Slots /\ AtStep(FreeSlots[i], "free")
  BY <1>3, <1>4, <1>6, ElementOfSeq
<1>9. \A i, j \in 1..Len(FreeSlots) : FreeSlots[i] = FreeSlots[j] => i = j
  <2> TAKE i, j \in 1..Len(FreeSlots)
  <2> HAVE FreeSlots[i] = FreeSlots[j]
  <2>1. f[i] = f[j] /\ f[i] \in Nat
    BY <1>6, <1>8, SlotNumbers
  <2>2. ~ (i < j) /\ ~ (j < i)
    BY <1>6, <2>1
  <2> QED
    BY <1>7, <2>2
<1> QED
  BY <1>4, <1>7, <1>8, <1>9

Asking == {r \in [tab : Tabs \cup {"none"}, direct : BOOLEAN] : r.direct => r.tab # "tasks"}

LEMMA SubmitEffect ==
    ASSUME WindowInv, NEW rs \in Seq(Asking), Submit(rs)
    PROVE  /\ 1..Len(rs) \subseteq 1..Len(FreeSlots)
           /\ \A i \in 1..Len(rs) : /\ FreeSlots[i] \in Slots /\ task[FreeSlots[i]].tab = "none"
                                    /\ task[FreeSlots[i]].at = "free"
                                    /\ task'[FreeSlots[i]] = Queued(rs[i])
           /\ \A s \in Slots : (\E i \in 1..Len(rs) : s = FreeSlots[i]) \/ task'[s] = task[s]
           /\ \A s \in Slots : ~ AtStep(s, "free") => task'[s] = task[s]
           /\ task' \in [Slots -> Tasks] /\ line' \in Seq(Slots) /\ Kinds'
           /\ UNCHANGED inbox => Queues'
<1> DEFINE slots == [i \in DOMAIN rs |-> FreeSlots[i]]
<1>0. /\ Len(rs) \in Nat /\ DOMAIN rs = 1..Len(rs) /\ \A i \in 1..Len(rs) : rs[i] \in Asking
      /\ Len(rs) <= Len(FreeSlots)
  BY LenProperties, ElementOfSeq DEF Submit
<1>1. 1..Len(rs) \subseteq 1..Len(FreeSlots)
  BY <1>0, FreeOnes
<1>2. slots \in Seq(Slots) /\ Len(slots) = Len(rs)
  <2>1. slots = [i \in 1..Len(rs) |-> FreeSlots[i]]
    BY <1>0
  <2>2. \A i \in 1..Len(rs) : FreeSlots[i] \in Slots
    BY <1>1, FreeOnes
  <2> QED
    BY <1>0, <2>1, <2>2, IsASeq
<1>3. \A i \in 1..Len(rs) : slots[i] = FreeSlots[i]
  BY <1>0
<1>4. ToSet(slots) = {FreeSlots[i] : i \in 1..Len(rs)}
  BY <1>0 DEF ToSet
<1>5. DOMAIN slots = 1..Len(rs)
  BY <1>0
<1>6. /\ task' = [s \in Slots |-> IF s \in ToSet(slots)
                     THEN Queued(rs[CHOOSE i \in DOMAIN slots : slots[i] = s]) ELSE task[s]]
      /\ line' = line \o slots
  BY DEF Submit
<1> HIDE DEF slots
<1>7. ASSUME NEW i \in 1..Len(rs)
      PROVE  /\ FreeSlots[i] \in Slots /\ AtStep(FreeSlots[i], "free")
             /\ task'[FreeSlots[i]] = Queued(rs[i])
  <2>1. FreeSlots[i] \in Slots /\ AtStep(FreeSlots[i], "free") /\ FreeSlots[i] \in ToSet(slots)
    BY <1>1, <1>4, FreeOnes
  <2> DEFINE k == CHOOSE j \in DOMAIN slots : slots[j] = FreeSlots[i]
  <2>2. k \in 1..Len(rs) /\ slots[k] = FreeSlots[i]
    BY <1>3, <1>5
  <2>3. k = i
    BY <1>1, <1>3, <2>2, FreeOnes
  <2> QED
    BY <1>6, <2>1, <2>3
<1>8. \A s \in Slots : (\E i \in 1..Len(rs) : s = FreeSlots[i]) \/ task'[s] = task[s]
  BY <1>4, <1>6
<1>9. \A s \in Slots : ~ AtStep(s, "free") => task'[s] = task[s]
  BY <1>7, <1>8
<1>10. \A i \in 1..Len(rs) : task[FreeSlots[i]].tab = "none" /\ task[FreeSlots[i]].at = "free"
  BY <1>7 DEF WindowInv, Kinds, AtStep
<1>11. \A i \in 1..Len(rs) : Queued(rs[i]) \in Tasks
  <2> TAKE i \in 1..Len(rs)
  <2>1. rs[i].tab \in Tabs \cup {"none"} /\ rs[i].direct \in BOOLEAN
    BY <1>0 DEF Asking
  <2> QED
    BY <2>1 DEF Queued, Tasks, Places, WindowInv, WindowShape
<1>12. task' \in [Slots -> Tasks]
  <2>1. \A s \in Slots : task'[s] \in Tasks
    BY <1>7, <1>8, <1>11 DEF WindowInv, WindowShape
  <2> QED
    BY <1>6, <2>1
<1>13. Kinds'
  <2> SUFFICES ASSUME NEW s \in Slots
               PROVE  /\ task'[s].at = "free" => task'[s].tab = "none"
                      /\ task'[s].at = "hit" => task'[s].tab = "tasks"
                      /\ task'[s].at \in {"read", "keep"} => task'[s].tab # "none"
                      /\ task'[s].at \in {"remove", "forget"} => task'[s].tab = "none"
                      /\ task'[s].direct => task'[s].tab # "tasks"
    BY DEF Kinds, AtStep
  <2>1. CASE task'[s] = task[s]
    BY <2>1 DEF WindowInv, Kinds, AtStep
  <2>2. CASE \E i \in 1..Len(rs) : s = FreeSlots[i]
    <3>1. PICK i \in 1..Len(rs) : s = FreeSlots[i]
      BY <2>2
    <3>2. task'[s] = Queued(rs[i]) /\ rs[i] \in Asking
      BY <1>0, <1>7, <3>1
    <3> QED
      BY <3>2 DEF Queued, Asking
  <2> QED
    BY <1>8, <2>1, <2>2
<1>14. line' \in Seq(Slots) /\ Len(line') = Len(line) + Len(rs)
       /\ \A i \in 1..Len(line') :
             line'[i] = IF i <= Len(line) THEN line[i] ELSE slots[i - Len(line)]
  <2>1. line \in Seq(Slots) /\ line' = line \o slots
    BY <1>6 DEF WindowInv, WindowShape
  <2>2. /\ line \o slots \in Seq(Slots) /\ Len(line \o slots) = Len(line) + Len(slots)
        /\ \A i \in 1..Len(line \o slots) :
              (line \o slots)[i] = IF i <= Len(line) THEN line[i] ELSE slots[i - Len(line)]
    <3>1. slots \in Seq(Slots)
      BY <1>2
    <3>2. /\ line \o slots \in Seq(Slots) /\ Len(line \o slots) = Len(line) + Len(slots)
          /\ \A i \in 1..Len(line) + Len(slots) :
                (line \o slots)[i] = IF i <= Len(line) THEN line[i] ELSE slots[i - Len(line)]
      BY <2>1, <3>1, ConcatProperties
    <3> QED
      BY <3>2
  <2> QED
    BY <1>2, <2>1, <2>2
<1>15. ASSUME UNCHANGED inbox PROVE Queues'
  <2>0. /\ \A i \in 1..Len(line) : line[i] \in Slots /\ AtStep(line[i], "queued")
        /\ \A i, j \in 1..Len(line) : line[i] = line[j] => i = j
        /\ \A i \in 1..Len(inbox) : inbox[i] \in Slots /\ task[inbox[i]].at \in {"emitted", "failed"}
        /\ \A i, j \in 1..Len(inbox) : inbox[i] = inbox[j] => i = j
        /\ Len(line) \in Nat
    BY ElementOfSeq, LenProperties DEF WindowInv, WindowShape, Queues
  <2>1. \A i \in 1..Len(line') :
            \/ i \in 1..Len(line) /\ line'[i] = line[i]
            \/ i - Len(line) \in 1..Len(rs) /\ line'[i] = FreeSlots[i - Len(line)]
    <3> TAKE i \in 1..Len(line')
    <3>1. /\ Len(line) \in Nat /\ Len(rs) \in Nat /\ i \in 1..(Len(line) + Len(rs))
          /\ line'[i] = IF i <= Len(line) THEN line[i] ELSE slots[i - Len(line)]
      BY <1>0, <1>14, <2>0
    <3>2. CASE i <= Len(line)
      BY <3>1, <3>2
    <3>3. CASE ~ (i <= Len(line))
      <4>1. i - Len(line) \in 1..Len(rs)
        BY <3>1, <3>3
      <4> QED
        BY <1>3, <3>1, <3>3, <4>1
    <3> QED
      BY <3>2, <3>3
  <2>2. \A i \in 1..Len(line') : task'[line'[i]].at = "queued"
    <3> TAKE i \in 1..Len(line')
    <3>1. CASE i \in 1..Len(line) /\ line'[i] = line[i]
      BY <1>9, <2>0, <3>1 DEF AtStep
    <3>2. CASE i - Len(line) \in 1..Len(rs) /\ line'[i] = FreeSlots[i - Len(line)]
      <4>1. task'[line'[i]] = Queued(rs[i - Len(line)])
        BY <1>7, <3>2
      <4> QED
        BY <4>1 DEF Queued
    <3> QED
      BY <2>1, <3>1, <3>2
  <2>3. \A i \in 1..Len(line), j \in 1..Len(rs) : line[i] # FreeSlots[j]
    BY <1>7, <2>0 DEF AtStep
  <2>4. \A i, j \in 1..Len(line') : line'[i] = line'[j] => i = j
    <3> SUFFICES ASSUME NEW i \in 1..Len(line'), NEW j \in 1..Len(line'), line'[i] = line'[j]
                 PROVE  i = j
      OBVIOUS
    <3>1. CASE i \in 1..Len(line) /\ line'[i] = line[i]
      <4>1. j \in 1..Len(line) /\ line'[j] = line[j]
        BY <2>1, <2>3, <3>1
      <4> QED
        BY <2>0, <3>1, <4>1
    <3>2. CASE i - Len(line) \in 1..Len(rs) /\ line'[i] = FreeSlots[i - Len(line)]
      <4>1. j - Len(line) \in 1..Len(rs) /\ line'[j] = FreeSlots[j - Len(line)]
        BY <2>1, <2>3, <3>2
      <4>2. i - Len(line) = j - Len(line)
        BY <1>1, <3>2, <4>1, FreeOnes
      <4> QED
        BY <1>14, <2>0, <4>2
    <3> QED
      BY <2>1, <3>1, <3>2
  <2>5. \A i \in 1..Len(inbox') : task'[inbox'[i]].at \in {"emitted", "failed"}
    BY <1>9, <1>15, <2>0 DEF AtStep
  <2> QED
    BY <1>15, <2>0, <2>2, <2>4, <2>5 DEF Queues, AtStep
<1> QED
  BY <1>1, <1>7, <1>8, <1>9, <1>10, <1>12, <1>13, <1>14, <1>15

----------------------------------------------------------------------------
(* The requests *)

LEMMA TaskTyped ==
    ASSUME WindowInv, NEW s \in Slots
    PROVE  /\ task[s] \in Tasks /\ task[s].tab \in Tabs \cup {"none"}
           /\ task[s].direct \in BOOLEAN /\ task[s].at \in Places
           /\ task[s].value \in 0..MaxDisk /\ task[s].value \in Int
<1>1. task[s] \in Tasks
  BY DEF WindowInv, WindowShape
<1>2. /\ task[s].tab \in Tabs \cup {"none"} /\ task[s].direct \in BOOLEAN
      /\ task[s].at \in Places /\ task[s].value \in 0..MaxDisk
  BY <1>1 DEF Tasks
<1> QED
  BY <1>1, <1>2, WindowConstants

LEMMA NumbersTyped ==
    ASSUME WindowInv
    PROVE  /\ disk \in 0..MaxDisk /\ disk \in Int /\ fresh \in 0..disk /\ fresh \in Int
           /\ cached \in Int /\ (cached # NoList => cached \in 0..MaxDisk)
           /\ \A t \in Tabs : /\ display[t] \in 0..MaxDisk /\ display[t] \in Int
                              /\ asked[t] \in 0..disk /\ asked[t] \in Int
  BY WindowConstants DEF WindowInv, WindowShape

\* Dropping the list leaves nothing older than what is now known.
LEMMA ListChange ==
    ASSUME WindowInv, disk' = disk, UNCHANGED listVars \/ Invalidate
    PROVE  /\ cached' \in 0..MaxDisk \cup {NoList} /\ fresh' \in 0..disk
           /\ cached' # NoList => cached' >= fresh' /\ cached' >= asked["tasks"]
           /\ \A s \in Slots : AtStep(s, "keep") =>
                 task[s].value >= fresh' /\ task[s].value >= asked["tasks"]
<1>1. CASE UNCHANGED listVars
  BY <1>1 DEF listVars, WindowInv, WindowShape, ListKnown
<1>2. CASE Invalidate
  <2>1. cached' = NoList
        /\ fresh' = IF \E s \in Slots : AtStep(s, "keep") /\ task[s].value < disk
                    THEN 0 ELSE disk
    BY <1>2 DEF Invalidate
  <2>2. \A s \in Slots : AtStep(s, "keep") => task[s].value >= asked["tasks"]
    BY DEF WindowInv, ListKnown
  <2>3. \A s \in Slots : task[s].value \in Int /\ task[s].value >= 0
    BY TaskTyped, WindowConstants
  <2>4. disk \in Int /\ disk >= 0
    BY NumbersTyped, WindowConstants
  <2> QED
    BY <2>1, <2>2, <2>3, <2>4
<1> QED
  BY <1>1, <1>2

LEMMA RefreshStep ==
    ASSUME WindowInv, disk' = disk, UNCHANGED listVars \/ Invalidate,
           NEW rs \in Seq(Asking), Refresh(rs),
           \A i \in 1..Len(rs) : rs[i].tab \in Tabs /\ rs[i] = Request(rs[i].tab, rs[i].direct)
    PROVE  WindowInv'
<1> DEFINE W(t) == {i \in 1..Len(rs) : rs[i] = Request(t, FALSE)}
           A(t) == \E i \in 1..Len(rs) : rs[i].tab = t
<1>0. /\ DOMAIN rs = 1..Len(rs) /\ \A i \in 1..Len(rs) : rs[i] \in Asking
      /\ Tabs = {"repos", "tasks"} /\ "none" \notin Tabs /\ 0 \notin Slots
  BY LenProperties, ElementOfSeq, WindowConstants
<1>1. Submit(rs) /\ UNCHANGED <<display, inbox>>
  BY DEF Refresh
<1>2. /\ 1..Len(rs) \subseteq 1..Len(FreeSlots)
      /\ \A i \in 1..Len(rs) : /\ FreeSlots[i] \in Slots /\ task[FreeSlots[i]].tab = "none"
                               /\ task[FreeSlots[i]].at = "free"
                               /\ task'[FreeSlots[i]] = Queued(rs[i])
      /\ \A s \in Slots : (\E i \in 1..Len(rs) : s = FreeSlots[i]) \/ task'[s] = task[s]
      /\ \A s \in Slots : ~ AtStep(s, "free") => task'[s] = task[s]
      /\ task' \in [Slots -> Tasks] /\ line' \in Seq(Slots) /\ Kinds' /\ Queues'
  BY <1>1, SubmitEffect
<1>2a. \A i \in 1..Len(rs) : /\ FreeSlots[i] \in Slots /\ task'[FreeSlots[i]].at = "queued"
                             /\ task'[FreeSlots[i]].tab = rs[i].tab
                             /\ task'[FreeSlots[i]].direct = rs[i].direct
  <2>1. \A r : Queued(r).at = "queued" /\ Queued(r).tab = r.tab /\ Queued(r).direct = r.direct
    BY DEF Queued
  <2> QED
    BY <1>2, <2>1
<1>3. pending' = [t \in Tabs |-> IF W(t) = {} THEN pending[t]
                                 ELSE FreeSlots[CHOOSE i \in W(t) : TRUE]]
  BY <1>0 DEF Refresh
<1>4. overlay' = (overlay \/ \E t \in Tabs : W(t) # {})
  BY <1>0 DEF Refresh
<1>5. \A t \in Tabs : asked'[t] = IF ~ A(t) THEN asked[t]
                                  ELSE IF Meets(rs, t) THEN 0
                                  ELSE IF t = "repos" THEN disk ELSE fresh'
  <2>1. \A t \in Tabs : t \notin {rs[i].tab : i \in 1..Len(rs)} <=> ~ A(t)
    OBVIOUS
  <2> QED
    BY <1>0, <2>1 DEF Refresh
<1>5a. asked' = [t \in Tabs |-> asked'[t]]
  BY DEF Refresh
<1>6. \A t \in Tabs : \A s \in Slots :
          task[s].tab = t /\ task[s].value < disk
              /\ (task[s].direct \/ \E i \in 1..Len(rs) : rs[i] = Request(t, TRUE))
              => Meets(rs, t)
  BY <1>0 DEF Meets, InFlight
<1>7. \A t \in Tabs : W(t) # {} => \E i \in W(t) : pending'[t] = FreeSlots[i]
  BY <1>3
<1>8. \A t \in Tabs : W(t) = {} => pending'[t] = pending[t]
  BY <1>3
<1>9. \A t \in Tabs : A(t) => W(t) # {} \/ \E i \in 1..Len(rs) : rs[i] = Request(t, TRUE)
  <2> SUFFICES ASSUME NEW t \in Tabs, NEW i \in 1..Len(rs), rs[i].tab = t
               PROVE  W(t) # {} \/ rs[i] = Request(t, TRUE)
    OBVIOUS
  <2>1. rs[i].direct \in BOOLEAN /\ rs[i] = Request(t, rs[i].direct)
    BY <1>0 DEF Asking
  <2>2. CASE rs[i].direct = TRUE
    BY <2>1, <2>2
  <2>3. CASE rs[i].direct = FALSE
    <3>1. rs[i] = Request(t, FALSE)
      BY <2>1, <2>3
    <3>2. i \in W(t)
      BY <3>1
    <3> QED
      BY <3>2
  <2> QED
    BY <2>1, <2>2, <2>3
<1>9a. A("tasks") => W("tasks") # {}
  <2>1. \A i \in 1..Len(rs) : rs[i] # Request("tasks", TRUE)
    BY <1>0 DEF Asking, Request
  <2> QED
    BY <1>0, <1>9, <2>1
<1>9b. \A t \in Tabs : \A i \in W(t) : task'[FreeSlots[i]].tab = t /\ ~ task'[FreeSlots[i]].direct
                                       /\ FreeSlots[i] \in Slots /\ A(t)
  BY <1>2a DEF Request
<1>l. /\ cached' \in 0..MaxDisk \cup {NoList} /\ fresh' \in 0..disk
      /\ cached' # NoList => cached' >= fresh' /\ cached' >= asked["tasks"]
      /\ \A s \in Slots : AtStep(s, "keep") =>
            task[s].value >= fresh' /\ task[s].value >= asked["tasks"]
  BY ListChange
<1>m. 0 \in 0..disk /\ disk \in 0..disk
  BY NumbersTyped, WindowConstants
<1> HIDE DEF W, A
<1>10. WindowShape'
  <2>1. pending' \in [Tabs -> Slots \cup {0}]
    <3>0. \A t \in Tabs : pending[t] \in Slots \cup {0}
      BY DEF WindowInv, WindowShape
    <3>1. \A t \in Tabs : pending'[t] \in Slots \cup {0}
      <4> TAKE t \in Tabs
      <4>1. CASE W(t) = {}
        BY <1>8, <3>0, <4>1
      <4>2. CASE W(t) # {}
        BY <1>7, <1>9b, <4>2
      <4> QED
        BY <4>1, <4>2
    <3> QED
      BY <1>3, <3>1
  <2>2. asked' \in [Tabs -> 0..disk']
    <3>1. \A t \in Tabs : asked'[t] \in 0..disk
      BY <1>5, <1>l, <1>m, NumbersTyped
    <3> QED
      BY <1>5a, <3>1
  <2>3. overlay' \in BOOLEAN
    BY <1>4
  <2> QED
    BY <1>1, <1>2, <1>l, <2>1, <2>2, <2>3 DEF WindowInv, WindowShape
<1>11. OverlayMatches'
  <2>0. \A t \in Tabs : pending[t] # 0 =>
            pending[t] \in Slots /\ task[pending[t]].tab = t /\ ~ task[pending[t]].direct
    BY <1>0 DEF WindowInv, WindowShape, OverlayMatches
  <2>1. \A t \in Tabs : pending[t] # 0 => task'[pending[t]] = task[pending[t]]
    BY <1>0, <1>2, <2>0 DEF WindowInv, Kinds
  <2>2. \A t \in Tabs : pending'[t] # 0 => task'[pending'[t]].tab = t /\ ~ task'[pending'[t]].direct
    BY <1>7, <1>8, <1>9b, <2>0, <2>1
  <2>3. \A t \in Tabs : pending'[t] # 0 <=> pending[t] # 0 \/ W(t) # {}
    BY <1>0, <1>7, <1>8, <1>9b
  <2>4. overlay' = \E t \in Tabs : pending'[t] # 0
    <3>1. overlay = \E t \in Tabs : pending[t] # 0
      BY DEF WindowInv, OverlayMatches
    <3> QED
      BY <1>4, <2>3, <3>1
  <2> QED
    BY <2>2, <2>4 DEF OverlayMatches
\* A task that may still be shown was on its way before.
<1>12. ASSUME NEW s \in Slots, Counts(s)', task'[s].at \in {"keep", "emitted"}
       PROVE  /\ task'[s] = task[s] /\ Counts(s) /\ task[s].tab \in Tabs
              /\ ~ task[s].direct => W(task[s].tab) = {}
  <2>1. task'[s] = task[s]
    BY <1>2, <1>2a, <1>12
  <2>2. task[s].tab \in Tabs
    BY <1>12, <2>1, TaskTyped DEF Counts
  <2>3. \A t \in Tabs : \A i \in W(t) : FreeSlots[i] # s
    BY <1>2, <1>12, <2>1 DEF W
  <2>4. pending'[task[s].tab] = s => W(task[s].tab) = {} /\ pending[task[s].tab] = s
    BY <1>7, <1>8, <2>2, <2>3
  <2> QED
    BY <1>12, <2>1, <2>2, <2>4 DEF Counts
<1>13. ListKnown'
  <2>1. \A s \in Slots : task'[s].at = "keep" => task'[s] = task[s]
    BY <1>2, <1>2a
  <2>2. asked'["tasks"] \in {asked["tasks"], 0, fresh'} /\ "tasks" \in Tabs
    BY <1>0, <1>5
  <2>3. \A s \in Slots : task[s].value \in Int /\ task[s].value >= 0
    BY TaskTyped, WindowConstants
  <2>4. cached' # NoList => cached' >= 0
    BY <1>l, WindowConstants
  <2> QED
    BY <1>l, <2>1, <2>2, <2>3, <2>4 DEF ListKnown, AtStep
<1>14. Ready'
  <2> SUFFICES ASSUME NEW s \in Slots, Counts(s)', task'[s].at \in {"keep", "emitted"}
               PROVE  task'[s].value >= asked'[task'[s].tab]
    BY DEF Ready
  <2> DEFINE t == task[s].tab
  <2>1. /\ task'[s] = task[s] /\ Counts(s) /\ t \in Tabs /\ task[s].value >= asked[t]
        /\ ~ task[s].direct => W(t) = {}
        /\ task[s].value \in Int /\ task[s].value >= 0 /\ disk \in Int
        /\ task[s].direct => t # "tasks"
    <3>1. /\ task'[s] = task[s] /\ Counts(s) /\ t \in Tabs
          /\ ~ task[s].direct => W(t) = {}
      BY <1>12
    <3>2. task[s].value >= asked[t]
      BY <3>1 DEF WindowInv, Ready
    <3>3. task[s].direct => t # "tasks"
      BY DEF WindowInv, Kinds
    <3>4. task[s].value \in Int /\ task[s].value >= 0 /\ disk \in Int
      BY TaskTyped, NumbersTyped, WindowConstants
    <3> QED
      BY <3>1, <3>2, <3>3, <3>4
  <2> HIDE DEF t
  <2>2. CASE ~ A(t) \/ Meets(rs, t)
    BY <1>5, <2>1, <2>2 DEF t
  <2>3. CASE A(t) /\ ~ Meets(rs, t) /\ t = "repos"
    <3>1. task[s].value >= disk
      <4> SUFFICES ASSUME task[s].value < disk PROVE FALSE
        BY <2>1
      <4>1. ~ task[s].direct /\ ~ \E i \in 1..Len(rs) : rs[i] = Request(t, TRUE)
        BY <1>6, <2>1, <2>3 DEF t
      <4> QED
        BY <1>9, <2>1, <2>3, <4>1
    <3> QED
      BY <1>5, <2>1, <2>3, <3>1 DEF t
  <2>4. CASE A(t) /\ ~ Meets(rs, t) /\ t = "tasks"
    <3>1. FALSE
      BY <1>9a, <2>1, <2>4
    <3> QED
      BY <3>1
  <2> QED
    BY <1>0, <2>1, <2>2, <2>3, <2>4
<1>15. Coming'
  <2> SUFFICES ASSUME NEW t \in Tabs, display'[t] < asked'[t]
               PROVE  \E s \in Slots : task'[s].tab = t /\ Counts(s)'
    BY DEF Coming
  <2>1. CASE ~ A(t)
    <3>1. display[t] < asked[t]
      BY <1>1, <1>5, <2>1
    <3>2. PICK s \in Slots : task[s].tab = t /\ Counts(s)
      BY <3>1 DEF WindowInv, Coming
    <3>3. task'[s] = task[s]
      BY <1>0, <1>2, <3>2 DEF WindowInv, Kinds
    <3>4. pending'[t] = pending[t]
      BY <1>8, <1>9b, <2>1
    <3> QED
      BY <1>0, <3>2, <3>3, <3>4 DEF Counts
  <2>2. CASE W(t) # {}
    <3>1. PICK i \in W(t) : pending'[t] = FreeSlots[i]
      BY <1>7, <2>2
    <3>2. FreeSlots[i] \in Slots /\ task'[FreeSlots[i]].tab = t
      BY <1>9b, <3>1
    <3> QED
      BY <1>0, <3>1, <3>2 DEF Counts
  <2>3. CASE \E i \in 1..Len(rs) : rs[i] = Request(t, TRUE)
    <3>1. PICK i \in 1..Len(rs) : rs[i] = Request(t, TRUE)
      BY <2>3
    <3>2. FreeSlots[i] \in Slots /\ task'[FreeSlots[i]].tab = t /\ task'[FreeSlots[i]].direct
      BY <1>2a, <3>1 DEF Request
    <3> QED
      BY <1>0, <3>2 DEF Counts
  <2> QED
    BY <1>9, <2>1, <2>2, <2>3
<1> QED
  BY <1>2, <1>10, <1>11, <1>13, <1>14, <1>15 DEF WindowInv

LEMMA AskedFor ==
    ASSUME NEW t \in Tabs
    PROVE  /\ Request(t, FALSE) \in Asking /\ Request("repos", TRUE) \in Asking
           /\ Request("none", TRUE) \in Asking
           /\ \A d : Request(t, d).tab = t /\ Request(t, d).direct = d
           /\ Request("repos", TRUE).tab = "repos" /\ Request("repos", TRUE).direct = TRUE
  BY WindowConstants DEF Request, Asking

LEMMA OneOrTwo ==
    ASSUME NEW S, NEW a \in S, NEW b \in S
    PROVE  /\ <<a>> \in Seq(S) /\ Len(<<a>>) = 1 /\ <<a>>[1] = a
           /\ \A i \in 1..Len(<<a>>) : i = 1 /\ <<a>>[i] = a
           /\ <<a, b>> \in Seq(S) /\ Len(<<a, b>>) = 2
           /\ \A i \in 1..Len(<<a, b>>) : <<a, b>>[i] \in {a, b}
<1>1. /\ <<a>> \in Seq(S) /\ Len(<<a>>) = 1 /\ <<a>>[1] = a
  OBVIOUS
<1>2. \A i \in 1..Len(<<a>>) : i = 1 /\ <<a>>[i] = a
  BY <1>1
<1>3. <<a, b>> \in Seq(S) /\ Len(<<a, b>>) = 2 /\ <<a, b>>[1] = a /\ <<a, b>>[2] = b
  OBVIOUS
<1>4. \A i \in 1..Len(<<a, b>>) : <<a, b>>[i] \in {a, b}
  <2> TAKE i \in 1..Len(<<a, b>>)
  <2>1. i = 1 \/ i = 2
    BY <1>3
  <2> QED
    BY <1>3, <2>1
<1> QED
  BY <1>1, <1>2, <1>3, <1>4

LEMMA AskingStep ==
    ASSUME WindowInv, NEW t \in Tabs,
           NavRefresh(t) \/ ManualRefresh(t) \/ DirectRefresh
             \/ \E indexed \in BOOLEAN : IndexingFinished(t, indexed)
    PROVE  WindowInv'
<1> DEFINE one == <<Request(t, FALSE)>>
           table == <<Request("repos", TRUE)>>
           two == <<Request("repos", TRUE), Request(t, FALSE)>>
<1>1. /\ Request(t, FALSE) \in Asking /\ Request("repos", TRUE) \in Asking
      /\ "repos" \in Tabs
  BY AskedFor, WindowConstants
<1>2. \A rs \in {one, table, two} :
        /\ rs \in Seq(Asking)
        /\ \A i \in 1..Len(rs) : rs[i] \in {Request(t, FALSE), Request("repos", TRUE)}
  <2>1. /\ one \in Seq(Asking)
        /\ \A i \in 1..Len(one) : one[i] \in {Request(t, FALSE), Request("repos", TRUE)}
    <3> DEFINE w == Request(t, FALSE)
    <3>1. w \in Asking
      BY <1>1
    <3> HIDE DEF w
    <3>2. <<w>> \in Seq(Asking) /\ \A i \in 1..Len(<<w>>) : <<w>>[i] = w
      BY <3>1, OneOrTwo
    <3>3. <<w>> = one
      BY DEF w
    <3> HIDE DEF one
    <3> QED
      BY <3>2, <3>3 DEF w
  <2>2. /\ table \in Seq(Asking)
        /\ \A i \in 1..Len(table) : table[i] \in {Request(t, FALSE), Request("repos", TRUE)}
    <3> DEFINE r == Request("repos", TRUE)
    <3>1. r \in Asking
      BY <1>1
    <3> HIDE DEF r
    <3>2. <<r>> \in Seq(Asking) /\ \A i \in 1..Len(<<r>>) : <<r>>[i] = r
      BY <3>1, OneOrTwo
    <3>3. <<r>> = table
      BY DEF r
    <3> HIDE DEF table
    <3> QED
      BY <3>2, <3>3 DEF r
  <2>3. /\ two \in Seq(Asking)
        /\ \A i \in 1..Len(two) : two[i] \in {Request(t, FALSE), Request("repos", TRUE)}
    <3> DEFINE r == Request("repos", TRUE)
               w == Request(t, FALSE)
    <3>1. r \in Asking /\ w \in Asking
      BY <1>1
    <3> HIDE DEF r, w
    <3>2. <<r, w>> \in Seq(Asking) /\ \A i \in 1..Len(<<r, w>>) : <<r, w>>[i] \in {r, w}
      BY <3>1, OneOrTwo
    <3>3. <<r, w>> = two
      BY DEF r, w
    <3> HIDE DEF two
    <3> QED
      BY <3>2, <3>3 DEF r, w
  <2> HIDE DEF one, table, two
  <2> QED
    BY <2>1, <2>2, <2>3
<1>2a. /\ Request(t, FALSE).tab = t /\ Request(t, FALSE).direct = FALSE
       /\ Request("repos", TRUE).tab = "repos" /\ Request("repos", TRUE).direct = TRUE
  BY AskedFor
<1>2b. \A r \in {Request(t, FALSE), Request("repos", TRUE)} :
           r.tab \in Tabs /\ r = Request(r.tab, r.direct)
  BY <1>1, <1>2a
<1>3. \/ NavRefresh(t) \/ DirectRefresh
      \/ ManualRefresh(t) \/ \E indexed \in BOOLEAN : IndexingFinished(t, indexed)
  OBVIOUS
<1>4. /\ disk' = disk /\ (UNCHANGED listVars \/ Invalidate)
      /\ Refresh(one) \/ Refresh(table) \/ Refresh(two)
  <2>1. CASE NavRefresh(t)
    BY <2>1 DEF NavRefresh, listVars
  <2>2. CASE DirectRefresh
    BY <2>2 DEF DirectRefresh, listVars
  <2>3. CASE ManualRefresh(t)
    BY <2>3 DEF ManualRefresh
  <2>4. CASE \E indexed \in BOOLEAN : IndexingFinished(t, indexed)
    <3>1. PICK indexed \in BOOLEAN : IndexingFinished(t, indexed)
      BY <2>4
    <3>2. CASE indexed
      BY <3>1, <3>2 DEF IndexingFinished
    <3>3. CASE ~ indexed
      BY <3>1, <3>3 DEF IndexingFinished
    <3> QED
      BY <3>2, <3>3
  <2> QED
    BY <1>3, <2>1, <2>2, <2>3, <2>4
<1> HIDE DEF one, table, two
<1>5. PICK rs \in {one, table, two} : Refresh(rs)
  BY <1>4
<1>6. rs \in Seq(Asking)
      /\ \A i \in 1..Len(rs) : rs[i].tab \in Tabs /\ rs[i] = Request(rs[i].tab, rs[i].direct)
  BY <1>2, <1>2b
<1> QED
  BY <1>4, <1>5, <1>6, RefreshStep

\* Where tasks are only added, or the disk changes.
LEMMA TasksAdded ==
    ASSUME WindowInv,
           \A s \in Slots : ~ AtStep(s, "free") => task'[s] = task[s],
           \A s \in Slots : task'[s] = task[s] \/ task'[s].at = "queued",
           UNCHANGED <<pending, overlay, display>>
    PROVE  /\ OverlayMatches'
           /\ \A s \in Slots : Counts(s)' /\ task'[s].at \in {"keep", "emitted"} =>
                 task'[s] = task[s] /\ Counts(s)
           /\ \A s \in Slots : Counts(s) => task'[s] = task[s] /\ Counts(s)'
<1>1. \A s \in Slots : task[s].tab # "none" => task'[s] = task[s]
  BY DEF WindowInv, Kinds
<1>2. OverlayMatches'
  <2>1. \A t \in Tabs : pending[t] # 0 =>
            pending[t] \in Slots /\ task[pending[t]].tab = t /\ ~ task[pending[t]].direct
    BY WindowConstants DEF WindowInv, WindowShape, OverlayMatches
  <2>2. \A t \in Tabs : pending[t] # 0 => task'[pending[t]] = task[pending[t]]
    BY <1>1, <2>1, WindowConstants
  <2> QED
    BY <2>1, <2>2 DEF WindowInv, OverlayMatches
<1>3. \A s \in Slots : Counts(s) => task'[s] = task[s] /\ Counts(s)'
  BY <1>1 DEF Counts
<1>4. \A s \in Slots : Counts(s)' /\ task'[s].at \in {"keep", "emitted"} =>
          task'[s] = task[s] /\ Counts(s)
  BY DEF Counts
<1> QED
  BY <1>2, <1>3, <1>4

LEMMA AddStep ==
    ASSUME WindowInv, AddRepository PROVE WindowInv'
<1> DEFINE rs == <<Request("repos", TRUE)>>
<1>0. rs \in Seq(Asking) /\ Len(rs) = 1 /\ "repos" \in Tabs /\ "tasks" \in Tabs
      /\ rs[1] = Request("repos", TRUE)
  <2> DEFINE r == Request("repos", TRUE)
  <2>1. "repos" \in Tabs /\ "tasks" \in Tabs /\ r \in Asking
    BY AskedFor, WindowConstants
  <2> HIDE DEF r
  <2>2. <<r>> \in Seq(Asking) /\ Len(<<r>>) = 1 /\ <<r>>[1] = r
    BY <2>1, OneOrTwo
  <2>3. <<r>> = rs
    BY DEF r
  <2> HIDE DEF rs
  <2> QED
    BY <2>1, <2>2, <2>3 DEF r
<1>1. /\ disk < MaxDisk /\ disk' = disk + 1 /\ cached' = NoList
      /\ fresh' = (IF \E s \in Slots : AtStep(s, "keep") THEN 0 ELSE disk')
      /\ Submit(rs) /\ UNCHANGED <<inbox, pending, overlay, display>>
      /\ asked' = [asked EXCEPT !["repos"] = IF InFlight("repos") = {} THEN disk ELSE 0]
  BY DEF AddRepository
<1> HIDE DEF rs
<1>2. /\ 1..Len(rs) \subseteq 1..Len(FreeSlots)
      /\ \A i \in 1..Len(rs) : /\ FreeSlots[i] \in Slots /\ task[FreeSlots[i]].at = "free"
                               /\ task'[FreeSlots[i]] = Queued(rs[i])
      /\ \A s \in Slots : (\E i \in 1..Len(rs) : s = FreeSlots[i]) \/ task'[s] = task[s]
      /\ \A s \in Slots : ~ AtStep(s, "free") => task'[s] = task[s]
      /\ task' \in [Slots -> Tasks] /\ line' \in Seq(Slots) /\ Kinds' /\ Queues'
  BY <1>0, <1>1, SubmitEffect
<1>3. /\ 1 \in 1..Len(rs) /\ FreeSlots[1] \in Slots /\ task'[FreeSlots[1]].at = "queued"
      /\ task'[FreeSlots[1]].tab = "repos" /\ task'[FreeSlots[1]].direct
      /\ \A s \in Slots : task'[s] = task[s] \/ task'[s].at = "queued"
  <2>1. 1 \in 1..Len(rs) /\ \A i \in 1..Len(rs) : i = 1
    BY <1>0
  <2>2. task'[FreeSlots[1]] = Queued(Request("repos", TRUE))
    BY <1>0, <1>2, <2>1
  <2>3. /\ Queued(Request("repos", TRUE)).at = "queued"
        /\ Queued(Request("repos", TRUE)).tab = "repos"
        /\ Queued(Request("repos", TRUE)).direct
    BY DEF Queued, Request
  <2>4. \A s \in Slots : task'[s] = task[s] \/ s = FreeSlots[1]
    BY <1>2, <2>1
  <2>5. FreeSlots[1] \in Slots
    BY <1>2, <2>1
  <2> QED
    BY <2>1, <2>2, <2>3, <2>4, <2>5
<1>4. /\ OverlayMatches'
      /\ \A s \in Slots : Counts(s)' /\ task'[s].at \in {"keep", "emitted"} =>
            task'[s] = task[s] /\ Counts(s)
      /\ \A s \in Slots : Counts(s) => task'[s] = task[s] /\ Counts(s)'
  BY <1>1, <1>2, <1>3, TasksAdded
<1>n. /\ disk \in Int /\ disk >= 0 /\ disk + 1 \in 0..MaxDisk
      /\ \A t \in Tabs : asked[t] \in 0..disk
      /\ \A s \in Slots : task[s].value \in Int /\ task[s].value >= 0
  BY <1>1, NumbersTyped, TaskTyped, WindowConstants
<1>5. WindowShape'
  <2>1. fresh' \in 0..disk'
    BY <1>1, <1>n
  <2>2. asked' \in [Tabs -> 0..disk']
    <3>1. \A t \in Tabs : asked[t] \in 0..disk'
      BY <1>1, <1>n
    <3>2. disk \in 0..disk' /\ 0 \in 0..disk'
      BY <1>1, <1>n
    <3>3. asked \in [Tabs -> 0..disk']
      BY <3>1 DEF WindowInv, WindowShape
    <3> QED
      BY <1>1, <3>2, <3>3
  <2> QED
    BY <1>1, <1>2, <1>n, <2>1, <2>2 DEF WindowInv, WindowShape
<1>6. ListKnown'
  <2>1. \A s \in Slots : task'[s].at = "keep" => task'[s] = task[s]
    BY <1>3
  <2>2. asked'["tasks"] = asked["tasks"]
    BY <1>0, <1>1 DEF WindowInv, WindowShape
  <2>3. \A s \in Slots : AtStep(s, "keep") => task[s].value >= asked["tasks"] /\ fresh' = 0
    BY <1>1 DEF WindowInv, ListKnown
  <2> QED
    BY <1>1, <1>n, <2>1, <2>2, <2>3 DEF ListKnown, AtStep
<1>7. Ready'
  <2> SUFFICES ASSUME NEW s \in Slots, Counts(s)', task'[s].at \in {"keep", "emitted"}
               PROVE  task'[s].value >= asked'[task'[s].tab]
    BY DEF Ready
  <2>1. task'[s] = task[s] /\ Counts(s) /\ task[s].value >= asked[task[s].tab]
    BY <1>4 DEF WindowInv, Ready
  <2>2. task[s].tab \in Tabs
    BY <2>1, TaskTyped DEF Counts
  <2>3. CASE task[s].tab = "repos"
    <3>1. s \in InFlight("repos")
      BY <2>3 DEF InFlight
    <3>2. asked'["repos"] = 0
      BY <1>0, <1>1, <3>1 DEF WindowInv, WindowShape
    <3> QED
      BY <1>n, <2>1, <2>3, <3>2
  <2>4. CASE task[s].tab # "repos"
    BY <1>1, <2>1, <2>2, <2>4 DEF WindowInv, WindowShape
  <2> QED
    BY <2>3, <2>4
<1>8. Coming'
  <2> SUFFICES ASSUME NEW t \in Tabs, display'[t] < asked'[t]
               PROVE  \E s \in Slots : task'[s].tab = t /\ Counts(s)'
    BY DEF Coming
  <2>1. CASE t = "repos"
    BY <1>3, <2>1 DEF Counts
  <2>2. CASE t # "repos"
    <3>1. display[t] < asked[t]
      BY <1>1, <2>2 DEF WindowInv, WindowShape
    <3> QED
      BY <1>4, <3>1 DEF WindowInv, Coming
  <2> QED
    BY <2>1, <2>2
<1> QED
  BY <1>2, <1>4, <1>5, <1>6, <1>7, <1>8 DEF WindowInv

LEMMA DeleteStep ==
    ASSUME WindowInv, DeleteRepository PROVE WindowInv'
<1> DEFINE rs == <<Request("none", TRUE)>>
<1>0. rs \in Seq(Asking) /\ Len(rs) = 1 /\ \A i \in 1..Len(rs) : rs[i] = Request("none", TRUE)
  <2> DEFINE r == Request("none", TRUE)
  <2>1. r \in Asking
    BY AskedFor, WindowConstants
  <2> HIDE DEF r
  <2>2. <<r>> \in Seq(Asking) /\ Len(<<r>>) = 1 /\ \A i \in 1..Len(<<r>>) : <<r>>[i] = r
    BY <2>1, OneOrTwo
  <2>3. <<r>> = rs
    BY DEF r
  <2> HIDE DEF rs
  <2> QED
    BY <2>2, <2>3 DEF r
<1>1. Submit(rs) /\ UNCHANGED <<inbox, listVars, tabVars>>
  BY DEF DeleteRepository
<1> HIDE DEF rs
<1>2. /\ \A i \in 1..Len(rs) : task'[FreeSlots[i]] = Queued(rs[i])
      /\ \A s \in Slots : (\E i \in 1..Len(rs) : s = FreeSlots[i]) \/ task'[s] = task[s]
      /\ \A s \in Slots : ~ AtStep(s, "free") => task'[s] = task[s]
      /\ task' \in [Slots -> Tasks] /\ line' \in Seq(Slots) /\ Kinds' /\ Queues'
  BY <1>0, <1>1, SubmitEffect
<1>3. \A s \in Slots : task'[s] = task[s] \/ task'[s].at = "queued"
  <2>1. \A r : Queued(r).at = "queued"
    BY DEF Queued
  <2> QED
    BY <1>2, <2>1
<1>4. /\ OverlayMatches'
      /\ \A s \in Slots : Counts(s)' /\ task'[s].at \in {"keep", "emitted"} =>
            task'[s] = task[s] /\ Counts(s)
      /\ \A s \in Slots : Counts(s) => task'[s] = task[s] /\ Counts(s)'
  BY <1>1, <1>2, <1>3, TasksAdded DEF tabVars
<1>5. WindowShape'
  BY <1>1, <1>2 DEF listVars, tabVars, WindowInv, WindowShape
<1>6. ListKnown'
  <2>1. \A s \in Slots : task'[s].at = "keep" => task'[s] = task[s]
    BY <1>3
  <2> QED
    BY <1>1, <2>1 DEF listVars, tabVars, WindowInv, ListKnown, AtStep
<1>7. Ready'
  BY <1>1, <1>4 DEF tabVars, WindowInv, Ready
<1>8. Coming'
  <2> SUFFICES ASSUME NEW t \in Tabs, display'[t] < asked'[t]
               PROVE  \E s \in Slots : task'[s].tab = t /\ Counts(s)'
    BY DEF Coming
  <2>1. PICK s \in Slots : task[s].tab = t /\ Counts(s)
    BY <1>1 DEF tabVars, WindowInv, Coming
  <2> QED
    BY <1>4, <2>1
<1> QED
  BY <1>2, <1>4, <1>5, <1>6, <1>7, <1>8 DEF WindowInv

LEMMA OthersStep ==
    ASSUME WindowInv, OthersChange PROVE WindowInv'
<1>1. disk < MaxDisk /\ disk' = disk + 1 /\ UNCHANGED <<cached, fresh, taskVars, tabVars>>
  BY DEF OthersChange
<1>2. WindowShape'
  <2>1. disk' \in 0..MaxDisk /\ 0..disk \subseteq 0..disk'
    BY <1>1, NumbersTyped, WindowConstants
  <2>2. fresh' \in 0..disk' /\ asked' \in [Tabs -> 0..disk']
    <3>1. \A t \in Tabs : asked[t] \in 0..disk'
      BY <2>1, NumbersTyped
    <3> QED
      BY <1>1, <2>1, <3>1, NumbersTyped DEF tabVars, WindowInv, WindowShape
  <2> QED
    BY <1>1, <2>1, <2>2 DEF taskVars, tabVars, WindowInv, WindowShape
<1> QED
  BY <1>1, <1>2 DEF taskVars, tabVars, WindowInv, Kinds, Queues, OverlayMatches, ListKnown,
                   Ready, Coming, Counts, AtStep

----------------------------------------------------------------------------
(* The pool *)

LEMMA TaskMade ==
    ASSUME NEW r \in Tasks, NEW how \in Places, NEW v \in 0..MaxDisk
    PROVE  /\ [r EXCEPT !.at = how] \in Tasks
           /\ [r EXCEPT !.at = how, !.value = v] \in Tasks
  BY DEF Tasks

LEMMA WaitingOnce ==
    ASSUME WindowInv
    PROVE  /\ Len(line) \in Nat /\ Len(inbox) \in Nat
           /\ \A i \in 1..Len(line) : line[i] \in Slots /\ task[line[i]].at = "queued"
           /\ \A i, j \in 1..Len(line) : line[i] = line[j] => i = j
           /\ \A i \in 1..Len(inbox) : /\ inbox[i] \in Slots
                                       /\ task[inbox[i]].at \in {"emitted", "failed"}
           /\ \A i, j \in 1..Len(inbox) : inbox[i] = inbox[j] => i = j
  BY ElementOfSeq, LenProperties DEF WindowInv, WindowShape, Queues, AtStep

\* A step of the pool changes one task's step and value.
LEMMA PoolMoves ==
    ASSUME WindowInv, NEW s \in Slots,
           \A r \in Slots : r # s => task'[r] = task[r],
           task'[s].tab = task[s].tab, task'[s].direct = task[s].direct,
           UNCHANGED tabVars
    PROVE  /\ OverlayMatches' /\ Coming' /\ \A r \in Slots : Counts(r)' <=> Counts(r)
<1>1. \A r \in Slots : task'[r].tab = task[r].tab /\ task'[r].direct = task[r].direct
  OBVIOUS
<1>2. UNCHANGED <<pending, overlay, display, asked>>
  BY DEF tabVars
<1>3. \A r \in Slots : Counts(r)' <=> Counts(r)
  BY <1>1, <1>2 DEF Counts
<1>4. OverlayMatches'
  <2>1. \A t \in Tabs : pending[t] # 0 => pending[t] \in Slots
    BY DEF WindowInv, WindowShape
  <2> QED
    BY <1>1, <1>2, <2>1 DEF WindowInv, OverlayMatches
<1>5. Coming'
  BY <1>1, <1>2, <1>3 DEF WindowInv, Coming
<1> QED
  BY <1>3, <1>4, <1>5

LEMMA KindsMove ==
    ASSUME WindowInv, NEW s \in Slots,
           \A r \in Slots : r # s => task'[r] = task[r],
           task'[s].tab = task[s].tab, task'[s].direct = task[s].direct,
           task'[s].at # "free", task'[s].at = "hit" => task[s].tab = "tasks",
           task'[s].at \in {"read", "keep"} => task[s].tab # "none",
           task'[s].at \in {"remove", "forget"} => task[s].tab = "none"
    PROVE  Kinds'
<1> SUFFICES ASSUME NEW r \in Slots
             PROVE  /\ task'[r].at = "free" => task'[r].tab = "none"
                    /\ task'[r].at = "hit" => task'[r].tab = "tasks"
                    /\ task'[r].at \in {"read", "keep"} => task'[r].tab # "none"
                    /\ task'[r].at \in {"remove", "forget"} => task'[r].tab = "none"
                    /\ task'[r].direct => task'[r].tab # "tasks"
  BY DEF Kinds, AtStep
<1>1. CASE r # s
  BY <1>1 DEF WindowInv, Kinds, AtStep
<1>2. CASE r = s
  <2>1. task[s].direct => task[s].tab # "tasks"
    BY DEF WindowInv, Kinds
  <2> QED
    BY <1>2, <2>1
<1> QED
  BY <1>1, <1>2

LEMMA EmitStep ==
    ASSUME WindowInv, NEW s \in Slots, NEW how \in {"emitted", "failed"},
           NEW v \in 0..MaxDisk, Emit(s, how, v), UNCHANGED line,
           task[s].at \notin {"free", "queued", "emitted", "failed"}
    PROVE  /\ task' \in [Slots -> Tasks] /\ inbox' \in Seq(Slots) /\ Kinds' /\ Queues'
           /\ \A r \in Slots : r # s => task'[r] = task[r]
           /\ task'[s].tab = task[s].tab /\ task'[s].direct = task[s].direct
           /\ task'[s].at = how /\ task'[s].value = v
<1>1. task' = [task EXCEPT ![s].at = how, ![s].value = v] /\ inbox' = Append(inbox, s)
  BY DEF Emit
<1>2. task \in [Slots -> Tasks] /\ inbox \in Seq(Slots)
  BY DEF WindowInv, WindowShape
<1>3. /\ \A r \in Slots : r # s => task'[r] = task[r]
      /\ task'[s] = [task[s] EXCEPT !.at = how, !.value = v]
      /\ how \in Places
  BY <1>1, <1>2 DEF Places
<1>4. /\ task'[s].tab = task[s].tab /\ task'[s].direct = task[s].direct
      /\ task'[s].at = how /\ task'[s].value = v /\ task'[s] \in Tasks
  <2>1. task[s] \in Tasks
    BY <1>2
  <2>2. [task[s] EXCEPT !.at = how, !.value = v] \in Tasks
    BY <1>3, <2>1 DEF Tasks
  <2> QED
    BY <1>3, <2>1, <2>2 DEF Tasks
<1>5. task' \in [Slots -> Tasks]
  BY <1>1, <1>2, <1>4
<1>6. Kinds'
  BY <1>3, <1>4, KindsMove
<1>7. /\ inbox' \in Seq(Slots) /\ Len(inbox') = Len(inbox) + 1
      /\ \A i \in 1..Len(inbox') : inbox'[i] = IF i <= Len(inbox) THEN inbox[i] ELSE s
  BY <1>1, <1>2, AppendProperties, LenProperties
<1>8. Queues'
  <2>1. \A i \in 1..Len(line) : task'[line[i]].at = "queued"
    BY <1>3, WaitingOnce
  <2>2. \A i \in 1..Len(inbox) : inbox[i] # s /\ task'[inbox[i]] = task[inbox[i]]
    BY <1>3, WaitingOnce
  <2>3. \A i \in 1..Len(inbox') :
            \/ i \in 1..Len(inbox) /\ inbox'[i] = inbox[i]
            \/ i = Len(inbox) + 1 /\ inbox'[i] = s
    BY <1>7, WaitingOnce
  <2>4. \A i \in 1..Len(inbox') : task'[inbox'[i]].at \in {"emitted", "failed"}
    BY <1>4, <2>2, <2>3, WaitingOnce
  <2>5. \A i, j \in 1..Len(inbox') : inbox'[i] = inbox'[j] => i = j
    <3> SUFFICES ASSUME NEW i \in 1..Len(inbox'), NEW j \in 1..Len(inbox'),
                        inbox'[i] = inbox'[j]
                 PROVE  i = j
      OBVIOUS
    <3> QED
      BY <2>2, <2>3, WaitingOnce
  <2> QED
    BY <2>1, <2>4, <2>5, WaitingOnce DEF Queues, AtStep
<1> QED
  BY <1>3, <1>4, <1>5, <1>6, <1>7, <1>8

LEMMA TaskStartsStep ==
    ASSUME WindowInv, NEW s \in Slots, TaskStarts(s) PROVE WindowInv'
<1> DEFINE how == IF task[s].tab = "none" THEN "remove"
                  ELSE IF task[s].tab = "tasks" /\ cached # NoList THEN "hit" ELSE "read"
<1>1. /\ line # <<>> /\ Head(line) = s /\ line' = Tail(line)
      /\ task' = [task EXCEPT ![s].at = how] /\ UNCHANGED <<inbox, listVars, tabVars>>
  BY DEF TaskStarts, Goes
<1>2. task \in [Slots -> Tasks] /\ line \in Seq(Slots)
  BY DEF WindowInv, WindowShape
<1>3. /\ how \in Places /\ how \notin {"free", "queued", "keep", "forget", "emitted", "failed"}
      /\ how = "hit" => task[s].tab = "tasks"
      /\ how = "read" => task[s].tab # "none"
      /\ how = "remove" => task[s].tab = "none"
  BY DEF Places
<1> HIDE DEF how
<1>4. /\ \A r \in Slots : r # s => task'[r] = task[r]
      /\ task'[s] = [task[s] EXCEPT !.at = how]
  BY <1>1, <1>2
<1>5. /\ task'[s].tab = task[s].tab /\ task'[s].direct = task[s].direct
      /\ task'[s].at = how /\ task'[s].value = task[s].value /\ task'[s] \in Tasks
  BY <1>2, <1>3, <1>4, TaskTyped, TaskMade DEF Tasks
<1>6. /\ Len(line) # 0 /\ line[1] = s /\ line' \in Seq(Slots) /\ Len(line') = Len(line) - 1
      /\ \A i \in 1..Len(line') : line'[i] = line[i + 1]
  BY <1>1, <1>2, EmptySeq, HeadTailProperties
<1>7. task' \in [Slots -> Tasks]
  BY <1>1, <1>2, <1>5
<1>8. Kinds'
  BY <1>3, <1>4, <1>5, KindsMove
<1>9. Queues'
  <2>1. 1 \in 1..Len(line) /\ \A i \in 1..Len(line') : i + 1 \in 1..Len(line) /\ i + 1 # 1
    BY <1>6, WaitingOnce
  <2>2. \A i \in 1..Len(line') : task'[line'[i]].at = "queued"
    <3> TAKE i \in 1..Len(line')
    <3>1. line'[i] = line[i + 1] /\ line[i + 1] # s /\ line[i + 1] \in Slots
      BY <1>6, <2>1, WaitingOnce
    <3> QED
      BY <1>4, <2>1, <3>1, WaitingOnce
  <2>3. \A i, j \in 1..Len(line') : line'[i] = line'[j] => i = j
    <3> SUFFICES ASSUME NEW i \in 1..Len(line'), NEW j \in 1..Len(line'), line'[i] = line'[j]
                 PROVE  i = j
      OBVIOUS
    <3>1. i + 1 = j + 1
      BY <1>6, <2>1, WaitingOnce
    <3> QED
      BY <3>1
  <2>4. task[s].at = "queued"
    BY <1>6, <2>1, WaitingOnce
  <2>5. \A i \in 1..Len(inbox) : task'[inbox[i]].at \in {"emitted", "failed"}
    BY <1>4, <2>4, WaitingOnce
  <2> QED
    BY <1>1, <2>2, <2>3, <2>5, WaitingOnce DEF Queues, AtStep
<1>10. OverlayMatches' /\ Coming' /\ \A r \in Slots : Counts(r)' <=> Counts(r)
  BY <1>1, <1>4, <1>5, PoolMoves
<1>11. \A r \in Slots : task'[r].at \in {"keep", "emitted"} => task'[r] = task[r]
  BY <1>3, <1>4, <1>5
<1>12. WindowShape'
  BY <1>1, <1>6, <1>7 DEF WindowInv, WindowShape, listVars, tabVars
<1>13. ListKnown' /\ Ready'
  BY <1>1, <1>10, <1>11 DEF WindowInv, ListKnown, Ready, listVars, tabVars, AtStep
<1> QED
  BY <1>8, <1>9, <1>10, <1>12, <1>13 DEF WindowInv

\* A failed fetch is only delivered.
LEMMA FailedStep ==
    ASSUME WindowInv, NEW s \in Slots, Emit(s, "failed", 0),
           task[s].at \notin {"free", "queued", "emitted", "failed"},
           UNCHANGED <<line, listVars, tabVars>>
    PROVE  WindowInv'
<1>0. 0 \in 0..MaxDisk /\ "failed" \in {"emitted", "failed"}
  BY WindowConstants
<1>1. /\ task' \in [Slots -> Tasks] /\ inbox' \in Seq(Slots) /\ Kinds' /\ Queues'
      /\ \A r \in Slots : r # s => task'[r] = task[r]
      /\ task'[s].tab = task[s].tab /\ task'[s].direct = task[s].direct
      /\ task'[s].at = "failed"
  BY <1>0, EmitStep
<1>2. OverlayMatches' /\ Coming' /\ \A r \in Slots : Counts(r)' <=> Counts(r)
  BY <1>1, PoolMoves
<1>3. \A r \in Slots : task'[r].at \in {"keep", "emitted"} => task'[r] = task[r]
  BY <1>1
<1>4. WindowShape'
  BY <1>1 DEF WindowInv, WindowShape, listVars, tabVars
<1>5. ListKnown' /\ Ready'
  BY <1>1, <1>2, <1>3 DEF WindowInv, ListKnown, Ready, listVars, tabVars, AtStep
<1> QED
  BY <1>1, <1>2, <1>4, <1>5 DEF WindowInv

LEMMA TakeCachedStep ==
    ASSUME WindowInv, NEW s \in Slots, TakeCached(s) PROVE WindowInv'
<1>1. task[s].at = "hit" /\ UNCHANGED <<line, listVars, tabVars>> /\ task[s].tab = "tasks"
  BY DEF TakeCached, AtStep, WindowInv, Kinds
<1>2. CASE cached = NoList
  BY <1>1, <1>2, FailedStep DEF TakeCached
<1>3. CASE cached # NoList
  <2>1. Emit(s, "emitted", cached) /\ cached \in 0..MaxDisk /\ "emitted" \in {"emitted", "failed"}
    BY <1>3, NumbersTyped DEF TakeCached
  <2>2. /\ task' \in [Slots -> Tasks] /\ inbox' \in Seq(Slots) /\ Kinds' /\ Queues'
        /\ \A r \in Slots : r # s => task'[r] = task[r]
        /\ task'[s].tab = task[s].tab /\ task'[s].direct = task[s].direct
        /\ task'[s].at = "emitted" /\ task'[s].value = cached
    BY <1>1, <2>1, EmitStep
  <2>3. OverlayMatches' /\ Coming' /\ \A r \in Slots : Counts(r)' <=> Counts(r)
    BY <1>1, <2>2, PoolMoves
  <2>4. WindowShape'
    BY <1>1, <2>2 DEF WindowInv, WindowShape, listVars, tabVars
  <2>5. ListKnown'
    BY <1>1, <2>2 DEF WindowInv, ListKnown, listVars, tabVars, AtStep
  <2>6. Ready'
    <3>1. cached >= asked["tasks"]
      BY <1>3 DEF WindowInv, ListKnown
    <3> QED
      BY <1>1, <2>2, <2>3, <3>1 DEF WindowInv, Ready, tabVars
  <2> QED
    BY <2>2, <2>3, <2>4, <2>5, <2>6 DEF WindowInv
<1> QED
  BY <1>2, <1>3

LEMMA ReadDiskStep ==
    ASSUME WindowInv, NEW s \in Slots, ReadDisk(s) PROVE WindowInv'
<1>1. task[s].at = "read" /\ UNCHANGED <<line, listVars, tabVars>> /\ task[s].tab # "none"
  BY DEF ReadDisk, AtStep, WindowInv, Kinds
<1>2. CASE Emit(s, "failed", 0)
  BY <1>1, <1>2, FailedStep
<1>3. CASE task' = [task EXCEPT ![s].at = "keep", ![s].value = disk] /\ UNCHANGED inbox
  <2>1. task \in [Slots -> Tasks] /\ disk \in 0..MaxDisk /\ "keep" \in Places
    BY DEF WindowInv, WindowShape, Places
  <2>2. /\ \A r \in Slots : r # s => task'[r] = task[r]
        /\ task'[s] = [task[s] EXCEPT !.at = "keep", !.value = disk]
    BY <1>3, <2>1
  <2>3. /\ task'[s].tab = task[s].tab /\ task'[s].direct = task[s].direct
        /\ task'[s].at = "keep" /\ task'[s].value = disk /\ task'[s] \in Tasks
    <3>1. task[s] \in Tasks
      BY <2>1
    <3>2. [task[s] EXCEPT !.at = "keep", !.value = disk] \in Tasks
      BY <2>1, <3>1 DEF Tasks
    <3> QED
      BY <2>2, <3>1, <3>2 DEF Tasks
  <2>4. task' \in [Slots -> Tasks]
    BY <1>3, <2>1, <2>3
  <2>5. Kinds'
    BY <1>1, <2>2, <2>3, KindsMove
  <2>6. Queues'
    <3>1. \A i \in 1..Len(line) : task'[line[i]] = task[line[i]]
      BY <1>1, <2>2, WaitingOnce
    <3>2. \A i \in 1..Len(inbox) : task'[inbox[i]] = task[inbox[i]]
      BY <1>1, <2>2, WaitingOnce
    <3>3. line' = line /\ inbox' = inbox
      BY <1>1, <1>3
    <3> QED
      BY <3>1, <3>2, <3>3, WaitingOnce DEF Queues, AtStep
  <2>7. OverlayMatches' /\ Coming' /\ \A r \in Slots : Counts(r)' <=> Counts(r)
    BY <1>1, <2>2, <2>3, PoolMoves
  <2>8. WindowShape'
    BY <1>1, <1>3, <2>4 DEF WindowInv, WindowShape, listVars, tabVars
  <2>9. disk >= fresh /\ \A t \in Tabs : disk >= asked[t]
    BY NumbersTyped
  <2>10. ListKnown'
    BY <1>1, <2>2, <2>3, <2>9, WindowConstants
       DEF WindowInv, ListKnown, listVars, tabVars, AtStep
  <2>11. Ready'
    <3>1. task[s].tab \in Tabs
      BY <1>1, TaskTyped
    <3> QED
      BY <1>1, <2>2, <2>3, <2>7, <2>9, <3>1 DEF WindowInv, Ready, tabVars
  <2> QED
    BY <2>5, <2>6, <2>7, <2>8, <2>10, <2>11 DEF WindowInv
<1> QED
  BY <1>2, <1>3 DEF ReadDisk

LEMMA KeepListStep ==
    ASSUME WindowInv, NEW s \in Slots, KeepList(s) PROVE WindowInv'
<1>1. /\ task[s].at = "keep" /\ cached' = task[s].value /\ Emit(s, "emitted", task[s].value)
      /\ UNCHANGED <<line, disk, fresh, tabVars>>
  BY DEF KeepList, AtStep
<1>2. task[s].value \in 0..MaxDisk /\ "emitted" \in {"emitted", "failed"}
  BY TaskTyped
<1>3. /\ task' \in [Slots -> Tasks] /\ inbox' \in Seq(Slots) /\ Kinds' /\ Queues'
      /\ \A r \in Slots : r # s => task'[r] = task[r]
      /\ task'[s].tab = task[s].tab /\ task'[s].direct = task[s].direct
      /\ task'[s].at = "emitted" /\ task'[s].value = task[s].value
  BY <1>1, <1>2, EmitStep
<1>4. OverlayMatches' /\ Coming' /\ \A r \in Slots : Counts(r)' <=> Counts(r)
  BY <1>1, <1>3, PoolMoves
<1>5. WindowShape'
  BY <1>1, <1>2, <1>3 DEF WindowInv, WindowShape, tabVars
<1>6. ListKnown'
  BY <1>1, <1>3 DEF WindowInv, ListKnown, tabVars, AtStep
<1>7. Ready'
  BY <1>1, <1>3, <1>4 DEF WindowInv, Ready, tabVars
<1> QED
  BY <1>3, <1>4, <1>5, <1>6, <1>7 DEF WindowInv

LEMMA RemoveStep ==
    ASSUME WindowInv, NEW s \in Slots, RemoveRepository(s) PROVE WindowInv'
<1>1. task[s].at = "remove" /\ UNCHANGED <<line, cached, fresh, tabVars>> /\ task[s].tab = "none"
  BY DEF RemoveRepository, AtStep, WindowInv, Kinds
<1>2. CASE Emit(s, "failed", 0) /\ UNCHANGED disk
  BY <1>1, <1>2, FailedStep DEF listVars
<1>3. CASE disk < MaxDisk /\ disk' = disk + 1 /\ Goes(s, "forget") /\ UNCHANGED inbox
  <2>1. task \in [Slots -> Tasks] /\ "forget" \in Places
    BY DEF WindowInv, WindowShape, Places
  <2>2. /\ task' = [task EXCEPT ![s].at = "forget"]
        /\ \A r \in Slots : r # s => task'[r] = task[r]
        /\ task'[s] = [task[s] EXCEPT !.at = "forget"]
    BY <1>3, <2>1 DEF Goes
  <2>3. /\ task'[s].tab = task[s].tab /\ task'[s].direct = task[s].direct
        /\ task'[s].at = "forget" /\ task'[s] \in Tasks
    <3>1. task[s] \in Tasks
      BY <2>1
    <3>2. [task[s] EXCEPT !.at = "forget"] \in Tasks
      BY <2>1, <3>1 DEF Tasks
    <3> QED
      BY <2>2, <3>1, <3>2 DEF Tasks
  <2>4. task' \in [Slots -> Tasks]
    BY <2>1, <2>2, <2>3
  <2>5. Kinds'
    BY <1>1, <2>2, <2>3, KindsMove
  <2>6. Queues'
    <3>1. \A i \in 1..Len(line) : task'[line[i]] = task[line[i]]
      BY <1>1, <2>2, WaitingOnce
    <3>2. \A i \in 1..Len(inbox) : task'[inbox[i]] = task[inbox[i]]
      BY <1>1, <2>2, WaitingOnce
    <3>3. line' = line /\ inbox' = inbox
      BY <1>1, <1>3
    <3> QED
      BY <3>1, <3>2, <3>3, WaitingOnce DEF Queues, AtStep
  <2>7. OverlayMatches' /\ Coming' /\ \A r \in Slots : Counts(r)' <=> Counts(r)
    BY <1>1, <2>2, <2>3, PoolMoves
  <2>8. WindowShape'
    <3>1. disk' \in 0..MaxDisk /\ fresh' \in 0..disk'
      BY <1>1, <1>3, NumbersTyped, WindowConstants
    <3>2. asked' \in [Tabs -> 0..disk']
      <4>1. \A t \in Tabs : asked[t] \in 0..disk'
        BY <1>3, NumbersTyped
      <4> QED
        BY <1>1, <4>1 DEF tabVars, WindowInv, WindowShape
    <3> QED
      BY <1>1, <1>3, <2>4, <3>1, <3>2 DEF WindowInv, WindowShape, tabVars
  <2>9. \A r \in Slots : task'[r].at \in {"keep", "emitted"} => task'[r] = task[r]
    BY <2>2, <2>3
  <2>10. ListKnown' /\ Ready'
    BY <1>1, <2>7, <2>9 DEF WindowInv, ListKnown, Ready, tabVars, AtStep
  <2> QED
    BY <2>5, <2>6, <2>7, <2>8, <2>10 DEF WindowInv
<1> QED
  BY <1>2, <1>3 DEF RemoveRepository

LEMMA ForgetListStep ==
    ASSUME WindowInv, NEW s \in Slots, ForgetList(s) PROVE WindowInv'
<1>1. /\ task[s].at = "forget" /\ Invalidate /\ Emit(s, "emitted", 0)
      /\ UNCHANGED <<line, disk, tabVars>> /\ task[s].tab = "none"
  BY DEF ForgetList, AtStep, WindowInv, Kinds
<1>2. 0 \in 0..MaxDisk /\ "emitted" \in {"emitted", "failed"}
  BY WindowConstants
<1>3. /\ task' \in [Slots -> Tasks] /\ inbox' \in Seq(Slots) /\ Kinds' /\ Queues'
      /\ \A r \in Slots : r # s => task'[r] = task[r]
      /\ task'[s].tab = task[s].tab /\ task'[s].direct = task[s].direct
      /\ task'[s].at = "emitted"
  BY <1>1, <1>2, EmitStep
<1>4. OverlayMatches' /\ Coming' /\ \A r \in Slots : Counts(r)' <=> Counts(r)
  BY <1>1, <1>3, PoolMoves
<1>5. /\ cached' \in 0..MaxDisk \cup {NoList} /\ fresh' \in 0..disk
      /\ cached' # NoList => cached' >= fresh' /\ cached' >= asked["tasks"]
      /\ \A r \in Slots : AtStep(r, "keep") =>
            task[r].value >= fresh' /\ task[r].value >= asked["tasks"]
  BY <1>1, ListChange
<1>6. WindowShape'
  BY <1>1, <1>3, <1>5 DEF WindowInv, WindowShape, tabVars
<1>7. ListKnown'
  BY <1>1, <1>3, <1>5 DEF ListKnown, tabVars, AtStep
<1>8. Ready'
  <2>1. \A r \in Slots : Counts(r)' => r # s
    BY <1>1, <1>4 DEF Counts
  <2> QED
    BY <1>1, <1>3, <1>4, <2>1 DEF WindowInv, Ready, tabVars
<1> QED
  BY <1>3, <1>4, <1>6, <1>7, <1>8 DEF WindowInv

----------------------------------------------------------------------------
(* The event loop *)

\* The task at the head of the queue of results leaves its slot.
LEMMA Delivered ==
    ASSUME WindowInv, NEW s \in Slots, inbox # <<>>, Head(inbox) = s, inbox' = Tail(inbox)
    PROVE  /\ task[s].at \in {"emitted", "failed"}
           /\ inbox' \in Seq(Slots) /\ Len(inbox') \in Nat
           /\ \A i \in 1..Len(inbox') : /\ inbox'[i] \in Slots /\ inbox'[i] # s
                                        /\ task[inbox'[i]].at \in {"emitted", "failed"}
           /\ \A i, j \in 1..Len(inbox') : inbox'[i] = inbox'[j] => i = j
           /\ \A i \in 1..Len(line) : line[i] # s
<1>1. inbox \in Seq(Slots)
  BY DEF WindowInv, WindowShape
<1>2. /\ Len(inbox) # 0 /\ inbox[1] = s /\ inbox' \in Seq(Slots) /\ Len(inbox') = Len(inbox) - 1
      /\ \A i \in 1..Len(inbox') : inbox'[i] = inbox[i + 1]
  BY <1>1, EmptySeq, HeadTailProperties
<1>3. 1 \in 1..Len(inbox) /\ \A i \in 1..Len(inbox') : i + 1 \in 1..Len(inbox) /\ i + 1 # 1
  BY <1>2, WaitingOnce
<1>4. task[s].at \in {"emitted", "failed"}
  BY <1>2, <1>3, WaitingOnce
<1>5. \A i \in 1..Len(inbox') : /\ inbox'[i] \in Slots /\ inbox'[i] # s
                                /\ task[inbox'[i]].at \in {"emitted", "failed"}
  <2> TAKE i \in 1..Len(inbox')
  <2>1. inbox'[i] = inbox[i + 1] /\ i + 1 \in 1..Len(inbox) /\ i + 1 # 1
    BY <1>2, <1>3
  <2> QED
    BY <1>2, <1>3, <2>1, WaitingOnce
<1>6. \A i, j \in 1..Len(inbox') : inbox'[i] = inbox'[j] => i = j
  <2> SUFFICES ASSUME NEW i \in 1..Len(inbox'), NEW j \in 1..Len(inbox'), inbox'[i] = inbox'[j]
               PROVE  i = j
    OBVIOUS
  <2>1. i + 1 = j + 1
    BY <1>2, <1>3, WaitingOnce
  <2> QED
    BY <2>1
<1>7. \A i \in 1..Len(line) : line[i] # s
  BY <1>4, WaitingOnce
<1>8. Len(inbox') \in Nat
  BY <1>2, LenProperties
<1> QED
  BY <1>2, <1>4, <1>5, <1>6, <1>7, <1>8

LEMMA DeliverFetchStep ==
    ASSUME WindowInv, NEW s \in Slots, DeliverFetch(s) PROVE WindowInv'
<1> DEFINE t == task[s].tab
           left == IF ~task[s].direct /\ Latest(s) THEN [pending EXCEPT ![t] = 0] ELSE pending
<1>1. /\ inbox # <<>> /\ Head(inbox) = s /\ t # "none" /\ inbox' = Tail(inbox)
      /\ task' = [task EXCEPT ![s] = Free] /\ pending' = left
      /\ overlay' = (overlay /\ (task[s].direct \/ \E u \in Tabs : left[u] # 0))
      /\ display' = IF Renders(s) THEN [display EXCEPT ![t] = task[s].value] ELSE display
      /\ asked' = IF Lapses(s) THEN [asked EXCEPT ![t] = 0] ELSE asked
      /\ UNCHANGED <<line, listVars>>
  BY DEF DeliverFetch
<1>2. /\ task[s].at \in {"emitted", "failed"} /\ inbox' \in Seq(Slots) /\ Len(inbox') \in Nat
      /\ \A i \in 1..Len(inbox') : /\ inbox'[i] \in Slots /\ inbox'[i] # s
                                   /\ task[inbox'[i]].at \in {"emitted", "failed"}
      /\ \A i, j \in 1..Len(inbox') : inbox'[i] = inbox'[j] => i = j
      /\ \A i \in 1..Len(line) : line[i] # s
  BY <1>1, Delivered
<1>3. /\ t \in Tabs /\ task[s].direct \in BOOLEAN /\ task[s].value \in 0..MaxDisk
      /\ 0 \notin Slots /\ "none" \notin Tabs
  BY <1>1, TaskTyped, WindowConstants
<1>4. /\ task \in [Slots -> Tasks] /\ pending \in [Tabs -> Slots \cup {0}]
      /\ display \in [Tabs -> 0..MaxDisk] /\ asked \in [Tabs -> 0..disk]
      /\ overlay \in BOOLEAN
  BY DEF WindowInv, WindowShape
<1>5. /\ \A r \in Slots : r # s => task'[r] = task[r]
      /\ task'[s] = Free
  BY <1>1, <1>4
<1>6. Free.tab = "none" /\ Free.at = "free" /\ ~ Free.direct /\ Free \in Tasks
  BY WindowConstants DEF Free, Tasks, Places
<1>7. /\ \A u \in Tabs : u # t => pending'[u] = pending[u]
      /\ IF ~ task[s].direct /\ pending[t] = s THEN pending'[t] = 0 ELSE pending'[t] = pending[t]
      /\ pending' \in [Tabs -> Slots \cup {0}]
  BY <1>1, <1>3, <1>4 DEF Latest
<1>8. /\ \A u \in Tabs : u # t => display'[u] = display[u] /\ asked'[u] = asked[u]
      /\ display'[t] = IF Renders(s) THEN task[s].value ELSE display[t]
      /\ asked'[t] = IF Lapses(s) THEN 0 ELSE asked[t]
      /\ display' \in [Tabs -> 0..MaxDisk]
  BY <1>1, <1>3, <1>4
<1>8a. asked' \in [Tabs -> 0..disk]
  <2>1. 0 \in 0..disk
    BY NumbersTyped, WindowConstants
  <2> QED
    BY <1>1, <1>3, <1>4, <2>1
<1>9. \A r \in Slots : r # s => (Counts(r)' <=> Counts(r))
  <2> SUFFICES ASSUME NEW r \in Slots, r # s PROVE Counts(r)' <=> Counts(r)
    OBVIOUS
  <2>1. task'[r] = task[r] /\ r # 0
    BY <1>3, <1>5
  <2>2. task[r].tab # "none" => (pending'[task[r].tab] = r <=> pending[task[r].tab] = r)
    <3> SUFFICES ASSUME task[r].tab # "none"
                 PROVE  pending'[task[r].tab] = r <=> pending[task[r].tab] = r
      OBVIOUS
    <3>1. task[r].tab \in Tabs
      BY TaskTyped
    <3>2. CASE task[r].tab # t
      BY <1>7, <3>1, <3>2
    <3>3. CASE task[r].tab = t
      BY <1>7, <2>1, <3>3
    <3> QED
      BY <3>2, <3>3
  <2> QED
    BY <2>1, <2>2 DEF Counts
<1>10. ~ Counts(s)'
  BY <1>5, <1>6 DEF Counts
<1>11. WindowShape'
  <2>1. task' \in [Slots -> Tasks]
    BY <1>1, <1>4, <1>6
  <2>2. overlay' \in BOOLEAN
    BY <1>1, <1>4
  <2> QED
    BY <1>1, <1>2, <1>7, <1>8, <1>8a, <2>1, <2>2 DEF WindowInv, WindowShape, listVars
<1>12. Kinds'
  BY <1>5, <1>6 DEF WindowInv, Kinds, AtStep
<1>13. Queues'
  <2>1. \A i \in 1..Len(line) : task'[line[i]].at = "queued"
    BY <1>2, <1>5, WaitingOnce
  <2>2. \A i \in 1..Len(inbox') : task'[inbox'[i]].at \in {"emitted", "failed"}
    BY <1>2, <1>5
  <2> QED
    BY <1>1, <1>2, <2>1, <2>2, WaitingOnce DEF Queues, AtStep
<1>14. OverlayMatches'
  <2>1. \A u \in Tabs : pending[u] # 0 =>
            pending[u] \in Slots /\ task[pending[u]].tab = u /\ ~ task[pending[u]].direct
    BY <1>4 DEF WindowInv, OverlayMatches
  <2>2. \A u \in Tabs : pending'[u] # 0 => pending'[u] = pending[u] /\ pending[u] # s
    <3> SUFFICES ASSUME NEW u \in Tabs, pending'[u] # 0
                 PROVE  pending'[u] = pending[u] /\ pending[u] # s
      OBVIOUS
    <3>1. CASE u # t
      BY <1>7, <2>1, <3>1
    <3>2. CASE u = t
      BY <1>7, <2>1, <3>2
    <3> QED
      BY <3>1, <3>2
  <2>3. \A u \in Tabs : pending'[u] # 0 =>
            task'[pending'[u]].tab = u /\ ~ task'[pending'[u]].direct
    BY <1>5, <2>1, <2>2
  <2>4. overlay' = \E u \in Tabs : pending'[u] # 0
    <3>1. overlay = \E u \in Tabs : pending[u] # 0
      BY DEF WindowInv, OverlayMatches
    <3>2. overlay' = (overlay /\ (task[s].direct \/ \E u \in Tabs : pending'[u] # 0))
      BY <1>1
    <3>3. (\E u \in Tabs : pending'[u] # 0) => overlay
      BY <2>2, <3>1
    <3>4. CASE task[s].direct
      <4>1. pending' = pending
        BY <1>1, <3>4
      <4> QED
        BY <3>1, <3>2, <3>4, <4>1
    <3>5. CASE ~ task[s].direct
      BY <1>4, <3>2, <3>3, <3>5
    <3> QED
      BY <3>4, <3>5
  <2> QED
    BY <2>3, <2>4 DEF OverlayMatches
<1>n. /\ \A u \in Tabs : asked[u] \in Int /\ asked[u] >= 0 /\ display[u] \in Int /\ display[u] >= 0
      /\ \A r \in Slots : task[r].value \in Int /\ task[r].value >= 0
      /\ \A u \in Tabs : asked'[u] = asked[u] \/ asked'[u] = 0
  <2>1. \A u \in Tabs : asked[u] \in Int /\ asked[u] >= 0 /\ display[u] \in Int /\ display[u] >= 0
    BY NumbersTyped, WindowConstants
  <2>2. \A r \in Slots : task[r].value \in Int /\ task[r].value >= 0
    BY TaskTyped, WindowConstants
  <2> QED
    BY <1>8, <2>1, <2>2
<1>15. ListKnown'
  <2>1. \A r \in Slots : task'[r].at = "keep" => task'[r] = task[r]
    BY <1>5, <1>6
  <2>2. "tasks" \in Tabs
    BY WindowConstants
  <2>3. cached # NoList => cached \in Int /\ cached >= 0
    BY NumbersTyped, WindowConstants
  <2> QED
    BY <1>1, <1>n, <2>1, <2>2, <2>3 DEF WindowInv, ListKnown, listVars, AtStep
<1>16. Ready'
  <2> SUFFICES ASSUME NEW r \in Slots, Counts(r)', task'[r].at \in {"keep", "emitted"}
               PROVE  task'[r].value >= asked'[task'[r].tab]
    BY DEF Ready
  <2>1. r # s /\ task'[r] = task[r] /\ Counts(r)
    BY <1>5, <1>9, <1>10
  <2>2. task[r].value >= asked[task[r].tab] /\ task[r].tab \in Tabs
    BY <2>1, TaskTyped DEF WindowInv, Ready, Counts
  <2> QED
    BY <1>n, <2>1, <2>2
<1>17. Coming'
  <2> SUFFICES ASSUME NEW u \in Tabs, display'[u] < asked'[u]
               PROVE  \E r \in Slots : task'[r].tab = u /\ Counts(r)'
    BY DEF Coming
  <2>1. ASSUME display[u] < asked[u], u # t \/ ~ Counts(s)
        PROVE  \E r \in Slots : task'[r].tab = u /\ Counts(r)'
    <3>1. PICK r \in Slots : task[r].tab = u /\ Counts(r)
      BY <2>1 DEF WindowInv, Coming
    <3>2. r # s
      BY <2>1, <3>1
    <3> QED
      BY <1>5, <1>9, <3>1, <3>2
  <2>2. CASE u # t
    BY <1>8, <2>1, <2>2
  <2>3. CASE u = t /\ Counts(s)
    <3>1. task[s].direct \/ Latest(s)
      BY <2>3 DEF Counts, Latest
    <3>2. CASE task[s].at = "emitted"
      <4>1. Renders(s) /\ ~ Lapses(s)
        BY <3>1, <3>2 DEF Renders, Lapses, AtStep
      <4>2. task[s].value >= asked[t]
        BY <2>3, <3>2 DEF WindowInv, Ready
      <4>3. display'[t] = task[s].value /\ asked'[t] = asked[t]
        BY <1>8, <4>1
      <4> HIDE DEF t
      <4> QED
        BY <1>3, <1>n, <2>3, <4>2, <4>3
    <3>3. CASE task[s].at = "failed"
      <4>1. ~ Renders(s) /\ Lapses(s)
        BY <3>1, <3>3 DEF Renders, Lapses, AtStep
      <4>2. display'[t] = display[t] /\ asked'[t] = 0
        BY <1>8, <4>1
      <4> HIDE DEF t
      <4> QED
        BY <1>3, <1>n, <2>3, <4>2
    <3> QED
      BY <1>2, <3>2, <3>3
  <2>4. CASE u = t /\ ~ Counts(s)
    <3>1. ~ (task[s].direct \/ Latest(s))
      BY <1>1, <2>4 DEF Counts, Latest
    <3>2. ~ Renders(s) /\ ~ Lapses(s)
      BY <3>1 DEF Renders, Lapses
    <3>3. display'[t] = display[t] /\ asked'[t] = asked[t]
      BY <1>8, <3>2
    <3> QED
      BY <2>1, <2>4, <3>3
  <2> QED
    BY <2>2, <2>3, <2>4
<1> QED
  BY <1>11, <1>12, <1>13, <1>14, <1>15, <1>16, <1>17 DEF WindowInv

LEMMA DeliverDeleteStep ==
    ASSUME WindowInv, NEW s \in Slots, DeliverDelete(s) PROVE WindowInv'
<1> DEFINE r0 == Request("repos", TRUE)
<1>1. /\ inbox # <<>> /\ Head(inbox) = s /\ task[s].tab = "none" /\ inbox' = Tail(inbox)
      /\ UNCHANGED <<pending, overlay, display, listVars>>
  BY DEF DeliverDelete
<1>2. /\ task[s].at \in {"emitted", "failed"} /\ inbox' \in Seq(Slots) /\ Len(inbox') \in Nat
      /\ \A i \in 1..Len(inbox') : /\ inbox'[i] \in Slots /\ inbox'[i] # s
                                   /\ task[inbox'[i]].at \in {"emitted", "failed"}
      /\ \A i, j \in 1..Len(inbox') : inbox'[i] = inbox'[j] => i = j
      /\ \A i \in 1..Len(line) : line[i] # s
  BY <1>1, Delivered
<1>3. /\ task \in [Slots -> Tasks] /\ line \in Seq(Slots) /\ asked \in [Tabs -> 0..disk]
      /\ Tabs = {"repos", "tasks"} /\ "none" \notin Tabs
  BY WindowConstants DEF WindowInv, WindowShape
\* Either way the others stay as they are.
<1>4. ASSUME NEW new \in Tasks, task' = [task EXCEPT ![s] = new]
      PROVE  /\ \A r \in Slots : r # s => task'[r] = task[r]
             /\ task'[s] = new /\ task' \in [Slots -> Tasks]
  BY <1>3, <1>4
<1>5. ASSUME \A r \in Slots : r # s => task'[r] = task[r]
      PROVE  /\ OverlayMatches'
             /\ \A r \in Slots : r # s => (Counts(r)' <=> Counts(r))
             /\ \A u \in Tabs : display[u] < asked[u] =>
                   \E r \in Slots : task'[r].tab = u /\ Counts(r)'
  <2>1. \A u \in Tabs : pending[u] # 0 =>
            /\ pending[u] \in Slots /\ task[pending[u]].tab = u /\ ~ task[pending[u]].direct
            /\ pending[u] # s
    BY <1>1, <1>3 DEF WindowInv, WindowShape, OverlayMatches
  <2>2. OverlayMatches'
    BY <1>1, <1>5, <2>1 DEF WindowInv, OverlayMatches
  <2>3. \A r \in Slots : r # s => (Counts(r)' <=> Counts(r))
    BY <1>1, <1>5 DEF Counts
  <2>4. \A u \in Tabs : display[u] < asked[u] =>
            \E r \in Slots : task'[r].tab = u /\ Counts(r)'
    <3> SUFFICES ASSUME NEW u \in Tabs, display[u] < asked[u]
                 PROVE  \E r \in Slots : task'[r].tab = u /\ Counts(r)'
      OBVIOUS
    <3>1. PICK r \in Slots : task[r].tab = u /\ Counts(r)
      BY DEF WindowInv, Coming
    <3>2. r # s
      BY <1>1, <1>3, <3>1
    <3> QED
      BY <1>5, <2>3, <3>1, <3>2
  <2> QED
    BY <2>2, <2>3, <2>4
<1>6. CASE task[s].at = "failed"
  <2>1. task' = [task EXCEPT ![s] = Free] /\ UNCHANGED <<line, asked>>
    BY <1>6 DEF DeliverDelete, AtStep
  <2>2. Free.tab = "none" /\ Free.at = "free" /\ ~ Free.direct /\ Free \in Tasks
    BY WindowConstants DEF Free, Tasks, Places
  <2>3. /\ \A r \in Slots : r # s => task'[r] = task[r]
        /\ task'[s] = Free /\ task' \in [Slots -> Tasks]
    BY <1>4, <2>1, <2>2
  <2>4. /\ OverlayMatches'
        /\ \A r \in Slots : r # s => (Counts(r)' <=> Counts(r))
        /\ \A u \in Tabs : display[u] < asked[u] =>
              \E r \in Slots : task'[r].tab = u /\ Counts(r)'
    BY <1>5, <2>3
  <2>5. WindowShape'
    BY <1>1, <1>2, <2>1, <2>3 DEF WindowInv, WindowShape, listVars
  <2>6. Kinds'
    BY <2>2, <2>3 DEF WindowInv, Kinds, AtStep
  <2>7. Queues'
    <3>1. \A i \in 1..Len(line) : task'[line[i]].at = "queued"
      BY <1>2, <2>3, WaitingOnce
    <3>2. \A i \in 1..Len(inbox') : task'[inbox'[i]].at \in {"emitted", "failed"}
      BY <1>2, <2>3
    <3> QED
      BY <1>2, <2>1, <3>1, <3>2, WaitingOnce DEF Queues, AtStep
  <2>8. \A r \in Slots : task'[r].at \in {"keep", "emitted"} => r # s /\ task'[r] = task[r]
    BY <2>2, <2>3
  <2>9. ListKnown'
    BY <1>1, <2>1, <2>8 DEF WindowInv, ListKnown, listVars, AtStep
  <2>10. Ready'
    BY <2>1, <2>4, <2>8 DEF WindowInv, Ready
  <2>11. Coming'
    BY <1>1, <2>1, <2>4 DEF Coming
  <2> QED
    BY <2>4, <2>5, <2>6, <2>7, <2>9, <2>10, <2>11 DEF WindowInv
<1>7. CASE task[s].at = "emitted"
  <2> DEFINE rs == <<Request("repos", TRUE)>>
  <2>1. /\ task' = [task EXCEPT ![s] = Queued(r0)] /\ line' = Append(line, s)
        /\ asked' = [asked EXCEPT !["repos"] = IF Meets(rs, "repos") THEN 0 ELSE disk]
    BY <1>7 DEF DeliverDelete, AtStep
  <2>2. /\ Queued(r0).tab = "repos" /\ Queued(r0).at = "queued" /\ Queued(r0).direct
        /\ Queued(r0) \in Tasks
    BY <1>3, NumbersTyped DEF Queued, Request, Tasks, Places
  <2>3. /\ \A r \in Slots : r # s => task'[r] = task[r]
        /\ task'[s] = Queued(r0) /\ task' \in [Slots -> Tasks]
    BY <1>4, <2>1, <2>2
  <2>4. /\ OverlayMatches'
        /\ \A r \in Slots : r # s => (Counts(r)' <=> Counts(r))
        /\ \A u \in Tabs : display[u] < asked[u] =>
              \E r \in Slots : task'[r].tab = u /\ Counts(r)'
    BY <1>5, <2>3
  <2>5. /\ asked'["tasks"] = asked["tasks"] /\ asked'["repos"] \in {0, disk}
        /\ asked'["repos"] = IF Meets(rs, "repos") THEN 0 ELSE disk
    BY <1>3, <2>1
  <2>6. WindowShape'
    <3>1. 0 \in 0..disk /\ disk \in 0..disk
      BY NumbersTyped, WindowConstants
    <3>2. asked' \in [Tabs -> 0..disk]
      BY <1>3, <2>1, <3>1
    <3>3. line' \in Seq(Slots)
      BY <1>3, <2>1, AppendProperties
    <3> QED
      BY <1>1, <1>2, <2>3, <3>2, <3>3 DEF WindowInv, WindowShape, listVars
  <2>7. Kinds'
    BY <2>2, <2>3 DEF WindowInv, Kinds, AtStep
  <2>8. Queues'
    <3>1. /\ Len(line') = Len(line) + 1
          /\ \A i \in 1..Len(line') : line'[i] = IF i <= Len(line) THEN line[i] ELSE s
      BY <1>3, <2>1, AppendProperties, LenProperties
    <3>2. \A i \in 1..Len(line') :
              \/ i \in 1..Len(line) /\ line'[i] = line[i]
              \/ i = Len(line) + 1 /\ line'[i] = s
      BY <3>1, WaitingOnce
    <3>3. \A i \in 1..Len(line') : task'[line'[i]].at = "queued"
      <4>1. \A i \in 1..Len(line) : task'[line[i]].at = "queued"
        BY <1>2, <2>3, WaitingOnce
      <4>2. task'[s].at = "queued"
        BY <2>2, <2>3
      <4> QED
        BY <3>2, <4>1, <4>2
    <3>4. \A i, j \in 1..Len(line') : line'[i] = line'[j] => i = j
      BY <1>2, <3>2, WaitingOnce
    <3>5. \A i \in 1..Len(inbox') : task'[inbox'[i]].at \in {"emitted", "failed"}
      BY <1>2, <2>3
    <3> QED
      BY <1>2, <3>3, <3>4, <3>5 DEF Queues, AtStep
  <2>9. \A r \in Slots : task'[r].at \in {"keep", "emitted"} => r # s /\ task'[r] = task[r]
    BY <2>2, <2>3
  <2>10. ListKnown'
    BY <1>1, <2>5, <2>9 DEF WindowInv, ListKnown, listVars, AtStep
  <2>11. Ready'
    <3> SUFFICES ASSUME NEW r \in Slots, Counts(r)', task'[r].at \in {"keep", "emitted"}
                 PROVE  task'[r].value >= asked'[task'[r].tab]
      BY DEF Ready
    <3>1. task'[r] = task[r] /\ Counts(r) /\ task[r].value >= asked[task[r].tab]
      BY <2>4, <2>9 DEF WindowInv, Ready
    <3>2. /\ task[r].tab \in Tabs /\ task[r].value \in Int /\ task[r].value >= 0 /\ disk \in Int
      BY <3>1, TaskTyped, NumbersTyped, WindowConstants DEF Counts
    <3>3. CASE task[r].tab = "tasks"
      BY <2>5, <3>1, <3>3
    <3>4. CASE task[r].tab = "repos"
      <4>1. ASSUME task[r].value < disk PROVE Meets(rs, "repos")
        <5>1. 1 \in DOMAIN rs /\ rs[1] = Request("repos", TRUE)
          OBVIOUS
        <5>2. r \in InFlight("repos")
          BY <3>4 DEF InFlight
        <5> HIDE DEF rs
        <5> QED
          BY <4>1, <5>1, <5>2 DEF Meets
      <4> HIDE DEF rs
      <4>2. asked'["repos"] <= task[r].value
        BY <2>5, <3>2, <4>1
      <4> QED
        BY <2>5, <3>1, <3>2, <3>4, <4>2, NumbersTyped
    <3> QED
      BY <1>3, <3>2, <3>3, <3>4
  <2>12. Coming'
    <3> SUFFICES ASSUME NEW u \in Tabs, display'[u] < asked'[u]
                 PROVE  \E r \in Slots : task'[r].tab = u /\ Counts(r)'
      BY DEF Coming
    <3>1. CASE u = "repos"
      BY <1>3, <2>2, <2>3, <3>1 DEF Counts
    <3>2. CASE u = "tasks"
      BY <1>1, <2>4, <2>5, <3>2
    <3> QED
      BY <1>3, <3>1, <3>2
  <2> QED
    BY <2>4, <2>6, <2>7, <2>8, <2>10, <2>11, <2>12 DEF WindowInv
<1> QED
  BY <1>2, <1>6, <1>7

----------------------------------------------------------------------------
LEMMA WindowStep == WindowInv /\ [WindowNext]_windowVars => WindowInv'
<1> SUFFICES ASSUME WindowInv, [WindowNext]_windowVars PROVE WindowInv'
  OBVIOUS
<1>1. CASE UNCHANGED windowVars
  BY <1>1 DEF windowVars, listVars, taskVars, tabVars, WindowInv, WindowShape, Kinds, Queues,
              OverlayMatches, ListKnown, Ready, Coming, Counts, AtStep
<1>2. CASE UserActs
  <2>0. "repos" \in Tabs
    BY WindowConstants
  <2> QED
    BY <1>2, <2>0, AskingStep, AddStep, DeleteStep DEF UserActs
<1>3. CASE \E t \in Tabs, indexed \in BOOLEAN : IndexingFinished(t, indexed)
  BY <1>3, AskingStep
<1>4. ASSUME NEW s \in Slots, Pool(s) PROVE WindowInv'
  BY <1>4, TaskStartsStep, TakeCachedStep, ReadDiskStep, KeepListStep, RemoveStep,
     ForgetListStep DEF Pool
<1>5. ASSUME NEW s \in Slots, Deliver(s) PROVE WindowInv'
  BY <1>5, DeliverFetchStep, DeliverDeleteStep DEF Deliver
<1>6. CASE OthersChange
  BY <1>6, OthersStep
<1> QED
  BY <1>1, <1>2, <1>3, <1>4, <1>5, <1>6 DEF WindowNext

LEMMA WindowShown ==
    ASSUME WindowInv PROVE WindowTypeOK /\ WindowAgrees
<1>1. WindowTypeOK
  <2>1. asked \in [Tabs -> 0..MaxDisk]
    <3>1. \A t \in Tabs : asked[t] \in 0..MaxDisk
      BY NumbersTyped, WindowConstants
    <3> QED
      BY <3>1 DEF WindowInv, WindowShape
  <2> QED
    BY <2>1, TaskTyped DEF WindowInv, WindowShape, WindowTypeOK
<1>2. ShowsWhatWasAsked
  <2> SUFFICES ASSUME NEW t \in Tabs, InFlight(t) = {} PROVE display[t] >= asked[t]
    BY DEF ShowsWhatWasAsked
  <2>1. ~ (display[t] < asked[t])
    BY DEF WindowInv, Coming, InFlight
  <2> QED
    BY <2>1, NumbersTyped
<1> QED
  BY <1>1, <1>2 DEF WindowInv, WindowAgrees

LEMMA WindowAlways == WindowInit /\ [][WindowNext]_windowVars => [](WindowTypeOK /\ WindowAgrees)
<1>1. WindowInv => WindowTypeOK /\ WindowAgrees
  BY WindowShown
<1> QED
  BY <1>1, WindowInit_Inv, WindowStep, PTL

\* The window's variables keep their types (DesktopWindow, every action).
THEOREM WindowTyped == WindowSpec => []WindowTypeOK
<1>1. WindowTypeOK /\ WindowAgrees => WindowTypeOK
  OBVIOUS
<1> QED
  BY <1>1, WindowAlways, PTL DEF WindowSpec

\* The overlay is shown exactly while a refresh of the window is in flight whose
\* result will be shown, and a tab with nothing in flight shows the disk as it
\* was when the tab was last asked for, or later (_refresh_tab, _deliver_ok and
\* _deliver_err against the pool, the cache of the list and its invalidation).
THEOREM WindowShows == WindowSpec => []WindowAgrees
<1>1. WindowTypeOK /\ WindowAgrees => WindowAgrees
  OBVIOUS
<1> QED
  BY <1>1, WindowAlways, PTL DEF WindowSpec

----------------------------------------------------------------------------
(* The whole: its parts take turns and share no variable, so that what is  *)
(* proved of each part holds of it.                                        *)

LEMMA ControlParts ==
    ControlSpec => Spec /\ RateSpec /\ WindowInit /\ [][WindowNext]_windowVars
<1>1. ControlInit => Init /\ RateInit /\ WindowInit
  BY DEF ControlInit
<1>2. [ControlNext /\ UNCHANGED part]_controlVars =>
          [Next]_vars /\ [RateNext]_rateVars /\ [WindowNext]_windowVars
  BY DEF ControlNext, controlVars
<1> QED
  BY <1>1, <1>2, PTL DEF ControlSpec, Spec, RateSpec

\* What is in front of people is well typed, whichever part of it moves.
THEOREM ControlWholeTyped == ControlSpec => []ControlTypeOK
<1>1. TypeOK /\ RateTypeOK /\ (WindowTypeOK /\ WindowAgrees) => ControlTypeOK
  BY DEF ControlTypeOK
<1> QED
  BY <1>1, ControlParts, ControlTyped, RateTyped, WindowAlways, PTL
=============================================================================
