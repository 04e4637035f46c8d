------------------------------ MODULE Registry ------------------------------
(***************************************************************************)
(* repos.toml: commands (the CLI's and Desktop's) load it, change it and   *)
(* save it through one temporary file without a lock; a server keeps a     *)
(* parsed copy that its threads renew when the modification time differs;  *)
(* Desktop deletes the snapshots of repositories it does not find in it.   *)
(* The registry's content is the set of its repositories.                  *)
(***************************************************************************)
EXTENDS Integers, FiniteSets

CONSTANTS
    Repos,
    Commands,    \* the processes that change the registry
    ConfigReaders,     \* the threads of one server
    Torn,        \* a file that is only partly written
    NoTemp,      \* there is no temporary file
    MaxTick,     \* bound of the model: ticks of the file system's clock
    MaxSaves     \* bound of the model: saves that begin

Version(repos, stamp) == [repos |-> repos, stamp |-> stamp]

ASSUME RegistryAssumption ==
    /\ MaxTick \in Nat \ {0} /\ MaxSaves \in Nat
    /\ \A repos \in SUBSET Repos : repos # Torn
    /\ \A repos \in (SUBSET Repos) \cup {Torn} : \A stamp \in 0..MaxTick :
          Version(repos, stamp) # NoTemp

VARIABLES
    tick,       \* the time that files are stamped with
    toml,       \* repos.toml
    temp,       \* repos.toml.tmp, or NoTemp
    saves,
    cmd,        \* each command: what it does
    plan,       \* each command: what it saves, and its outcome
    handle,     \* each command: where its open file is now
    shared,     \* the commands whose open file another has opened as well
    served,     \* the server's _cached_config and _config_mtime
    server,     \* how far the server's start is
    look,        \* each thread: a look at config
    cleaning,   \* the cleaner: the repositories it found, or Torn when idle
    indexing,   \* the repositories that a run has found in it
    snapshots,  \* the repositories with a published snapshot
    owned,      \* history: registered by a completed command, no unregistration begun
    known,      \* history: those owned when the cleaner looked
    robbed,     \* history: those of them that it took snapshots of
    overlap,    \* history: two commands have been at work at once
    mixed       \* history: the renewals of the copy have met one of its hazards

fileVars == <<tick, toml, temp>>
commandVars == <<saves, cmd, plan, handle, shared, owned, overlap>>
serverSide == <<served, server, look>>
cleanVars == <<cleaning, indexing, snapshots, known, robbed>>
registryVars == <<fileVars, commandVars, serverSide, cleanVars, mixed>>

Idle == [repos |-> {}, adds |-> {}, drops |-> {}]
NoLook == [at |-> "idle", stamp |-> 0, repos |-> {}]

\* The copy's stamp cannot tell a change during the server's start, nor one
\* without a later time than the change before.
Changing(new) ==
    /\ toml' = new
    /\ mixed' = (mixed \/ server = "loaded" \/ new.stamp <= toml.stamp)

----------------------------------------------------------------------------
(* register_repository, unregister_repository, update_repository and        *)
(* update_server_config: load, change, save_config.                         *)

\* Mutant of LoadRegistry: the registry of the previous save is changed.
LoadKept(c) ==
    /\ cmd[c] = "idle" /\ saves < MaxSaves /\ toml.repos # Torn
    /\ saves' = saves + 1
    /\ \/ \E r \in Repos \ plan[c].repos :
             plan' = [plan EXCEPT ![c] = [repos |-> @.repos \cup {r}, adds |-> {r}, drops |-> {}]]
       \/ \E r \in plan[c].repos :
             plan' = [plan EXCEPT ![c] = [repos |-> @.repos \ {r}, adds |-> {}, drops |-> {r}]]
    /\ cmd' = [cmd EXCEPT ![c] = "open"]
    /\ owned' = owned \ plan'[c].drops
    /\ overlap' = (overlap \/ \E d \in Commands \ {c} : cmd[d] # "idle")
    /\ UNCHANGED <<fileVars, handle, shared, serverSide, cleanVars, mixed>>

\* A torn registry does not load, and the command fails.
LoadFails(c) ==
    /\ cmd[c] = "idle" /\ toml.repos = Torn
    /\ UNCHANGED registryVars

LoadRegistry(c) ==
    /\ cmd[c] = "idle" /\ saves < MaxSaves /\ toml.repos # Torn
    /\ saves' = saves + 1
    /\ \/ \E r \in Repos \ toml.repos :
             plan' = [plan EXCEPT ![c] =
                         [repos |-> toml.repos \cup {r}, adds |-> {r}, drops |-> {}]]
       \/ \E r \in toml.repos :
             plan' = [plan EXCEPT ![c] =
                         [repos |-> toml.repos \ {r}, adds |-> {}, drops |-> {r}]]
       \/ plan' = [plan EXCEPT ![c] = [Idle EXCEPT !.repos = toml.repos]]
    /\ cmd' = [cmd EXCEPT ![c] = "open"]
    /\ owned' = owned \ plan'[c].drops
    /\ overlap' = (overlap \/ \E d \in Commands \ {c} : cmd[d] # "idle")
    /\ UNCHANGED <<fileVars, handle, shared, serverSide, cleanVars, mixed>>

\* write_text opens and truncates the one temporary file.
OpenTemp(c) ==
    /\ cmd[c] = "open"
    /\ temp' = Version(Torn, tick)
    /\ cmd' = [cmd EXCEPT ![c] = "write"]
    /\ handle' = [handle EXCEPT ![c] = "temp"]
    /\ LET others == {d \in Commands : handle[d] = "temp"} IN
       shared' = IF others = {} THEN shared \ {c} ELSE shared \cup others \cup {c}
    /\ UNCHANGED <<tick, toml, saves, plan, owned, overlap, serverSide,
                   cleanVars, mixed>>

\* The text goes where the opened file is by now: a replacement by another
\* command has made it the registry, a second one has made it nothing.  Over
\* the text of another, it may leave the rest of that.
WriteText(c) ==
    /\ cmd[c] = "write"
    /\ \E left \in {plan[c].repos} \cup (IF c \in shared THEN {Torn} ELSE {}) :
          LET new == Version(left, tick) IN
          \/ handle[c] = "temp" /\ temp' = new /\ UNCHANGED <<toml, mixed>>
          \/ handle[c] = "file" /\ Changing(new) /\ UNCHANGED temp
          \/ handle[c] = "gone" /\ UNCHANGED <<toml, temp, mixed>>
    /\ cmd' = [cmd EXCEPT ![c] = "replace"]
    /\ handle' = [handle EXCEPT ![c] = "closed"]
    /\ UNCHANGED <<tick, saves, plan, shared, owned, overlap, serverSide, cleanVars>>

EndCommand(c) == cmd' = [cmd EXCEPT ![c] = "idle"]

\* Whatever stands under the temporary name becomes the registry.
Replace(c) ==
    /\ cmd[c] = "replace" /\ temp # NoTemp
    /\ Changing(temp) /\ temp' = NoTemp
    /\ handle' = [d \in Commands |-> CASE handle[d] = "temp" -> "file"
                                       [] handle[d] = "file" -> "gone"
                                       [] OTHER -> handle[d]]
    /\ owned' = owned \cup plan[c].adds
    /\ EndCommand(c)
    /\ UNCHANGED <<tick, saves, plan, shared, overlap, serverSide, cleanVars>>

\* Another command has replaced the file first: this one fails.
ReplaceFails(c) ==
    /\ cmd[c] = "replace" /\ temp = NoTemp
    /\ EndCommand(c)
    /\ UNCHANGED <<fileVars, saves, plan, handle, shared, owned, overlap, serverSide,
                   cleanVars, mixed>>

----------------------------------------------------------------------------
(* The server: server.py loads the configuration, RetrievalService stamps it *)

BootLoads ==
    /\ server = "down" /\ toml.repos # Torn
    /\ server' = "loaded"
    /\ served' = [served EXCEPT !.repos = toml.repos]
    /\ UNCHANGED <<fileVars, commandVars, look, cleanVars, mixed>>

BootStamps ==
    /\ server = "loaded"
    /\ server' = "up"
    /\ served' = [served EXCEPT !.stamp = toml.stamp]
    /\ UNCHANGED <<fileVars, commandVars, look, cleanVars, mixed>>

\* The property config: the time is read, and the file when it differs.
StatConfig(t) ==
    /\ server = "up" /\ look[t].at = "idle" /\ toml.stamp # served.stamp
    /\ look' = [look EXCEPT ![t] = [NoLook EXCEPT !.at = "load", !.stamp = toml.stamp]]
    /\ mixed' = (mixed \/ \E u \in ConfigReaders \ {t} : look[u].at # "idle")
    /\ UNCHANGED <<fileVars, commandVars, served, server, cleanVars>>

\* A torn file fails the request; the next one looks again.
LoadConfig(t) ==
    /\ look[t].at = "load"
    /\ look' = [look EXCEPT ![t] = IF toml.repos = Torn THEN NoLook
                                 ELSE [@ EXCEPT !.at = "keep", !.repos = toml.repos]]
    /\ UNCHANGED <<fileVars, commandVars, served, server, cleanVars, mixed>>

\* Mutant of KeepConfig: the stamp is the one the file has by now.
KeepStampedLate(t) ==
    /\ look[t].at = "keep"
    /\ served' = Version(look[t].repos, toml.stamp)
    /\ look' = [look EXCEPT ![t] = NoLook]
    /\ UNCHANGED <<fileVars, commandVars, server, cleanVars, mixed>>

KeepConfig(t) ==
    /\ look[t].at = "keep"
    /\ served' = [served EXCEPT !.repos = look[t].repos]
    /\ look' = [look EXCEPT ![t].at = "stamp"]
    /\ UNCHANGED <<fileVars, commandVars, server, cleanVars, mixed>>

StampConfig(t) ==
    /\ look[t].at = "stamp"
    /\ served' = [served EXCEPT !.stamp = look[t].stamp]
    /\ look' = [look EXCEPT ![t] = NoLook]
    /\ UNCHANGED <<fileVars, commandVars, server, cleanVars, mixed>>

----------------------------------------------------------------------------
(* Index runs, and clean_stale_snapshots *)

IndexBegins(r) ==
    /\ r \notin indexing /\ toml.repos # Torn /\ r \in toml.repos
    /\ indexing' = indexing \cup {r}
    /\ UNCHANGED <<fileVars, commandVars, serverSide, cleaning, snapshots,
                   known, robbed, mixed>>

IndexPublishes(r) ==
    /\ r \in indexing
    /\ indexing' = indexing \ {r} /\ snapshots' = snapshots \cup {r}
    /\ UNCHANGED <<fileVars, commandVars, serverSide, cleaning, known,
                   robbed, mixed>>

CleanLooks ==
    /\ cleaning = Torn /\ toml.repos # Torn
    /\ cleaning' = toml.repos /\ known' = owned
    /\ UNCHANGED <<fileVars, commandVars, serverSide, indexing, snapshots,
                   robbed, mixed>>

\* The snapshots, with manifest and pointer, of what was not registered.
CleanDeletes(r) ==
    /\ cleaning # Torn /\ r \in snapshots /\ r \notin cleaning
    /\ snapshots' = snapshots \ {r}
    /\ robbed' = robbed \cup ({r} \cap known)
    /\ UNCHANGED <<fileVars, commandVars, serverSide, cleaning, indexing, known,
                   mixed>>

CleanEnds ==
    /\ cleaning # Torn
    /\ cleaning' = Torn /\ known' = {}
    /\ UNCHANGED <<fileVars, commandVars, serverSide, indexing, snapshots,
                   robbed, mixed>>

TickOn ==
    /\ tick < MaxTick
    /\ tick' = tick + 1
    /\ UNCHANGED <<toml, temp, commandVars, serverSide, cleanVars, mixed>>

----------------------------------------------------------------------------
RegistryInit ==
    /\ tick = 1 /\ toml = Version({}, 0) /\ temp = NoTemp
    /\ saves = 0
    /\ cmd = [c \in Commands |-> "idle"]
    /\ plan = [c \in Commands |-> Idle]
    /\ handle = [c \in Commands |-> "closed"] /\ shared = {}
    /\ served = Version({}, 0) /\ server = "down"
    /\ look = [t \in ConfigReaders |-> NoLook]
    /\ cleaning = Torn /\ indexing = {} /\ snapshots = {}
    /\ owned = {} /\ known = {} /\ robbed = {} /\ overlap = FALSE /\ mixed = FALSE

RegistryNext ==
    \/ \E c \in Commands : LoadFails(c) \/ LoadRegistry(c) \/ OpenTemp(c) \/ WriteText(c)
                           \/ Replace(c) \/ ReplaceFails(c)
    \/ BootLoads \/ BootStamps
    \/ \E t \in ConfigReaders : StatConfig(t) \/ LoadConfig(t) \/ KeepConfig(t)
                          \/ StampConfig(t)
    \/ \E r \in Repos : IndexBegins(r) \/ IndexPublishes(r) \/ CleanDeletes(r)
    \/ CleanLooks \/ CleanEnds \/ TickOn

RegistrySpec == RegistryInit /\ [][RegistryNext]_registryVars

----------------------------------------------------------------------------
RegistryTypeOK ==
    /\ tick \in 1..MaxTick /\ saves \in 0..MaxSaves
    /\ toml.repos = Torn \/ toml.repos \subseteq Repos
    /\ temp = NoTemp \/ temp.repos = Torn \/ temp.repos \subseteq Repos
    /\ cmd \in [Commands -> {"idle", "open", "write", "replace"}]
    /\ handle \in [Commands -> {"closed", "temp", "file", "gone"}]
    /\ \A c \in Commands : (handle[c] # "closed") = (cmd[c] = "write")
    /\ plan \in [Commands -> [repos : SUBSET Repos, adds : SUBSET Repos,
                              drops : SUBSET Repos]]
    /\ served.repos \subseteq Repos /\ server \in {"down", "loaded", "up"}
    /\ \A t \in ConfigReaders : look[t].at \in {"idle", "load", "keep", "stamp"}
    /\ cleaning = Torn \/ cleaning \subseteq Repos
    /\ owned \subseteq Repos /\ known \subseteq Repos /\ snapshots \subseteq Repos

\* What a command has registered stays in the registry, which is whole at
\* every moment, until its unregistration begins, and no clean-up takes its
\* snapshots, as long as no two commands have been at work at once: no save
\* takes what an earlier one put there.
RegisteredStays ==
    ~overlap => /\ toml.repos # Torn /\ owned \subseteq toml.repos
                /\ robbed = {}

\* A server whose stamp is the registry's serves the registry's repositories,
\* unless two threads have renewed the copy at once, the registry has changed
\* between the loading and the stamping of a start, or a save has had no later
\* time than the one before.
ServesTheRegistry ==
    /\ ~mixed /\ server = "up" /\ served.stamp = toml.stamp
    /\ \A t \in ConfigReaders : look[t].at = "idle"
    => served.repos = toml.repos
=============================================================================
