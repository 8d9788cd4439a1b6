----------------------------- MODULE ConfigStore ------------------------------
(***************************************************************************)
(* The daemon's configuration (internal/config/config.go): config.json,    *)
(* the copy in memory that every goroutine reads, and PUT /api/settings    *)
(* (internal/server/handler/settings.go).                                  *)
(*                                                                         *)
(* Manager's mutex is held from the change in memory to the end of the     *)
(* write, so nobody but a kill comes between the two: a save is one step   *)
(* with the outcomes a write can have.  os.WriteFile truncates the file    *)
(* first; a write that fails or is killed may leave it torn.               *)
(* The handler reads agent_id before it takes the mutex; as AgentIdKept    *)
(* says, the id stays the same meanwhile, so that read is in the step too. *)
(***************************************************************************)
EXTENDS Integers

CONSTANTS
    Types,
    Printers,
    Plain,          \* values of the fields that are no maps, all as one
    GivenPlain,     \* those of defaults()
    DefaultPriority,\* the entries of defaults().PriorityMap
    Unset,          \* not in the map
    Missing, Torn,  \* states of the file
    Down,           \* in place of the memory of a daemon that does not run
    NoConfig,
    MaxStarts,      \* bound: starts of the daemon
    MaxHarm         \* bound: writes that fail or are killed

ASSUME ConfigAssumption ==
    /\ GivenPlain \in Plain
    /\ DOMAIN DefaultPriority \subseteq Types
    /\ \A t \in DOMAIN DefaultPriority : DefaultPriority[t] \in Nat
    /\ Unset \notin Printers /\ Unset \notin BOOLEAN /\ Unset \notin Nat
    /\ {MaxStarts, MaxHarm} \subseteq Nat

\* A Config.  Agent ids are numbered as they are generated; 0 is "".
Config ==
    [agent_id : 0..MaxStarts, plain : Plain,
     printer_map : [Types -> Printers \cup {Unset}],
     enabled_types : [Types -> BOOLEAN \cup {Unset}],
     priority_map : [Types -> Nat \cup {Unset}]]

ASSUME StatesAreNoConfigs == {Missing, Torn, Down, NoConfig} \cap Config = {}

VARIABLES
    disk,       \* config.json
    memory,     \* Manager.current
    starts, harm,
    agent,      \* ghost: the agent_id the daemon first ran with, or 0
    written     \* ghost: what the last write wrote, if it was acknowledged

daemon == <<disk, memory, starts, harm, agent, written>>

ConfigType ==
    /\ disk \in Config \cup {Missing, Torn}
    /\ memory \in Config \cup {Down}
    /\ starts \in 0..MaxStarts
    /\ harm \in 0..MaxHarm
    /\ agent \in 0..MaxStarts
    /\ written \in Config \cup {NoConfig}

-------------------------------------------------------------------------------
Defaults ==
    [agent_id |-> 0, plain |-> GivenPlain,
     printer_map |-> [t \in Types |-> Unset],
     enabled_types |-> [t \in Types |-> Unset],
     priority_map |-> [t \in Types |-> IF t \in DOMAIN DefaultPriority
                                       THEN DefaultPriority[t] ELSE Unset]]

\* json.Unmarshal into defaults(): entries of a map that the file does not
\* have keep their default.
Loaded(file) ==
    IF file = Missing THEN Defaults
    ELSE [file EXCEPT !.priority_map =
            [t \in Types |-> IF @[t] = Unset THEN Defaults.priority_map[t] ELSE @[t]]]

Harm == harm < MaxHarm /\ harm' = harm + 1

\* New: load, and a write only if there was no agent_id.
Start ==
    /\ memory = Down
    /\ disk # Torn
    /\ starts < MaxStarts
    /\ starts' = starts + 1
    /\ LET c == Loaded(disk)
           new == [c EXCEPT !.agent_id = starts'] IN
       \/ /\ c.agent_id # 0
          /\ memory' = c
          /\ UNCHANGED <<disk, harm, written>>
       \/ /\ c.agent_id = 0
          /\ memory' = new /\ disk' = new /\ written' = new
          /\ UNCHANGED harm
       \/ /\ c.agent_id = 0
          /\ Harm
          /\ disk' \in {disk, Torn}
          /\ UNCHANGED <<memory, written>>
    /\ agent' = IF agent = 0 /\ memory' # Down THEN memory'.agent_id ELSE agent

\* The daemon ends, not in the middle of a write.
Stop ==
    /\ memory # Down
    /\ memory' = Down
    /\ UNCHANGED <<disk, starts, harm, agent, written>>

\* A plausible slip: the agent_id in the body is taken as it is.
KeptIdOfBody(body) == body

\* agent_id is daemon-owned (settings.go:22-24).
KeptId(body) == [body EXCEPT !.agent_id = memory.agent_id]

\* A plausible slip: an error of the write is not looked at.
SavedUnchecked(body, answer) ==
    /\ memory # Down
    /\ answer = "ok"
    /\ memory' = KeptId(body)
    /\ written' = KeptId(body)
    /\ \/ disk' = KeptId(body) /\ UNCHANGED harm
       \/ disk' \in {disk, Torn} /\ Harm
    /\ UNCHANGED <<starts, agent>>

\* SaveSettings and Manager.Save: memory first, then the file.
Saved(body, answer) ==
    /\ memory # Down
    /\ \/ /\ answer = "ok"
          /\ memory' = KeptId(body) /\ disk' = KeptId(body) /\ written' = KeptId(body)
          /\ UNCHANGED harm
       \/ /\ answer = "failed"
          /\ Harm
          /\ memory' = KeptId(body)
          /\ disk' \in {disk, Torn}
          /\ written' = NoConfig
       \/ /\ answer = "failed"        \* killed in the write, or before the answer
          /\ Harm
          /\ memory' = Down
          /\ disk' \in {disk, Torn, KeptId(body)}
          /\ written' = NoConfig
    /\ UNCHANGED <<starts, agent>>

\* No file, or one from before agent_id existed.
ConfigInit ==
    /\ disk \in {Missing, Defaults}
    /\ memory = Down
    /\ starts = 0 /\ harm = 0
    /\ agent = 0
    /\ written = NoConfig

-------------------------------------------------------------------------------
(***************************************************************************)
(* The daemon runs under one agent_id for ever, whatever pages send, and   *)
(* whatever writes fail or are cut short: claims stay attributed to it     *)
(* (config.go:16-19, settings.go:22-24).                                   *)
(***************************************************************************)
AgentIdKept == memory # Down => memory.agent_id = agent /\ agent # 0

(***************************************************************************)
(* What was acknowledged as saved, and not saved over since, is in the     *)
(* file, and is what a daemon started from it uses, but for the priorities *)
(* the defaults put back (config.go:117-123, 143-148).                     *)
(***************************************************************************)
AcknowledgedKept ==
    written # NoConfig =>
        /\ disk = written
        /\ memory \in {Down, written, Loaded(written)}

(***************************************************************************)
(* A type the file lists no priority for has none in the daemon, so it     *)
(* falls back to what the backend sent (config.go:46-48, README.md:151).   *)
(***************************************************************************)
UnlistedFallsBack ==
    disk \in Config /\ memory # Down =>
        \A t \in Types : disk.priority_map[t] = Unset => memory.priority_map[t] = Unset
===============================================================================
