-------------------------- MODULE SettingsPageProofs ---------------------------
(***************************************************************************)
(* What SettingsPage and ConfigStore promise, proved for any number of     *)
(* pages, types, starts, failed writes and acts.                           *)
(*                                                                         *)
(* A type invariant first, with what it rests on: a page that has a        *)
(* request under way is open.  Then the two invariants of the daemon,      *)
(* with what the file has to say when the daemon is down; and the action   *)
(* property of a save, from what a page, and a request on its way, show    *)
(* of the configuration they started from.                                 *)
(***************************************************************************)
EXTENDS SettingsPage, TLAPS

-------------------------------------------------------------------------------
(***************************************************************************)
(* The steps of Next, by name.                                             *)
(***************************************************************************)
\* A step of the daemon that no page asked for.
DaemonStep == (Start \/ Stop) /\ UNCHANGED <<pages, requests, acts>>

LEMMA Steps ==
    ASSUME Next, NEW P,
           DaemonStep => P,
           \A p \in Pages : Open(p) \/ EditPlain(p) \/ ClickSave(p) => P,
           \A p \in Pages, t \in Types : EditRow(p, t) => P,
           \A r \in requests : ServeLoad(r) \/ LoadBack(r) \/ LoadFailed(r) => P,
           \A r \in requests : ServeSave(r) \/ SaveFails(r) => P
    PROVE  P
<1> QED  BY DEF Next, DaemonStep

-------------------------------------------------------------------------------
(***************************************************************************)
(* Types.                                                                  *)
(***************************************************************************)
LEMMA DefaultsType == Defaults \in Config
<1>1. \A t \in DOMAIN DefaultPriority : DefaultPriority[t] \in Nat
  BY ConfigAssumption
<1>2. GivenPlain \in Plain /\ MaxStarts \in Nat
  BY ConfigAssumption
<1>3. 0 \in 0..MaxStarts
  BY <1>2
<1> QED  BY <1>1, <1>2, <1>3 DEF Defaults, Config

LEMMA LoadedType ==
    ASSUME NEW file \in Config \cup {Missing}
    PROVE  /\ Loaded(file) \in Config
           /\ Loaded(file).agent_id = IF file = Missing THEN 0 ELSE file.agent_id
<1>1. CASE file = Missing
  BY <1>1, DefaultsType DEF Loaded, Defaults
<1>2. CASE file # Missing
  <2>1. file \in Config
    BY <1>2
  <2>2. \A t \in Types : Defaults.priority_map[t] \in Nat \cup {Unset}
    BY DefaultsType DEF Config
  <2> DEFINE map == [t \in Types |-> IF file.priority_map[t] = Unset
                                     THEN Defaults.priority_map[t] ELSE file.priority_map[t]]
  <2>3. map \in [Types -> Nat \cup {Unset}]
    BY <2>1, <2>2 DEF Config
  <2>4. Loaded(file) = [file EXCEPT !.priority_map = map]
    BY <1>2 DEF Loaded
  <2> QED  BY <1>2, <2>1, <2>3, <2>4 DEF Config
<1> QED  BY <1>1, <1>2

LEMMA WithId ==
    ASSUME NEW c \in Config, NEW i \in 0..MaxStarts
    PROVE  /\ [c EXCEPT !.agent_id = i] \in Config
           /\ [c EXCEPT !.agent_id = i].agent_id = i
<1> QED  BY DEF Config

LEMMA BodyType ==
    ASSUME NEW pg \in Page
    PROVE  Body(pg) \in Config
<1>1. \A t \in Types : pg.rows[t] # NoRow => pg.rows[t] \in Row
  BY DEF Page
<1>2. \A n \in Nat \cup {Empty} : Parsed(n) \in Nat \cup {Unset}
  BY DEF Parsed
<1>3. pg.agent_id \in 0..MaxStarts /\ pg.plain \in Plain
  BY DEF Page
<1> DEFINE printers == [t \in Types |-> IF pg.rows[t] = NoRow THEN Unset ELSE pg.rows[t].printer]
           enabled == [t \in Types |-> IF pg.rows[t] = NoRow THEN Unset ELSE pg.rows[t].enabled]
           priorities == [t \in Types |-> IF pg.rows[t] = NoRow THEN Unset
                                          ELSE Parsed(pg.rows[t].priority)]
<1>4. printers \in [Types -> Printers \cup {Unset}]
  BY <1>1 DEF Row
<1>5. enabled \in [Types -> BOOLEAN \cup {Unset}]
  BY <1>1 DEF Row
<1>6. priorities \in [Types -> Nat \cup {Unset}]
  BY <1>1, <1>2 DEF Row
<1>7. Body(pg) = [agent_id |-> pg.agent_id, plain |-> pg.plain, printer_map |-> printers,
                  enabled_types |-> enabled, priority_map |-> priorities]
  BY DEF Body
<1> HIDE DEF printers, enabled, priorities
<1> QED  BY <1>3, <1>4, <1>5, <1>6, <1>7 DEF Config

LEMMA SyncRowsType ==
    ASSUME NEW c \in Config, NEW ts
    PROVE  SyncRows(c, ts) \in [Types -> Row \cup {NoRow}]
<1>1. \A t \in Types : /\ c.printer_map[t] \in Printers \cup {Unset}
                       /\ c.priority_map[t] \in Nat \cup {Unset}
  BY DEF Config
<1> QED  BY <1>1 DEF SyncRows, Row

LEMMA EditedType ==
    ASSUME NEW row \in Row, NEW new \in Edited(row)
    PROVE  new \in Row
<1>1. Offered \subseteq Nat \cup {Empty}
  BY PageAssumption
<1> QED  BY <1>1 DEF Edited, Row

LEMMA BlankPageType == BlankPage \in Page
<1>1. MaxStarts \in Nat /\ BlankPlain \in Plain
  BY ConfigAssumption, PageAssumption
<1> QED  BY <1>1 DEF BlankPage, Page

-------------------------------------------------------------------------------
(***************************************************************************)
(* The page that waits for an answer is open.                              *)
(***************************************************************************)
OpenAsk == \A r \in requests : pages[r.page] # Closed

Typed == TypeOK /\ OpenAsk

LEMMA StartTypes ==
    ASSUME ConfigType, Start
    PROVE  ConfigType'
<1> USE DEF ConfigType
<1> DEFINE c == Loaded(disk)
<1>1. starts' \in 0..MaxStarts
  BY ConfigAssumption DEF Start
<1>2. c \in Config
  BY LoadedType DEF Start
<1>3. [c EXCEPT !.agent_id = starts'] \in Config
  BY <1>1, <1>2, WithId
<1>4. memory' \in Config \cup {Down} /\ disk' \in Config \cup {Missing, Torn}
      /\ written' \in Config \cup {NoConfig}
  <2> HIDE DEF c
  <2>1. \/ memory' = c /\ UNCHANGED <<disk, written>>
        \/ /\ memory' = [c EXCEPT !.agent_id = starts']
           /\ disk' = [c EXCEPT !.agent_id = starts']
           /\ written' = [c EXCEPT !.agent_id = starts']
        \/ disk' \in {disk, Torn} /\ UNCHANGED <<memory, written>>
    BY DEF Start, c
  <2> QED  BY <1>2, <1>3, <2>1
<1>5. harm' \in 0..MaxHarm
  BY ConfigAssumption DEF Start, Harm
<1>6. agent' \in 0..MaxStarts
  BY <1>4 DEF Start, Config
<1> QED  BY <1>1, <1>4, <1>5, <1>6

LEMMA KeptIdType ==
    ASSUME ConfigType, memory # Down, NEW body \in Config
    PROVE  KeptId(body) \in Config /\ KeptId(body).agent_id = memory.agent_id
<1>1. memory.agent_id \in 0..MaxStarts
  BY DEF ConfigType, Config
<1> QED  BY <1>1, WithId DEF KeptId

LEMMA SavedTypes ==
    ASSUME ConfigType, NEW body \in Config, NEW answer, Saved(body, answer)
    PROVE  ConfigType'
<1>1. KeptId(body) \in Config
  BY KeptIdType DEF Saved
<1>2. harm' \in 0..MaxHarm
  BY ConfigAssumption DEF Saved, Harm, ConfigType
<1> QED  BY <1>1, <1>2 DEF Saved, ConfigType

LEMMA SavesAreSaves ==
    ASSUME TypeOK, NEW r \in requests
    PROVE  /\ r.page \in Pages
           /\ r.kind = "save" => r \in Save
           /\ r.kind = "load" => r \in Load
<1> QED  BY DEF TypeOK, Load, Save

LEMMA InitTyped == Init => Typed
<1> SUFFICES ASSUME Init PROVE Typed
  OBVIOUS
<1>1. 0 \in 0..MaxStarts /\ 0 \in 0..MaxHarm /\ 0 \in 0..MaxActs
  BY ConfigAssumption, PageAssumption
<1> QED  BY <1>1, DefaultsType DEF Init, ConfigInit, Typed, TypeOK, ConfigType, OpenAsk

LEMMA TypedStep ==
    ASSUME Typed, [Next]_vars
    PROVE  Typed'
<1> USE DEF Typed
<1>1. CASE UNCHANGED vars
  BY <1>1 DEF vars, daemon, TypeOK, ConfigType, OpenAsk
<1>2. CASE Next
  <2>1. ASSUME DaemonStep PROVE Typed'
    <3>1. CASE Start
      BY <2>1, <3>1, StartTypes DEF DaemonStep, TypeOK, OpenAsk
    <3>2. CASE Stop
      BY <2>1, <3>2 DEF DaemonStep, Stop, TypeOK, ConfigType, OpenAsk
    <3> QED  BY <2>1, <3>1, <3>2 DEF DaemonStep
  <2>2. ASSUME NEW p \in Pages, Open(p) PROVE Typed'
    <3> DEFINE new(i) == [kind |-> "load", page |-> p, n |-> i, cfg |-> NoConfig, types |-> {}]
    <3>1. new(1) \in Load /\ new(2) \in Load
      BY DEF Load
    <3>2. requests' = requests \cup {new(i) : i \in {1, 2}}
      BY <2>2 DEF Open
    <3>3. new(1).page = p /\ new(2).page = p
      OBVIOUS
    <3>4. pages' = [pages EXCEPT ![p] = BlankPage] /\ UNCHANGED <<daemon, acts>>
      BY <2>2 DEF Open
    <3>5. BlankPage # Closed
      BY BlankPageType, ClosedIsNoPage
    <3> HIDE DEF new
    <3>6. requests' \subseteq Load \cup Save
      BY <3>1, <3>2 DEF TypeOK
    <3>7. \A q \in Pages : pages'[q] = IF q = p THEN BlankPage ELSE pages[q]
      BY <3>4 DEF TypeOK
    <3>8. TypeOK'
      BY <3>4, <3>6, BlankPageType DEF TypeOK, ConfigType, daemon
    <3>9. \A r \in requests' : r.page \in Pages
      BY <3>6 DEF Load, Save
    <3> QED  BY <3>2, <3>3, <3>5, <3>7, <3>8, <3>9 DEF OpenAsk
  <2>3. ASSUME NEW p \in Pages, EditPlain(p) PROVE Typed'
    <3>1. pages[p] \in Page
      BY <2>3 DEF EditPlain, Ready, TypeOK
    <3>2. PICK x \in Plain : pages' = [pages EXCEPT ![p].plain = x,
                                                    ![p].touched = @ \cup {"plain"}]
      BY <2>3 DEF EditPlain
    <3> DEFINE new == [pages[p] EXCEPT !.plain = x, !.touched = @ \cup {"plain"}]
    <3>3. new \in Page
      BY <3>1 DEF Page
    <3>4. pages' = [pages EXCEPT ![p] = new]
      BY <3>2 DEF TypeOK
    <3> HIDE DEF new
    <3>5. requests' = requests /\ UNCHANGED daemon /\ acts' \in 0..MaxActs
      BY <2>3, PageAssumption DEF EditPlain, Act, TypeOK
    <3>6. TypeOK'
      BY <3>3, <3>4, <3>5 DEF TypeOK, ConfigType, daemon
    <3> QED  BY <3>3, <3>4, <3>5, <3>6, ClosedIsNoPage DEF OpenAsk, TypeOK
  <2>4. ASSUME NEW p \in Pages, NEW t \in Types, EditRow(p, t) PROVE Typed'
    <3>1. pages[p] \in Page /\ pages[p].rows[t] \in Row
      BY <2>4 DEF EditRow, Ready, TypeOK, Page
    <3>2. PICK row \in Edited(pages[p].rows[t]) :
             pages' = [pages EXCEPT ![p].rows[t] = row, ![p].touched = @ \cup {t}]
      BY <2>4 DEF EditRow
    <3> DEFINE new == [pages[p] EXCEPT !.rows[t] = row, !.touched = @ \cup {t}]
    <3>3. new \in Page
      <4>1. row \in Row
        BY <3>1, EditedType
      <4> QED  BY <3>1, <4>1 DEF Page
    <3>4. pages' = [pages EXCEPT ![p] = new]
      BY <3>2 DEF TypeOK
    <3> HIDE DEF new
    <3>5. requests' = requests /\ UNCHANGED daemon /\ acts' \in 0..MaxActs
      BY <2>4, PageAssumption DEF EditRow, Act, TypeOK
    <3>6. TypeOK'
      BY <3>3, <3>4, <3>5 DEF TypeOK, ConfigType, daemon
    <3> QED  BY <3>3, <3>4, <3>5, <3>6, ClosedIsNoPage DEF OpenAsk, TypeOK
  <2>5. ASSUME NEW p \in Pages, ClickSave(p) PROVE Typed'
    <3>1. pages[p] \in Page
      BY <2>5 DEF ClickSave, Ready, TypeOK
    <3>2. Body(pages[p]) \in Config
      BY <3>1, BodyType
    <3>3. acts' \in 0..MaxActs /\ acts' \in 1..MaxActs
      BY <2>5, PageAssumption DEF ClickSave, Act, TypeOK
    <3> DEFINE send == [kind |-> "save", page |-> p, n |-> acts', body |-> Body(pages[p]),
                        base |-> pages[p].base, touched |-> pages[p].touched]
               new == [pages[p] EXCEPT !.base = IF @ = NoConfig THEN @ ELSE Body(pages[p]),
                                       !.touched = {}]
    <3>4. send \in Save /\ send.page = p
      BY <3>1, <3>2, <3>3 DEF Save, Page
    <3>5. new \in Page
      BY <3>1, <3>2 DEF Page
    <3>6. pages' = [pages EXCEPT ![p] = new]
      BY <2>5 DEF ClickSave, TypeOK
    <3>7. requests' = requests \cup {send} /\ UNCHANGED daemon
      BY <2>5 DEF ClickSave
    <3> HIDE DEF new, send
    <3>8. TypeOK'
      BY <3>3, <3>4, <3>5, <3>6, <3>7 DEF TypeOK, ConfigType, daemon
    <3> QED  BY <3>4, <3>5, <3>6, <3>7, <3>8, ClosedIsNoPage DEF OpenAsk, TypeOK
  <2>6. ASSUME NEW r \in requests, ServeLoad(r) PROVE Typed'
    <3>1. r \in Load
      BY <2>6, SavesAreSaves DEF ServeLoad
    <3>2. PICK ts \in TemplateSets :
             requests' = (requests \ {r}) \cup {[r EXCEPT !.cfg = memory, !.types = ts]}
      BY <2>6 DEF ServeLoad
    <3> DEFINE back == [r EXCEPT !.cfg = memory, !.types = ts]
    <3>3. back \in Load /\ back.page = r.page
      BY <2>6, <3>1, PageAssumption DEF ServeLoad, TypeOK, ConfigType, Load
    <3> HIDE DEF back
    <3>4. UNCHANGED <<daemon, pages, acts>>
      BY <2>6 DEF ServeLoad
    <3> QED  BY <3>2, <3>3, <3>4 DEF back, TypeOK, ConfigType, daemon, OpenAsk
  <2>7. ASSUME NEW r \in requests, LoadBack(r) PROVE Typed'
    <3>1. r.page \in Pages /\ r.cfg \in Config
      BY <2>7, SavesAreSaves DEF LoadBack, Load
    <3> DEFINE new == [agent_id |-> r.cfg.agent_id, plain |-> r.cfg.plain,
                       rows |-> SyncRows(r.cfg, r.types),
                       loading |-> FALSE, base |-> r.cfg, touched |-> {}]
    <3>2. new \in Page
      BY <3>1, SyncRowsType DEF Page, Config
    <3>3. pages' = [pages EXCEPT ![r.page] = new] /\ requests' = requests \ {r}
          /\ UNCHANGED <<daemon, acts>>
      BY <2>7 DEF LoadBack
    <3> HIDE DEF new
    <3> QED  BY <3>1, <3>2, <3>3, ClosedIsNoPage DEF TypeOK, ConfigType, daemon, OpenAsk
  <2>8. ASSUME NEW r \in requests, LoadFailed(r) PROVE Typed'
    <3>1. r.page \in Pages /\ pages[r.page] \in Page
      BY SavesAreSaves DEF TypeOK, OpenAsk
    <3> DEFINE new == [pages[r.page] EXCEPT !.loading = FALSE]
    <3>2. new \in Page
      BY <3>1 DEF Page
    <3>3. pages' = [pages EXCEPT ![r.page] = new] /\ requests' = requests \ {r}
          /\ UNCHANGED <<daemon, acts>>
      BY <2>8 DEF LoadFailed
    <3> HIDE DEF new
    <3> QED  BY <3>1, <3>2, <3>3, ClosedIsNoPage DEF TypeOK, ConfigType, daemon, OpenAsk
  <2>9. ASSUME NEW r \in requests, ServeSave(r) PROVE Typed'
    <3>1. r.body \in Config
      BY <2>9, SavesAreSaves DEF ServeSave, Save
    <3>2. ConfigType'
      BY <2>9, <3>1, SavedTypes DEF ServeSave, TypeOK
    <3> QED  BY <2>9, <3>2 DEF ServeSave, TypeOK, OpenAsk
  <2>10. ASSUME NEW r \in requests, SaveFails(r) PROVE Typed'
    BY <2>10 DEF SaveFails, TypeOK, ConfigType, daemon, OpenAsk
  <2> QED  BY <1>2, <2>1, <2>2, <2>3, <2>4, <2>5, <2>6, <2>7, <2>8, <2>9, <2>10, Steps
<1> QED  BY <1>1, <1>2

LEMMA AlwaysTyped == Spec => []Typed
<1> QED  BY InitTyped, TypedStep, PTL DEF Spec

(***************************************************************************)
(* What a page sends is a configuration, whatever the user leaves in its   *)
(* fields (app.js:131-142).                                                *)
(***************************************************************************)
THEOREM Typing == Spec => []TypeOK
<1>1. Typed => TypeOK
  BY DEF Typed
<1> QED  BY <1>1, AlwaysTyped, PTL

-------------------------------------------------------------------------------
(***************************************************************************)
(* The daemon and its file.                                                *)
(*                                                                         *)
(* AgentIdKept speaks of a daemon that runs; what makes it come back under *)
(* its id is in the file: the id, unless a write was cut short - and then  *)
(* the daemon does not start again.  Before the first id there was nothing *)
(* to keep.                                                                *)
(***************************************************************************)
IdKept ==
    /\ agent = 0 =>
          /\ memory = Down
          /\ disk \in {Missing, Torn} \/ (disk \in Config /\ disk.agent_id = 0)
    /\ agent # 0 =>
          /\ disk = Torn \/ (disk \in Config /\ disk.agent_id = agent)
          /\ memory # Down => memory.agent_id = agent

\* What was acknowledged, was so by a daemon with an id: a failed first write
\* has nothing acknowledged to spoil.
WrittenKept == AcknowledgedKept /\ (written # NoConfig => agent # 0)

Daemon == IdKept /\ WrittenKept

LEMMA StartKeeps ==
    ASSUME ConfigType, Daemon, Start
    PROVE  Daemon'
<1> DEFINE c == Loaded(disk)
           new == [c EXCEPT !.agent_id = starts']
<1>1. disk \in Config \cup {Missing} /\ memory = Down /\ starts' \in 0..MaxStarts /\ starts' # 0
  BY ConfigAssumption DEF Start, ConfigType
<1>2. c \in Config /\ c.agent_id = IF disk = Missing THEN 0 ELSE disk.agent_id
  BY <1>1, LoadedType
<1>3. new \in Config /\ new.agent_id = starts'
  BY <1>1, <1>2, WithId
<1>4. c # Down /\ new # Down /\ Missing \notin Config /\ Torn \notin Config
  BY <1>2, <1>3, StatesAreNoConfigs
<1>5. \/ c.agent_id # 0 /\ memory' = c /\ UNCHANGED <<disk, written>>
      \/ c.agent_id = 0 /\ memory' = new /\ disk' = new /\ written' = new
      \/ c.agent_id = 0 /\ disk' \in {disk, Torn} /\ UNCHANGED <<memory, written>>
  BY DEF Start
<1>6. agent' = IF agent = 0 /\ memory' # Down THEN memory'.agent_id ELSE agent
  BY DEF Start
<1>7. disk # Torn
  BY DEF Start
<1>8. written # NoConfig /\ memory' = c => memory' = Loaded(written)
  BY DEF Daemon, WrittenKept, AcknowledgedKept
<1>9. c.agent_id = 0 => agent = 0
  BY <1>1, <1>2, <1>4, <1>7 DEF Daemon, IdKept
<1>10. c.agent_id # 0 => agent = c.agent_id /\ disk \in Config /\ disk.agent_id = agent
  BY <1>1, <1>2, <1>4, <1>7 DEF Daemon, IdKept
<1> HIDE DEF c, new
<1>11. IdKept'
  BY <1>1, <1>2, <1>3, <1>4, <1>5, <1>6, <1>9, <1>10 DEF Daemon, IdKept
<1>12. WrittenKept'
  BY <1>1, <1>2, <1>3, <1>4, <1>5, <1>6, <1>8, <1>9, <1>10
     DEF Daemon, WrittenKept, AcknowledgedKept
<1> QED  BY <1>11, <1>12 DEF Daemon

LEMMA SavedKeeps ==
    ASSUME ConfigType, Daemon, NEW body \in Config, NEW answer, Saved(body, answer)
    PROVE  Daemon'
<1>1. memory # Down /\ agent # 0 /\ memory.agent_id = agent /\ agent' = agent
  BY DEF Saved, Daemon, IdKept
<1>2. KeptId(body) \in Config /\ KeptId(body).agent_id = agent
  BY <1>1, KeptIdType
<1>3. \/ memory' = KeptId(body) /\ disk' = KeptId(body) /\ written' = KeptId(body)
      \/ memory' = KeptId(body) /\ disk' \in {disk, Torn} /\ written' = NoConfig
      \/ memory' = Down /\ disk' \in {disk, Torn, KeptId(body)} /\ written' = NoConfig
  BY DEF Saved
<1> QED  BY <1>1, <1>2, <1>3 DEF Daemon, IdKept, WrittenKept, AcknowledgedKept

LEMMA DaemonKept ==
    ASSUME TypeOK, Daemon, [Next]_vars
    PROVE  Daemon'
<1> USE DEF Daemon
<1>1. CASE UNCHANGED daemon
  BY <1>1 DEF daemon, IdKept, WrittenKept, AcknowledgedKept
<1>2. CASE Next
  <2>1. ASSUME DaemonStep PROVE Daemon'
    <3>1. CASE Start
      BY <3>1, StartKeeps DEF TypeOK
    <3>2. CASE Stop
      BY <3>2 DEF Stop, IdKept, WrittenKept, AcknowledgedKept
    <3> QED  BY <2>1, <3>1, <3>2 DEF DaemonStep
  <2>2. ASSUME NEW p \in Pages, Open(p) \/ EditPlain(p) \/ ClickSave(p) PROVE Daemon'
    BY <2>2, <1>1 DEF Open, EditPlain, ClickSave
  <2>3. ASSUME NEW p \in Pages, NEW t \in Types, EditRow(p, t) PROVE Daemon'
    BY <2>3, <1>1 DEF EditRow
  <2>4. ASSUME NEW r \in requests, ServeLoad(r) \/ LoadBack(r) \/ LoadFailed(r) PROVE Daemon'
    BY <2>4, <1>1 DEF ServeLoad, LoadBack, LoadFailed
  <2>5. ASSUME NEW r \in requests, ServeSave(r) \/ SaveFails(r) PROVE Daemon'
    <3>1. CASE ServeSave(r)
      <4>1. r.body \in Config
        BY <3>1, SavesAreSaves DEF ServeSave, Save
      <4> QED  BY <3>1, <4>1, SavedKeeps DEF ServeSave, TypeOK
    <3> QED  BY <2>5, <3>1, <1>1 DEF SaveFails
  <2> QED  BY <1>2, <2>1, <2>2, <2>3, <2>4, <2>5, Steps
<1> QED  BY <1>1, <1>2 DEF vars

LEMMA InitDaemon == Init => Daemon
<1>1. Defaults \in Config /\ Defaults.agent_id = 0
  BY DefaultsType DEF Defaults
<1> QED  BY <1>1 DEF Init, ConfigInit, Daemon, IdKept, WrittenKept, AcknowledgedKept

LEMMA AlwaysDaemon == Spec => []Daemon
<1> QED  BY InitDaemon, DaemonKept, Typing, PTL DEF Spec

(***************************************************************************)
(* The daemon runs under one agent_id for ever, whatever pages send and    *)
(* whatever writes fail or are cut short (config.go:16-19,                 *)
(* settings.go:22-24).                                                     *)
(***************************************************************************)
THEOREM OneAgentId == Spec => []AgentIdKept
<1>1. Daemon => AgentIdKept
  BY DEF Daemon, IdKept, AgentIdKept
<1> QED  BY <1>1, AlwaysDaemon, PTL

(***************************************************************************)
(* What was acknowledged as saved is in the file until it is saved over,   *)
(* and is what a daemon started from it uses, but for the priorities the   *)
(* defaults put back (config.go:117-123, 143-148).                         *)
(***************************************************************************)
THEOREM SavedStays == Spec => []AcknowledgedKept
<1>1. Daemon => AcknowledgedKept
  BY DEF Daemon, WrittenKept
<1> QED  BY <1>1, AlwaysDaemon, PTL

-------------------------------------------------------------------------------
(***************************************************************************)
(* A save changes what the user changed.  The page keeps, as a ghost, the  *)
(* configuration it started from: as long as the user has not touched a    *)
(* type, its row shows that configuration, and so does the body made of    *)
(* the rows, on its way to whatever daemon is there by then.               *)
(***************************************************************************)
RowShows(row, base, t) ==
    /\ row.printer = base.printer_map[t]
    /\ row.enabled = base.enabled_types[t]
    /\ base.priority_map[t] # 0 => Parsed(row.priority) = base.priority_map[t]

Shows(pg) ==
    pg.base # NoConfig =>
        /\ "plain" \notin pg.touched => pg.plain = pg.base.plain
        /\ \A t \in Types \ pg.touched :
              pg.rows[t] # NoRow /\ pg.base.enabled_types[t] # Unset =>
                 RowShows(pg.rows[t], pg.base, t)

Changes(r) ==
    r.base # NoConfig =>
        /\ "plain" \notin r.touched => r.body.plain = r.base.plain
        /\ \A t \in Types \ r.touched :
              r.body.enabled_types[t] # Unset /\ r.base.enabled_types[t] # Unset =>
                 /\ r.body.printer_map[t] = r.base.printer_map[t]
                 /\ r.body.enabled_types[t] = r.base.enabled_types[t]
                 /\ r.base.priority_map[t] # 0 => r.body.priority_map[t] = r.base.priority_map[t]

PagesShow == \A p \in Pages : pages[p] # Closed => Shows(pages[p])
SavesShow == \A r \in requests : r.kind = "save" => Changes(r)

Shown == PagesShow /\ SavesShow

(***************************************************************************)
(* What syncRows makes of a configuration shows it: ?? and the priority    *)
(* field, which stands for an absent entry by 0, lose nothing of a type    *)
(* that is listed (app.js:96-119).                                         *)
(***************************************************************************)
LEMMA SyncRowsShow ==
    ASSUME NEW c \in Config, NEW ts, NEW t \in Types,
           SyncRows(c, ts)[t] # NoRow, c.enabled_types[t] # Unset
    PROVE  RowShows(SyncRows(c, ts)[t], c, t)
<1> DEFINE row == [printer |-> c.printer_map[t],
                   enabled |-> c.enabled_types[t] # FALSE,
                   priority |-> IF c.priority_map[t] = Unset THEN 0 ELSE c.priority_map[t]]
<1>1. SyncRows(c, ts)[t] = row
  BY DEF SyncRows
<1>2. c.enabled_types[t] \in BOOLEAN /\ c.priority_map[t] \in Nat \cup {Unset}
  BY DEF Config
<1>3. row.enabled = c.enabled_types[t]
  BY <1>2
<1>4. c.priority_map[t] # 0 => Parsed(row.priority) = c.priority_map[t]
  BY <1>2, PageAssumption DEF Parsed
<1>5. row.printer = c.printer_map[t]
  OBVIOUS
<1> HIDE DEF row
<1> QED  BY <1>1, <1>3, <1>4, <1>5 DEF RowShows

(***************************************************************************)
(* The body of save is made of the rows (app.js:131-142).                  *)
(***************************************************************************)
LEMMA BodyOfRows ==
    ASSUME NEW pg
    PROVE  /\ Body(pg).plain = pg.plain
           /\ \A t \in Types :
                 Body(pg).enabled_types[t] # Unset =>
                    /\ pg.rows[t] # NoRow
                    /\ Body(pg).printer_map[t] = pg.rows[t].printer
                    /\ Body(pg).enabled_types[t] = pg.rows[t].enabled
                    /\ Body(pg).priority_map[t] = Parsed(pg.rows[t].priority)
<1> QED  BY DEF Body

LEMMA PageUpdateShows ==
    ASSUME Typed, Shown, NEW p \in Pages, NEW new, Shows(new),
           pages' = [pages EXCEPT ![p] = new], requests' \subseteq requests
    PROVE  Shown'
<1>1. PagesShow'
  BY DEF Typed, TypeOK, Shown, PagesShow
<1>2. SavesShow'
  BY DEF Shown, SavesShow
<1> QED  BY <1>1, <1>2 DEF Shown

LEMMA ShownKept ==
    ASSUME Typed, Shown, [Next]_vars
    PROVE  Shown'
<1>1. CASE UNCHANGED <<pages, requests>>
  BY <1>1 DEF Shown, PagesShow, SavesShow
<1>2. CASE Next
  <2>1. ASSUME DaemonStep PROVE Shown'
    BY <2>1, <1>1 DEF DaemonStep
  <2>2. ASSUME NEW p \in Pages, Open(p) PROVE Shown'
    <3>1. Shows(BlankPage)
      BY DEF Shows, BlankPage
    <3>2. PagesShow'
      BY <2>2, <3>1 DEF Open, Typed, TypeOK, Shown, PagesShow
    <3>3. \A r \in requests' : r \in requests \/ r.kind = "load"
      BY <2>2 DEF Open
    <3>4. SavesShow'
      BY <3>3 DEF Shown, SavesShow
    <3> QED  BY <3>2, <3>4 DEF Shown
  <2>3. ASSUME NEW p \in Pages, EditPlain(p) PROVE Shown'
    <3>1. pages[p] \in Page /\ Shows(pages[p])
      BY <2>3 DEF EditPlain, Ready, Typed, TypeOK, Shown, PagesShow
    <3>2. PICK x \in Plain : pages' = [pages EXCEPT ![p].plain = x,
                                                    ![p].touched = @ \cup {"plain"}]
      BY <2>3 DEF EditPlain
    <3> DEFINE new == [pages[p] EXCEPT !.plain = x, !.touched = @ \cup {"plain"}]
    <3>3. Shows(new)
      BY <3>1 DEF Shows, Page
    <3>4. pages' = [pages EXCEPT ![p] = new] /\ requests' = requests
      BY <2>3, <3>2 DEF EditPlain, Typed, TypeOK
    <3> HIDE DEF new
    <3> QED  BY <3>3, <3>4, PageUpdateShows
  <2>4. ASSUME NEW p \in Pages, NEW t \in Types, EditRow(p, t) PROVE Shown'
    <3>1. pages[p] \in Page /\ Shows(pages[p])
      BY <2>4 DEF EditRow, Ready, Typed, TypeOK, Shown, PagesShow
    <3>2. PICK row : pages' = [pages EXCEPT ![p].rows[t] = row, ![p].touched = @ \cup {t}]
      BY <2>4 DEF EditRow
    <3> DEFINE new == [pages[p] EXCEPT !.rows[t] = row, !.touched = @ \cup {t}]
    <3>3. /\ new.base = pages[p].base /\ new.plain = pages[p].plain
          /\ new.touched = pages[p].touched \cup {t}
          /\ \A s \in Types \ {t} : new.rows[s] = pages[p].rows[s]
      BY <3>1 DEF Page
    <3>4. pages' = [pages EXCEPT ![p] = new] /\ requests' = requests
      BY <2>4, <3>2 DEF EditRow, Typed, TypeOK
    <3> HIDE DEF new
    <3>5. Shows(new)
      BY <3>1, <3>3 DEF Shows
    <3> QED  BY <3>4, <3>5, PageUpdateShows
  <2>5. ASSUME NEW p \in Pages, ClickSave(p) PROVE Shown'
    <3>1. pages[p] \in Page /\ Shows(pages[p])
      BY <2>5 DEF ClickSave, Ready, Typed, TypeOK, Shown, PagesShow
    <3> DEFINE send == [kind |-> "save", page |-> p, n |-> acts', body |-> Body(pages[p]),
                        base |-> pages[p].base, touched |-> pages[p].touched]
               new == [pages[p] EXCEPT !.base = IF @ = NoConfig THEN @ ELSE Body(pages[p]),
                                       !.touched = {}]
    <3>2. /\ new.plain = pages[p].plain /\ new.rows = pages[p].rows
          /\ new.base = NoConfig \/ new.base = Body(pages[p])
      BY <3>1 DEF Page
    <3>3. send.body = Body(pages[p]) /\ send.base = pages[p].base
          /\ send.touched = pages[p].touched
      OBVIOUS
    <3>4. pages' = [pages EXCEPT ![p] = new] /\ requests' = requests \cup {send}
      BY <2>5 DEF ClickSave, Typed, TypeOK
    <3> HIDE DEF new, send
    <3>5. Shows(new)
      BY <3>2, BodyOfRows DEF Shows, RowShows
    <3>6. Changes(send)
      <4> DEFINE pg == pages[p]
      <4>1. Shows(pg) /\ send.body = Body(pg) /\ send.base = pg.base /\ send.touched = pg.touched
        BY <3>1, <3>3
      <4> HIDE DEF pg
      <4>2. Body(pg).plain = pg.plain
        BY BodyOfRows
      <4>3. ASSUME NEW t \in Types \ pg.touched, pg.base # NoConfig,
                   Body(pg).enabled_types[t] # Unset, pg.base.enabled_types[t] # Unset
            PROVE  /\ Body(pg).printer_map[t] = pg.base.printer_map[t]
                   /\ Body(pg).enabled_types[t] = pg.base.enabled_types[t]
                   /\ pg.base.priority_map[t] # 0 =>
                         Body(pg).priority_map[t] = pg.base.priority_map[t]
        <5>1. /\ pg.rows[t] # NoRow
              /\ Body(pg).printer_map[t] = pg.rows[t].printer
              /\ Body(pg).enabled_types[t] = pg.rows[t].enabled
              /\ Body(pg).priority_map[t] = Parsed(pg.rows[t].priority)
          BY <4>3, BodyOfRows
        <5>2. RowShows(pg.rows[t], pg.base, t)
          BY <4>1, <4>3, <5>1 DEF Shows
        <5> QED  BY <5>1, <5>2 DEF RowShows
      <4> QED  BY <4>1, <4>2, <4>3 DEF Changes, Shows
    <3>7. PagesShow'
      BY <3>4, <3>5 DEF Typed, TypeOK, Shown, PagesShow
    <3>8. SavesShow'
      BY <3>4, <3>6 DEF Shown, SavesShow
    <3> QED  BY <3>7, <3>8 DEF Shown
  <2>6. ASSUME NEW r \in requests, ServeLoad(r) PROVE Shown'
    <3>1. r \in Load
      BY <2>6, SavesAreSaves DEF ServeLoad, Typed
    <3>2. \A q \in requests' : q \in requests \/ q.kind = "load"
      BY <2>6, <3>1 DEF ServeLoad, Load
    <3> QED  BY <2>6, <3>2 DEF ServeLoad, Shown, PagesShow, SavesShow
  <2>7. ASSUME NEW r \in requests, LoadBack(r) PROVE Shown'
    <3>1. r.page \in Pages /\ r.cfg \in Config
      BY <2>7, SavesAreSaves DEF LoadBack, Load, Typed
    <3> DEFINE new == [agent_id |-> r.cfg.agent_id, plain |-> r.cfg.plain,
                       rows |-> SyncRows(r.cfg, r.types),
                       loading |-> FALSE, base |-> r.cfg, touched |-> {}]
    <3>2. /\ new.plain = r.cfg.plain /\ new.base = r.cfg /\ new.rows = SyncRows(r.cfg, r.types)
      OBVIOUS
    <3>3. pages' = [pages EXCEPT ![r.page] = new] /\ requests' \subseteq requests
      BY <2>7 DEF LoadBack
    <3> HIDE DEF new
    <3>4. Shows(new)
      BY <3>1, <3>2, SyncRowsShow DEF Shows
    <3> QED  BY <3>1, <3>3, <3>4, PageUpdateShows
  <2>8. ASSUME NEW r \in requests, LoadFailed(r) PROVE Shown'
    <3>1. r.page \in Pages /\ pages[r.page] \in Page /\ Shows(pages[r.page])
      BY SavesAreSaves DEF Typed, TypeOK, OpenAsk, Shown, PagesShow
    <3> DEFINE new == [pages[r.page] EXCEPT !.loading = FALSE]
    <3>2. Shows(new)
      BY <3>1 DEF Shows, Page
    <3>3. pages' = [pages EXCEPT ![r.page] = new] /\ requests' \subseteq requests
      BY <2>8 DEF LoadFailed
    <3> HIDE DEF new
    <3> QED  BY <3>1, <3>2, <3>3, PageUpdateShows
  <2>9. ASSUME NEW r \in requests, ServeSave(r) \/ SaveFails(r) PROVE Shown'
    BY <2>9 DEF ServeSave, SaveFails, Shown, PagesShow, SavesShow
  <2> QED  BY <1>2, <2>1, <2>2, <2>3, <2>4, <2>5, <2>6, <2>7, <2>8, <2>9, Steps
<1> QED  BY <1>1, <1>2 DEF vars

LEMMA InitShown == Init => Shown
<1> QED  BY DEF Init, Shown, PagesShow, SavesShow

LEMMA AlwaysShown == Spec => []Shown
<1> QED  BY InitShown, ShownKept, AlwaysTyped, PTL DEF Spec

(***************************************************************************)
(* A request to save ends by being served, or by finding no daemon.        *)
(***************************************************************************)
LEMMA SaveEnds ==
    ASSUME Typed, [Next]_vars,
           NEW r \in requests, r.kind = "save", r \notin requests',
           memory # Down, memory' # Down
    PROVE  memory' = KeptId(r.body)
<1> DEFINE P == memory' = KeptId(r.body)
<1>1. requests' # requests
  OBVIOUS
<1>2. Next
  BY <1>1 DEF vars
<1>3. ASSUME DaemonStep PROVE P
  BY <1>1, <1>3 DEF DaemonStep
<1>4. ASSUME NEW p \in Pages, Open(p) \/ EditPlain(p) \/ ClickSave(p) PROVE P
  BY <1>4 DEF Open, EditPlain, ClickSave
<1>5. ASSUME NEW p \in Pages, NEW t \in Types, EditRow(p, t) PROVE P
  BY <1>1, <1>5 DEF EditRow
<1>6. ASSUME NEW q \in requests, ServeLoad(q) \/ LoadBack(q) \/ LoadFailed(q) PROVE P
  BY <1>6 DEF ServeLoad, LoadBack, LoadFailed
<1>7. ASSUME NEW q \in requests, ServeSave(q) \/ SaveFails(q) PROVE P
  <2>1. r = q /\ ServeSave(r)
    BY <1>7 DEF ServeSave, SaveFails
  <2> QED  BY <2>1 DEF ServeSave, Saved
<1> HIDE DEF P
<1>8. P
  BY <1>2, <1>3, <1>4, <1>5, <1>6, <1>7, Steps
<1> QED  BY <1>8 DEF P

(***************************************************************************)
(* A save from a page that shows what the daemon has changes what the user *)
(* changed on the page and nothing else, whatever other tabs, failed       *)
(* saves, loads that cross and restarts there were before (app.js:96-119,  *)
(* 131-142; README.md:330-331).                                            *)
(***************************************************************************)
THEOREM EditsOnly == Spec => OnlyEditsSaved
<1> DEFINE OnlyEdits ==
      \A r \in requests :
          /\ r.kind = "save" /\ r \notin requests'
          /\ memory # Down /\ memory' # Down
          /\ r.base # NoConfig /\ SameBut(memory, r.base)
          => /\ "plain" \notin r.touched => memory'.plain = memory.plain
             /\ \A t \in Types \ r.touched :
                   memory.enabled_types[t] # Unset /\ r.body.enabled_types[t] # Unset =>
                      /\ memory'.printer_map[t] = memory.printer_map[t]
                      /\ memory'.enabled_types[t] = memory.enabled_types[t]
                      /\ memory.priority_map[t] # 0 =>
                            memory'.priority_map[t] = memory.priority_map[t]
<1>1. ASSUME Typed, Shown, [Next]_vars PROVE OnlyEdits
  <2> SUFFICES ASSUME NEW r \in requests,
                      r.kind = "save", r \notin requests',
                      memory # Down, memory' # Down,
                      r.base # NoConfig, SameBut(memory, r.base)
               PROVE  /\ "plain" \notin r.touched => memory'.plain = memory.plain
                      /\ \A t \in Types \ r.touched :
                            memory.enabled_types[t] # Unset /\ r.body.enabled_types[t] # Unset =>
                               /\ memory'.printer_map[t] = memory.printer_map[t]
                               /\ memory'.enabled_types[t] = memory.enabled_types[t]
                               /\ memory.priority_map[t] # 0 =>
                                     memory'.priority_map[t] = memory.priority_map[t]
    OBVIOUS
  <2>1. r \in Save /\ memory \in Config
    BY <1>1, SavesAreSaves DEF Typed, TypeOK, ConfigType
  <2>2. r.base \in Config /\ r.body \in Config
    BY <2>1 DEF Save
  <2>3. /\ memory.plain = r.base.plain /\ memory.printer_map = r.base.printer_map
        /\ memory.enabled_types = r.base.enabled_types
        /\ memory.priority_map = r.base.priority_map
    <3> DEFINE c == [memory EXCEPT !.agent_id = 0]
               d == [r.base EXCEPT !.agent_id = 0]
    <3>1. c = d
      BY DEF SameBut
    <3>2. /\ c.plain = memory.plain /\ c.printer_map = memory.printer_map
          /\ c.enabled_types = memory.enabled_types /\ c.priority_map = memory.priority_map
      BY <2>1 DEF Config
    <3>3. /\ d.plain = r.base.plain /\ d.printer_map = r.base.printer_map
          /\ d.enabled_types = r.base.enabled_types /\ d.priority_map = r.base.priority_map
      BY <2>2 DEF Config
    <3> HIDE DEF c, d
    <3> QED  BY <3>1, <3>2, <3>3
  <2>4. memory' = KeptId(r.body)
    BY <1>1, SaveEnds
  <2>5. /\ memory'.plain = r.body.plain /\ memory'.printer_map = r.body.printer_map
        /\ memory'.enabled_types = r.body.enabled_types
        /\ memory'.priority_map = r.body.priority_map
    BY <2>2, <2>4 DEF KeptId, Config
  <2>6. Changes(r)
    BY <1>1 DEF Shown, SavesShow
  <2> QED  BY <2>3, <2>5, <2>6 DEF Changes
<1>2. Typed /\ Shown /\ [Next]_vars => [OnlyEdits]_vars
  BY <1>1
<1> QED  BY <1>2, AlwaysTyped, AlwaysShown, PTL DEF Spec, OnlyEditsSaved
===============================================================================
