---------------------------- MODULE SettingsPage ------------------------------
(***************************************************************************)
(* The settings page of the web UI (ui/assets/app.js, settings) in several *)
(* browser tabs, over the daemon's configuration (ConfigStore).            *)
(*                                                                         *)
(* A page loads when it is opened and never again.  It loads twice: Alpine *)
(* calls the init of a component by itself, and index.html:104 calls it    *)
(* once more by x-init.  Of the three requests of a load, /printers only   *)
(* fills a list of suggestions, but the load fails if it does.             *)
(***************************************************************************)
EXTENDS ConfigStore

CONSTANTS
    Pages,
    BlankPlain,     \* what the page has in the plain fields before it has loaded
    TemplateSets,   \* the types there are templates of, when a page may load
    Empty,          \* a number field without a number: null
    Offered,        \* what users make of a priority
    LoadsMayFail,
    Closed, NoRow,
    MaxActs         \* bound: what users do, opening pages apart

ASSUME PageAssumption ==
    /\ BlankPlain \in Plain
    /\ TemplateSets \subseteq SUBSET Types
    /\ Empty \notin Nat /\ Offered \subseteq Nat \cup {Empty}
    /\ LoadsMayFail \in BOOLEAN
    /\ MaxActs \in Nat

VARIABLES
    pages,
    requests,   \* requests sent and not yet back
    acts

vars == <<daemon, pages, requests, acts>>

Row == [printer : Printers \cup {Unset}, enabled : BOOLEAN, priority : Nat \cup {Empty}]
\* this.cfg's plain fields and agent_id, this.rows and this.loading.  Ghosts:
\* the configuration the page shows but for the user's changes, and these.
Page == [agent_id : 0..MaxStarts, plain : Plain, rows : [Types -> Row \cup {NoRow}],
         loading : BOOLEAN,
         base : Config \cup {NoConfig}, touched : SUBSET (Types \cup {"plain"})]

ASSUME ClosedIsNoPage == Closed \notin Page

Load == [kind : {"load"}, page : Pages, n : {1, 2},
         cfg : Config \cup {NoConfig}, types : SUBSET Types]
Save == [kind : {"save"}, page : Pages, n : 1..MaxActs, body : Config,
         base : Config \cup {NoConfig}, touched : SUBSET (Types \cup {"plain"})]

(***************************************************************************)
(* The types of the state; what a page sends is a configuration, whatever  *)
(* the user has left in its fields (app.js:131-142).                       *)
(***************************************************************************)
TypeOK ==
    /\ ConfigType
    /\ pages \in [Pages -> Page \cup {Closed}]
    /\ requests \subseteq Load \cup Save
    /\ acts \in 0..MaxActs

-------------------------------------------------------------------------------
BlankPage == [agent_id |-> 0, plain |-> BlankPlain, rows |-> [t \in Types |-> NoRow],
              loading |-> TRUE, base |-> NoConfig, touched |-> {}]

\* init, called twice.  Bound: a tab is opened when the others have loaded.
Open(p) ==
    /\ pages[p] = Closed
    /\ \A r \in requests : r.kind # "load"
    /\ memory # Down
    /\ pages' = [pages EXCEPT ![p] = BlankPage]
    /\ requests' = requests \cup
          {[kind |-> "load", page |-> p, n |-> i, cfg |-> NoConfig, types |-> {}] : i \in {1, 2}}
    /\ UNCHANGED <<daemon, acts>>

\* GetSettings, and ListTemplates: whatever types have a template by then.
ServeLoad(r) ==
    /\ r.kind = "load"
    /\ r.cfg = NoConfig
    /\ memory # Down
    /\ \E ts \in TemplateSets :
          requests' = (requests \ {r}) \cup {[r EXCEPT !.cfg = memory, !.types = ts]}
    /\ UNCHANGED <<daemon, pages, acts>>

\* A plausible slip: || where the code has ??, and FALSE becomes TRUE.
SyncRowsOr(c, ts) ==
    [t \in Types |->
        IF t \notin ts THEN NoRow
        ELSE [printer |-> c.printer_map[t],
              enabled |-> TRUE,
              priority |-> IF c.priority_map[t] = Unset THEN 0 ELSE c.priority_map[t]]]

\* syncRows: a type that is not listed is shown as enabled.
SyncRows(c, ts) ==
    [t \in Types |->
        IF t \notin ts THEN NoRow
        ELSE [printer |-> c.printer_map[t],
              enabled |-> c.enabled_types[t] # FALSE,
              priority |-> IF c.priority_map[t] = Unset THEN 0 ELSE c.priority_map[t]]]

\* The rest of init.  What the user has typed meanwhile is overwritten.
LoadBack(r) ==
    /\ r.kind = "load"
    /\ r.cfg # NoConfig
    /\ requests' = requests \ {r}
    /\ pages' = [pages EXCEPT ![r.page] =
          [agent_id |-> r.cfg.agent_id, plain |-> r.cfg.plain, rows |-> SyncRows(r.cfg, r.types),
           loading |-> FALSE, base |-> r.cfg, touched |-> {}]]
    /\ UNCHANGED <<daemon, acts>>

\* One of the three requests failed: loading ends all the same.
LoadFailed(r) ==
    /\ LoadsMayFail
    /\ r.kind = "load"
    /\ r.cfg = NoConfig
    /\ requests' = requests \ {r}
    /\ pages' = [pages EXCEPT ![r.page].loading = FALSE]
    /\ UNCHANGED <<daemon, acts>>

-------------------------------------------------------------------------------
Act == acts < MaxActs /\ acts' = acts + 1

\* What one edit makes of a row.
Edited(row) ==
    {[row EXCEPT !.printer = x] : x \in Printers \cup {Unset}} \cup
    {[row EXCEPT !.enabled = ~@]} \cup
    {[row EXCEPT !.priority = n] : n \in Offered}

Ready(p) == pages[p] # Closed /\ ~pages[p].loading

EditRow(p, t) ==
    /\ Act
    /\ Ready(p)
    /\ pages[p].rows[t] # NoRow
    /\ \E row \in Edited(pages[p].rows[t]) \ {pages[p].rows[t]} :
          pages' = [pages EXCEPT ![p].rows[t] = row, ![p].touched = @ \cup {t}]
    /\ UNCHANGED <<daemon, requests>>

EditPlain(p) ==
    /\ Act
    /\ Ready(p)
    /\ \E x \in Plain \ {pages[p].plain, BlankPlain} :
          pages' = [pages EXCEPT ![p].plain = x, ![p].touched = @ \cup {"plain"}]
    /\ UNCHANGED <<daemon, requests>>

\* A plausible slip: what is in the field is sent as it is.
BodyUnparsed(pg) ==
    LET Of(t, entry) == IF pg.rows[t] = NoRow THEN Unset ELSE entry IN
    [agent_id |-> pg.agent_id, plain |-> pg.plain,
     printer_map   |-> [t \in Types |-> Of(t, pg.rows[t].printer)],
     enabled_types |-> [t \in Types |-> Of(t, pg.rows[t].enabled)],
     priority_map  |-> [t \in Types |-> Of(t, pg.rows[t].priority)]]

\* What becomes of a priority: parseInt makes NaN of an empty field, JSON makes
\* null of that, and Go an entry of 0.
Parsed(n) == IF n = 0 THEN Unset ELSE IF n = Empty THEN 0 ELSE n

\* The body of save: this.cfg with maps made of the rows, and of nothing else.
Body(pg) ==
    LET Of(t, entry) == IF pg.rows[t] = NoRow THEN Unset ELSE entry IN
    [agent_id |-> pg.agent_id, plain |-> pg.plain,
     printer_map   |-> [t \in Types |-> Of(t, pg.rows[t].printer)],
     enabled_types |-> [t \in Types |-> Of(t, pg.rows[t].enabled)],
     priority_map  |-> [t \in Types |-> Of(t, Parsed(pg.rows[t].priority))]]

\* From here on the page shows what it has sent.
ClickSave(p) ==
    /\ Act
    /\ Ready(p)
    /\ requests' = requests \cup
          {[kind |-> "save", page |-> p, n |-> acts', body |-> Body(pages[p]),
            base |-> pages[p].base, touched |-> pages[p].touched]}
    /\ pages' = [pages EXCEPT ![p].base = IF @ = NoConfig THEN @ ELSE Body(pages[p]),
                              ![p].touched = {}]
    /\ UNCHANGED daemon

\* SaveSettings.  Its answer only makes the page say how it went.
ServeSave(r) ==
    /\ r.kind = "save"
    /\ \E answer \in {"ok", "failed"} : Saved(r.body, answer)
    /\ requests' = requests \ {r}
    /\ UNCHANGED <<pages, acts>>

\* The request does not reach a running daemon.
SaveFails(r) ==
    /\ r.kind = "save"
    /\ memory = Down
    /\ requests' = requests \ {r}
    /\ UNCHANGED <<daemon, pages, acts>>

-------------------------------------------------------------------------------
Init ==
    /\ ConfigInit
    /\ pages = [p \in Pages |-> Closed]
    /\ requests = {}
    /\ acts = 0

Next ==
    \/ (Start \/ Stop) /\ UNCHANGED <<pages, requests, acts>>
    \/ \E p \in Pages : \/ Open(p) \/ EditPlain(p) \/ ClickSave(p)
                        \/ \E t \in Types : EditRow(p, t)
    \/ \E r \in requests : \/ ServeLoad(r) \/ LoadBack(r) \/ LoadFailed(r)
                           \/ ServeSave(r) \/ SaveFails(r)

Spec == Init /\ [][Next]_vars

-------------------------------------------------------------------------------
SameBut(c, d) == [c EXCEPT !.agent_id = 0] = [d EXCEPT !.agent_id = 0]

(***************************************************************************)
(* A save from a page that shows what the daemon has changes what the user *)
(* changed on the page and nothing else, whatever other tabs, failed       *)
(* saves, loads that cross and restarts there were before: types the page  *)
(* has a row for and the configuration lists, and the plain fields.  A     *)
(* priority of 0 is left out: a page cannot show that one is listed        *)
(* (app.js:96-119, 131-142; README.md:330-331).                            *)
(***************************************************************************)
OnlyEditsSaved ==
    [][\A r \in requests :
          /\ r.kind = "save" /\ r \notin requests'
          /\ memory # Down /\ memory' # Down
          /\ r.base # NoConfig /\ SameBut(memory, r.base)
          => /\ "plain" \notin r.touched => memory'.plain = memory.plain
             /\ \A t \in Types \ r.touched :
                   memory.enabled_types[t] # Unset /\ r.body.enabled_types[t] # Unset =>
                      /\ memory'.printer_map[t] = memory.printer_map[t]
                      /\ memory'.enabled_types[t] = memory.enabled_types[t]
                      /\ memory.priority_map[t] # 0 =>
                            memory'.priority_map[t] = memory.priority_map[t]]_vars
===============================================================================
