--------------------------- MODULE TemplateEditor ----------------------------
(***************************************************************************)
(* The template editor of the web UI (ui/assets/app.js, templateEditor),   *)
(* the template handlers and the template files behind it                  *)
(* (internal/template/store.go), which the daemon seeds at every start     *)
(* (internal/app/app.go, seedDefaults).                                    *)
(*                                                                         *)
(* Each function of the page runs up to its await, the server serves the   *)
(* request some time later, and the rest of the function runs when the     *)
(* answer is there; meanwhile the user may do something else, unless the   *)
(* user is Patient.  Beside all that runs the preview: a timer, and texts  *)
(* sent to be rendered, any number of them at a time.                      *)
(*                                                                         *)
(* A text is known by the type it was written for, `of', a version, and    *)
(* its size: short, long if it has more than the 512 KB the server reads,  *)
(* cut if it is the beginning of another text and no more.                 *)
(***************************************************************************)
EXTENDS Integers, Sequences, SequencesExt

CONSTANTS
    Types,
    Defaults,       \* the types with an embedded template
    Patient,        \* does the user wait for what is under way?
    Heedful,        \* does the user save only texts known to be of the tab?
    MayFail,        \* kinds of requests that may fail, and "seed"
    Unreadable,     \* the types whose file a starting daemon may fail to read
    NoType, NoText,
    MaxActs,        \* bound: what the user does
    MaxPreviews,    \* bound: texts being rendered at a time
    MaxRestarts     \* bound: restarts of the daemon

ASSUME EditorAssumption ==
    /\ Defaults \subseteq Types
    /\ NoType \notin Types
    /\ Patient \in BOOLEAN /\ Heedful \in BOOLEAN
    /\ MayFail \subseteq {"list", "get", "put", "create", "delete", "preview", "seed"}
    /\ Unreadable \subseteq Types
    /\ {MaxActs, MaxPreviews, MaxRestarts} \subseteq Nat

VARIABLES
    files,      \* the text of each type's file, or NoText if there is none
    requests,   \* requests sent and not yet back at the page
    types,      \* this.types, the tabs
    active,     \* this.active, the highlighted tab
    editor,     \* the text in the Ace editor
    unsaved,    \* this.unsaved
    timer,      \* this.debounceTimer is running
    preview,    \* the text previewHtml renders: Blank if empty, NoText if empty by a failure
    previews,   \* texts sent to /api/preview, oldest first
    overtaken,  \* ghost: the newest text was rendered before an older one
    stored,     \* ghost: of each type, the text last acknowledged as written
    doubts,     \* ghost: what a failure or a No put in doubt since the last load
    acts, restarts

page  == <<types, active, editor, unsaved>>
shown == <<timer, preview, previews, overtaken>>
vars  == <<files, requests, page, shown, stored, doubts, acts, restarts>>

\* A text without a character in it has version -1.
Blank == [of |-> NoType, v |-> -1, size |-> "short"]
Text  == {Blank} \cup [of : Types, v : -1..MaxActs, size : {"short", "long", "cut"}]

ASSUME NoTextIsNone == NoText \notin Text

IsBlank(text) == text.v = -1
\* The embedded template of a type, and the stub a new type begins with.
Given(t) == [of |-> t, v |-> 0, size |-> "short"]

\* A text is in the editor but may not be of the active type ("editor"); what
\* the file holds is not known to the page ("file").
Doubt == {"editor", "file"}

Request ==
    [act : -1..MaxActs, kind : {"list", "get", "put", "create", "delete"},
     type : Types \cup {NoType}, text : Text \cup {NoText},
     listed : SUBSET Types, stage : {"sent", "ok", "failed"}]

\* A request as it is sent, on behalf of the user's act number n.
Sent(n, kind, t, text) ==
    [act |-> n, kind |-> kind, type |-> t, text |-> text, listed |-> {}, stage |-> "sent"]

(***************************************************************************)
(* The types of the state, and active is a type or null (app.js:152-162).  *)
(***************************************************************************)
TypeOK ==
    /\ files \in [Types -> Text \cup {NoText}]
    /\ requests \subseteq Request
    /\ types \subseteq Types
    /\ active \in Types \cup {NoType}
    /\ editor \in Text
    /\ unsaved \in BOOLEAN /\ timer \in BOOLEAN
    /\ preview \in Text \cup {NoText}
    /\ previews \in Seq(Text)
    /\ overtaken \in BOOLEAN
    /\ doubts \subseteq Doubt
    /\ stored \in [Types -> Text \cup {NoText}]
    /\ acts \in 0..MaxActs
    /\ restarts \in 0..MaxRestarts

-------------------------------------------------------------------------------
(***************************************************************************)
(* The daemon.                                                             *)
(***************************************************************************)
\* The defaults that store.Get says it has no text for, if it cannot read those
\* of `unread': seedDefaults does not ask why.
Missing(unread) == {t \in Defaults : files[t] = NoText \/ t \in unread}

\* A plausible slip: the test for a template that is there already is missing.
SeededOver(missing) == [t \in Types |-> IF t \in Defaults THEN Given(t) ELSE files[t]]

\* The embedded templates are written for the types that miss one.
Seeded(missing) == [t \in Types |-> IF t \in missing THEN Given(t) ELSE files[t]]

\* What SaveTemplate reads of a body: 512 KB, and no error if there is more.
Capped(text) == IF text.size = "long" THEN [text EXCEPT !.size = "cut"] ELSE text

\* What serving a request does to the files.
Effect(r) ==
    CASE r.kind \in {"put", "create"} -> [files EXCEPT ![r.type] = Capped(r.text)]
      [] r.kind = "delete"            -> [files EXCEPT ![r.type] = NoText]
      [] OTHER                        -> files

\* A write that fails half way leaves a file without a text or with the
\* beginning of one.
Torn(text) ==
    {[of |-> text.of, v |-> -1, size |-> "short"]} \cup
    (IF IsBlank(text) THEN {} ELSE {[text EXCEPT !.size = "cut"]})

HalfDone(r) ==
    IF r.kind \in {"put", "create"}
    THEN {[files EXCEPT ![r.type] = text] : text \in Torn(r.text)}
    ELSE {}

\* The answer: List's types, Get's text or 404.
Answer(r) ==
    CASE r.kind = "list" -> [r EXCEPT !.stage = "ok",
                                      !.listed = {t \in Types : files[t] # NoText}]
      [] r.kind = "get"  -> [r EXCEPT !.stage = IF files[r.type] = NoText THEN "failed" ELSE "ok",
                                      !.text = files[r.type]]
      [] OTHER           -> [r EXCEPT !.stage = "ok"]

Serve(r) ==
    /\ r.stage = "sent"
    /\ files' = Effect(r)
    /\ requests' = (requests \ {r}) \cup {Answer(r)}
    /\ UNCHANGED <<page, shown, stored, doubts, acts, restarts>>

\* An error status, or no answer: done, not done or half done.
Fail(r) ==
    /\ r.stage = "sent"
    /\ r.kind \in MayFail
    /\ files' \in {files, Effect(r)} \cup HalfDone(r)
    /\ requests' = (requests \ {r}) \cup {[r EXCEPT !.stage = "failed"]}
    /\ UNCHANGED <<page, shown, stored, doubts, acts, restarts>>

\* The daemon is started again; what it was asked meanwhile fails.  A default
\* that cannot be written ends the seeding, which is only logged.
Restart ==
    /\ restarts < MaxRestarts
    /\ restarts' = restarts + 1
    /\ \A r \in requests : r.stage = "sent" => r.kind \in MayFail
    /\ \E unread \in SUBSET Unreadable : \E missing \in SUBSET Missing(unread) :
          /\ missing # Missing(unread) => "seed" \in MayFail
          /\ files' = Seeded(missing)
    /\ requests' = {IF r.stage = "sent" THEN [r EXCEPT !.stage = "failed"] ELSE r : r \in requests}
    /\ UNCHANGED <<page, shown, stored, doubts, acts>>

-------------------------------------------------------------------------------
(***************************************************************************)
(* openType(t), called with `was' as this.active while `others' are the    *)
(* requests under way.                                                     *)
(***************************************************************************)
\* A plausible slip: the tab is switched before the user is asked.
OpenTypeSwitched(t, was, others, n) ==
    \/ /\ active' = t
       /\ unsaved' = FALSE
       /\ requests' = others \cup {Sent(n, "get", t, NoText)}
    \/ /\ unsaved /\ was # NoType
       /\ active' = t
       /\ unsaved' = unsaved
       /\ requests' = others

\* The tab is opened, nothing being unsaved or the user discarding it; or the
\* user is asked and says No.
OpenType(t, was, others, n) ==
    \/ /\ active' = t
       /\ unsaved' = FALSE
       /\ requests' = others \cup {Sent(n, "get", t, NoText)}
    \/ /\ unsaved /\ was # NoType
       /\ active' = was
       /\ unsaved' = unsaved
       /\ requests' = others

\* The user does something on the page, and awaits request r.
Act == /\ acts < MaxActs
       /\ acts' = acts + 1
       /\ Patient => requests = {}

ClickTab(t) ==
    /\ Act
    /\ t \in types
    /\ OpenType(t, active, requests, acts')
    /\ UNCHANGED <<files, types, editor, shown, stored, doubts, restarts>>

\* Ace's change event sets unsaved.
Type ==
    /\ Act
    /\ active # NoType
    /\ \E size \in {"short", "long"} :
          editor' = [of |-> IF IsBlank(editor) THEN active ELSE editor.of, v |-> acts', size |-> size]
    /\ unsaved' = TRUE
    /\ timer' = TRUE
    /\ UNCHANGED <<files, requests, types, active, preview, previews, overtaken, stored, doubts,
                   restarts>>

\* The user empties the editor.
Empty ==
    /\ Act
    /\ active # NoType
    /\ ~IsBlank(editor)
    /\ editor' = [of |-> active, v |-> -1, size |-> "short"]
    /\ unsaved' = TRUE
    /\ timer' = TRUE
    /\ UNCHANGED <<files, requests, types, active, preview, previews, overtaken, stored, doubts,
                   restarts>>

\* From here on what is stored under the type is not known until the answer.
Send(kind, t, text) ==
    /\ requests' = requests \cup {Sent(acts', kind, t, text)}
    /\ stored' = [stored EXCEPT ![t] = NoText]

ClickSave ==
    /\ Act
    /\ active # NoType
    /\ Heedful => "editor" \notin doubts
    /\ Send("put", active, editor)
    /\ UNCHANGED <<files, page, shown, doubts, restarts>>

ClickDelete ==
    /\ Act
    /\ active # NoType
    /\ Send("delete", active, NoText)
    /\ UNCHANGED <<files, page, shown, doubts, restarts>>

\* confirmNewType does not look whether there is such a type.
ClickCreate(t) ==
    /\ Act
    /\ Send("create", t, Given(t))
    /\ UNCHANGED <<files, page, shown, doubts, restarts>>

-------------------------------------------------------------------------------
(***************************************************************************)
(* The preview.  schedulePreview only sets the timer.                      *)
(***************************************************************************)
Ready == Len(previews) < MaxPreviews

\* A plausible slip: an empty text is not sent, and nothing else is done.
UpdatePreviewKept(text) ==
    /\ previews' = IF IsBlank(text) THEN previews ELSE Append(previews, text)
    /\ overtaken' = (IsBlank(text) /\ previews # <<>>)
    /\ UNCHANGED preview

\* updatePreview does not look whether others are under way: those that are will
\* come after the empty preview of an empty text.
UpdatePreview(text) ==
    \/ /\ IsBlank(text)
       /\ preview' = Blank
       /\ overtaken' = (previews # <<>>)
       /\ UNCHANGED previews
    \/ /\ ~IsBlank(text)
       /\ previews' = Append(previews, text)
       /\ overtaken' = FALSE
       /\ UNCHANGED preview

TimerFires ==
    /\ timer
    /\ Ready
    /\ timer' = FALSE
    /\ UpdatePreview(editor)
    /\ UNCHANGED <<files, requests, page, stored, doubts, acts, restarts>>

\* A rendering comes, in whatever order, or the server refuses the text.
PreviewBack(i) ==
    /\ preview' \in {previews[i]} \cup (IF "preview" \in MayFail THEN {NoText} ELSE {})
    /\ previews' = RemoveAt(previews, i)
    /\ overtaken' = (overtaken \/ (i = Len(previews) /\ i > 1))
    /\ UNCHANGED <<files, requests, page, timer, stored, doubts, acts, restarts>>

-------------------------------------------------------------------------------
(***************************************************************************)
(* What the page does when request r is back.                              *)
(***************************************************************************)
Back(r, kind) == r.kind = kind /\ r.stage \in {"ok", "failed"}
Without(r) == requests \ {r}

\* setValue fires Ace's change event, which sets unsaved and the timer.
SetValue(text) ==
    LET changed == ~(IsBlank(editor) /\ IsBlank(text)) IN
    /\ editor' = text
    /\ unsaved' = (unsaved \/ changed)
    /\ timer' = (timer \/ changed)

\* A plausible slip: this.types[0] without the `?? null'.
FirstTabUnchecked(tabs) == IF tabs = {} THEN "undefined" ELSE CHOOSE t \in tabs : TRUE

\* this.types[0] ?? null; the tabs have an order, whatever it is.
FirstTab(tabs) == IF tabs = {} THEN NoType ELSE CHOOSE t \in tabs : TRUE

\* The rest of init (NoType: open the first tab) or of confirmNewType.
\* A list that failed leaves the tabs as they were.
ListBack(r) ==
    /\ Back(r, "list")
    /\ types' = IF r.stage = "ok" THEN r.listed ELSE types
    /\ LET wanted == IF r.type = NoType THEN types' ELSE {r.type} IN
       \/ /\ wanted = {}
          /\ requests' = Without(r)
          /\ UNCHANGED <<active, unsaved>>
       \/ /\ wanted # {}
          /\ OpenType(FirstTab(wanted), active, Without(r), r.act)
    /\ UNCHANGED <<files, editor, shown, stored, doubts, acts, restarts>>

\* When it failed the editor keeps the text it has.
GetBack(r) ==
    /\ Back(r, "get")
    /\ requests' = Without(r)
    /\ IF r.stage = "ok"
       THEN /\ SetValue(r.text)
            /\ Ready
            /\ UpdatePreview(r.text)
            /\ doubts' = {}
       ELSE doubts' = doubts \cup {"editor"} /\ UNCHANGED <<editor, unsaved, shown>>
    /\ UNCHANGED <<files, types, active, stored, acts, restarts>>

\* Once written the file is the editor's text again; if the write failed it may
\* be another, which only a text that is unsaved is known to differ from.
DoubtsAfterPut(r) ==
    IF r.stage = "ok" THEN doubts \ {"file"}
    ELSE IF unsaved THEN doubts ELSE doubts \cup {"file"}

\* A plausible slip: the flag is cleared whether the save succeeded or not.
PutBackCleared(r) ==
    /\ Back(r, "put")
    /\ requests' = Without(r)
    /\ unsaved' = FALSE
    /\ stored' = IF r.stage = "ok" THEN [stored EXCEPT ![r.type] = r.text] ELSE stored
    /\ doubts' = DoubtsAfterPut(r)
    /\ UNCHANGED <<files, types, active, editor, shown, acts, restarts>>

PutBack(r) ==
    /\ Back(r, "put")
    /\ requests' = Without(r)
    /\ unsaved' = (unsaved /\ r.stage = "failed")
    /\ stored' = IF r.stage = "ok" THEN [stored EXCEPT ![r.type] = r.text] ELSE stored
    /\ doubts' = DoubtsAfterPut(r)
    /\ UNCHANGED <<files, types, active, editor, shown, acts, restarts>>

CreateBack(r) ==
    /\ Back(r, "create")
    /\ \/ /\ r.stage = "ok"
          /\ requests' = Without(r) \cup {Sent(r.act, "list", r.type, NoText)}
          /\ stored' = [stored EXCEPT ![r.type] = r.text]
          /\ UNCHANGED doubts
       \/ /\ r.stage = "failed"
          /\ requests' = Without(r)
          /\ doubts' = doubts \cup {"file"}
          /\ UNCHANGED stored
    /\ UNCHANGED <<files, page, shown, acts, restarts>>

\* this.active is read anew: it may not be the type that was deleted.  On No
\* the deleted type's text stays in the editor, under another tab.
DeleteBack(r) ==
    /\ Back(r, "delete")
    /\ \/ /\ r.stage = "ok"
          /\ types' = types \ {active}
          /\ LET next == FirstTab(types') IN
             \/ /\ types' # {}
                /\ OpenType(next, next, Without(r), r.act)
                /\ doubts' = IF unsaved' THEN doubts \cup {"editor"} ELSE doubts
                /\ UNCHANGED <<editor, timer>>
             \/ /\ types' = {}
                /\ active' = next
                /\ SetValue(Blank)
                /\ requests' = Without(r)
                /\ UNCHANGED doubts
       \/ /\ r.stage = "failed"
          /\ requests' = Without(r)
          /\ doubts' = doubts \cup {"file"}
          /\ UNCHANGED <<page, timer>>
    /\ UNCHANGED <<files, preview, previews, overtaken, stored, acts, restarts>>

-------------------------------------------------------------------------------
\* The first start has seeded the files.  Alpine runs init, and so does the
\* page's x-init: the list is asked for twice.
Init ==
    /\ files = [t \in Types |-> IF t \in Defaults THEN Given(t) ELSE NoText]
    /\ requests = {Sent(n, "list", NoType, NoText) : n \in {-1, 0}}
    /\ types = {}
    /\ active = NoType
    /\ editor = Blank
    /\ unsaved = FALSE
    /\ timer = FALSE /\ preview = Blank /\ previews = <<>> /\ overtaken = FALSE
    /\ stored = [t \in Types |-> NoText]
    /\ doubts = {}
    /\ acts = 0
    /\ restarts = 0

UserStep ==
    Type \/ Empty \/ ClickSave \/ ClickDelete \/ \E t \in Types : ClickTab(t) \/ ClickCreate(t)

PageStep(r) == ListBack(r) \/ GetBack(r) \/ PutBack(r) \/ CreateBack(r) \/ DeleteBack(r)

Next ==
    \/ UserStep
    \/ Restart
    \/ TimerFires
    \/ \E i \in DOMAIN previews : PreviewBack(i)
    \/ \E r \in requests : Serve(r) \/ Fail(r) \/ PageStep(r)

Spec == Init /\ [][Next]_vars

-------------------------------------------------------------------------------
(***************************************************************************)
(* A type's file holds a text that was written for that type: kitchen      *)
(* orders print by the kitchen's template (store.go:11-13, README.md:46).  *)
(***************************************************************************)
FilesOfTheirType == \A t \in Types : files[t] # NoText => files[t].of = t

\* The types whose file the daemon may take for missing, and write over.
AtRisk == Defaults \cap Unreadable

(***************************************************************************)
(* When nothing is under way and nothing is in doubt, a text in the editor *)
(* that the server would not store as what the file of its tab is, is      *)
(* marked unsaved, so the page asks before it discards it (app.js:180-183, *)
(* 199, 241).                                                              *)
(***************************************************************************)
UnsavedMarked ==
    requests = {} /\ doubts = {} /\ active \notin {NoType} \cup AtRisk
        /\ files[active] # Capped(editor)
    => unsaved

(***************************************************************************)
(* Of a text whose save was acknowledged, and after which nothing else was *)
(* asked for its type, what the server read of it is on disk, restarts     *)
(* included, unless a default's file could not be read at one (store.go:   *)
(* 37-43, app.go:214-215).                                                 *)
(***************************************************************************)
AcknowledgedStays ==
    \A t \in Types \ AtRisk : stored[t] # NoText => files[t] = Capped(stored[t])

Settled == ~timer /\ previews = <<>>

\* The preview of what is in the editor: nothing if that is nothing, or could
\* not be rendered.
OfEditor == {NoText, IF IsBlank(editor) THEN Blank ELSE editor}

(***************************************************************************)
(* However many renderings are under way at a time, when the last is there *)
(* and the timer is not running, the preview shows the text in the editor, *)
(* unless the rendering of the newest text came before that of an older    *)
(* one (app.js:211-234).                                                   *)
(***************************************************************************)
PreviewCurrent == Settled /\ ~overtaken => preview \in OfEditor
===============================================================================
