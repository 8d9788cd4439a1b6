# arghzprint in TLA+

arghzprint is a print daemon for restaurants. A backend (a web application that
is not in this repository) holds print jobs; each station runs a daemon, here an
*agent*, that receives jobs, renders them and prints them. The README promises
that several agents may share a backend without printing anything twice, and
that jobs created while an agent was away are not lost. There are no tests in
the repository. This directory states what the daemon does, checks it with TLC
on small instances, and proves with TLAPS, for instances of any size, every
safety property it checks.

Contents: 1 inventory, 2 the modules and the code, 3 what is checked, 4 bounds,
5 fairness, 6 what is proved, 7 disagreements with the documentation, 8 what is
not modelled, 9 plan.

## 1. Inventory

| part | code | state | operations |
|---|---|---|---|
| Agent: connection | `internal/agent/agent.go`, `websocket.go`, `polling.go` | `sendCh`; the current WebSocket; the backoff | `Run`, `RunPolling`, `runWebSocket`, `fetchPending`, `SendOut`, `helloMessage` |
| Agent: intake | `agent.go:109-150`, `polling.go:60-161` | none of its own | `claimAndEnqueue`, `ClaimJob`, `UpdateStatus` |
| Print worker | `internal/app/app.go:128-212, 277-289` | the job in hand, its attempt | `runWorker`, `process`, `printJob` |
| Queue | `internal/job/queue.go` | a slice in heap order, `seq` | `Push`, `Pop`, `Len` |
| History | `internal/job/history.go` | the latest records | `Add`, `All` |
| Process | `internal/app/app.go:60-126`, `cmd/arghzprint/main.go` | the goroutines, `ctx` | start, SIGTERM, `wg.Wait` |
| Backend protocol | `pkg/protocol/protocol.go`, README.md | a lifecycle state and an owner per job (at the backend) | claim, PATCH, pending, push |
| Configuration | `internal/config/config.go`, `handler/settings.go` | `config.json`, the copy in memory | `load`, `Get`, `Save`, `write`; `SaveSettings` |
| Templates | `internal/template/`, `handler/templates.go` | one file per type | `List`, `Get`, `Save`, `Delete`, `seedDefaults`; rendering |
| Renderer, tools, printers | `internal/renderer/`, `internal/printer/`, `tools/` | the extracted binary; a mutex | render, print, list printers |
| Web server | `internal/server/` | none | routing, views, test print |
| Web UI: templates | `ui/assets/app.js:153-274` | tabs, the editor's text, the preview | open, edit, save, delete, create, preview |
| Web UI: settings | `app.js:76-149` | a copy of the configuration, a row per template | load, edit, save |
| Web UI: status | `app.js:53-72` | whether the agent is connected | poll |

How they interact:

- The *main* goroutine of an agent (`Run` or `RunPolling`) connects, sends
  `printer.hello`, fetches pending jobs and passes each to `claimAndEnqueue`.
  In WebSocket mode it then starts a *reader*, which passes every pushed job to
  `claimAndEnqueue` as well. `runWebSocket` returns when the connection breaks
  and does not wait for its reader: readers of sessions that are over may run
  beside the next session.
- `claimAndEnqueue` does two HTTP requests, claim and PATCH ACKNOWLEDGED, and
  then pushes the job on the queue, which it shares with the worker.
- The *worker* pops the queue, PATCHes PRINTING, runs the print command with
  retries, PATCHes the outcome and adds a history record.
- The *web server* changes the configuration while the others read it: every
  one of them reads it anew when it needs it (but for the connection mode, the
  polling interval, the port and the paper width, which are read at the start).
- The *pages* of the web UI ask the web server and go on when it answers. Several
  tabs share nothing but the daemon.
- All HTTP requests go through `http.DefaultClient`, which has no timeout. They
  end by an answer, an error, or the cancellation of `ctx`.

What is hard here, and by which property each part is correct:

| part | hard | correct when |
|---|---|---|
| intake | one job reaches several agents, or one agent twice; claim replies lost | one agent handles a job (`OnlyOwnerHandles`), in one place at a time (`HandledOnce`) |
| connection | pushes lost with the connection, stale readers, failed fetches | jobs are not lost (`NoJobIsLost`) |
| connection in time | peers that fall silent, a reader held up by jobs, a backoff that only grows | silence is noticed (`SilenceNoticed`), a healthy session is kept (`HealthyKept`), the agent is back in time (`ReconnectsInTime`) |
| worker | requests lost or late, printers that err after printing, SIGTERM at any time | reports in order (`ReportsInOrder`), backend never ahead of the facts (`BackendNotAhead`), at most MaxRetries copies (`CopiesBounded`), shutdown ends (`ShutdownEnds`) |
| queue | heap order and the tie-breaker | priority, FIFO among equals (`ImplementsQueue`) |
| history | its limit; failures that are not recorded | the dashboard's records are true (`HistoryTruthful`) |
| settings | change under goroutines and after the hello | what is not listed is not claimed (`UnlistedUntouched`) |
| templates, template editor | answers out of order, state read before and after an await, requests that fail, writes half done, saves cut to 512 KB, seeding over what cannot be read | a file holds a text of its own type (`FilesOfTheirType`), unsaved texts are marked (`UnsavedMarked`), what the server read of an acknowledged save stays (`AcknowledgedStays`), the preview settles on the text (`PreviewCurrent`) |
| configuration | a file written in place, memory changed before it, defaults merged in, agent_id | what was acknowledged is kept (`AcknowledgedKept`), the agent stays itself (`AgentIdKept`) |
| settings page | pages out of date, loads that run twice or fail, maps rebuilt from rows | a save changes what was edited (`OnlyEditsSaved`) |
| status | answers that cross | the dashboard ends up right (`DashboardCatchesUp`) |
| tools | extraction cut off by a crash | planned |

`PROJECT.json` lists every hazard with its line and the properties that would
catch it.

## 2. The modules and the code

| module | what it is |
|---|---|
| `JobOrder` | the order of queue entries: `Before`, `IsFirst` |
| `JobQueue` | what `internal/job/queue.go` promises: a bag from which the first entry is popped (abstract) |
| `JobHeap` | `internal/job/queue.go` as written: a slice kept by `container/heap`; implements `JobQueue` |
| `PrintOnce` | what the agents promise for each job: open, taken by one agent, over; paper only while taken (abstract) |
| `PrintFleet` | several agents and a backend: connection, intake, queue, worker, history, process; implements `PrintOnce` |
| `WsSession` | one agent's WebSocket connection in time: backoff, pings, deadline, send buffer; the dashboard's status |
| `ConfigStore` | `config.json`, the daemon's copy of it, `PUT /api/settings`; starts, stops, kills |
| `SettingsPage` | the settings page in several tabs; extends `ConfigStore` |
| `TemplateEditor` | the page's template editor and preview, the template handlers and files, seeding |
| `MCPrintFleet`, `MCSettingsPage` | the instances of `PrintFleet` and `SettingsPage` for TLC |
| `JobHeapProofs` | theorems about `JobHeap`: heap order, and that it implements `JobQueue` |
| `PrintFleetProofs` | theorems about `PrintFleet`: types and ownership |
| `PrintFleetPlaces` | ... where a claimed job is, and what that says of it: one place, reports, copies |
| `PrintFleetRecords` | ... what the backend and the dashboard say of a job |
| `PrintFleetRefines` | ... that it implements `PrintOnce` |
| `SettingsPageProofs` | theorems about `SettingsPage` and `ConfigStore` |
| `WsSessionProofs` | theorems about `WsSession`: the times |
| `TemplateEditorProofs` | theorems about `TemplateEditor`, each with what it needs of the user |

`PrintFleet` extends `JobOrder`, so its queue pops by the order of `JobQueue`,
which `JobHeap` is proved to implement.

**State of `PrintFleet`.** Per agent: the process (`run`); the parts of the
configuration other goroutines notice (`enabled`, `printers`); the main
goroutine (`stage`); the connection (`session` names its reader, `link` says
whether it is intact, `hello` what was announced on it); for each goroutine that
calls `claimAndEnqueue` the jobs it still has to pass to it (`feed`: the list
`fetchPending` ranges over, or the messages in the socket) and the request it
waits for (`call`); `queue` and `seq`; the worker's job, stage and attempt
(`work`); `history`. At the backend: `status` and `owner` of each job, and
`late`, the requests the caller has given up on and the backend may serve all
the same. Ghosts, read by properties only: `reports`, `copies`, `printedBy`.

**Actions.** A step ends where a goroutine waits: for an HTTP answer, the print
command, the retry timer, or a channel. What the code does between two waits is
one step; mutexes are never held across a wait except the renderer's, which is
part of the print step.

| code | actions |
|---|---|
| `runWebSocket` | `Connect` (dial, hello), `FetchOk`, `FetchFail`, `RecoverDone`, `DropLink`, `Disconnect` |
| `RunPolling` | `Tick`, and the same fetch actions |
| `claimAndEnqueue`, `ClaimJob` | `BeginCall` (the type filter, the claim is sent), `ClaimAnswered`, `ClaimFailed`, `AckReturned` (priority, push) |
| `runWorker`, `process` | `Take` (pop, printer lookup, first report), `ReportReturned` (print next, or record the outcome), `PrintOk`, `PrintErr`, `Retry`, `Abandon` |
| `app.Run`, SIGTERM | `Start`, `Stop`, `MainExit`, `WorkerExit`, `Exit`; `Crash` for a kill |
| `SaveSettings` | `SaveSettings`, as far as the agent's goroutines notice |
| the backend (external) | `Create`, `Dispatch`, `Serve`, `Deliver` |

A request ends as `Returned` says: it is served and answered, or the caller sees
an error, in which case the backend has served it, serves it later, or never
(`late` with `Deliver`). Once `ctx` is cancelled every request errs at once and
none leaves the process; what was on its way then may have got out.

The backend is modelled from the protocol the README and `pkg/protocol` state
and the agent relies on: a claim is granted once, a PATCH is for the owner, and
with `StrictLifecycle` a PATCH that does not follow the lifecycle is rejected.
Jobs come back by `GET pending` while they are PENDING or DISPATCHED.

**`TemplateEditor`.** JavaScript runs each function of the page up to its
`await` in one step: `ClickTab`, `Type`, `Empty`, `ClickSave`, `ClickDelete` and
`ClickCreate` are what the user does, with the request that leaves; `ListBack`,
`GetBack`, `PutBack`, `CreateBack` and `DeleteBack` are the rest of the functions
(`init` and `confirmNewType`, `openType`, `save`, `confirmNewType`,
`deleteActive`). Between the two `Serve` or `Fail` is the server's step, and
`Restart` a restart of the daemon with `seedDefaults`. `OpenType` is shared by all callers
of `openType`, which do not agree on what the active tab is when they call it.
`Init` has two lists under way: Alpine calls a
component's `init` by itself, and `x-init` in index.html:239 calls it again.

A text is a type, a version and a size. The type it was written for is what
`FilesOfTheirType` looks at. The size is short, long if the text has more than the 512 KB the server
reads of a body (templates.go:46), or cut: `Capped` is what `SaveTemplate` stores,
without an error, of a long one. `Fail` leaves a write undone, done, or half done (`HalfDone`).
`Restart` seeds what `store.Get` gives no text for, which is what is missing and
what cannot be read (`Unreadable`), and may stop half way through the list.
The user waits for what is under way (`Patient`) or does not, and saves only texts
known to be of the tab (`Heedful`) or any. For that the ghost `doubts` remembers what the page
does not: that a load failed or a No was answered and the editor may hold another type's text, or
that a write failed and the file may hold what the page never showed; the next load clears both.
`AtRisk` are the types whose file seeding may write over.

The preview runs beside all that, for any user: the editor's change event sets `timer`,
`TimerFires` and `GetBack` send a text to be rendered (`UpdatePreview`) whether or not others are
being rendered, and `PreviewBack` shows what comes, in whatever order.
The ghost `overtaken` tells that the newest text was shown before an older one.

**`WsSession`.** `phase` is where the agent's main goroutine is: dialling a peer
that answers (`dial`) or does not (`hang`), sending the hello, fetching pending
jobs, serving the session, or waiting out the backoff. `Connect`, `HelloSent`,
`HelloFailed`, `Serving`, `SendPing`, `SendQueued`, `ReaderError`, `DialFailed` and
`Redial` are its steps; `ReadPong`, `ReadPing`, `ReadJob`, `JobDone` and `ReadFails`
the reader's. The peer answers pings, pushes jobs and pings of its own, falls silent,
or comes back (`AnswerPing`, `Push`, `PeerChanges`), and a connection may be reset
(`Break`). A write to a silent peer may fail or not, as the kernel buffers it.
`LongestLoss` is a dial and the longest backoff, the time within which a backend that is
there again must be found; the ghost that measures it counts one further and stops.
`Tick` is time, in units of `Unit` seconds; it is enabled only when nothing is
due (`Idle`), so that whatever answers at all does so within a unit. A job takes
the reader any time. `Poll`, `ServePoll` and `PollBack` are the status store of
the web UI. `quiet`, `held`, `faulty` and `offline` are ghosts that measure time.

**`ConfigStore`.** `disk` is a configuration, missing, or torn; `memory` the
daemon's copy. `Start` is `New` and `load` with its write for a new `agent_id`,
`Saved` is `SaveSettings` with `Save` and `write` under the mutex: it succeeds, fails
with memory changed and the file as it was or torn, or is cut off by a kill. The
fields that are no maps are one value.

**`SettingsPage`.** `Open` sends the two loads of a new tab, `ServeLoad` is the server's
part, `LoadBack` and `LoadFailed` the rest of `init`; `EditRow`, `EditPlain`,
`ClickSave` are the user's steps, `ServeSave` and `SaveFails` what becomes of a
save. A page remembers (ghosts) which configuration it shows but for the
user's edits, and these, so that `OnlyEditsSaved` can tell the two apart.

**Abstracted.** Payloads, template texts and printer names. `printJob` is one step
that succeeds, or fails with or without the paper out. The wait between
connections and between polls takes any time. A dial that fails is a `Connect`
that has not happened yet. The priority is read when the job is pushed.

## 3. What is checked

| run | instance | shows |
|---|---|---|
| `job_heap` | 3 priorities, 7 pushes | the slice keeps heap order and implements the queue, pops interleaved in every way |
| `fleet_agents` | a WebSocket and a polling agent, 1 job; one failing request, one broken connection, one stop or kill | `TypeOK`, ownership, one place at a time, reports in order, backend not ahead, copies bounded, and that the whole implements `PrintOnce` |
| `fleet_stations` | 2 agents with overlapping types, 2 jobs; one change of settings | the allowlist is kept, ownership with two jobs pushed to both |
| `fleet_settles` | 1 agent, 2 jobs of different priority, strict backend, broken connection, history of 1; requests succeed | no report the backend must reject; one place at a time with a stale reader; true records at the history's limit; every job printed or reported failed |
| `fleet_shutdown` | 1 agent, 1 job; nothing assumed of the network | a daemon told to stop stops |
| `template_editor` | 3 types, 3 acts of a user who waits for answers and does not save what may be another type's text, texts too long for the server, up to 3 texts being rendered and shown in any order; any request may fail, writes half way, and one restart may fail to read or to seed a template | files keep texts of their own type, unsaved texts are marked, what was read of acknowledged saves stays on disk; the preview settles on the editor's text unless the newest rendering was overtaken |
| `settings_page` | 2 tabs, 2 types of which one's template comes and goes, 3 acts; 2 starts, one failing or interrupted write, failing loads | the daemon keeps its id, what was acknowledged is on disk and in use, a save from an up-to-date page changes only what was edited |
| `ws_session` | 1 agent, time in half minutes, a send buffer of 1, 2 frames unread, 2 status requests under way | silence noticed within the pong timeout, healthy sessions kept, reconnection within a dial and the longest backoff, the dashboard right in the end |
| `doc_*` | the smallest instance that shows it | section 7 |

`fleet_settles` allows no failing request and no stop on purpose: `doc_restart` shows that
`NoJobIsLost` fails with one stop, `doc_stale` that a job's outcome is lost with one
failing request: its agent polls, the later fetches succeed, and the trace ends in a cycle of them.
So the runs delimit what the promise "no jobs are lost" is worth: it holds
against broken connections, with pushes lost in them, and against no other of the
faults modelled.

`template_editor` describes a careful user on purpose. With `Patient = FALSE` TLC
finds `FilesOfTheirType`, `UnsavedMarked` and `AcknowledgedStays` violated: two templates
opened in a row whose answers arrive the other way round, a keystroke while a
save is under way, two saves served in the other order. `doc_wrong_file` shows
that a patient user is not safe either, and that `Heedful` is not idle: with it FALSE a load
that fails, or a No after a deletion, puts one type's text into another's file.

What its properties leave out is what the code does not keep. `AcknowledgedStays` and
`UnsavedMarked` compare a file with `Capped` texts: a template of more than 512 KB is
acknowledged and no longer marked though the end of it is nowhere but in the editor. Both except
`AtRisk`, the defaults a start may fail to read: there an acknowledged template can be lost (section 7). `UnsavedMarked` excepts what is
in doubt: if the save of a text that was not marked fails half way, editor and file differ
without a mark until the template is loaded again.

Previews overlap even for a user who waits, as nothing waits for them, and `PreviewCurrent` excepts one
thing: that the rendering of the newest text is shown before that of an older one (`overtaken`).
Without the exception it fails: empty the editor while a preview is under way, and the
text just deleted comes back on the right.

The runs have `CHECK_DEADLOCK FALSE`, but for `job_heap`: once the jobs are settled
and the budgets spent nothing more happens. A goroutine stuck where it should not be
is what `NoJobIsLost` and `ShutdownEnds` look for.

`settings_page` limits what `OnlyEditsSaved` says to where the page can do right:
it has loaded, what it shows is what the daemon has, it has a row for the type and
the configuration lists it, with a priority other than 0. What happens beyond
is in section 7.

`ws_session` says nothing about a session whose first pong never came: the read
deadline is set by the pong handler only (websocket.go:62-64), and until then
only a failing write ends it. `HealthyKept` puts a number to the price of
claiming jobs in the reader: held up for 30 s between two pongs (pong timeout less
ping interval) it loses a connection that was never broken.

Every property of a passing run has a mutant: an operator of the module, defined
just before the one it stands in for and described as a plausible slip, under which TLC finds
the property violated.

## 4. Bounds

- *Two agents*: the third to ask for a job is treated like the second.
- *One or two jobs*: interactions between jobs are the queue, the worker (one at
  a time), a recovery list of more than one, and the history's limit.
- *Two readers*, one broken connection: a stale reader beside a current one. A
  reader's name is used again once its goroutine has nothing left to do.
- *MaxRetries = 2*: an attempt that is followed by a retry and one that is not
  (1 in `fleet_stations`, where retries play no part).
- *HistoryMax* of 1 is exceeded by the second job.
- *MaxFaults, MaxDrops, MaxStops, MaxSaves*: how many requests err, connections
  break, processes are stopped or killed, settings are saved. One of each is
  enough for every disagreement found, and the proofs need no bound.
- *Three types, three acts* in the editor: a default that can be read at every start, one that may not
  be, and a type of the user's own. `doc_wrong_file` and the mutants need no more acts: type, save or
  delete, save. One restart: what it cannot read is chosen anew with each.
- *Previews*: `MaxPreviews` texts being rendered at a time, which a user has no limit for. Three
  are a newest, one it overtakes and one it does not.
- *Two tabs, three acts, two starts, one harmed write* in the settings: a page that is out
  of date, an edit in each and a save, and a restart after it. A tab is opened when the
  others have loaded, which orders no two saves and no load of one tab against another's save.
  Priorities users type are 0 and an emptied field; others are like the default's 2.
- *WsSession*: `Unit` 30 s, with the code's 30 s pings, 60 s pong timeout and 30 s
  longest backoff, and the dialer's 45 s rounded up to two units; shorter waits count
  as none. A buffer of 1 in place of 64 is full sooner. Two frames
  unread are a pong behind a job. Two status requests cross.
- Readers are symmetric (`ReaderSymmetry`), and so are tabs (`PageSymmetry`); used by safety runs only.

## 5. Fairness

`LocalFairness` is what the Go runtime and the machine give: goroutines that can
run do, timers fire, the print command ends, a daemon that is down is started
again, and a cancelled `ctx` ends every request. It assumes nothing of the
network, and `ShutdownEnds` needs no more. (That the print command ends is an
assumption: `exec.Command` has no timeout there either.)

`NetworkFairness` adds that every request is answered or fails and that the
backend pushes what it can push. The code does not ensure it: without a timeout
a request may wait for ever (section 7). Nothing is assumed
about which of two outcomes a step has: a printer may err each time.

`WsSession` assumes only that the page goes on polling, `setInterval` does that, and that
the web server of the same machine answers and the page takes the answer: per
place in the list of requests. Its safety properties measure time and need no fairness.

All fairness is weak, per agent and goroutine.

## 6. What is proved

Each invariant and each action property of a passing run, and both refinements, is a
theorem: for any agents, jobs, types, readers, pages, priorities, retries, capacities and
intervals, and any budgets of faults, acts and restarts. What the constants must satisfy is
in the named assumptions of the modules (`FleetAssumption`, `ConfigAssumption`,
`EditorAssumption`, `WsAssumption`, `QueueAssumption`): numbers are numbers, and `MaxRetries`,
`HistoryMax`, intervals and capacities are positive. `ClosedIsNoPage` and `NoTextIsNone`
only say that a model value is not one of the records it stands beside. TLC evaluates all of
them in every run.

| module | theorem | property | inductive invariant |
|---|---|---|---|
| `JobHeapProofs` | `Typing`, `HeapKept`, `QueueImplemented` | `TypeOK`, `HeapOrdered`, `ImplementsQueue` | `HeapInv` |
| `PrintFleetProofs` | `Typing` | `TypeOK` | itself |
| | `Ownership`, `OneAgentPrints` | `OnlyOwnerHandles`, no job printed by two agents | `Owned` |
| `PrintFleetPlaces` | `OnePlace` | `HandledOnce` | `Apart` |
| | `PathOfReports`, `PaperBounded` | `ReportsInOrder`, `CopiesBounded` | `OnPath` |
| `PrintFleetRecords` | `BackendTruth` | `BackendNotAhead` | `Believed` |
| | `DashboardTruth` | `HistoryTruthful` | `Recorded` |
| | `UnlistedStay` | `UnlistedUntouched` | `Untouched` |
| | `ReportsAccepted`, where `Untroubled` | `NothingRejected` | `Known`, `Calm`, `InStep` |
| `PrintFleetRefines` | `Refinement` | `ImplementsPrintOnce` | `Owned`, `Apart`, `OnPath` |
| `SettingsPageProofs` | `Typing` | `TypeOK` | `Typed` |
| | `OneAgentId`, `SavedStays` | `AgentIdKept`, `AcknowledgedKept` | `Daemon` |
| | `EditsOnly` | `OnlyEditsSaved` | `Shown` |
| `WsSessionProofs` | `Typing` | `TypeOK` | `Typed` |
| | `NoticedInTime` | `SilenceNoticed` | `Silence` |
| | `HealthySessionsKept` | `HealthyKept` | `Health`, `Answered` |
| | `BackInTime` | `ReconnectsInTime` | `Offlines` |
| `TemplateEditorProofs` | `Typing` | `TypeOK` | `Typed` |
| | `PreviewOfEditor` | `PreviewCurrent` | `Drawn` |
| | `SavedIsOnDisk`, where `Patient` | `AcknowledgedStays` | `OneAtATime`, `Kept` |
| | `OwnFiles`, where `Patient` and `Heedful` | `FilesOfTheirType` | `Opening`, `OfTheirType` |
| | `NothingLostUnasked`, where `Patient` | `UnsavedMarked` | `Kept`, `Opening`, `Marked` |

The arguments, and why the properties are not inductive as they stand:

- *Ownership.* `OnlyOwnerHandles` speaks of sets of handlers and of paper; `Owned` says the
  same of each place a claim leaves its trace: acknowledging goroutines, queue entries, the worker,
  late reports, paper. A job is given an owner once (`ServeKeepsOwner`), and each place is
  filled only from one that is already owned (`ClaimOwned`).
- *One place.* That a place is filled once needs that the place before it is emptied by the same
  step, and that no other place of the owner holds the job (`Apart`). Three steps fill
  a place: a granted claim, whose job was without owner and so nowhere, `AckReturned` and `Take`.
  `Shrinks` covers all others.
- *Reports and copies.* Where a job is determines what has been reported of it and bounds what
  has been printed (`Fresh`, `Reached`): a queued job has no more than its acknowledgement, a
  worker that prints for the n-th time has put it on paper fewer than n times.
- *Truth.* A request is true when it is sent, and stays true, as reports and paper only grow;
  so the backend may serve it at any time (`Believed`). A record is written when the job
  leaves its last place, and from then on it is nowhere, so nothing is added to what the record
  says (`Recorded`).
- *The lifecycle.* With no failing request a place also determines the backend's status (`InStep`).
- *PrintOnce.* A job is open, taken or over as it has no owner, is in some place of its owner, or
  is in none. Each step of the fleet is, for each job, a step of `PrintOnce` or a stutter.
- *The queue.* Up and Down are recursive functions. That the equations have solutions
  (`ClimbExists`, `SinkExists`) and what these return (`ClimbOrders`, `SinkOrders`: the same
  elements, in heap order) is proved by an induction stated of a *set* of numbers (`Induction`), which
  follows from the library's `WFMin`. While an element is moved the slice is a heap but for that
  element, and its children do not precede its parent (`ClimbingAt`, `SinkingAt`). The root is then
  the first of all (`RootFirst`), and the only one, as no two entries tie.
- *Configuration.* Once the daemon has an id, the file has it or is torn, and a daemon that is
  up has it in memory, whoever wrote last (`Daemon`).
- *Settings page.* A page shows what it loaded but for what the user touched (`Shows`), and so does
  the body of a save on its way (`Changes`).
- *Times.* Each property bounds a ghost clock. The invariants say how far the clock can have gone
  in each phase, from what must happen before the next `Tick`: `Quiets` adds silence to what
  is left of the deadline, `Offlines` the wait to the dial before it, and `Pinged` has
  a ping, its pong, or the reader's job account for each unit since the last pong.
- *Templates.* Requests come one at a time (`OneAtATime`), but for the two of `init`, which open the
  same tab (`Opening`). So a load that is back is of the highlighted tab; the text in the
  editor is of that tab, about to be, or in doubt (`OfTheirType`); a save carries the text in the
  editor, and what is stored of it stays in its file until the page knows (`Kept`, `Marked`).
- *The preview.* While the timer is not running, the newest of the texts on their way is that in the
  editor, unless it has been shown already (`Drawn`); whatever comes before it is overwritten.

The hypotheses name what the properties depend on, and the code does not give them. `Patient`:
the user waits for answers. `Heedful`: the user does not save after a failed load or a No has left another
tab's text in the editor; `doc_wrong_file` shows what a save does then. `PreviewOfEditor` has no hypothesis.
In all of them any request may fail and any write half way. `Untroubled`: no request fails, no process is stopped, no
settings are saved and every type has a printer; connections may break. A request that fails is
in doubt (section 2), so a strict backend may well reject the next report. The runs
`template_editor` and `fleet_settles` are instances of these hypotheses.

Model-checked only: liveness (`NoJobIsLost`, `ShutdownEnds`, `DashboardCatchesUp`) and what the
`doc_*` runs refute; TLAPS has no rules for fairness or ENABLED. No module declares a
RECURSIVE operator.

## 7. Disagreements with the documentation

Each is a run that ends in a violation.

| run | the text says | the code does |
|---|---|---|
| `doc_restart` | README.md:52-53, on a daemon that was away: "no jobs are lost" | a daemon stopped or killed between claim and outcome forgets the job; the backend no longer lists it and refuses further claims |
| `doc_stale` | polling.go:101-102: a failed update leaves the backend stale, "which is recoverable on next fetch" | nothing reports again; later fetches succeed and do not list the job; it stays PRINTING |
| `doc_wrong_file` | store.go:11, README.md:46: a type's file is its template | `deleteActive` switches the tab before `openType` asks about unsaved changes: delete a template, answer No, save, and its text is in another type's file |
| `doc_priority_returns` | config.go:46-48, README.md:151: types without an entry in `priority_map` fall back to the backend's priority | `load` decodes the file over the defaults: KITCHEN and BAR, removed by the operator, are back after a restart |

Others came up in the model and have no run. In the agent:

- agent.go:1-3 says the package keeps network state from the rest of the app.
  A PATCH that is accepted and never answered holds the worker in `UpdateStatus` for
  ever, and the queue waits though the printers work.
- README.md:125-128 and agent.go:136 have FAILED follow PRINTING; a job for
  which there is no printer goes from ACKNOWLEDGED to FAILED (`Take`).
- In polling mode `onStatus` is never called (polling.go:141-161): the dashboard
  shows an agent that works as offline and retrying.
- A polling interval of 0 makes `time.NewTicker` panic (polling.go:147).
- A claim that is granted and whose reply is lost is refused to everyone for
  ever (`PrintOnce!Strand`); README.md:52-53 as above.
- The hello is not sent again when settings change, so the backend goes on
  pushing types the agent has turned off (protocol.go:55-56); `BeginCall` drops them.
- config.go:55-56 calls `max_retries` the number of retries before FAILED; the
  loop at app.go:169 makes that many attempts, the first included (`Spent`).
- README.md:359 says that deleting its template removes a type; a default
  template that was deleted is seeded again at the next start (`Seeded`).

In the web UI:

- app.go:214-215 says seeding "never overwrites customizations". `seedDefaults` takes every error of
  `store.Get` for a missing file, though store.go:28-33 tells the two apart: a saved default that could not
  be read at a start is replaced by the embedded one (`Missing`). Without `AtRisk`
  `AcknowledgedStays` is violated, by saving BAR and a restart.
- README.md:161 says "live preview updates as you type". `updatePreview` does not look whether a rendering
  is under way, nor whether the one that comes is still the editor's: an older text's may come after a
  newer's, or after the editor was emptied, and stays (`UpdatePreview`, `PreviewBack`). Without
  `~overtaken` `PreviewCurrent` is violated.
- Loading a template marks it unsaved, because `setValue` fires Ace's change
  event (`GetBack`); the page therefore asks before it leaves any template, and, as
  `init` runs twice, when it has just been loaded.
- A template of more than 512 KB is cut off by the server and acknowledged, and the page says
  "Saved" and clears the mark (templates.go:46-57, app.js:240-242; `Capped`).
- When a load fails, the new tab is active over the old tab's text (app.js:200-208); when a save of a text
  that was not marked fails after the file was truncated, nothing marks it (`GetBack`, `PutBack`).
- If one of the three requests of the settings page fails (`/api/printers` does without
  `lpstat`), Save is enabled on the page's blanks, and saves them over the
  configuration (`LoadFailed`, `ClickSave`).
- A type the allowlist does not mention is shown as on, and any save turns it on
  (`SyncRows`, app.js:116), where config.go:40-42 wants it present and true. A
  type without a template loses its entries with any save (`Body`, app.js:135-139).
- The field of a priority, cleared, is saved as an entry of 0, which overrides the
  backend's value; the page shows it as it shows no entry, and drops it with
  the next save (`Parsed`). Without its last condition `OnlyEditsSaved` shows it.
- README.md:353 and 359: new types appear in Settings "automatically", and
  deleted ones disappear: after the browser has loaded the page anew (`Open` is the
  only load).

## 8. What is not modelled

- *Renderer, printers, tools*: external commands and embedded files. They appear
  as the outcome of the print step.
- *The template engine* and the templates themselves: a library and its data.
- *Web server views, the jobs page and test print*: no state; test print goes past
  the queue and is not recorded. A daemon that is down while the dashboard polls
  (app.js:70 ignores the error, the page keeps showing what it last heard).
- *Values of single settings*: which of them take effect at once and which at the
  next start, the restart banner, the list of printers.
- *A default's write that fails half way*: `Restart` writes a default or does not. A user's write may
  fail half way (`HalfDone`), for a kill in the middle of it as well.
- *A body that is not JSON* in `PUT /api/settings` (settings.go:17-20): the page always sends one,
  and the 400 changes nothing.
- *`CANCELED`* (protocol.go:17): the agent neither sends nor looks at it.
- *`max_retries` of 0 or less*, which app.go:164-166 makes 3: `MaxRetries` is the number that results.
- *Handshakes, TLS, HTTP status codes*: an answer that is not 2xx counts as an
  error, as in the code.
- The extraction of tools is planned (section 9).

## 9. Plan

In the order of their importance.

1. Done: `JobOrder`, `JobQueue`, `JobHeap`, `PrintOnce`, `PrintFleet`,
   `TemplateEditor`, their runs, and `Typing`, `Ownership`, `OneAgentPrints`.
2. Done: `WsSession`, `ConfigStore`, `SettingsPage`, the preview.
3. Done: the proofs of section 6.
4. `ToolExtraction`: the embedded binary, cut off in the middle of its extraction, and
   taken for extracted at the next start (renderer.go:114).
5. A weaker hypothesis for `NothingRejected`: what is left of it when requests fail.
