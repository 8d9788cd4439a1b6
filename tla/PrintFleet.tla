------------------------------ MODULE PrintFleet ------------------------------
(***************************************************************************)
(* Several arghzprint daemons ("agents") sharing one backend.              *)
(*                                                                         *)
(* A job reaches an agent by a WebSocket push or by GET .../jobs/pending,  *)
(* possibly both.  Each time, claimAndEnqueue (internal/agent/agent.go)    *)
(* claims it at the backend, acknowledges it, and pushes it on the queue;  *)
(* the print worker (internal/app/app.go) takes jobs from the queue,       *)
(* prints them with retries and reports their status.                      *)
(*                                                                         *)
(* The goroutines of one agent:                                            *)
(*   "main"    Run or RunPolling: connects, recovers pending jobs, serves  *)
(*   a reader  one per WebSocket session; runWebSocket does not wait for   *)
(*             its reader, so readers of closed sessions may still run     *)
(*   worker    runWorker and process                                       *)
(* A step ends where a goroutine waits: for an HTTP response, for the      *)
(* print command, for the retry timer.                                     *)
(*                                                                         *)
(* The backend is not in the repository.  Its actions and operators        *)
(* (Create, Dispatch, Serve, Accepts, FirstClaim) follow the protocol as   *)
(* the agents use it.                                                      *)
(***************************************************************************)
EXTENDS Integers, Sequences, FiniteSets, SequencesExt, JobOrder

CONSTANTS
    Agents, Jobs, Types,
    TypeOf,         \* JobEnvelope.Type of each job
    EnvPriority,    \* JobEnvelope.Priority of each job
    PriorityMap,    \* each agent's cfg.PriorityMap, on the types it lists
    MayEnable,      \* the types an agent's operator ever sets in EnabledTypes
    MayMap,         \* the types an agent's operator ever gives a printer
    Polling,        \* the agents with ConnectionMode "polling"
    Readers,        \* names for the reader goroutines of an agent
    MaxRetries,     \* cfg.MaxRetries
    HistoryMax,     \* job.NewHistory's max
    StrictLifecycle,\* does the backend reject out-of-order PATCHes?
    NoAgent, NoJob, NoReader,
    MaxFaults,      \* bound: requests whose caller sees an error
    MaxDrops,       \* bound: WebSocket connections that break
    MaxStops,       \* bound: process kills and SIGTERMs
    MaxSaves        \* bound: PUT /api/settings

ASSUME FleetAssumption ==
    /\ IsFiniteSet(Jobs)
    /\ NoAgent \notin Agents
    /\ NoJob \notin Jobs
    /\ NoReader \notin Readers
    /\ "main" \notin Readers
    /\ TypeOf \in [Jobs -> Types]
    /\ EnvPriority \in [Jobs -> Int]
    /\ \A a \in Agents : /\ DOMAIN PriorityMap[a] \subseteq Types
                         /\ \A ty \in DOMAIN PriorityMap[a] : PriorityMap[a][ty] \in Int
    /\ MayEnable \in [Agents -> SUBSET Types]
    /\ MayMap \in [Agents -> SUBSET Types]
    /\ Polling \subseteq Agents
    /\ MaxRetries \in Nat \ {0}
    /\ HistoryMax \in Nat \ {0}
    /\ StrictLifecycle \in BOOLEAN
    /\ {MaxFaults, MaxDrops, MaxStops, MaxSaves} \subseteq Nat

VARIABLES
    status,     \* backend: lifecycle state of each job
    owner,      \* backend: the agent whose claim was granted
    late,       \* requests the caller has given up on and the backend may still serve
    run,        \* process of each agent: "down", "up", or "stopping" (ctx cancelled)
    enabled,    \* cfg.EnabledTypes, the types set to true
    printers,   \* cfg.PrinterMap, the types with a printer
    stage,      \* where the main goroutine is
    session,    \* the reader of the current WebSocket session
    link,       \* is the current connection intact?
    hello,      \* enabledTypes of the printer.hello sent on the current session
    feed,       \* jobs each goroutine still has to pass to claimAndEnqueue
    call,       \* the HTTP request claimAndEnqueue waits for, per goroutine
    queue,      \* job.Queue: entries waiting
    seq,        \* Queue.seq
    work,       \* what the worker is doing
    history,    \* job.History, newest first
    reports,    \* ghost: the statuses UpdateStatus was called with, per job
    copies,     \* ghost: paper copies of each job
    printedBy,  \* ghost: agents that put a job on paper
    budget      \* what is left of the bounds

backend == <<status, owner, late>>
config  == <<enabled, printers>>
conn    == <<stage, session, link, hello>>
intake  == <<feed, call>>
store   == <<queue, seq>>
ghosts  == <<reports, copies, printedBy>>
vars == <<backend, run, config, conn, intake, store, work, history, ghosts, budget>>

-------------------------------------------------------------------------------
Threads  == {"main"} \cup Readers
Pendings == {"PENDING", "DISPATCHED"}
Reports  == {"ACKNOWLEDGED", "PRINTING", "COMPLETED", "FAILED"}
Statuses == {"ABSENT"} \cup Pendings \cup Reports
Request  == [agent : Agents, job : Jobs, what : {"CLAIM"} \cup Reports]

NoCall == [job |-> NoJob, what |-> "none"]
NoWork == [job |-> NoJob, what |-> "none", attempt |-> 0]
Stopped == [job |-> NoJob, what |-> "stopped", attempt |-> 0]
Call == {NoCall} \cup [job : Jobs, what : {"CLAIM", "ACKNOWLEDGED"}]
Work == {NoWork, Stopped} \cup
        [job : Jobs, what : {"PRINTING", "print", "wait", "COMPLETED", "FAILED"},
         attempt : 0..MaxRetries]
Entry  == [job : Jobs, prio : Int, seq : Nat]
Record == [job : Jobs, status : {"COMPLETED", "FAILED"}, failures : 0..MaxRetries]
Budget == [faults : Nat, drops : Nat, stops : Nat, saves : Nat]

(***************************************************************************)
(* The type invariant, by part.  A worker waits for the retry timer only   *)
(* while attempts are left, so attempts stay within MaxRetries             *)
(* (app.go:169-183).                                                       *)
(***************************************************************************)
BackendType ==
    /\ status \in [Jobs -> Statuses]
    /\ owner \in [Jobs -> Agents \cup {NoAgent}]
    /\ late \subseteq Request
    /\ budget \in Budget

ProcessType ==
    /\ run \in [Agents -> {"down", "up", "stopping"}]
    /\ enabled \in [Agents -> SUBSET Types]
    /\ printers \in [Agents -> SUBSET Types]
    /\ stage \in [Agents -> {"dial", "fetch", "recover", "serve", "wait", "stopped"}]
    /\ session \in [Agents -> Readers \cup {NoReader}]
    /\ link \in [Agents -> BOOLEAN]
    /\ hello \in [Agents -> SUBSET Types]

IntakeType ==
    /\ feed \in [Agents -> [Threads -> Seq(Jobs)]]
    /\ call \in [Agents -> [Threads -> Call]]
    /\ queue \in [Agents -> SUBSET Entry]
    /\ seq \in [Agents -> Nat]

WorkerType ==
    /\ work \in [Agents -> Work]
    /\ \A a \in Agents : work[a].what = "wait" => work[a].attempt < MaxRetries
    /\ history \in [Agents -> Seq(Record)]

GhostType ==
    /\ reports \in [Jobs -> Seq(Reports)]
    /\ copies \in [Jobs -> Nat]
    /\ printedBy \in [Jobs -> SUBSET Agents]

TypeOK == BackendType /\ ProcessType /\ IntakeType /\ WorkerType /\ GhostType

\* The first stage of the main goroutine: Run dials, RunPolling waits a tick.
FirstStage(a) == IF a \in Polling THEN "wait" ELSE "dial"

Init ==
    /\ status = [j \in Jobs |-> "ABSENT"]
    /\ owner = [j \in Jobs |-> NoAgent]
    /\ late = {}
    /\ run = [a \in Agents |-> "down"]
    /\ enabled = MayEnable
    /\ printers = MayMap
    /\ stage = [a \in Agents |-> FirstStage(a)]
    /\ session = [a \in Agents |-> NoReader]
    /\ link = [a \in Agents |-> FALSE]
    /\ hello = [a \in Agents |-> {}]
    /\ feed = [a \in Agents |-> [t \in Threads |-> <<>>]]
    /\ call = [a \in Agents |-> [t \in Threads |-> NoCall]]
    /\ queue = [a \in Agents |-> {}]
    /\ seq = [a \in Agents |-> 0]
    /\ work = [a \in Agents |-> NoWork]
    /\ history = [a \in Agents |-> <<>>]
    /\ reports = [j \in Jobs |-> <<>>]
    /\ copies = [j \in Jobs |-> 0]
    /\ printedBy = [j \in Jobs |-> {}]
    /\ budget = [faults |-> MaxFaults, drops |-> MaxDrops,
                 stops |-> MaxStops, saves |-> MaxSaves]

Spend(what) == budget[what] > 0 /\ budget' = [budget EXCEPT ![what] = @ - 1]

-------------------------------------------------------------------------------
(***************************************************************************)
(* The backend.  README.md:115-121: a claim is granted to the first agent  *)
(* that asks and refused to everyone after; a PATCH is for the owner.      *)
(* README.md:125-128 gives the lifecycle; whether a backend rejects a      *)
(* PATCH that does not follow it is StrictLifecycle.                       *)
(***************************************************************************)
Granted(j) == owner[j] = NoAgent

Follows(new) ==
    CASE new = "ACKNOWLEDGED" -> Pendings
      [] new = "PRINTING"     -> {"ACKNOWLEDGED"}
      [] new = "COMPLETED"    -> {"PRINTING"}
      [] new = "FAILED"       -> {"PRINTING"}
      [] OTHER                -> {}

Accepts(m) ==
    /\ m.what \in Reports
    /\ owner[m.job] = m.agent
    /\ StrictLifecycle => status[m.job] \in Follows(m.what)

\* The backend serves request m.
Serve(m) ==
    /\ owner' = IF m.what = "CLAIM" /\ Granted(m.job)
                THEN [owner EXCEPT ![m.job] = m.agent] ELSE owner
    /\ status' = IF Accepts(m) THEN [status EXCEPT ![m.job] = m.what] ELSE status

Create(j) ==
    /\ status[j] = "ABSENT"
    /\ status' = [status EXCEPT ![j] = "PENDING"]
    /\ UNCHANGED <<owner, late, run, config, conn, intake, store, work, history, ghosts, budget>>

\* Push the job on the connections of agents that announced its type.
Dispatch(j) ==
    /\ status[j] = "PENDING"
    /\ status' = [status EXCEPT ![j] = "DISPATCHED"]
    /\ \E to \in SUBSET {a \in Agents : link[a] /\ TypeOf[j] \in hello[a]} \ {{}} :
          feed' = [a \in Agents |->
                     IF a \in to THEN [feed[a] EXCEPT ![session[a]] = Append(@, j)]
                     ELSE feed[a]]
    /\ UNCHANGED <<owner, late, run, config, conn, call, store, work, history, ghosts, budget>>

\* A request whose caller is gone arrives after all.
Deliver(m) ==
    /\ m \in late
    /\ late' = late \ {m}
    /\ Serve(m)
    /\ UNCHANGED <<run, config, conn, intake, store, work, history, ghosts, budget>>

-------------------------------------------------------------------------------
(***************************************************************************)
(* How an HTTP request of a running agent ends.  http.DefaultClient sets   *)
(* no timeout: without an answer or an error the caller waits.             *)
(***************************************************************************)
Answered(a, m) == run[a] = "up" /\ Serve(m) /\ UNCHANGED <<late, budget>>

\* A plausible slip: requests that are not built with ctx, so Stop ends none.
GaveUpNoCtx(a, m) ==
    /\ UNCHANGED <<status, owner>>
    /\ run[a] = "up" /\ Spend("faults") /\ late' \in {late, late \cup {m}}

\* The caller sees an error; the backend may serve the request nonetheless.
\* Once ctx is cancelled every request errs at once: Stop chose what got out.
GaveUp(a, m) ==
    /\ UNCHANGED <<status, owner>>
    /\ \/ run[a] = "stopping" /\ UNCHANGED <<late, budget>>
       \/ run[a] = "up" /\ Spend("faults") /\ late' \in {late, late \cup {m}}

\* UpdateStatus returns in the same way whether the PATCH got through or not.
Returned(a, m) == Answered(a, m) \/ GaveUp(a, m)

\* The requests agent a has sent and waits for; none is sent under a cancelled ctx.
InFlight(a) ==
    {[agent |-> a, job |-> call[a][t].job, what |-> call[a][t].what] :
        t \in {u \in Threads : run[a] = "up" /\ call[a][u] # NoCall}}
    \cup
    {[agent |-> a, job |-> work[a].job, what |-> r] :
        r \in {s \in Reports : run[a] = "up" /\ work[a].what = s}}

Report(j, what) == reports' = [reports EXCEPT ![j] = Append(@, what)]

-------------------------------------------------------------------------------
(***************************************************************************)
(* The process.                                                            *)
(***************************************************************************)
Start(a) ==
    /\ run[a] = "down"
    /\ run' = [run EXCEPT ![a] = "up"]
    /\ UNCHANGED <<backend, config, conn, intake, store, work, history, ghosts, budget>>

\* Everything but the configuration is in memory, and gone with the process.
Forget(a) ==
    /\ run' = [run EXCEPT ![a] = "down"]
    /\ stage' = [stage EXCEPT ![a] = FirstStage(a)]
    /\ session' = [session EXCEPT ![a] = NoReader]
    /\ link' = [link EXCEPT ![a] = FALSE]
    /\ hello' = [hello EXCEPT ![a] = {}]
    /\ feed' = [feed EXCEPT ![a] = [t \in Threads |-> <<>>]]
    /\ call' = [call EXCEPT ![a] = [t \in Threads |-> NoCall]]
    /\ queue' = [queue EXCEPT ![a] = {}]
    /\ seq' = [seq EXCEPT ![a] = 0]
    /\ work' = [work EXCEPT ![a] = NoWork]
    /\ history' = [history EXCEPT ![a] = <<>>]

\* SIGTERM cancels ctx; a request on its way may have got out or not.
Stop(a) ==
    /\ run[a] = "up"
    /\ Spend("stops")
    /\ run' = [run EXCEPT ![a] = "stopping"]
    /\ \E out \in SUBSET InFlight(a) : late' = late \cup out
    /\ UNCHANGED <<status, owner, config, conn, intake, store, work, history, ghosts>>

MainExit(a) ==
    /\ run[a] = "stopping"
    /\ stage[a] # "stopped"
    /\ call[a]["main"] = NoCall
    /\ stage' = [stage EXCEPT ![a] = "stopped"]
    /\ UNCHANGED <<backend, run, config, session, link, hello, intake, store, work,
                   history, ghosts, budget>>

WorkerExit(a) ==
    /\ run[a] = "stopping"
    /\ work[a] = NoWork
    /\ work' = [work EXCEPT ![a] = Stopped]
    /\ UNCHANGED <<backend, run, config, conn, intake, store, history, ghosts, budget>>

\* wg.Wait: for the main goroutine and the worker; readers die with the process.
Exit(a) ==
    /\ run[a] = "stopping"
    /\ stage[a] = "stopped"
    /\ work[a] = Stopped
    /\ Forget(a)
    /\ UNCHANGED <<backend, config, ghosts, budget>>

\* Killed, or powered off: a print command on its way may still print.
Crash(a) ==
    /\ run[a] # "down"
    /\ Spend("stops")
    /\ \E out \in SUBSET InFlight(a) : late' = late \cup out
    /\ \/ UNCHANGED <<copies, printedBy>>
       \/ /\ work[a].what = "print"
          /\ copies' = [copies EXCEPT ![work[a].job] = @ + 1]
          /\ printedBy' = [printedBy EXCEPT ![work[a].job] = @ \cup {a}]
    /\ Forget(a)
    /\ UNCHANGED <<status, owner, config, reports>>

\* PUT /api/settings, as far as other agents can tell.
SaveSettings(a) ==
    /\ run[a] = "up"
    /\ Spend("saves")
    /\ \E types \in SUBSET MayEnable[a] : enabled' = [enabled EXCEPT ![a] = types]
    /\ \E types \in SUBSET MayMap[a] : printers' = [printers EXCEPT ![a] = types]
    /\ UNCHANGED <<backend, run, conn, intake, store, work, history, ghosts>>

-------------------------------------------------------------------------------
(***************************************************************************)
(* The main goroutine and the connection.                                  *)
(***************************************************************************)
Quiet(a, t) == feed[a][t] = <<>> /\ call[a][t] = NoCall

\* A plausible slip: pending jobs are not fetched when a connection is made.
ConnectNoFetch(a) ==
    /\ run[a] = "up"
    /\ stage[a] = "dial"
    /\ \E r \in Readers : Quiet(a, r) /\ session' = [session EXCEPT ![a] = r]
    /\ link' = [link EXCEPT ![a] = TRUE]
    /\ hello' = [hello EXCEPT ![a] = enabled[a]]
    /\ stage' = [stage EXCEPT ![a] = "serve"]
    /\ UNCHANGED <<backend, run, config, intake, store, work, history, ghosts, budget>>

\* runWebSocket up to the hello: helloMessage reads the configuration now.
Connect(a) ==
    /\ run[a] = "up"
    /\ stage[a] = "dial"
    /\ \E r \in Readers : Quiet(a, r) /\ session' = [session EXCEPT ![a] = r]
    /\ link' = [link EXCEPT ![a] = TRUE]
    /\ hello' = [hello EXCEPT ![a] = enabled[a]]
    /\ stage' = [stage EXCEPT ![a] = "fetch"]
    /\ UNCHANGED <<backend, run, config, intake, store, work, history, ghosts, budget>>

\* RunPolling's ticker fires.
Tick(a) ==
    /\ run[a] = "up"
    /\ stage[a] = "wait"
    /\ stage' = [stage EXCEPT ![a] = "fetch"]
    /\ UNCHANGED <<backend, run, config, session, link, hello, intake, store, work,
                   history, ghosts, budget>>

\* Where the main goroutine is when fetchPending has returned.
Rest(a) == IF a \in Polling THEN "wait" ELSE "serve"

\* fetchPending's GET is answered: the pending jobs, in some order.
FetchOk(a) ==
    /\ run[a] = "up"
    /\ stage[a] = "fetch"
    /\ \E order \in SetToSeqs({j \in Jobs : status[j] \in Pendings}) :
          feed' = [feed EXCEPT ![a]["main"] = order]
    /\ stage' = [stage EXCEPT ![a] = "recover"]
    /\ UNCHANGED <<backend, run, config, session, link, hello, call, store, work,
                   history, ghosts, budget>>

\* It fails: a warning, and the session goes on without the pending jobs.
FetchFail(a) ==
    /\ run[a] = "up"
    /\ stage[a] = "fetch"
    /\ Spend("faults")
    /\ stage' = [stage EXCEPT ![a] = Rest(a)]
    /\ UNCHANGED <<backend, run, config, session, link, hello, intake, store, work,
                   history, ghosts>>

RecoverDone(a) ==
    /\ run[a] = "up"
    /\ stage[a] = "recover"
    /\ Quiet(a, "main")
    /\ stage' = [stage EXCEPT ![a] = Rest(a)]
    /\ UNCHANGED <<backend, run, config, session, link, hello, intake, store, work,
                   history, ghosts, budget>>

\* The connection breaks; the reader may still read what had arrived.
DropLink(a) ==
    /\ link[a]
    /\ Spend("drops")
    /\ link' = [link EXCEPT ![a] = FALSE]
    /\ \E n \in 0..Len(feed[a][session[a]]) :
          feed' = [feed EXCEPT ![a][session[a]] = SubSeq(@, 1, n)]
    /\ UNCHANGED <<backend, run, config, stage, session, hello, call, store, work,
                   history, ghosts>>

\* The reader or a ping notices.  runWebSocket returns, and does not wait for
\* its reader, which may be in the middle of claimAndEnqueue.
Disconnect(a) ==
    /\ run[a] = "up"
    /\ stage[a] = "serve"
    /\ ~link[a]
    /\ stage' = [stage EXCEPT ![a] = "dial"]
    /\ session' = [session EXCEPT ![a] = NoReader]
    /\ UNCHANGED <<backend, run, config, link, hello, intake, store, work, history,
                   ghosts, budget>>

-------------------------------------------------------------------------------
(***************************************************************************)
(* claimAndEnqueue, called by the main goroutine (recovery) and by readers *)
(* (pushes), in up to three steps: the claim is sent; it is answered and   *)
(* the ACKNOWLEDGED report is sent; that returns and the job is queued.    *)
(***************************************************************************)
\* The reader of the current session starts after recovery; earlier readers run on.
Reads(a, t) ==
    CASE t = "main"     -> stage[a] = "recover"
      [] t = session[a] -> stage[a] = "serve"
      [] OTHER          -> TRUE

\* A plausible slip: enabled_types read as a denylist.
AllowedUnlessListed(a, j) == TRUE

\* enabled_types is an allowlist.
Allowed(a, j) == TypeOf[j] \in enabled[a]

BeginCall(a, t) ==
    /\ run[a] = "up"
    /\ Reads(a, t)
    /\ call[a][t] = NoCall
    /\ feed[a][t] # <<>>
    /\ LET j == Head(feed[a][t]) IN
          call' = IF Allowed(a, j)
                  THEN [call EXCEPT ![a][t] = [job |-> j, what |-> "CLAIM"]] ELSE call
    /\ feed' = [feed EXCEPT ![a][t] = Tail(@)]
    /\ UNCHANGED <<backend, run, config, conn, store, work, history, ghosts, budget>>

\* A plausible slip: a refused claim is enqueued all the same.
ProceedsAnyway(claimed) == TRUE

\* A claim that was refused is another agent's job.
Proceeds(claimed) == claimed

ClaimAnswered(a, t) ==
    LET j == call[a][t].job IN
    /\ call[a][t].what = "CLAIM"
    /\ Answered(a, [agent |-> a, job |-> j, what |-> "CLAIM"])
    /\ IF Proceeds(Granted(j))
       THEN /\ call' = [call EXCEPT ![a][t].what = "ACKNOWLEDGED"]
            /\ Report(j, "ACKNOWLEDGED")
       ELSE /\ call' = [call EXCEPT ![a][t] = NoCall]
            /\ UNCHANGED reports
    /\ UNCHANGED <<run, config, conn, feed, store, work, history, copies, printedBy>>

\* A plausible slip: only a refusal is tested for, so an error counts as a claim.
ClaimFailedProceeds(a, t) ==
    /\ call[a][t].what = "CLAIM"
    /\ GaveUp(a, [agent |-> a, job |-> call[a][t].job, what |-> "CLAIM"])
    /\ call' = [call EXCEPT ![a][t].what = "ACKNOWLEDGED"]
    /\ Report(call[a][t].job, "ACKNOWLEDGED")
    /\ UNCHANGED <<run, config, conn, feed, store, work, history, copies, printedBy>>

\* An error is not a claim: the job is left alone.
ClaimFailed(a, t) ==
    /\ call[a][t].what = "CLAIM"
    /\ GaveUp(a, [agent |-> a, job |-> call[a][t].job, what |-> "CLAIM"])
    /\ call' = [call EXCEPT ![a][t] = NoCall]
    /\ UNCHANGED <<run, config, conn, feed, store, work, history, ghosts>>

\* The local priority_map wins where it lists the type.
PriorityOf(a, j) ==
    IF TypeOf[j] \in DOMAIN PriorityMap[a] THEN PriorityMap[a][TypeOf[j]] ELSE EnvPriority[j]

AckReturned(a, t) ==
    LET j == call[a][t].job IN
    /\ call[a][t].what = "ACKNOWLEDGED"
    /\ Returned(a, [agent |-> a, job |-> j, what |-> "ACKNOWLEDGED"])
    /\ call' = [call EXCEPT ![a][t] = NoCall]
    /\ seq' = [seq EXCEPT ![a] = @ + 1]
    /\ queue' = [queue EXCEPT ![a] =
                   @ \cup {[job |-> j, prio |-> PriorityOf(a, j), seq |-> seq'[a]]}]
    /\ UNCHANGED <<run, config, conn, feed, work, history, ghosts>>

-------------------------------------------------------------------------------
(***************************************************************************)
(* The worker: runWorker and process.                                      *)
(***************************************************************************)
HasPrinter(a, j) == TypeOf[j] \in printers[a]

\* A plausible slip: the test for a printer is inverted.
FirstReportInverted(a, j) == IF HasPrinter(a, j) THEN "FAILED" ELSE "PRINTING"

\* With no printer for the type the job fails at once, before any PRINTING.
FirstReport(a, j) == IF HasPrinter(a, j) THEN "PRINTING" ELSE "FAILED"

Printing(j, attempt) == [job |-> j, what |-> "print", attempt |-> attempt]

Take(a) ==
    /\ run[a] = "up"
    /\ work[a] = NoWork
    /\ \E e \in queue[a] :
          /\ IsFirst(e, queue[a])
          /\ queue' = [queue EXCEPT ![a] = @ \ {e}]
          /\ work' = [work EXCEPT ![a] = [job |-> e.job, what |-> FirstReport(a, e.job),
                                          attempt |-> 0]]
          /\ Report(e.job, FirstReport(a, e.job))
    /\ UNCHANGED <<backend, run, config, conn, intake, seq, history, copies, printedBy, budget>>

\* A plausible slip in History.Add: the record is not cut off.
AddUntrimmed(h, r) == <<r>> \o h

\* History.Add: in front, the oldest record cut off at the limit.
Add(h, r) == SubSeq(<<r>> \o h, 1, IF Len(h) < HistoryMax THEN Len(h) + 1 ELSE HistoryMax)

\* UpdateStatus has returned: print, or record the outcome and take the next job.
\* The failure for want of a printer is not recorded.
ReportReturned(a) ==
    LET w == work[a] IN
    /\ w.what \in Reports
    /\ Returned(a, [agent |-> a, job |-> w.job, what |-> w.what])
    /\ work' = [work EXCEPT ![a] =
                  IF w.what = "PRINTING" THEN Printing(w.job, 1)
                  ELSE NoWork]
    /\ history' =
         IF w.what = "PRINTING" \/ w.attempt = 0 THEN history
         ELSE [history EXCEPT ![a] =
                 Add(@, [job |-> w.job, status |-> w.what,
                         failures |-> IF w.what = "FAILED" THEN w.attempt ELSE w.attempt - 1])]
    /\ UNCHANGED <<run, config, conn, intake, store, ghosts>>

Paper(a) ==
    /\ copies' = [copies EXCEPT ![work[a].job] = @ + 1]
    /\ printedBy' = [printedBy EXCEPT ![work[a].job] = @ \cup {a}]

\* printJob succeeds: the printer's command exited with 0.
PrintOk(a) ==
    /\ work[a].what = "print"
    /\ Paper(a)
    /\ work' = [work EXCEPT ![a].what = "COMPLETED"]
    /\ Report(work[a].job, "COMPLETED")
    /\ UNCHANGED <<backend, run, config, conn, intake, store, history, budget>>

\* A plausible slip: one attempt too many.
SpentLate(attempt) == attempt > MaxRetries

\* Are all attempts of process's loop used up?
Spent(attempt) == attempt >= MaxRetries

\* A plausible slip: after the last attempt process falls through to COMPLETED.
PrintErrCompletes(a) ==
    /\ work[a].what = "print"
    /\ Paper(a) \/ UNCHANGED <<copies, printedBy>>
    /\ IF Spent(work[a].attempt)
       THEN /\ work' = [work EXCEPT ![a].what = "COMPLETED"]
            /\ Report(work[a].job, "COMPLETED")
       ELSE /\ work' = [work EXCEPT ![a].what = "wait"]
            /\ UNCHANGED reports
    /\ UNCHANGED <<backend, run, config, conn, intake, store, history, budget>>

\* printJob fails, before or after the paper came out.
PrintErr(a) ==
    /\ work[a].what = "print"
    /\ Paper(a) \/ UNCHANGED <<copies, printedBy>>
    /\ IF Spent(work[a].attempt)
       THEN /\ work' = [work EXCEPT ![a].what = "FAILED"]
            /\ Report(work[a].job, "FAILED")
       ELSE /\ work' = [work EXCEPT ![a].what = "wait"]
            /\ UNCHANGED reports
    /\ UNCHANGED <<backend, run, config, conn, intake, store, history, budget>>

\* The retry interval is over.
Retry(a) ==
    /\ work[a].what = "wait"
    /\ work' = [work EXCEPT ![a] = Printing(@.job, @.attempt + 1)]
    /\ UNCHANGED <<backend, run, config, conn, intake, store, history, ghosts, budget>>

\* ctx is cancelled during the interval: process returns and reports nothing.
Abandon(a) ==
    /\ run[a] = "stopping"
    /\ work[a].what = "wait"
    /\ work' = [work EXCEPT ![a] = NoWork]
    /\ UNCHANGED <<backend, run, config, conn, intake, store, history, ghosts, budget>>

-------------------------------------------------------------------------------
BackendStep ==
    \/ \E j \in Jobs : Create(j) \/ Dispatch(j)
    \/ \E m \in late : Deliver(m)

ProcessStep(a) ==
    Start(a) \/ Stop(a) \/ MainExit(a) \/ WorkerExit(a) \/ Exit(a) \/ Crash(a) \/ SaveSettings(a)

SessionStep(a) ==
    Connect(a) \/ Tick(a) \/ FetchOk(a) \/ FetchFail(a) \/ RecoverDone(a) \/ DropLink(a)
    \/ Disconnect(a)

ClaimStep(a, t) == BeginCall(a, t) \/ ClaimAnswered(a, t) \/ ClaimFailed(a, t) \/ AckReturned(a, t)

WorkerStep(a) ==
    Take(a) \/ ReportReturned(a) \/ PrintOk(a) \/ PrintErr(a) \/ Retry(a) \/ Abandon(a)

Next ==
    \/ BackendStep
    \/ \E a \in Agents : \/ ProcessStep(a) \/ SessionStep(a) \/ WorkerStep(a)
                         \/ \E t \in Threads : ClaimStep(a, t)

Spec == Init /\ [][Next]_vars

(***************************************************************************)
(* Fairness.  Runnable goroutines run, timers fire, the print command      *)
(* ends, a daemon that is down is started again, and a cancelled ctx ends  *)
(* every request: that is the Go runtime and the machine, and no more.     *)
(***************************************************************************)
LocalFairness ==
    \A a \in Agents :
        /\ WF_vars(Start(a)) /\ WF_vars(MainExit(a)) /\ WF_vars(WorkerExit(a)) /\ WF_vars(Exit(a))
        /\ WF_vars(Connect(a)) /\ WF_vars(Tick(a)) /\ WF_vars(RecoverDone(a)) /\ WF_vars(Disconnect(a))
        /\ WF_vars(Take(a)) /\ WF_vars(PrintOk(a) \/ PrintErr(a)) /\ WF_vars(Retry(a) \/ Abandon(a))
        /\ WF_vars(run[a] = "stopping" /\ ReportReturned(a))
        /\ \A t \in Threads :
              /\ WF_vars(BeginCall(a, t))
              /\ WF_vars(run[a] = "stopping" /\ (ClaimFailed(a, t) \/ AckReturned(a, t)))

\* Every request is answered or fails, and the backend pushes what it can push.
NetworkFairness ==
    /\ \A j \in Jobs : WF_vars(Dispatch(j))
    /\ \A a \in Agents :
          /\ WF_vars(FetchOk(a) \/ FetchFail(a)) /\ WF_vars(ReportReturned(a))
          /\ \A t \in Threads :
                WF_vars(ClaimAnswered(a, t) \/ ClaimFailed(a, t)) /\ WF_vars(AckReturned(a, t))

LocalSpec == Spec /\ LocalFairness
FairSpec == LocalSpec /\ NetworkFairness

-------------------------------------------------------------------------------
(***************************************************************************)
(* Safety.                                                                 *)
(***************************************************************************)
\* Where a claimed job is inside the agents: acknowledged by a goroutine,
\* waiting in a queue, in the hands of a worker.
Acking(j)  == {p \in Agents \X Threads : call[p[1]][p[2]] = [job |-> j, what |-> "ACKNOWLEDGED"]}
Queued(j)  == UNION {{<<a, e>> : e \in {x \in queue[a] : x.job = j}} : a \in Agents}
Working(j) == {a \in Agents : work[a].job = j}
Handlers(j) == {p[1] : p \in Acking(j) \cup Queued(j)} \cup Working(j)

AtMostOne(S) == \A x, y \in S : x = y

(***************************************************************************)
(* Whoever has a job in hand, has put it on paper, or has a report about   *)
(* it under way, is the agent whose claim was granted: two agents never    *)
(* print the same job (README.md:57-60; agent.go:109-134).                 *)
(***************************************************************************)
OnlyOwnerHandles ==
    /\ \A j \in Jobs : Handlers(j) \cup printedBy[j] \subseteq {owner[j]} \ {NoAgent}
    /\ \A m \in late : m.what \in Reports => m.agent = owner[m.job]

(***************************************************************************)
(* A job is in one place at a time, though it may reach an agent by push   *)
(* and by recovery, on the readers of several sessions: it is queued once  *)
(* and no two attempts to print it overlap (agent.go:126-149,              *)
(* websocket.go:56-89, app.go:136-147).                                    *)
(***************************************************************************)
HandledOnce ==
    \A j \in Jobs :
        /\ AtMostOne(Acking(j)) /\ AtMostOne(Queued(j)) /\ AtMostOne(Working(j))
        /\ AtMostOne({k \in 1..3 : <<Acking(j), Queued(j), Working(j)>>[k] # {}})

(***************************************************************************)
(* Over all goroutines, sessions and restarts, what agents report of a job *)
(* is a path from ACKNOWLEDGED to one outcome, which comes last and once   *)
(* (agent.go:136-138, app.go:151-211).                                     *)
(***************************************************************************)
ReportsInOrder ==
    \A j \in Jobs :
        reports[j] \in {<<>>,
                        <<"ACKNOWLEDGED">>,
                        <<"ACKNOWLEDGED", "FAILED">>,
                        <<"ACKNOWLEDGED", "PRINTING">>,
                        <<"ACKNOWLEDGED", "PRINTING", "COMPLETED">>,
                        <<"ACKNOWLEDGED", "PRINTING", "FAILED">>}

(***************************************************************************)
(* What the backend believes of a job was reported by its owner, and       *)
(* COMPLETED is reported of nothing but paper, whatever requests were      *)
(* lost or came late (app.go:161-211, polling.go:103-135).                 *)
(***************************************************************************)
BackendNotAhead ==
    \A j \in Jobs :
        /\ status[j] \in Reports => \E i \in DOMAIN reports[j] : reports[j][i] = status[j]
        /\ status[j] = "COMPLETED" => owner[j] \in printedBy[j]

(***************************************************************************)
(* A job is put on paper at most MaxRetries times in all, restarts of its  *)
(* agent included (app.go:163-184).                                        *)
(***************************************************************************)
CopiesBounded == \A j \in Jobs : copies[j] <= MaxRetries

(***************************************************************************)
(* A type nobody ever enables at an agent is never claimed there, not even *)
(* by a request that comes late: its jobs stay for the agents that handle  *)
(* them (agent.go:117-124, README.md:133-135).                             *)
(***************************************************************************)
UnlistedUntouched == \A j \in Jobs : owner[j] # NoAgent => TypeOf[j] \in MayEnable[owner[j]]

(***************************************************************************)
(* The dashboard tells the truth: each of its records is of a job of this  *)
(* agent, of its own, with the outcome that was reported, COMPLETED only   *)
(* of a printed job, and never more failures than attempts (app.go:186-211,*)
(* history.go:31-39).                                                      *)
(***************************************************************************)
HistoryTruthful ==
    \A a \in Agents :
        /\ Len(history[a]) <= HistoryMax
        /\ \A i, k \in DOMAIN history[a] : history[a][i].job = history[a][k].job => i = k
        /\ \A i \in DOMAIN history[a] :
              LET r == history[a][i] IN
              /\ owner[r.job] = a
              /\ reports[r.job] # <<>> /\ r.status = Last(reports[r.job])
              /\ r.status = "COMPLETED" => a \in printedBy[r.job] /\ r.failures < MaxRetries

(***************************************************************************)
(* A backend that insists on the lifecycle has no reason to reject a       *)
(* report: when one is sent, the one before it has been served (agent.go:  *)
(* 136-138).  Stated of runs in which requests do not fail and every type  *)
(* has a printer.                                                          *)
(***************************************************************************)
NothingRejected ==
    \A a \in Agents :
        /\ \A t \in Threads : call[a][t].what = "ACKNOWLEDGED" =>
                                  status[call[a][t].job] \in Follows("ACKNOWLEDGED")
        /\ work[a].what \in Reports => status[work[a].job] \in Follows(work[a].what)

(***************************************************************************)
(* Refinement: what the agents do to each job, whatever they do to others, *)
(* is a behaviour of PrintOnce.                                            *)
(***************************************************************************)
Phase(j) ==
    IF Handlers(j) # {} THEN "taken" ELSE IF owner[j] = NoAgent THEN "open" ELSE "over"

Once == INSTANCE PrintOnce WITH
            MaxCopies <- MaxRetries, phase <- [j \in Jobs |-> Phase(j)], by <- owner
ImplementsPrintOnce == Once!Spec

-------------------------------------------------------------------------------
(***************************************************************************)
(* Liveness.                                                               *)
(***************************************************************************)
Settled(j) == status[j] \in {"COMPLETED", "FAILED"}

(***************************************************************************)
(* No jobs are lost: whatever connections break, a job the backend holds   *)
(* is printed or reported FAILED in the end (README.md:52-53).             *)
(***************************************************************************)
NoJobIsLost == \A j \in Jobs : (status[j] = "PENDING") ~> Settled(j)

(***************************************************************************)
(* A failed update leaves the backend stale only until a later fetch: the  *)
(* backend learns in the end of a job that was printed (polling.go:100-102)*)
(***************************************************************************)
StaleStatusRecovers == \A j \in Jobs : (copies[j] > 0) ~> Settled(j)

(***************************************************************************)
(* After SIGTERM the process ends, though the backend may never answer     *)
(* again and a job may be in any stage (app.go:116-124, 128-181).          *)
(***************************************************************************)
ShutdownEnds == \A a \in Agents : (run[a] = "stopping") ~> (run[a] = "down")
===============================================================================
