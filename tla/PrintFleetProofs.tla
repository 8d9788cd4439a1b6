--------------------------- MODULE PrintFleetProofs ---------------------------
(***************************************************************************)
(* Proofs about PrintFleet, for any agents, jobs, types, readers, retries, *)
(* and whatever the bounds on faults, drops, stops and saves: the types,   *)
(* and that only its owner ever handles a job.                             *)
(*                                                                         *)
(* The typing proof has one lemma per group of actions of Next; so has the *)
(* proof of ownership, whose inductive invariant is Owned.                 *)
(***************************************************************************)
EXTENDS PrintFleet, FiniteSetTheorems, TLAPS

(***************************************************************************)
(* Typing of the pieces actions are made of.                               *)
(***************************************************************************)
\* Updating a function at a point of its domain, or outside, keeps its type.
LEMMA ExceptType ==
    ASSUME NEW S, NEW T, NEW f \in [S -> T], NEW x, NEW y, x \in S => y \in T
    PROVE  [f EXCEPT ![x] = y] \in [S -> T]
  OBVIOUS

\* Taking from the bounds leaves bounds.
LEMMA SpendType ==
    ASSUME budget \in Budget, NEW what \in {"faults", "drops", "stops", "saves"}, Spend(what)
    PROVE  budget' \in Budget
  BY DEF Spend, Budget

\* A goroutine that waits for a request waits for one about a job.
LEMMA CallOfJob ==
    ASSUME IntakeType, NEW a \in Agents, NEW t \in Threads, call[a][t] # NoCall
    PROVE  /\ call[a][t].job \in Jobs
           /\ call[a][t].what \in {"CLAIM", "ACKNOWLEDGED"}
           /\ call[a][t] = [job |-> call[a][t].job, what |-> call[a][t].what]
  BY DEF IntakeType, Call

\* A worker that is neither idle nor stopped is at some stage of a job.
LEMMA WorkOfJob ==
    ASSUME WorkerType, NEW a \in Agents, work[a] # NoWork, work[a] # Stopped
    PROVE  /\ work[a].job \in Jobs
           /\ work[a].what \in {"PRINTING", "print", "wait", "COMPLETED", "FAILED"}
           /\ work[a].attempt \in 0..MaxRetries
           /\ work[a] = [job |-> work[a].job, what |-> work[a].what, attempt |-> work[a].attempt]
  BY DEF WorkerType, Work

\* Whoever has a step to do for a job has a job.
LEMMA WorkKinds ==
    ASSUME WorkerType, NEW a \in Agents
    PROVE  /\ work[a].what \in {"PRINTING", "print", "wait", "COMPLETED", "FAILED"}
                 => work[a] # NoWork /\ work[a] # Stopped
           /\ work[a].what \in Reports => work[a].what \in {"PRINTING", "COMPLETED", "FAILED"}
  <1>1. work[a] # NoWork /\ work[a] # Stopped => work[a].what # "ACKNOWLEDGED"
    BY WorkOfJob
  <1> QED
    BY <1>1 DEF NoWork, Stopped, Reports

\* What an agent has under way are requests: Stop and Crash may leave them behind.
LEMMA InFlightType ==
    ASSUME IntakeType, WorkerType, NEW a \in Agents
    PROVE  InFlight(a) \subseteq Request
  <1>1. ASSUME NEW t \in Threads, call[a][t] # NoCall
        PROVE  [agent |-> a, job |-> call[a][t].job, what |-> call[a][t].what] \in Request
    BY <1>1, CallOfJob DEF Request, Reports
  <1>2. ASSUME NEW r \in Reports, work[a].what = r
        PROVE  [agent |-> a, job |-> work[a].job, what |-> r] \in Request
    BY <1>2, WorkKinds, WorkOfJob DEF Request, Reports
  <1> QED
    BY <1>1, <1>2 DEF InFlight

\* The backend's answer to any request leaves its records well-formed.
LEMMA ServeType ==
    ASSUME BackendType, NEW m \in Request, Serve(m)
    PROVE  /\ status' \in [Jobs -> Statuses]
           /\ owner' \in [Jobs -> Agents \cup {NoAgent}]
  BY DEF BackendType, Serve, Accepts, Request, Statuses, Reports

\* However a request of a running or stopping agent ends.
LEMMA ReturnedType ==
    ASSUME BackendType, NEW a \in Agents, NEW m \in Request, Returned(a, m)
    PROVE  BackendType'
  <1>1. CASE Answered(a, m)
    BY <1>1, ServeType DEF Answered, BackendType
  <1>2. CASE GaveUp(a, m)
    BY <1>2, SpendType DEF GaveUp, BackendType
  <1> QED
    BY <1>1, <1>2 DEF Returned

\* A call of UpdateStatus is recorded.
LEMMA ReportType ==
    ASSUME reports \in [Jobs -> Seq(Reports)], NEW j \in Jobs, NEW r \in Reports, Report(j, r)
    PROVE  reports' \in [Jobs -> Seq(Reports)]
  <1>1. Append(reports[j], r) \in Seq(Reports)
    OBVIOUS
  <1> QED
    BY <1>1 DEF Report

\* Paper comes out for the job in the worker's hands.
LEMMA PaperType ==
    ASSUME copies \in [Jobs -> Nat], printedBy \in [Jobs -> SUBSET Agents],
           NEW a \in Agents, work[a].job \in Jobs, Paper(a)
    PROVE  copies' \in [Jobs -> Nat] /\ printedBy' \in [Jobs -> SUBSET Agents]
  BY DEF Paper

\* An agent that starts afresh is in its initial state.
LEMMA ForgetType ==
    ASSUME ProcessType, IntakeType, WorkerType, NEW a \in Agents, Forget(a), UNCHANGED config
    PROVE  ProcessType' /\ IntakeType' /\ WorkerType'
  <1>1. ProcessType'
    BY DEF ProcessType, Forget, FirstStage, config
  <1>2. IntakeType'
    <2>1. [t \in Threads |-> <<>>] \in [Threads -> Seq(Jobs)]
      OBVIOUS
    <2>2. [t \in Threads |-> NoCall] \in [Threads -> Call]
      BY DEF Call
    <2>3. feed' \in [Agents -> [Threads -> Seq(Jobs)]]
      BY <2>1 DEF IntakeType, Forget
    <2>4. call' \in [Agents -> [Threads -> Call]]
      BY <2>2 DEF IntakeType, Forget
    <2>5. queue' \in [Agents -> SUBSET Entry] /\ seq' \in [Agents -> Nat]
      BY DEF IntakeType, Forget
    <2> QED
      BY <2>3, <2>4, <2>5 DEF IntakeType
  <1>3. WorkerType'
    <2>1. work' \in [Agents -> Work]
      BY DEF WorkerType, Forget, Work
    <2>2. ASSUME NEW b \in Agents, work'[b].what = "wait" PROVE work'[b].attempt < MaxRetries
      BY <2>2 DEF WorkerType, Forget, NoWork
    <2>3. history' \in [Agents -> Seq(Record)]
      <3>1. <<>> \in Seq(Record)
        OBVIOUS
      <3> QED
        BY <3>1 DEF WorkerType, Forget
    <2> QED
      BY <2>1, <2>2, <2>3 DEF WorkerType
  <1> QED
    BY <1>1, <1>2, <1>3

\* History.Add returns a list of records.
LEMMA AddType ==
    ASSUME NEW h \in Seq(Record), NEW r \in Record
    PROVE  Add(h, r) \in Seq(Record)
  <1>1. <<r>> \o h \in Seq(Record) /\ Len(<<r>> \o h) = Len(h) + 1
    OBVIOUS
  <1>2. HistoryMax \in Nat \ {0}
    BY FleetAssumption
  <1> QED
    BY <1>1, <1>2 DEF Add

-------------------------------------------------------------------------------
(***************************************************************************)
(* Typing of the steps, group by group of actions.                         *)
(***************************************************************************)
\* Steps of the backend keep the types.
LEMMA BackendTyping ==
    ASSUME TypeOK, BackendStep
    PROVE  TypeOK'
  <1>1. ASSUME NEW j \in Jobs, Create(j) PROVE TypeOK'
    BY <1>1 DEF TypeOK, BackendType, ProcessType, IntakeType, WorkerType, GhostType, Create,
                Statuses, Pendings, config, conn, intake, store, ghosts
  <1>2. ASSUME NEW j \in Jobs, Dispatch(j) PROVE TypeOK'
    <2>1. PICK to \in SUBSET Agents :
             feed' = [a \in Agents |->
                        IF a \in to THEN [feed[a] EXCEPT ![session[a]] = Append(@, j)]
                        ELSE feed[a]]
      BY <1>2 DEF Dispatch
    <2>2. ASSUME NEW a \in Agents
          PROVE  [feed[a] EXCEPT ![session[a]] = Append(@, j)] \in [Threads -> Seq(Jobs)]
      <3>1. feed[a] \in [Threads -> Seq(Jobs)]
        BY DEF TypeOK, IntakeType
      <3>2. session[a] \in Threads => Append(feed[a][session[a]], j) \in Seq(Jobs)
        BY <3>1
      <3> QED
        BY <3>1, <3>2, ExceptType
    <2>3. feed' \in [Agents -> [Threads -> Seq(Jobs)]]
      BY <2>1, <2>2 DEF TypeOK, IntakeType
    <2> QED
      BY <1>2, <2>3 DEF TypeOK, BackendType, ProcessType, IntakeType, WorkerType, GhostType,
                        Dispatch, Statuses, Pendings, config, conn, store, ghosts
  <1>3. ASSUME NEW m \in late, Deliver(m) PROVE TypeOK'
    <2>1. m \in Request
      BY DEF TypeOK, BackendType
    <2> QED
      BY <1>3, <2>1, ServeType
      DEF TypeOK, BackendType, ProcessType, IntakeType, WorkerType, GhostType,
          Deliver, config, conn, intake, store, ghosts
  <1> QED
    BY <1>1, <1>2, <1>3 DEF BackendStep

\* Start, shutdown, crash and settings keep the types.
LEMMA ProcessTyping ==
    ASSUME TypeOK, NEW a \in Agents, ProcessStep(a)
    PROVE  TypeOK'
  <1> USE DEF TypeOK, backend, config, conn, intake, store, ghosts
  <1>1. CASE Start(a) \/ MainExit(a)
    BY <1>1 DEF BackendType, ProcessType, IntakeType, WorkerType, GhostType, Start, MainExit
  <1>2. CASE Stop(a)
    <2>1. BackendType'
      <3>1. late' \subseteq Request
        BY <1>2, InFlightType DEF Stop, BackendType
      <3> QED
        BY <1>2, <3>1, SpendType DEF Stop, BackendType
    <2> QED
      BY <1>2, <2>1 DEF ProcessType, IntakeType, WorkerType, GhostType, Stop
  <1>3. CASE WorkerExit(a)
    <2>1. WorkerType'
      BY <1>3 DEF WorkerExit, WorkerType, Work, Stopped
    <2> QED
      BY <1>3, <2>1 DEF BackendType, ProcessType, IntakeType, GhostType, WorkerExit
  <1>4. CASE Exit(a)
    BY <1>4, ForgetType DEF BackendType, GhostType, Exit
  <1>5. CASE Crash(a)
    <2>1. BackendType'
      <3>1. late' \subseteq Request
        BY <1>5, InFlightType DEF Crash, BackendType
      <3> QED
        BY <1>5, <3>1, SpendType DEF Crash, BackendType
    <2>2. GhostType'
      <3>1. CASE UNCHANGED <<copies, printedBy>>
        BY <1>5, <3>1 DEF Crash, GhostType
      <3>2. CASE /\ work[a].what = "print"
                 /\ copies' = [copies EXCEPT ![work[a].job] = @ + 1]
                 /\ printedBy' = [printedBy EXCEPT ![work[a].job] = @ \cup {a}]
        <4>1. Paper(a)
          BY <3>2 DEF Paper
        <4> QED
          BY <1>5, <3>2, <4>1, PaperType, WorkKinds, WorkOfJob DEF Crash, GhostType
      <3> QED
        BY <1>5, <3>1, <3>2 DEF Crash
    <2> QED
      BY <1>5, <2>1, <2>2, ForgetType DEF Crash
  <1>6. CASE SaveSettings(a)
    <2>1. BackendType'
      BY <1>6, SpendType DEF SaveSettings, BackendType
    <2>2. MayEnable[a] \in SUBSET Types /\ MayMap[a] \in SUBSET Types
      BY FleetAssumption
    <2>3. enabled' \in [Agents -> SUBSET Types]
      <3>1. PICK types \in SUBSET MayEnable[a] : enabled' = [enabled EXCEPT ![a] = types]
        BY <1>6 DEF SaveSettings
      <3> QED
        BY <2>2, <3>1 DEF ProcessType
    <2>4. printers' \in [Agents -> SUBSET Types]
      <3>1. PICK types \in SUBSET MayMap[a] : printers' = [printers EXCEPT ![a] = types]
        BY <1>6 DEF SaveSettings
      <3> QED
        BY <2>2, <3>1 DEF ProcessType
    <2> QED
      BY <1>6, <2>1, <2>3, <2>4 DEF ProcessType, IntakeType, WorkerType, GhostType, SaveSettings
  <1> QED
    BY <1>1, <1>2, <1>3, <1>4, <1>5, <1>6 DEF ProcessStep

\* Steps of the main goroutine and the connection keep the types.
LEMMA SessionTyping ==
    ASSUME TypeOK, NEW a \in Agents, SessionStep(a)
    PROVE  TypeOK'
  <1> USE DEF TypeOK, backend, config, conn, intake, store, ghosts
  <1>1. CASE Connect(a) \/ Tick(a) \/ RecoverDone(a) \/ Disconnect(a)
    <2>1. ProcessType'
      BY <1>1 DEF ProcessType, Connect, Tick, RecoverDone, Disconnect, Rest
    <2> QED
      BY <1>1, <2>1 DEF BackendType, IntakeType, WorkerType, GhostType,
                        Connect, Tick, RecoverDone, Disconnect
  <1>2. CASE FetchOk(a)
    <2> DEFINE P == {j \in Jobs : status[j] \in Pendings}
    <2>1. PICK order \in SetToSeqs(P) : feed' = [feed EXCEPT ![a]["main"] = order]
      BY <1>2 DEF FetchOk
    <2>2. Cardinality(P) \in Nat
      BY FS_Subset, FS_CardinalityType, FleetAssumption
    <2>3. order \in Seq(Jobs)
      BY <2>2 DEF SetToSeqs
    <2>4. feed' \in [Agents -> [Threads -> Seq(Jobs)]]
      BY <2>1, <2>3 DEF IntakeType, Threads
    <2> QED
      BY <1>2, <2>4 DEF BackendType, ProcessType, IntakeType, WorkerType, GhostType, FetchOk
  <1>3. CASE FetchFail(a)
    <2>1. BackendType'
      BY <1>3, SpendType DEF FetchFail, BackendType
    <2> QED
      BY <1>3, <2>1 DEF ProcessType, IntakeType, WorkerType, GhostType, FetchFail, Rest
  <1>4. CASE DropLink(a)
    <2>1. BackendType'
      BY <1>4, SpendType DEF DropLink, BackendType
    <2>2. PICK n \in 0..Len(feed[a][session[a]]) :
             feed' = [feed EXCEPT ![a][session[a]] = SubSeq(@, 1, n)]
      BY <1>4 DEF DropLink
    <2>3. session[a] \in Threads => SubSeq(feed[a][session[a]], 1, n) \in Seq(Jobs)
      BY <2>2 DEF IntakeType
    <2>4. [feed[a] EXCEPT ![session[a]] = SubSeq(@, 1, n)] \in [Threads -> Seq(Jobs)]
      <3>1. feed[a] \in [Threads -> Seq(Jobs)]
        BY DEF IntakeType
      <3> QED
        BY <2>3, <3>1, ExceptType
    <2>5. feed' \in [Agents -> [Threads -> Seq(Jobs)]]
      BY <2>2, <2>4 DEF IntakeType
    <2> QED
      BY <1>4, <2>1, <2>5 DEF ProcessType, IntakeType, WorkerType, GhostType, DropLink
  <1> QED
    BY <1>1, <1>2, <1>3, <1>4 DEF SessionStep

\* Steps of claimAndEnqueue keep the types.
LEMMA ClaimTyping ==
    ASSUME TypeOK, NEW a \in Agents, NEW t \in Threads, ClaimStep(a, t)
    PROVE  TypeOK'
  <1> USE DEF TypeOK, backend, config, conn, intake, store, ghosts
  <1>1. CASE BeginCall(a, t)
    <2> DEFINE j == Head(feed[a][t])
    <2>1. feed[a][t] \in Seq(Jobs) /\ feed[a][t] # <<>>
      BY <1>1 DEF BeginCall, IntakeType
    <2>2. j \in Jobs /\ Tail(feed[a][t]) \in Seq(Jobs)
      BY <2>1
    <2>3. feed' \in [Agents -> [Threads -> Seq(Jobs)]]
      BY <1>1, <2>2 DEF BeginCall, IntakeType
    <2>4. [job |-> j, what |-> "CLAIM"] \in Call
      BY <2>2 DEF Call
    <2>5. call' \in [Agents -> [Threads -> Call]]
      BY <1>1, <2>4 DEF BeginCall, IntakeType
    <2> QED
      BY <1>1, <2>3, <2>5 DEF BackendType, ProcessType, IntakeType, WorkerType, GhostType, BeginCall
  <1>2. ASSUME call[a][t].what \in {"CLAIM", "ACKNOWLEDGED"}
        PROVE  /\ call[a][t].job \in Jobs
               /\ [agent |-> a, job |-> call[a][t].job, what |-> call[a][t].what] \in Request
    <2>1. call[a][t] # NoCall
      BY <1>2 DEF NoCall
    <2> QED
      BY <2>1, CallOfJob DEF Request, Reports
  <1>3. NoCall \in Call
    BY DEF Call
  <1>4. CASE ClaimAnswered(a, t)
    <2> DEFINE j == call[a][t].job
               m == [agent |-> a, job |-> j, what |-> "CLAIM"]
    <2>1. j \in Jobs /\ m \in Request
      BY <1>2, <1>4 DEF ClaimAnswered
    <2>2. Returned(a, m)
      BY <1>4 DEF ClaimAnswered, Returned
    <2>3. BackendType'
      BY <2>1, <2>2, ReturnedType
    <2>4. reports' \in [Jobs -> Seq(Reports)]
      BY <1>4, <2>1, ReportType DEF ClaimAnswered, GhostType, Reports
    <2>5. [call[a][t] EXCEPT !.what = "ACKNOWLEDGED"] \in Call
      <3>1. call[a][t] = [job |-> j, what |-> "CLAIM"]
        BY <1>4, CallOfJob DEF ClaimAnswered, NoCall
      <3> QED
        BY <2>1, <3>1 DEF Call
    <2>6. call' \in [Agents -> [Threads -> Call]]
      <3>1. CASE call' = [call EXCEPT ![a][t].what = "ACKNOWLEDGED"]
        BY <2>5, <3>1 DEF IntakeType
      <3>2. CASE call' = [call EXCEPT ![a][t] = NoCall]
        BY <1>3, <3>2 DEF IntakeType
      <3> QED
        BY <1>4, <3>1, <3>2 DEF ClaimAnswered
    <2> QED
      BY <1>4, <2>3, <2>4, <2>6 DEF ProcessType, IntakeType, WorkerType, GhostType, ClaimAnswered
  <1>5. CASE ClaimFailed(a, t)
    <2>1. BackendType'
      BY <1>2, <1>5, ReturnedType DEF ClaimFailed, Returned
    <2> QED
      BY <1>3, <1>5, <2>1 DEF ProcessType, IntakeType, WorkerType, GhostType, ClaimFailed
  <1>6. CASE AckReturned(a, t)
    <2> DEFINE j == call[a][t].job
               e == [job |-> j, prio |-> PriorityOf(a, j), seq |-> seq'[a]]
    <2>1. j \in Jobs
      BY <1>2, <1>6 DEF AckReturned
    <2>2. BackendType'
      BY <1>2, <1>6, ReturnedType DEF AckReturned
    <2>3. PriorityOf(a, j) \in Int
      BY <2>1, FleetAssumption DEF PriorityOf
    <2>4. seq' \in [Agents -> Nat]
      BY <1>6 DEF AckReturned, IntakeType
    <2>5. e \in Entry
      BY <2>1, <2>3, <2>4 DEF Entry
    <2>6. queue' \in [Agents -> SUBSET Entry]
      BY <1>6, <2>5 DEF AckReturned, IntakeType
    <2> QED
      BY <1>3, <1>6, <2>2, <2>4, <2>6 DEF ProcessType, IntakeType, WorkerType, GhostType, AckReturned
  <1> QED
    BY <1>1, <1>4, <1>5, <1>6 DEF ClaimStep

\* Steps of the print worker keep the types.
LEMMA WorkerTyping ==
    ASSUME TypeOK, NEW a \in Agents, WorkerStep(a)
    PROVE  TypeOK'
  <1> USE DEF TypeOK, backend, config, conn, intake, store, ghosts
  <1> DEFINE w == work[a]
  <1>1. ASSUME w.what \in {"PRINTING", "print", "wait", "COMPLETED", "FAILED"}
        PROVE  /\ w.job \in Jobs
               /\ w.attempt \in 0..MaxRetries
               /\ w = [job |-> w.job, what |-> w.what, attempt |-> w.attempt]
    BY <1>1, WorkKinds, WorkOfJob
  <1>2. \* what a step must show of work: only one agent's work changes
        ASSUME NEW v \in Work, v.what = "wait" => v.attempt < MaxRetries,
               work' = [work EXCEPT ![a] = v], history' \in [Agents -> Seq(Record)]
        PROVE  WorkerType'
    BY <1>2 DEF WorkerType
  <1>3. MaxRetries \in Nat \ {0}
    BY FleetAssumption
  <1>4. NoWork \in Work /\ NoWork.what # "wait"
    BY DEF NoWork, Work
  <1>5. CASE Take(a)
    <2>1. PICK e \in queue[a] :
             /\ queue' = [queue EXCEPT ![a] = @ \ {e}]
             /\ work' = [work EXCEPT ![a] = [job |-> e.job, what |-> FirstReport(a, e.job),
                                             attempt |-> 0]]
             /\ Report(e.job, FirstReport(a, e.job))
      BY <1>5 DEF Take
    <2>2. e.job \in Jobs
      BY DEF IntakeType, Entry
    <2>3. FirstReport(a, e.job) \in {"PRINTING", "FAILED"}
      BY DEF FirstReport
    <2>4. [job |-> e.job, what |-> FirstReport(a, e.job), attempt |-> 0] \in Work
      BY <1>3, <2>2, <2>3 DEF Work
    <2>5. WorkerType'
      BY <1>2, <1>5, <2>1, <2>3, <2>4 DEF Take, WorkerType
    <2>6. queue' \in [Agents -> SUBSET Entry]
      BY <2>1 DEF IntakeType
    <2>7. reports' \in [Jobs -> Seq(Reports)]
      BY <2>1, <2>2, <2>3, ReportType DEF GhostType, Reports
    <2> QED
      BY <1>5, <2>5, <2>6, <2>7 DEF BackendType, ProcessType, IntakeType, GhostType, Take
  <1>6. CASE ReportReturned(a)
    <2> DEFINE m == [agent |-> a, job |-> w.job, what |-> w.what]
               r == [job |-> w.job, status |-> w.what,
                     failures |-> IF w.what = "FAILED" THEN w.attempt ELSE w.attempt - 1]
    <2>1. w.what \in {"PRINTING", "COMPLETED", "FAILED"}
      BY <1>6, WorkKinds DEF ReportReturned
    <2>2. w.job \in Jobs /\ w.attempt \in 0..MaxRetries
      BY <1>1, <2>1
    <2>3. m \in Request
      BY <2>1, <2>2 DEF Request, Reports
    <2>4. BackendType'
      BY <1>6, <2>3, ReturnedType DEF ReportReturned
    <2>5. history' \in [Agents -> Seq(Record)]
      <3>1. CASE history' = history
        BY <3>1 DEF WorkerType
      <3>2. CASE w.what # "PRINTING" /\ w.attempt # 0
        <4>1. r \in Record
          BY <1>3, <2>1, <2>2, <3>2 DEF Record
        <4>2. Add(history[a], r) \in Seq(Record)
          BY <4>1, AddType DEF WorkerType
        <4>3. history' = [history EXCEPT ![a] = Add(history[a], r)]
          BY <1>6, <3>2 DEF ReportReturned
        <4> QED
          BY <4>2, <4>3 DEF WorkerType
      <3> QED
        BY <1>6, <3>1, <3>2 DEF ReportReturned
    <2>6. Printing(w.job, 1) \in Work /\ Printing(w.job, 1).what # "wait"
      BY <1>3, <2>2 DEF Printing, Work
    <2>7. WorkerType'
      <3>1. CASE w.what = "PRINTING"
        <4>1. work' = [work EXCEPT ![a] = Printing(w.job, 1)]
          BY <1>6, <3>1 DEF ReportReturned
        <4> QED
          BY <1>2, <2>5, <2>6, <4>1
      <3>2. CASE w.what # "PRINTING"
        <4>1. work' = [work EXCEPT ![a] = NoWork]
          BY <1>6, <3>2 DEF ReportReturned
        <4> QED
          BY <1>2, <1>4, <2>5, <4>1
      <3> QED
        BY <3>1, <3>2
    <2> QED
      BY <1>6, <2>4, <2>7 DEF ProcessType, IntakeType, GhostType, ReportReturned
  <1>7. CASE PrintOk(a)
    <2> DEFINE v == [w EXCEPT !.what = "COMPLETED"]
    <2>1. v \in Work /\ v.what # "wait" /\ work' = [work EXCEPT ![a] = v]
      BY <1>1, <1>7 DEF PrintOk, Work, WorkerType
    <2>2. WorkerType'
      BY <1>2, <1>7, <2>1 DEF PrintOk, WorkerType
    <2>3. reports' \in [Jobs -> Seq(Reports)]
      BY <1>1, <1>7, ReportType DEF PrintOk, GhostType, Reports
    <2>4. copies' \in [Jobs -> Nat] /\ printedBy' \in [Jobs -> SUBSET Agents]
      BY <1>1, <1>7, PaperType DEF PrintOk, GhostType
    <2> QED
      BY <1>7, <2>2, <2>3, <2>4 DEF BackendType, ProcessType, IntakeType, GhostType, PrintOk
  <1>8. CASE PrintErr(a)
    <2>1. WorkerType'
      <3>1. CASE Spent(w.attempt)
        <4> DEFINE v == [w EXCEPT !.what = "FAILED"]
        <4>1. v \in Work /\ v.what # "wait" /\ work' = [work EXCEPT ![a] = v]
          BY <1>1, <1>8, <3>1 DEF PrintErr, Work, WorkerType
        <4> QED
          BY <1>2, <1>8, <4>1 DEF PrintErr, WorkerType
      <3>2. CASE ~Spent(w.attempt)
        <4> DEFINE v == [w EXCEPT !.what = "wait"]
        <4>1. v \in Work /\ work' = [work EXCEPT ![a] = v]
          BY <1>1, <1>8, <3>2 DEF PrintErr, Work, WorkerType
        <4>2. v.attempt < MaxRetries
          BY <1>1, <1>3, <1>8, <3>2 DEF PrintErr, Spent
        <4> QED
          BY <1>2, <1>8, <4>1, <4>2 DEF PrintErr, WorkerType
      <3> QED
        BY <3>1, <3>2
    <2>2. reports' \in [Jobs -> Seq(Reports)]
      BY <1>1, <1>8, ReportType DEF PrintErr, GhostType, Reports
    <2>3. copies' \in [Jobs -> Nat] /\ printedBy' \in [Jobs -> SUBSET Agents]
      BY <1>1, <1>8, PaperType DEF PrintErr, GhostType
    <2> QED
      BY <1>8, <2>1, <2>2, <2>3 DEF BackendType, ProcessType, IntakeType, GhostType, PrintErr
  <1>9. CASE Retry(a)
    <2> DEFINE v == Printing(w.job, w.attempt + 1)
    <2>1. w.job \in Jobs /\ w.attempt \in 0..MaxRetries /\ w.attempt < MaxRetries
      BY <1>1, <1>9 DEF Retry, WorkerType
    <2>2. v \in Work /\ v.what # "wait"
      BY <1>3, <2>1 DEF Printing, Work
    <2>3. WorkerType'
      BY <1>2, <1>9, <2>2 DEF Retry, WorkerType
    <2> QED
      BY <1>9, <2>3 DEF BackendType, ProcessType, IntakeType, GhostType, Retry
  <1>10. CASE Abandon(a)
    <2>1. WorkerType'
      BY <1>2, <1>4, <1>10 DEF Abandon, WorkerType
    <2> QED
      BY <1>10, <2>1 DEF BackendType, ProcessType, IntakeType, GhostType, Abandon
  <1> QED
    BY <1>5, <1>6, <1>7, <1>8, <1>9, <1>10 DEF WorkerStep

\* Every step keeps the types: TypeOK is inductive.
LEMMA TypingStep == TypeOK /\ [Next]_vars => TypeOK'
  <1> SUFFICES ASSUME TypeOK, [Next]_vars PROVE TypeOK'
    OBVIOUS
  <1>1. CASE UNCHANGED vars
    BY <1>1 DEF TypeOK, BackendType, ProcessType, IntakeType, WorkerType, GhostType,
                vars, backend, config, conn, intake, store, ghosts
  <1> QED
    BY <1>1, BackendTyping, ProcessTyping, SessionTyping, ClaimTyping, WorkerTyping DEF Next

LEMMA InitTyping == Init => TypeOK
  <1> SUFFICES ASSUME Init PROVE TypeOK
    OBVIOUS
  <1>1. BackendType
    BY FleetAssumption DEF Init, BackendType, Statuses, Request, Budget
  <1>2. ProcessType
    BY FleetAssumption DEF Init, ProcessType, FirstStage
  <1>3. IntakeType
    BY DEF Init, IntakeType, Call
  <1>4. WorkerType
    BY DEF Init, WorkerType, NoWork, Work
  <1>5. GhostType
    BY DEF Init, GhostType
  <1> QED
    BY <1>1, <1>2, <1>3, <1>4, <1>5 DEF TypeOK

(***************************************************************************)
(* Every variable keeps its type in every behaviour.                       *)
(***************************************************************************)
THEOREM Typing == Spec => []TypeOK
  BY InitTyping, TypingStep, PTL DEF Spec

-------------------------------------------------------------------------------
(***************************************************************************)
(* Ownership.  OnlyOwnerHandles place by place is an inductive invariant:  *)
(* a claim is granted only while the job has no owner, hence is nowhere;   *)
(* from there the job moves from place to place inside its owner, and      *)
(* every report a process leaves behind is one it had under way.           *)
(***************************************************************************)
CallsOwned == \A a \in Agents : \A t \in Threads :
                 call[a][t].what = "ACKNOWLEDGED" => owner[call[a][t].job] = a
QueueOwned == \A a \in Agents : \A e \in queue[a] : owner[e.job] = a
WorkOwned  == \A a \in Agents : work[a].job \in Jobs => owner[work[a].job] = a
LateOwned  == \A m \in late : m.what \in Reports => owner[m.job] = m.agent
PaperOwned == \A j \in Jobs : \A a \in printedBy[j] : owner[j] = a

Owned == CallsOwned /\ QueueOwned /\ WorkOwned /\ LateOwned /\ PaperOwned

\* A job keeps its owner.
OwnerKept == \A j \in Jobs : owner[j] \in Agents => owner'[j] = owner[j]

\* No request takes a job from its owner.
LEMMA ServeKeepsOwner ==
    ASSUME BackendType, NEW m \in Request, Serve(m)
    PROVE  OwnerKept
  BY FleetAssumption DEF BackendType, Request, Serve, Granted, OwnerKept

\* Nor does a call that returns, answered or not.
LEMMA ReturnedKeepsOwner ==
    ASSUME BackendType, NEW a \in Agents, NEW m \in Request, Returned(a, m)
    PROVE  OwnerKept
  BY ServeKeepsOwner DEF Returned, Answered, GaveUp, OwnerKept

\* What stays owned when owners are kept: everything that does not grow.
LEMMA StaysOwned ==
    ASSUME TypeOK, TypeOK', Owned, OwnerKept
    PROVE  /\ (\A a \in Agents : \A t \in Threads :
                  call'[a][t].what = "ACKNOWLEDGED" => call'[a][t] = call[a][t]) => CallsOwned'
           /\ (\A a \in Agents : queue'[a] \subseteq queue[a]) => QueueOwned'
           /\ (\A a \in Agents : work'[a].job \in Jobs => work'[a].job = work[a].job) => WorkOwned'
           /\ (\A m \in late' : m.what \in Reports => m \in late \/ owner[m.job] = m.agent)
                 => LateOwned'
           /\ (\A j \in Jobs : \A a \in printedBy'[j] : a \in printedBy[j] \/ owner[j] = a)
                 => PaperOwned'
  <1> USE DEF TypeOK, OwnerKept, Owned
  <1>1. ASSUME \A a \in Agents : \A t \in Threads :
                  call'[a][t].what = "ACKNOWLEDGED" => call'[a][t] = call[a][t]
        PROVE  CallsOwned'
    <2> SUFFICES ASSUME NEW a \in Agents, NEW t \in Threads, call'[a][t].what = "ACKNOWLEDGED"
                 PROVE  owner'[call'[a][t].job] = a
      BY DEF CallsOwned
    <2>1. call[a][t] = call'[a][t] /\ call[a][t] # NoCall
      BY <1>1 DEF NoCall
    <2>2. call[a][t].job \in Jobs
      BY <2>1, CallOfJob
    <2> QED
      BY <2>1, <2>2 DEF CallsOwned
  <1>2. ASSUME \A a \in Agents : queue'[a] \subseteq queue[a] PROVE QueueOwned'
    BY <1>2 DEF QueueOwned, IntakeType, Entry
  <1>3. ASSUME \A a \in Agents : work'[a].job \in Jobs => work'[a].job = work[a].job
        PROVE  WorkOwned'
    BY <1>3 DEF WorkOwned
  <1>4. ASSUME \A m \in late' : m.what \in Reports => m \in late \/ owner[m.job] = m.agent
        PROVE  LateOwned'
    BY <1>4 DEF LateOwned, BackendType, Request
  <1>5. ASSUME \A j \in Jobs : \A a \in printedBy'[j] : a \in printedBy[j] \/ owner[j] = a
        PROVE  PaperOwned'
    BY <1>5 DEF PaperOwned, GhostType
  <1> QED
    BY <1>1, <1>2, <1>3, <1>4, <1>5

\* Every report an agent has under way is about a job it owns.
LEMMA InFlightOwned ==
    ASSUME TypeOK, Owned, NEW a \in Agents, NEW m \in InFlight(a), m.what \in Reports
    PROVE  owner[m.job] = m.agent
  <1>1. ASSUME NEW t \in Threads, call[a][t] # NoCall,
               m = [agent |-> a, job |-> call[a][t].job, what |-> call[a][t].what]
        PROVE  owner[m.job] = m.agent
    BY <1>1, CallOfJob DEF TypeOK, Owned, CallsOwned, Reports
  <1>2. ASSUME NEW r \in Reports, work[a].what = r, m = [agent |-> a, job |-> work[a].job, what |-> r]
        PROVE  owner[m.job] = m.agent
    BY <1>2, WorkKinds, WorkOfJob DEF TypeOK, Owned, WorkOwned
  <1> QED
    BY <1>1, <1>2 DEF InFlight

\* The request a returning call leaves behind, if it does, is its own.
LEMMA ReturnedLate ==
    ASSUME TypeOK, NEW a \in Agents, NEW m \in Request, Returned(a, m), NEW n \in late'
    PROVE  n \in late \/ n = m
  BY DEF Returned, Answered, GaveUp

\* The only agent that ever joins printedBy is the owner.
LEMMA PaperGrows ==
    ASSUME TypeOK, Owned, NEW a \in Agents, work[a].job \in Jobs,
           printedBy' = [printedBy EXCEPT ![work[a].job] = @ \cup {a}]
    PROVE  \A j \in Jobs : \A b \in printedBy'[j] : b \in printedBy[j] \/ owner[j] = b
  BY DEF TypeOK, GhostType, Owned, WorkOwned

\* Steps of the backend keep every place owned.
LEMMA BackendOwned ==
    ASSUME TypeOK, TypeOK', Owned, BackendStep
    PROVE  Owned'
  <1>1. ASSUME NEW j \in Jobs, Create(j) \/ Dispatch(j) PROVE Owned'
    <2>1. OwnerKept
      BY <1>1 DEF Create, Dispatch, OwnerKept
    <2> QED
      BY <1>1, <2>1, StaysOwned DEF Owned, Create, Dispatch, intake, store, ghosts
  <1>2. ASSUME NEW m \in late, Deliver(m) PROVE Owned'
    <2>1. OwnerKept
      BY <1>2, ServeKeepsOwner DEF Deliver, TypeOK, BackendType
    <2> QED
      BY <1>2, <2>1, StaysOwned DEF Owned, Deliver, intake, store, ghosts
  <1> QED
    BY <1>1, <1>2 DEF BackendStep

\* Start, shutdown, crash and settings keep every place owned.
LEMMA ProcessOwned ==
    ASSUME TypeOK, TypeOK', Owned, NEW a \in Agents, ProcessStep(a)
    PROVE  Owned'
  <1>1. OwnerKept
    BY DEF ProcessStep, Start, Stop, MainExit, WorkerExit, Exit, Crash, SaveSettings,
           OwnerKept, backend
  <1>2. CASE Start(a) \/ MainExit(a) \/ SaveSettings(a)
    BY <1>1, <1>2, StaysOwned
    DEF Owned, Start, MainExit, SaveSettings, backend, intake, store, ghosts
  <1>3. CASE Stop(a)
    <2>1. \A m \in late' : m.what \in Reports => m \in late \/ owner[m.job] = m.agent
      BY <1>3, InFlightOwned DEF Stop
    <2> QED
      BY <1>1, <1>3, <2>1, StaysOwned DEF Owned, Stop, intake, store, ghosts
  <1>4. CASE WorkerExit(a)
    <2>1. \A b \in Agents : work'[b].job \in Jobs => work'[b].job = work[b].job
      BY <1>4, FleetAssumption DEF WorkerExit, Stopped, TypeOK, WorkerType
    <2> QED
      BY <1>1, <1>4, <2>1, StaysOwned DEF Owned, WorkerExit, backend, intake, store, ghosts
  <1>5. ASSUME Forget(a)
        PROVE  /\ \A b \in Agents : \A t \in Threads :
                     call'[b][t].what = "ACKNOWLEDGED" => call'[b][t] = call[b][t]
               /\ \A b \in Agents : queue'[b] \subseteq queue[b]
               /\ \A b \in Agents : work'[b].job \in Jobs => work'[b].job = work[b].job
    <2>1. \A t \in Threads : call'[a][t] = NoCall
      BY <1>5 DEF Forget, TypeOK, IntakeType
    <2>2. \A b \in Agents : b # a => call'[b] = call[b]
      BY <1>5 DEF Forget, TypeOK, IntakeType
    <2>3. \A b \in Agents : queue'[b] \subseteq queue[b]
      BY <1>5 DEF Forget, TypeOK, IntakeType
    <2>4. \A b \in Agents : work'[b].job \in Jobs => work'[b].job = work[b].job
      BY <1>5, FleetAssumption DEF Forget, NoWork, TypeOK, WorkerType
    <2> QED
      BY <2>1, <2>2, <2>3, <2>4 DEF NoCall
  <1>6. CASE Exit(a)
    BY <1>1, <1>5, <1>6, StaysOwned DEF Owned, Exit, backend, ghosts
  <1>7. CASE Crash(a)
    <2>1. \A m \in late' : m.what \in Reports => m \in late \/ owner[m.job] = m.agent
      BY <1>7, InFlightOwned DEF Crash
    <2>2. \A j \in Jobs : \A b \in printedBy'[j] : b \in printedBy[j] \/ owner[j] = b
      <3>1. CASE printedBy' = printedBy
        BY <3>1
      <3>2. CASE /\ work[a].what = "print"
                 /\ printedBy' = [printedBy EXCEPT ![work[a].job] = @ \cup {a}]
        BY <3>2, PaperGrows, WorkKinds, WorkOfJob DEF TypeOK
      <3> QED
        BY <1>7, <3>1, <3>2 DEF Crash
    <2> QED
      BY <1>1, <1>5, <1>7, <2>1, <2>2, StaysOwned DEF Owned, Crash
  <1> QED
    BY <1>2, <1>3, <1>4, <1>6, <1>7 DEF ProcessStep

\* Steps of the main goroutine and the connection touch no place of a claimed job.
LEMMA SessionOwned ==
    ASSUME TypeOK, TypeOK', Owned, NEW a \in Agents, SessionStep(a)
    PROVE  Owned'
  <1>1. UNCHANGED <<owner, late, call, queue, work, printedBy>>
    BY DEF SessionStep, Connect, Tick, FetchOk, FetchFail, RecoverDone, DropLink, Disconnect,
           backend, intake, store, ghosts
  <1> QED
    BY <1>1, StaysOwned DEF Owned, OwnerKept

\* claimAndEnqueue lets in only jobs whose claim was granted.
LEMMA ClaimOwned ==
    ASSUME TypeOK, TypeOK', Owned, NEW a \in Agents, NEW t \in Threads, ClaimStep(a, t)
    PROVE  Owned'
  <1> DEFINE c == call[a][t]
             m == [agent |-> a, job |-> c.job, what |-> c.what]
  <1>1. ASSUME c.what \in {"CLAIM", "ACKNOWLEDGED"}
        PROVE  c.job \in Jobs /\ m \in Request
    <2>1. c # NoCall
      BY <1>1 DEF NoCall
    <2> QED
      BY <2>1, CallOfJob DEF TypeOK, Request, Reports
  <1>2. ASSUME call' = [call EXCEPT ![a][t] = NoCall]
        PROVE  \A b \in Agents : \A u \in Threads :
                  call'[b][u].what = "ACKNOWLEDGED" => call'[b][u] = call[b][u]
    BY <1>2 DEF NoCall, TypeOK, IntakeType
  <1>3. CASE BeginCall(a, t)
    <2>1. OwnerKept
      BY <1>3 DEF BeginCall, OwnerKept, backend
    <2>2. \A b \in Agents : \A u \in Threads :
             call'[b][u].what = "ACKNOWLEDGED" => call'[b][u] = call[b][u]
      BY <1>3 DEF BeginCall, TypeOK, IntakeType
    <2> QED
      BY <1>3, <2>1, <2>2, StaysOwned DEF Owned, BeginCall, backend, store, ghosts
  <1>4. CASE ClaimAnswered(a, t)
    <2>1. c.what = "CLAIM" /\ c.job \in Jobs /\ m \in Request
      BY <1>1, <1>4 DEF ClaimAnswered
    <2>2. OwnerKept
      BY <1>4, <2>1, ServeKeepsOwner DEF ClaimAnswered, Answered, TypeOK
    <2>3. CallsOwned'
      <3>1. CASE Granted(c.job)
        \* the job is free, so the claim makes a its owner
        <4>1. owner'[c.job] = a
          BY <1>4, <2>1, <3>1 DEF ClaimAnswered, Answered, Serve, TypeOK, BackendType
        <4>2. call' = [call EXCEPT ![a][t].what = "ACKNOWLEDGED"]
          BY <1>4, <3>1 DEF ClaimAnswered, Proceeds
        <4>3. call'[a][t].job = c.job
          BY <2>1, <4>2, CallOfJob DEF TypeOK, IntakeType, NoCall
        <4>4. ASSUME NEW b \in Agents, NEW u \in Threads, <<b, u>> # <<a, t>>,
                     call'[b][u].what = "ACKNOWLEDGED"
              PROVE  owner'[call'[b][u].job] = b
          <5>1. call'[b][u] = call[b][u]
            BY <4>2, <4>4 DEF TypeOK, IntakeType
          <5>2. call[b][u] # NoCall
            BY <4>4, <5>1 DEF NoCall
          <5>3. call[b][u].job \in Jobs
            BY <5>2, CallOfJob DEF TypeOK
          <5> QED
            BY <2>2, <4>4, <5>1, <5>3 DEF Owned, CallsOwned, OwnerKept
        <4> QED
          BY <4>1, <4>3, <4>4 DEF CallsOwned
      <3>2. CASE ~Granted(c.job)
        BY <1>2, <1>4, <2>2, <3>2, StaysOwned DEF ClaimAnswered, Proceeds
      <3> QED
        BY <3>1, <3>2
    <2> QED
      BY <1>4, <2>2, <2>3, StaysOwned DEF Owned, ClaimAnswered, Answered, store
  <1>5. CASE ClaimFailed(a, t)
    <2>1. m \in Request /\ Returned(a, m) /\ m.what \notin Reports
      BY <1>1, <1>5 DEF ClaimFailed, Returned, Reports
    <2>2. OwnerKept
      BY <2>1, ReturnedKeepsOwner DEF TypeOK
    <2>3. \A n \in late' : n.what \in Reports => n \in late
      BY <2>1, ReturnedLate
    <2> QED
      BY <1>2, <1>5, <2>2, <2>3, StaysOwned DEF Owned, ClaimFailed, store, ghosts
  <1>6. CASE AckReturned(a, t)
    <2>1. c.what = "ACKNOWLEDGED" /\ c.job \in Jobs /\ m \in Request /\ Returned(a, m)
      BY <1>1, <1>6 DEF AckReturned
    <2>2. OwnerKept
      BY <2>1, ReturnedKeepsOwner DEF TypeOK
    <2>3. owner[c.job] = a
      BY <2>1 DEF Owned, CallsOwned
    <2>4. \A n \in late' : n.what \in Reports => n \in late \/ owner[n.job] = n.agent
      BY <2>1, <2>3, ReturnedLate
    <2>5. QueueOwned'
      <3> DEFINE e == [job |-> c.job, prio |-> PriorityOf(a, c.job), seq |-> seq'[a]]
      <3>1. \A b \in Agents : \A x \in queue'[b] : x \in queue[b] \/ (b = a /\ x = e)
        BY <1>6 DEF AckReturned, TypeOK, IntakeType
      <3>2. \A b \in Agents : \A x \in queue[b] : x.job \in Jobs
        BY DEF TypeOK, IntakeType, Entry
      <3> QED
        BY <2>1, <2>2, <2>3, <3>1, <3>2 DEF Owned, QueueOwned, OwnerKept
    <2> QED
      BY <1>2, <1>6, <2>2, <2>4, <2>5, StaysOwned DEF Owned, AckReturned, ghosts
  <1> QED
    BY <1>3, <1>4, <1>5, <1>6 DEF ClaimStep

\* The worker takes only what was queued, and prints only what it took.
LEMMA WorkerOwned ==
    ASSUME TypeOK, TypeOK', Owned, NEW a \in Agents, WorkerStep(a)
    PROVE  Owned'
  <1> DEFINE w == work[a]
  <1>1. ASSUME w.what \in {"PRINTING", "print", "wait", "COMPLETED", "FAILED"} PROVE w.job \in Jobs
    BY <1>1, WorkKinds, WorkOfJob DEF TypeOK
  <1>2. ASSUME NEW v, v.job = w.job \/ v.job \notin Jobs, work' = [work EXCEPT ![a] = v]
        PROVE  \A b \in Agents : work'[b].job \in Jobs => work'[b].job = work[b].job
    BY <1>2 DEF TypeOK, WorkerType
  <1>3. NoWork.job \notin Jobs
    BY FleetAssumption DEF NoWork
  <1>4. CASE Take(a)
    <2>1. OwnerKept
      BY <1>4 DEF Take, OwnerKept, backend
    <2>2. PICK e \in queue[a] :
             /\ queue' = [queue EXCEPT ![a] = @ \ {e}]
             /\ work' = [work EXCEPT ![a] = [job |-> e.job, what |-> FirstReport(a, e.job),
                                             attempt |-> 0]]
      BY <1>4 DEF Take
    <2>3. owner[e.job] = a
      BY DEF Owned, QueueOwned
    <2>4. WorkOwned'
      <3>1. \A b \in Agents : b # a => work'[b] = work[b]
        BY <2>2 DEF TypeOK, WorkerType
      <3>2. work'[a].job = e.job
        BY <2>2 DEF TypeOK, WorkerType
      <3> QED
        BY <2>1, <2>3, <3>1, <3>2 DEF Owned, WorkOwned, OwnerKept
    <2>5. \A b \in Agents : queue'[b] \subseteq queue[b]
      BY <2>2 DEF TypeOK, IntakeType
    <2> QED
      BY <1>4, <2>1, <2>4, <2>5, StaysOwned DEF Owned, Take, backend, intake
  <1>5. CASE ReportReturned(a)
    <2> DEFINE m == [agent |-> a, job |-> w.job, what |-> w.what]
    <2>1. w.what \in {"PRINTING", "COMPLETED", "FAILED"}
      BY <1>5, WorkKinds DEF ReportReturned, TypeOK
    <2>2. w.job \in Jobs /\ m \in Request /\ Returned(a, m)
      BY <1>1, <1>5, <2>1 DEF ReportReturned, Request, Reports
    <2>3. OwnerKept
      BY <2>2, ReturnedKeepsOwner DEF TypeOK
    <2>4. \A n \in late' : n.what \in Reports => n \in late \/ owner[n.job] = n.agent
      BY <2>2, ReturnedLate DEF Owned, WorkOwned
    <2>5. \A b \in Agents : work'[b].job \in Jobs => work'[b].job = work[b].job
      <3>1. CASE w.what = "PRINTING"
        BY <1>2, <1>5, <3>1 DEF ReportReturned, Printing
      <3>2. CASE w.what # "PRINTING"
        BY <1>2, <1>3, <1>5, <3>2 DEF ReportReturned
      <3> QED
        BY <3>1, <3>2
    <2> QED
      BY <1>5, <2>3, <2>4, <2>5, StaysOwned DEF Owned, ReportReturned, intake, store, ghosts
  <1>6. CASE PrintOk(a) \/ PrintErr(a)
    <2>1. OwnerKept
      BY <1>6 DEF PrintOk, PrintErr, OwnerKept, backend
    <2>2. w.job \in Jobs
      BY <1>1, <1>6 DEF PrintOk, PrintErr
    <2>3. \A b \in Agents : work'[b].job = work[b].job
      <3>1. w = [job |-> w.job, what |-> w.what, attempt |-> w.attempt]
        BY <1>6, WorkKinds, WorkOfJob DEF PrintOk, PrintErr, TypeOK
      <3>2. PICK s \in {"COMPLETED", "FAILED", "wait"} : work' = [work EXCEPT ![a].what = s]
        BY <1>6 DEF PrintOk, PrintErr
      <3>3. work' = [work EXCEPT ![a] = [w EXCEPT !.what = s]]
        BY <3>2
      <3>4. [w EXCEPT !.what = s].job = w.job
        BY <3>1
      <3> QED
        BY <3>3, <3>4 DEF TypeOK, WorkerType
    <2>4. \A j \in Jobs : \A b \in printedBy'[j] : b \in printedBy[j] \/ owner[j] = b
      BY <1>6, <2>2, PaperGrows DEF PrintOk, PrintErr, Paper
    <2> QED
      BY <1>6, <2>1, <2>3, <2>4, StaysOwned DEF Owned, PrintOk, PrintErr, backend, intake, store
  <1>7. CASE Retry(a) \/ Abandon(a)
    <2>1. OwnerKept
      BY <1>7 DEF Retry, Abandon, OwnerKept, backend
    <2>2. \A b \in Agents : work'[b].job \in Jobs => work'[b].job = work[b].job
      BY <1>2, <1>3, <1>7 DEF Retry, Abandon, Printing
    <2> QED
      BY <1>7, <2>1, <2>2, StaysOwned DEF Owned, Retry, Abandon, backend, intake, store, ghosts
  <1> QED
    BY <1>4, <1>5, <1>6, <1>7 DEF WorkerStep

\* Owned is inductive, given the types.
LEMMA OwnedStep == TypeOK /\ Owned /\ [Next]_vars => Owned'
  <1> SUFFICES ASSUME TypeOK, Owned, [Next]_vars PROVE Owned'
    OBVIOUS
  <1>1. TypeOK'
    BY TypingStep
  <1>2. CASE UNCHANGED vars
    BY <1>2 DEF Owned, CallsOwned, QueueOwned, WorkOwned, LateOwned, PaperOwned,
                vars, backend, intake, store, ghosts
  <1> QED
    BY <1>1, <1>2, BackendOwned, ProcessOwned, SessionOwned, ClaimOwned, WorkerOwned DEF Next

\* Owned is OnlyOwnerHandles, spelled out by place.
LEMMA OwnedImplies == TypeOK /\ Owned => OnlyOwnerHandles
  <1> SUFFICES ASSUME TypeOK, Owned PROVE OnlyOwnerHandles
    OBVIOUS
  <1>1. ASSUME NEW j \in Jobs, NEW b \in Handlers(j) \cup printedBy[j]
        PROVE  b \in Agents /\ owner[j] = b
    <2>1. CASE b \in printedBy[j]
      BY <2>1 DEF TypeOK, GhostType, Owned, PaperOwned
    <2>2. CASE b \in Working(j)
      BY <2>2 DEF Working, Owned, WorkOwned
    <2>3. CASE \E p \in Acking(j) : b = p[1]
      BY <2>3 DEF Acking, Owned, CallsOwned
    <2>4. CASE \E p \in Queued(j) : b = p[1]
      BY <2>4 DEF Queued, Owned, QueueOwned
    <2> QED
      BY <2>1, <2>2, <2>3, <2>4 DEF Handlers
  <1>2. \A m \in late : m.what \in Reports => m.agent = owner[m.job]
    BY DEF Owned, LateOwned
  <1> QED
    BY <1>1, <1>2, FleetAssumption DEF OnlyOwnerHandles

(***************************************************************************)
(* Only the owner of a job ever has it, prints it, or reports on it, for   *)
(* any number of agents, jobs, sessions, faults and restarts.              *)
(***************************************************************************)
THEOREM Ownership == Spec => []OnlyOwnerHandles
<1>1. Init => Owned
  BY FleetAssumption
  DEF Init, Owned, CallsOwned, QueueOwned, WorkOwned, LateOwned, PaperOwned, NoCall, NoWork
<1>2. TypeOK /\ Owned /\ [Next]_vars => Owned'
  BY OwnedStep
<1>3. TypeOK /\ Owned => OnlyOwnerHandles
  BY OwnedImplies
<1> QED
  BY <1>1, <1>2, <1>3, Typing, PTL DEF Spec

(***************************************************************************)
(* No two agents ever print the same job (README.md:57-60).                *)
(***************************************************************************)
NeverDoublePrinted == \A j \in Jobs : \A a, b \in printedBy[j] : a = b

THEOREM OneAgentPrints == Spec => []NeverDoublePrinted
<1>1. OnlyOwnerHandles => NeverDoublePrinted
  BY DEF OnlyOwnerHandles, NeverDoublePrinted
<1> QED
  BY <1>1, Ownership, PTL
===============================================================================
