--------------------------- MODULE PrintFleetPlaces ---------------------------
(***************************************************************************)
(* Where a claimed job is, how often, and what that says of it: proofs     *)
(* about PrintFleet that HandledOnce, ReportsInOrder and CopiesBounded     *)
(* always hold.                                                            *)
(*                                                                         *)
(* A job is in a place of its owner (PrintFleetProofs!Owned); here, that   *)
(* it is in one place only (Apart), and that the place tells what has been *)
(* reported and bounds what has been printed (OnPath).  Three steps fill a *)
(* place: a claim that is granted, AckReturned, and Take.  All others      *)
(* leave the places alone or empty them (Shrinks).                         *)
(***************************************************************************)
EXTENDS PrintFleetProofs, SequenceTheorems

\* Goroutine t of agent a waits for its acknowledgement of job j.
Acks(a, t, j) == call[a][t].what = "ACKNOWLEDGED" /\ call[a][t].job = j

\* Agent a has job j in no place.
Nowhere(a, j) ==
    /\ \A t \in Threads : ~Acks(a, t, j)
    /\ \A e \in queue[a] : e.job # j
    /\ work[a].job # j

CallsApart  == \A a \in Agents : \A t, u \in Threads : \A j \in Jobs :
                  Acks(a, t, j) /\ Acks(a, u, j) => t = u
QueueApart  == \A a \in Agents : \A e, f \in queue[a] : e.job = f.job => e = f
CallOrQueue == \A a \in Agents : \A t \in Threads : \A e \in queue[a] : ~Acks(a, t, e.job)
CallOrWork  == \A a \in Agents : \A t \in Threads :
                  work[a].job \in Jobs => ~Acks(a, t, work[a].job)
QueueOrWork == \A a \in Agents : \A e \in queue[a] : work[a].job # e.job

\* No two places of an agent hold the same job.
Apart == CallsApart /\ QueueApart /\ CallOrQueue /\ CallOrWork /\ QueueOrWork

\* No place is filled: calls that acknowledge, queue entries, workers with a job.
NoNewCalls == \A a \in Agents : \A t \in Threads : \A j \in Jobs : Acks(a, t, j)' => Acks(a, t, j)
NoNewWork  == \A a \in Agents : work'[a].job \in Jobs => work'[a] = work[a]
QueueShrinks == \A a \in Agents : queue'[a] \subseteq queue[a]
SameWork   == \A a \in Agents : work'[a].job \in Jobs => work'[a].job = work[a].job

(***************************************************************************)
(* What the steps do to the places.                                        *)
(***************************************************************************)
\* An acknowledging goroutine waits about a job.
LEMMA AckOfJob ==
    ASSUME TypeOK, NEW a \in Agents, NEW t \in Threads, call[a][t].what = "ACKNOWLEDGED"
    PROVE  call[a][t].job \in Jobs /\ Acks(a, t, call[a][t].job)
  <1>1. call[a][t] # NoCall
    BY DEF NoCall
  <1> QED
    BY <1>1, CallOfJob DEF TypeOK, Acks

\* A call that becomes anything but an acknowledgement leaves the others.
LEMMA CallCleared ==
    ASSUME TypeOK, NEW a \in Agents, NEW t \in Threads, NEW c, c.what # "ACKNOWLEDGED",
           call' = [call EXCEPT ![a][t] = c]
    PROVE  \A b \in Agents : \A u \in Threads : \A j \in Jobs :
              Acks(b, u, j)' <=> Acks(b, u, j) /\ <<b, u>> # <<a, t>>
  BY DEF TypeOK, IntakeType, Acks

\* A worker with a job is neither idle nor stopped, and the other way round.
LEMMA WorkHasJob ==
    ASSUME TypeOK, NEW a \in Agents
    PROVE  /\ work[a].job \in Jobs <=> work[a] # NoWork /\ work[a] # Stopped
           /\ work[a].what \in {"PRINTING", "print", "wait", "COMPLETED", "FAILED"}
                 <=> work[a].job \in Jobs
           /\ work[a].what \in Reports => work[a].job \in Jobs
           /\ work[a].job \in Jobs =>
                 work[a] = [job |-> work[a].job, what |-> work[a].what, attempt |-> work[a].attempt]
  <1>1. NoWork.job \notin Jobs /\ Stopped.job \notin Jobs
    BY FleetAssumption DEF NoWork, Stopped
  <1> QED
    BY <1>1, WorkOfJob, WorkKinds DEF TypeOK

\* All an agent has in hand is gone with its process.
LEMMA ForgetClears ==
    ASSUME TypeOK, NEW a \in Agents, Forget(a)
    PROVE  /\ \A b \in Agents : \A t \in Threads : \A j \in Jobs :
                 Acks(b, t, j)' <=> b # a /\ Acks(b, t, j)
           /\ queue'[a] = {} /\ work'[a] = NoWork /\ work'[a].job \notin Jobs
           /\ \A b \in Agents \ {a} : queue'[b] = queue[b] /\ work'[b] = work[b]
  <1>1. \A t \in Threads : call'[a][t] = NoCall
    BY DEF Forget, TypeOK, IntakeType
  <1>2. \A b \in Agents \ {a} : call'[b] = call[b]
    BY DEF Forget, TypeOK, IntakeType
  <1>3. work'[a] = NoWork /\ NoWork.job \notin Jobs
    BY FleetAssumption DEF Forget, TypeOK, WorkerType, NoWork
  <1>4. queue'[a] = {} /\ \A b \in Agents \ {a} : queue'[b] = queue[b] /\ work'[b] = work[b]
    BY DEF Forget, TypeOK, IntakeType, WorkerType
  <1> QED
    BY <1>1, <1>2, <1>3, <1>4 DEF Acks, NoCall

\* Nothing happens to the places and to what has been reported and printed.
Still ==
    /\ \A a \in Agents : \A t \in Threads : \A j \in Jobs : Acks(a, t, j)' <=> Acks(a, t, j)
    /\ queue' = queue
    /\ \A a \in Agents : work[a].job \in Jobs \/ work'[a].job \in Jobs => work'[a] = work[a]
    /\ UNCHANGED <<history, reports, copies, printedBy>>

\* The backend leaves the places alone.
LEMMA QuietBackend ==
    ASSUME TypeOK, BackendStep
    PROVE  Still
  BY DEF Still, Acks, BackendStep, Create, Dispatch, Deliver, intake, store, ghosts

\* So do the connection, settings, and the process but for its end.
LEMMA QuietSteps ==
    ASSUME TypeOK, NEW a \in Agents,
           \/ SessionStep(a)
           \/ Start(a) \/ Stop(a) \/ MainExit(a) \/ WorkerExit(a) \/ SaveSettings(a)
    PROVE  Still
  <1>1. CASE WorkerExit(a)
    <2>1. UNCHANGED <<call, queue, history, reports, copies, printedBy>>
      BY <1>1 DEF WorkerExit, intake, store, ghosts
    <2>2. \A b \in Agents : work[b].job \in Jobs \/ work'[b].job \in Jobs => work'[b] = work[b]
      BY <1>1, FleetAssumption DEF WorkerExit, NoWork, Stopped, TypeOK, WorkerType
    <2> QED
      BY <2>1, <2>2 DEF Still, Acks
  <1>2. CASE ~WorkerExit(a)
    <2>1. UNCHANGED <<call, queue, work, history, reports, copies, printedBy>>
      BY <1>2 DEF SessionStep, Connect, Tick, FetchOk,
                  FetchFail, RecoverDone, DropLink, Disconnect, Start, Stop, MainExit, SaveSettings,
                  intake, store, ghosts
    <2> QED
      BY <2>1 DEF Still, Acks
  <1> QED
    BY <1>1, <1>2

\* So does a claim that is sent, fails, or is refused.
LEMMA QuietCalls ==
    ASSUME TypeOK, NEW a \in Agents, NEW t \in Threads,
           \/ BeginCall(a, t)
           \/ ClaimFailed(a, t)
           \/ ClaimAnswered(a, t) /\ ~Granted(call[a][t].job)
    PROVE  Still
  <1> DEFINE Kept == \A b \in Agents : \A u \in Threads : \A j \in Jobs :
                        Acks(b, u, j)' <=> Acks(b, u, j)
  <1>1. ASSUME NEW c, c.what # "ACKNOWLEDGED", call[a][t].what # "ACKNOWLEDGED",
               call' = [call EXCEPT ![a][t] = c]
        PROVE  Kept
    BY <1>1, CallCleared DEF Acks
  <1>2. NoCall.what # "ACKNOWLEDGED"
    BY DEF NoCall
  <1>3. CASE BeginCall(a, t)
    <2>1. Kept
      <3> DEFINE c == [job |-> Head(feed[a][t]), what |-> "CLAIM"]
      <3>1. call' = call \/ call' = [call EXCEPT ![a][t] = c]
        BY <1>3 DEF BeginCall
      <3>2. call[a][t].what # "ACKNOWLEDGED" /\ c.what # "ACKNOWLEDGED"
        BY <1>2, <1>3 DEF BeginCall
      <3>3. call' = call => Kept
        BY DEF Acks
      <3> HIDE DEF c
      <3> QED
        BY <1>1, <3>1, <3>2, <3>3
    <2> QED
      BY <1>3, <2>1 DEF BeginCall, Still, store, ghosts
  <1>4. CASE ~BeginCall(a, t)
    <2>1. call[a][t].what = "CLAIM" /\ call' = [call EXCEPT ![a][t] = NoCall]
      BY <1>4 DEF ClaimFailed, ClaimAnswered, Proceeds
    <2>2. Kept
      BY <1>1, <1>2, <2>1
    <2>3. UNCHANGED <<queue, work, history, reports, copies, printedBy>>
      BY <1>4 DEF ClaimFailed, ClaimAnswered, Proceeds, store, ghosts
    <2> QED
      BY <2>2, <2>3 DEF Still
  <1> QED
    BY <1>3, <1>4

-------------------------------------------------------------------------------
(***************************************************************************)
(* One place for each job.                                                 *)
(***************************************************************************)
\* What is apart stays apart when no place is filled.
LEMMA StaysApart ==
    ASSUME TypeOK, TypeOK', Apart, NoNewCalls, QueueShrinks, SameWork
    PROVE  Apart'
  <1> USE DEF Apart
  <1>1. \A a \in Agents : \A e \in queue'[a] : e \in queue[a] /\ e.job \in Jobs
    BY DEF QueueShrinks, TypeOK, IntakeType, Entry
  <1>2. CallsApart'
    BY DEF NoNewCalls, CallsApart, Acks
  <1>3. QueueApart'
    BY <1>1 DEF QueueApart
  <1>4. CallOrQueue'
    BY <1>1 DEF NoNewCalls, CallOrQueue
  <1>5. CallOrWork'
    BY DEF NoNewCalls, SameWork, CallOrWork
  <1>6. QueueOrWork'
    BY <1>1 DEF SameWork, QueueOrWork
  <1> QED
    BY <1>2, <1>3, <1>4, <1>5, <1>6

\* A step that leaves the places alone fills none.
LEMMA StillShrinks ==
    ASSUME Still
    PROVE  NoNewCalls /\ QueueShrinks /\ SameWork /\ NoNewWork
  BY DEF Still, NoNewCalls, QueueShrinks, SameWork, NoNewWork

\* Nor does the end of a process.
LEMMA ForgetShrinks ==
    ASSUME TypeOK, NEW a \in Agents, Forget(a)
    PROVE  NoNewCalls /\ QueueShrinks /\ SameWork /\ NoNewWork
  BY ForgetClears DEF NoNewCalls, QueueShrinks, SameWork, NoNewWork

\* A job without an owner is in no place: nobody has ever been granted it.
LEMMA UnownedNowhere ==
    ASSUME TypeOK, Owned, NEW j \in Jobs, owner[j] = NoAgent, NEW a \in Agents
    PROVE  /\ \A t \in Threads : ~Acks(a, t, j)
           /\ \A e \in queue[a] : e.job # j
           /\ work[a].job # j
  BY FleetAssumption DEF Owned, CallsOwned, QueueOwned, WorkOwned, Acks

\* What a granted claim does: the goroutine has the job to acknowledge.
LEMMA GrantedFills ==
    ASSUME TypeOK, NEW a \in Agents, NEW t \in Threads,
           ClaimAnswered(a, t), Granted(call[a][t].job)
    PROVE  LET j == call[a][t].job IN
           /\ j \in Jobs
           /\ \A b \in Agents : \A u \in Threads : \A i \in Jobs :
                 Acks(b, u, i)' <=> Acks(b, u, i) \/ (b = a /\ u = t /\ i = j)
           /\ owner' = [owner EXCEPT ![j] = a]
           /\ Report(j, "ACKNOWLEDGED")
           /\ UNCHANGED <<queue, work, history, copies, printedBy>>
  <1> DEFINE j == call[a][t].job
  <1>1. call[a][t] # NoCall /\ call[a][t].what = "CLAIM"
    BY DEF ClaimAnswered, NoCall
  <1>2. j \in Jobs /\ call[a][t] = [job |-> j, what |-> "CLAIM"]
    BY <1>1, CallOfJob DEF TypeOK
  <1>3. call' = [call EXCEPT ![a][t].what = "ACKNOWLEDGED"]
    BY DEF ClaimAnswered, Proceeds
  <1>4. call'[a][t] = [job |-> j, what |-> "ACKNOWLEDGED"]
    BY <1>2, <1>3 DEF TypeOK, IntakeType
  <1>5. \A b \in Agents : \A u \in Threads : <<b, u>> # <<a, t>> => call'[b][u] = call[b][u]
    BY <1>3 DEF TypeOK, IntakeType
  <1>6. \A b \in Agents : \A u \in Threads : \A i \in Jobs :
           Acks(b, u, i)' <=> Acks(b, u, i) \/ (b = a /\ u = t /\ i = j)
    BY <1>1, <1>4, <1>5 DEF Acks
  <1>7. owner' = [owner EXCEPT ![j] = a]
    BY DEF ClaimAnswered, Answered, Serve
  <1> QED
    BY <1>2, <1>6, <1>7 DEF ClaimAnswered, Proceeds, store

\* What the end of the acknowledgement does: the job moves into the queue.
LEMMA AckMoves ==
    ASSUME TypeOK, NEW a \in Agents, NEW t \in Threads, AckReturned(a, t)
    PROVE  LET j == call[a][t].job IN
           /\ j \in Jobs /\ Acks(a, t, j)
           /\ \A b \in Agents : \A u \in Threads : \A i \in Jobs :
                 Acks(b, u, i)' <=> Acks(b, u, i) /\ <<b, u>> # <<a, t>>
           /\ \E e : e.job = j /\ queue' = [queue EXCEPT ![a] = @ \cup {e}]
           /\ UNCHANGED <<work, history, reports, copies, printedBy>>
  <1>1. call[a][t].what = "ACKNOWLEDGED" /\ call' = [call EXCEPT ![a][t] = NoCall]
    BY DEF AckReturned
  <1>2. \A b \in Agents : \A u \in Threads : \A i \in Jobs :
           Acks(b, u, i)' <=> Acks(b, u, i) /\ <<b, u>> # <<a, t>>
    <2>1. NoCall.what # "ACKNOWLEDGED"
      BY DEF NoCall
    <2> QED
      BY <1>1, <2>1, CallCleared
  <1>3. \E e : e.job = call[a][t].job /\ queue' = [queue EXCEPT ![a] = @ \cup {e}]
    <2> DEFINE e == [job |-> call[a][t].job, prio |-> PriorityOf(a, call[a][t].job),
                     seq |-> seq'[a]]
    <2>1. e.job = call[a][t].job /\ queue' = [queue EXCEPT ![a] = @ \cup {e}]
      BY DEF AckReturned
    <2> HIDE DEF e
    <2> QED
      BY <2>1
  <1> QED
    BY <1>1, <1>2, <1>3, AckOfJob DEF AckReturned, ghosts

\* What Take does: the job moves to the idle worker.
LEMMA TakeMoves ==
    ASSUME TypeOK, NEW a \in Agents, Take(a)
    PROVE  \E e \in queue[a] :
           /\ e.job \in Jobs
           /\ work[a] = NoWork
           /\ queue' = [queue EXCEPT ![a] = @ \ {e}]
           /\ work' = [work EXCEPT ![a] = [job |-> e.job, what |-> FirstReport(a, e.job),
                                           attempt |-> 0]]
           /\ Report(e.job, FirstReport(a, e.job))
           /\ UNCHANGED <<owner, call, history, copies, printedBy>>
  <1>1. PICK e \in queue[a] :
           /\ queue' = [queue EXCEPT ![a] = @ \ {e}]
           /\ work' = [work EXCEPT ![a] = [job |-> e.job, what |-> FirstReport(a, e.job),
                                           attempt |-> 0]]
           /\ Report(e.job, FirstReport(a, e.job))
    BY DEF Take
  <1>2. e.job \in Jobs
    BY DEF TypeOK, IntakeType, Entry
  <1>3. work[a] = NoWork /\ UNCHANGED <<owner, call, history, copies, printedBy>>
    BY DEF Take, backend, intake
  <1> QED
    BY <1>1, <1>2, <1>3

\* What a step of the worker other than Take does to the places of its agent: it
\* keeps its job, or lets go of it.
LEMMA WorkMoves ==
    ASSUME TypeOK, NEW a \in Agents,
           ReportReturned(a) \/ PrintOk(a) \/ PrintErr(a) \/ Retry(a) \/ Abandon(a)
    PROVE  /\ work[a].job \in Jobs
           /\ work'[a] = NoWork \/ work'[a].job = work[a].job
           /\ \A b \in Agents \ {a} : work'[b] = work[b]
           /\ UNCHANGED <<call, queue>>
  <1> DEFINE w == work[a]
  <1>1. w.job \in Jobs
    BY WorkHasJob DEF ReportReturned, PrintOk, PrintErr, Retry, Abandon
  <1>2. ASSUME NEW v, work' = [work EXCEPT ![a] = v]
        PROVE  work'[a] = v /\ \A b \in Agents \ {a} : work'[b] = work[b]
    BY <1>2 DEF TypeOK, WorkerType
  <1>3. \E v : (v = NoWork \/ v.job = w.job) /\ work' = [work EXCEPT ![a] = v]
    <2>1. CASE ReportReturned(a)
      <3>1. CASE w.what = "PRINTING"
        BY <2>1, <3>1 DEF ReportReturned, Printing
      <3>2. CASE w.what # "PRINTING"
        BY <2>1, <3>2 DEF ReportReturned
      <3> QED
        BY <3>1, <3>2
    <2>2. CASE PrintOk(a) \/ PrintErr(a)
      <3>1. PICK s \in {"COMPLETED", "FAILED", "wait"} :
               work' = [work EXCEPT ![a] = [w EXCEPT !.what = s]]
        BY <2>2 DEF PrintOk, PrintErr
      <3>2. [w EXCEPT !.what = s].job = w.job
        BY <1>1, WorkHasJob
      <3> QED
        BY <3>1, <3>2
    <2>3. CASE Retry(a)
      BY <2>3 DEF Retry, Printing
    <2>4. CASE Abandon(a)
      BY <2>4 DEF Abandon
    <2> QED
      BY <2>1, <2>2, <2>3, <2>4
  <1>4. UNCHANGED <<call, queue>>
    BY DEF ReportReturned, PrintOk, PrintErr, Retry, Abandon, intake, store
  <1> QED
    BY <1>1, <1>2, <1>3, <1>4

\* Apart is inductive, given the types and ownership.
LEMMA ApartStep == TypeOK /\ Owned /\ Apart /\ [Next]_vars => Apart'
  <1> SUFFICES ASSUME TypeOK, Owned, Apart, [Next]_vars PROVE Apart'
    OBVIOUS
  <1>1. TypeOK' /\ Owned'
    BY TypingStep, OwnedStep
  <1>2. CASE UNCHANGED vars
    BY <1>2 DEF Apart, CallsApart, QueueApart, CallOrQueue, CallOrWork, QueueOrWork, Acks,
                vars, intake, store
  <1>3. ASSUME Still PROVE Apart'
    BY <1>1, <1>3, StillShrinks, StaysApart
  <1>4. ASSUME NEW a \in Agents, Forget(a) PROVE Apart'
    BY <1>1, <1>4, ForgetShrinks, StaysApart
  <1>5. ASSUME NEW a \in Agents, NEW t \in Threads,
               ClaimAnswered(a, t), Granted(call[a][t].job)
        PROVE  Apart'
    <2> DEFINE j == call[a][t].job
    <2>1. /\ j \in Jobs /\ owner[j] = NoAgent
          /\ \A b \in Agents : \A u \in Threads : \A i \in Jobs :
                Acks(b, u, i)' <=> Acks(b, u, i) \/ (b = a /\ u = t /\ i = j)
          /\ UNCHANGED <<queue, work>>
      BY <1>5, GrantedFills DEF Granted
    <2> HIDE DEF j
    <2>2. /\ \A b \in Agents : \A u \in Threads : ~Acks(b, u, j)
          /\ \A b \in Agents : work[b].job # j /\ \A e \in queue[b] : e.job # j
      BY <2>1, UnownedNowhere
    <2>3. CallsApart'
      BY <2>1, <2>2 DEF Apart, CallsApart
    <2>4. QueueApart' /\ QueueOrWork'
      BY <2>1 DEF Apart, QueueApart, QueueOrWork
    <2>5. CallOrQueue' /\ CallOrWork'
      <3>1. \A b \in Agents : \A e \in queue[b] : e.job \in Jobs
        BY DEF TypeOK, IntakeType, Entry
      <3> QED
        BY <2>1, <2>2, <3>1 DEF Apart, CallOrQueue, CallOrWork
    <2> QED
      BY <2>3, <2>4, <2>5 DEF Apart
  <1>6. ASSUME NEW a \in Agents, NEW t \in Threads, AckReturned(a, t)
        PROVE  Apart'
    <2> DEFINE j == call[a][t].job
    <2>1. /\ j \in Jobs /\ Acks(a, t, j)
          /\ \A b \in Agents : \A u \in Threads : \A i \in Jobs :
                Acks(b, u, i)' <=> Acks(b, u, i) /\ <<b, u>> # <<a, t>>
          /\ UNCHANGED work
      BY <1>6, AckMoves
    <2>2. PICK e : e.job = j /\ queue' = [queue EXCEPT ![a] = @ \cup {e}]
      BY <1>6, AckMoves
    <2> HIDE DEF j
    <2>3. /\ queue'[a] = queue[a] \cup {e}
          /\ \A b \in Agents \ {a} : queue'[b] = queue[b]
      BY <2>2 DEF TypeOK, IntakeType
    <2>4. /\ \A u \in Threads : Acks(a, u, j) => u = t
          /\ \A f \in queue[a] : f.job # j
          /\ work[a].job # j
      BY <2>1 DEF Apart, CallsApart, CallOrQueue, CallOrWork
    <2>5. \A b \in Agents : \A f \in queue[b] : f.job \in Jobs
      BY DEF TypeOK, IntakeType, Entry
    <2>6. CallsApart' /\ CallOrWork'
      BY <2>1 DEF Apart, CallsApart, CallOrWork
    <2>7. QueueApart' /\ QueueOrWork'
      BY <2>1, <2>2, <2>3, <2>4 DEF Apart, QueueApart, QueueOrWork
    <2>8. CallOrQueue'
      BY <2>1, <2>2, <2>3, <2>4, <2>5 DEF Apart, CallOrQueue
    <2> QED
      BY <2>6, <2>7, <2>8 DEF Apart
  <1>7. ASSUME NEW a \in Agents, Take(a) PROVE Apart'
    <2>1. PICK e \in queue[a] :
             /\ e.job \in Jobs
             /\ work[a] = NoWork
             /\ queue' = [queue EXCEPT ![a] = @ \ {e}]
             /\ work' = [work EXCEPT ![a] = [job |-> e.job, what |-> FirstReport(a, e.job),
                                             attempt |-> 0]]
             /\ UNCHANGED call
      BY <1>7, TakeMoves
    <2>2. /\ work'[a].job = e.job
          /\ \A b \in Agents \ {a} : work'[b] = work[b]
          /\ queue'[a] = queue[a] \ {e}
          /\ \A b \in Agents \ {a} : queue'[b] = queue[b]
      BY <2>1 DEF TypeOK, WorkerType, IntakeType
    <2>3. CallsApart' /\ QueueApart' /\ CallOrQueue'
      BY <2>1, <2>2 DEF Apart, CallsApart, QueueApart, CallOrQueue, Acks
    <2>4. CallOrWork'
      BY <2>1, <2>2 DEF Apart, CallOrQueue, CallOrWork, Acks
    <2>5. QueueOrWork'
      BY <2>1, <2>2 DEF Apart, QueueApart, QueueOrWork
    <2> QED
      BY <2>3, <2>4, <2>5 DEF Apart
  <1>8. ASSUME NEW a \in Agents,
               ReportReturned(a) \/ PrintOk(a) \/ PrintErr(a) \/ Retry(a) \/ Abandon(a)
        PROVE  Apart'
    <2>1. NoWork.job \notin Jobs
      BY FleetAssumption DEF NoWork
    <2>2. NoNewCalls /\ QueueShrinks /\ SameWork
      BY <1>8, <2>1, WorkMoves DEF NoNewCalls, QueueShrinks, SameWork, Acks
    <2> QED
      BY <1>1, <2>2, StaysApart
  <1>9. CASE BackendStep
    BY <1>3, <1>9, QuietBackend
  <1>10. ASSUME NEW a \in Agents, ProcessStep(a) \/ SessionStep(a) PROVE Apart'
    BY <1>3, <1>4, <1>10, QuietSteps DEF ProcessStep, Exit, Crash
  <1>11. ASSUME NEW a \in Agents, NEW t \in Threads, ClaimStep(a, t) PROVE Apart'
    BY <1>3, <1>5, <1>6, <1>11, QuietCalls DEF ClaimStep
  <1>12. ASSUME NEW a \in Agents, WorkerStep(a) PROVE Apart'
    BY <1>7, <1>8, <1>12 DEF WorkerStep
  <1> QED
    BY <1>2, <1>9, <1>10, <1>11, <1>12 DEF Next

\* HandledOnce speaks of the places of all agents at once; they are the owner's.
LEMMA ApartImplies == TypeOK /\ Owned /\ Apart => HandledOnce
  <1> SUFFICES ASSUME TypeOK, Owned, Apart, NEW j \in Jobs
               PROVE  /\ AtMostOne(Acking(j)) /\ AtMostOne(Queued(j)) /\ AtMostOne(Working(j))
                      /\ AtMostOne({k \in 1..3 : <<Acking(j), Queued(j), Working(j)>>[k] # {}})
    BY DEF HandledOnce
  <1> DEFINE a == owner[j]
  <1>1. ASSUME NEW p \in Acking(j)
        PROVE  \E t \in Threads : a \in Agents /\ p = <<a, t>> /\ Acks(a, t, j)
    <2>1. PICK b \in Agents, t \in Threads : p = <<b, t>>
      BY DEF Acking
    <2>2. Acks(b, t, j)
      BY <2>1 DEF Acking, Acks
    <2>3. b = a
      BY <2>2 DEF Acks, Owned, CallsOwned
    <2> QED
      BY <2>1, <2>2, <2>3
  <1>2. ASSUME NEW q \in Queued(j)
        PROVE  \E e \in queue[a] : a \in Agents /\ q = <<a, e>> /\ e.job = j
    BY DEF Queued, Owned, QueueOwned
  <1>3. ASSUME NEW b \in Working(j) PROVE a \in Agents /\ b = a /\ work[a].job = j
    BY DEF Working, Owned, WorkOwned
  <1>4. AtMostOne(Acking(j))
    BY <1>1 DEF AtMostOne, Apart, CallsApart
  <1>5. AtMostOne(Queued(j))
    BY <1>2 DEF AtMostOne, Apart, QueueApart
  <1>6. AtMostOne(Working(j))
    BY <1>3 DEF AtMostOne
  <1>7. Acking(j) = {} \/ Queued(j) = {}
    BY <1>1, <1>2 DEF Apart, CallOrQueue
  <1>8. Acking(j) = {} \/ Working(j) = {}
    BY <1>1, <1>3 DEF Apart, CallOrWork
  <1>9. Queued(j) = {} \/ Working(j) = {}
    BY <1>2, <1>3 DEF Apart, QueueOrWork
  <1>10. AtMostOne({k \in 1..3 : <<Acking(j), Queued(j), Working(j)>>[k] # {}})
    <2> DEFINE A == Acking(j)
               Q == Queued(j)
               W == Working(j)
    <2>1. A = {} \/ Q = {}
      BY <1>7
    <2>2. A = {} \/ W = {}
      BY <1>8
    <2>3. Q = {} \/ W = {}
      BY <1>9
    <2> HIDE DEF A, Q, W
    <2>4. <<A, Q, W>>[1] = A /\ <<A, Q, W>>[2] = Q /\ <<A, Q, W>>[3] = W
      OBVIOUS
    <2>5. \A k \in 1..3 : k = 1 \/ k = 2 \/ k = 3
      OBVIOUS
    <2>6. \A k, l \in {x \in 1..3 : <<A, Q, W>>[x] # {}} : k = l
      BY <2>1, <2>2, <2>3, <2>4, <2>5
    <2> QED
      BY <2>6 DEF AtMostOne, A, Q, W
  <1> QED
    BY <1>4, <1>5, <1>6, <1>10

\* What the following proofs rest on.
LEMMA AlwaysApart == Spec => [](TypeOK /\ Owned /\ Apart)
<1>1. Init => Owned /\ Apart
  BY FleetAssumption
  DEF Init, Owned, CallsOwned, QueueOwned, WorkOwned, LateOwned, PaperOwned, NoCall, NoWork,
      Apart, CallsApart, QueueApart, CallOrQueue, CallOrWork, QueueOrWork, Acks
<1>2. TypeOK /\ Owned /\ Apart /\ [Next]_vars => Owned' /\ Apart'
  BY OwnedStep, ApartStep
<1> QED
  BY <1>1, <1>2, Typing, PTL DEF Spec

(***************************************************************************)
(* A job that reaches an agent by push and by recovery, on the readers of  *)
(* several sessions, is acknowledged once, queued once and printed by one  *)
(* run of process, with any number of agents, jobs and readers (agent.go:  *)
(* 126-149).                                                               *)
(***************************************************************************)
THEOREM OnePlace == Spec => []HandledOnce
  BY AlwaysApart, ApartImplies, PTL

-------------------------------------------------------------------------------
(***************************************************************************)
(* What the place of a job says of it.                                     *)
(***************************************************************************)
\* Acknowledged, and not yet in the hands of the worker.
Fresh(j) == reports[j] = <<"ACKNOWLEDGED">> /\ copies[j] = 0

\* What may be reported of a job, from first to last (ReportsInOrder).
Paths == {<<>>,
          <<"ACKNOWLEDGED">>,
          <<"ACKNOWLEDGED", "FAILED">>,
          <<"ACKNOWLEDGED", "PRINTING">>,
          <<"ACKNOWLEDGED", "PRINTING", "COMPLETED">>,
          <<"ACKNOWLEDGED", "PRINTING", "FAILED">>}

\* What has been reported of the job of a worker that is at w.
Told(w) ==
    CASE w.what = "COMPLETED"               -> <<"ACKNOWLEDGED", "PRINTING", "COMPLETED">>
      [] w.what = "FAILED" /\ w.attempt = 0 -> <<"ACKNOWLEDGED", "FAILED">>
      [] w.what = "FAILED" /\ w.attempt # 0 -> <<"ACKNOWLEDGED", "PRINTING", "FAILED">>
      [] OTHER                              -> <<"ACKNOWLEDGED", "PRINTING">>

\* How many copies there can be: one for each attempt that has ended.
MostCopies(w) == IF w.what = "print" THEN w.attempt - 1 ELSE w.attempt

\* A worker that is at w has come there through the attempts before.
Reached(w) ==
    /\ reports[w.job] = Told(w)
    /\ copies[w.job] <= MostCopies(w)
    /\ w.what \in {"print", "wait", "COMPLETED"} => w.attempt # 0
    /\ w.what = "PRINTING" => w.attempt = 0

Unclaimed   == \A j \in Jobs : owner[j] = NoAgent => reports[j] = <<>> /\ copies[j] = 0
CallsFresh  == \A a \in Agents : \A t \in Threads : \A j \in Jobs : Acks(a, t, j) => Fresh(j)
QueueFresh  == \A a \in Agents : \A e \in queue[a] : Fresh(e.job)
WorkReached == \A a \in Agents : work[a].job \in Jobs => Reached(work[a])

OnPath == Unclaimed /\ CallsFresh /\ QueueFresh /\ WorkReached /\ ReportsInOrder /\ CopiesBounded

\* A step that concerns one job leaves the others on their path.
LEMMA OthersOnPath ==
    ASSUME TypeOK, TypeOK', OnPath, OwnerKept, NEW j \in Jobs,
           \A i \in Jobs \ {j} :
              /\ reports'[i] = reports[i] /\ copies'[i] = copies[i]
              /\ \A a \in Agents : \A t \in Threads : Acks(a, t, i)' => Acks(a, t, i),
           \A a \in Agents : /\ \A e \in queue'[a] : e.job # j => e \in queue[a]
                             /\ work'[a].job \in Jobs \ {j} => work'[a] = work[a],
           owner'[j] # NoAgent,
           \A a \in Agents : /\ \A t \in Threads : Acks(a, t, j)' => Fresh(j)'
                             /\ \A e \in queue'[a] : e.job = j => Fresh(j)'
                             /\ work'[a].job = j => Reached(work[a])',
           reports'[j] \in Paths, copies'[j] <= MaxRetries
    PROVE  OnPath'
  <1> USE DEF OnPath
  <1>1. Unclaimed'
    BY DEF Unclaimed, OwnerKept, TypeOK, BackendType
  <1>2. CallsFresh'
    BY DEF CallsFresh, Fresh
  <1>3. QueueFresh'
    <2>1. \A a \in Agents : \A e \in queue'[a] : e.job \in Jobs
      BY DEF TypeOK, IntakeType, Entry
    <2> QED
      BY <2>1 DEF QueueFresh, Fresh
  <1>4. WorkReached'
    BY DEF WorkReached, Reached
  <1>5. ReportsInOrder' /\ CopiesBounded'
    BY DEF ReportsInOrder, Paths, CopiesBounded
  <1> QED
    BY <1>1, <1>2, <1>3, <1>4, <1>5

\* So does one that reports and prints nothing and fills no place.
LEMMA EmptiedOnPath ==
    ASSUME TypeOK, TypeOK', OnPath, OwnerKept, NoNewCalls, QueueShrinks, NoNewWork,
           UNCHANGED <<reports, copies>>
    PROVE  OnPath'
  <1> USE DEF OnPath
  <1>1. Unclaimed'
    BY DEF Unclaimed, OwnerKept, TypeOK, BackendType
  <1>2. CallsFresh'
    BY DEF CallsFresh, Fresh, NoNewCalls
  <1>3. QueueFresh'
    BY DEF QueueFresh, Fresh, QueueShrinks
  <1>4. WorkReached'
    BY DEF WorkReached, Reached, NoNewWork
  <1>5. ReportsInOrder' /\ CopiesBounded'
    BY DEF ReportsInOrder, CopiesBounded
  <1> QED
    BY <1>1, <1>2, <1>3, <1>4, <1>5

\* No step takes a job from its owner.
LEMMA OwnersKept == TypeOK /\ [Next]_vars => OwnerKept
  <1> SUFFICES ASSUME TypeOK, [Next]_vars PROVE OwnerKept
    OBVIOUS
  <1>1. owner' = owner => OwnerKept
    BY DEF OwnerKept
  <1>2. CASE UNCHANGED vars
    BY <1>1, <1>2 DEF vars, backend
  <1>3. CASE BackendStep
    BY <1>1, <1>3, ServeKeepsOwner
    DEF BackendStep, Create, Dispatch, Deliver, TypeOK, BackendType
  <1>4. ASSUME NEW a \in Agents, ProcessStep(a) \/ SessionStep(a) PROVE OwnerKept
    BY <1>1, <1>4
    DEF ProcessStep, Start, Stop, MainExit, WorkerExit, Exit, Crash, SaveSettings, SessionStep,
        Connect, Tick, FetchOk, FetchFail, RecoverDone, DropLink, Disconnect, backend
  <1>5. ASSUME NEW a \in Agents, NEW t \in Threads, ClaimStep(a, t) PROVE OwnerKept
    <2> DEFINE m(what) == [agent |-> a, job |-> call[a][t].job, what |-> what]
    <2>1. CASE BeginCall(a, t)
      BY <1>1, <2>1 DEF BeginCall, backend
    <2>2. CASE ~BeginCall(a, t)
      <3>1. PICK what \in {"CLAIM", "ACKNOWLEDGED"} :
               call[a][t].what = what /\ Returned(a, m(what))
        BY <1>5, <2>2 DEF ClaimStep, ClaimAnswered, ClaimFailed, AckReturned, Returned
      <3>2. call[a][t] # NoCall
        BY <3>1 DEF NoCall
      <3>3. m(what) \in Request
        BY <3>2, CallOfJob DEF TypeOK, Request, Reports
      <3> QED
        BY <3>1, <3>3, ReturnedKeepsOwner DEF TypeOK
    <2> QED
      BY <2>1, <2>2
  <1>6. ASSUME NEW a \in Agents, WorkerStep(a) PROVE OwnerKept
    <2>1. CASE ReportReturned(a)
      <3> DEFINE m == [agent |-> a, job |-> work[a].job, what |-> work[a].what]
      <3>1. m \in Request /\ Returned(a, m)
        BY <2>1, WorkHasJob DEF ReportReturned, Request
      <3> QED
        BY <3>1, ReturnedKeepsOwner DEF TypeOK
    <2>2. CASE ~ReportReturned(a)
      BY <1>1, <1>6, <2>2 DEF WorkerStep, Take, PrintOk, PrintErr, Retry, Abandon, backend
    <2> QED
      BY <2>1, <2>2
  <1> QED
    BY <1>2, <1>3, <1>4, <1>5, <1>6 DEF Next

\* A call of UpdateStatus adds to what has been reported of its job only.
LEMMA ReportAdds ==
    ASSUME TypeOK, NEW j \in Jobs, NEW what, Report(j, what)
    PROVE  /\ reports'[j] = Append(reports[j], what)
           /\ \A i \in Jobs \ {j} : reports'[i] = reports[i]
  BY DEF Report, TypeOK, GhostType

\* Appending to lists of one and of two.
LEMMA AppendSecond ==
    ASSUME NEW S, NEW x \in S, NEW y \in S
    PROVE  Append(<<x>>, y) = <<x, y>>
  <1> DEFINE s == Append(<<x>>, y)
             r == <<x, y>>
  <1>1. <<x>> \in Seq(S) /\ Len(<<x>>) = 1 /\ <<x>>[1] = x
    OBVIOUS
  <1>2. s \in Seq(S) /\ Len(s) = 2 /\ s[1] = x /\ s[2] = y
    BY <1>1, AppendProperties
  <1>3. r \in Seq(S) /\ Len(r) = 2 /\ r[1] = x /\ r[2] = y
    OBVIOUS
  <1> HIDE DEF s, r
  <1>4. \A i \in 1..Len(s) : i = 1 \/ i = 2
    BY <1>2
  <1>5. s = r
    BY <1>2, <1>3, <1>4, SeqEqual
  <1> QED
    BY <1>5 DEF s, r

LEMMA AppendThird ==
    ASSUME NEW S, NEW x \in S, NEW y \in S, NEW z \in S
    PROVE  Append(<<x, y>>, z) = <<x, y, z>>
  <1> DEFINE s == Append(<<x, y>>, z)
             r == <<x, y, z>>
  <1>1. <<x, y>> \in Seq(S) /\ Len(<<x, y>>) = 2 /\ <<x, y>>[1] = x /\ <<x, y>>[2] = y
    OBVIOUS
  <1>2. s \in Seq(S) /\ Len(s) = 3 /\ s[1] = x /\ s[2] = y /\ s[3] = z
    BY <1>1, AppendProperties
  <1>3. r \in Seq(S) /\ Len(r) = 3 /\ r[1] = x /\ r[2] = y /\ r[3] = z
    OBVIOUS
  <1> HIDE DEF s, r
  <1>4. \A i \in 1..Len(s) : i = 1 \/ i = 2 \/ i = 3
    BY <1>2
  <1>5. s = r
    BY <1>2, <1>3, <1>4, SeqEqual
  <1> QED
    BY <1>5 DEF s, r

\* The reports along the paths.
LEMMA PathSteps ==
    /\ Append(<<>>, "ACKNOWLEDGED") = <<"ACKNOWLEDGED">>
    /\ Append(<<"ACKNOWLEDGED">>, "PRINTING") = <<"ACKNOWLEDGED", "PRINTING">>
    /\ Append(<<"ACKNOWLEDGED">>, "FAILED") = <<"ACKNOWLEDGED", "FAILED">>
    /\ Append(<<"ACKNOWLEDGED", "PRINTING">>, "COMPLETED")
          = <<"ACKNOWLEDGED", "PRINTING", "COMPLETED">>
    /\ Append(<<"ACKNOWLEDGED", "PRINTING">>, "FAILED")
          = <<"ACKNOWLEDGED", "PRINTING", "FAILED">>
  <1>1. Append(<<>>, "ACKNOWLEDGED") = <<"ACKNOWLEDGED">>
    OBVIOUS
  <1>2. \A x, y \in Reports : Append(<<x>>, y) = <<x, y>>
    BY AppendSecond
  <1>3. \A x, y, z \in Reports : Append(<<x, y>>, z) = <<x, y, z>>
    BY AppendThird
  <1> QED
    BY <1>1, <1>2, <1>3 DEF Reports

\* A worker's job is in no other place, of any agent.
LEMMA WorkAlone ==
    ASSUME TypeOK, Owned, Apart, NEW a \in Agents, work[a].job \in Jobs
    PROVE  \A b \in Agents :
              /\ \A t \in Threads : ~Acks(b, t, work[a].job)
              /\ \A e \in queue[b] : e.job # work[a].job
              /\ work[b].job = work[a].job => b = a
  <1>1. owner[work[a].job] = a
    BY DEF Owned, WorkOwned
  <1> QED
    BY <1>1 DEF Owned, CallsOwned, QueueOwned, WorkOwned, Apart, CallOrWork, QueueOrWork, Acks

\* Nor is the job of a queue entry.
LEMMA EntryAlone ==
    ASSUME TypeOK, Owned, Apart, NEW a \in Agents, NEW e \in queue[a]
    PROVE  \A b \in Agents :
              /\ \A t \in Threads : ~Acks(b, t, e.job)
              /\ \A f \in queue[b] : f.job = e.job => b = a /\ f = e
              /\ work[b].job # e.job
  <1>1. owner[e.job] = a /\ e.job \in Jobs
    BY DEF Owned, QueueOwned, TypeOK, IntakeType, Entry
  <1> QED
    BY <1>1 DEF Owned, CallsOwned, QueueOwned, WorkOwned, Apart, QueueApart, CallOrQueue,
                QueueOrWork, Acks

\* A worker that gets on with its job stays on the path if it has reached the next place.
LEMMA WorkOnPath ==
    ASSUME TypeOK, TypeOK', Owned, Apart, OnPath, OwnerKept, NEW a \in Agents,
           work[a].job \in Jobs, work'[a].job = work[a].job,
           \A b \in Agents \ {a} : work'[b] = work[b],
           UNCHANGED <<call, queue>>,
           \A i \in Jobs \ {work[a].job} : reports'[i] = reports[i] /\ copies'[i] = copies[i],
           Reached(work[a])'
    PROVE  OnPath'
  <1>0. PICK j \in Jobs : j = work[a].job
    OBVIOUS
  <1>1. owner[j] = a
    BY <1>0 DEF Owned, WorkOwned
  <1>2. owner'[j] # NoAgent
    BY <1>1, FleetAssumption DEF OwnerKept
  <1>3. \A b \in Agents : /\ \A t \in Threads : ~Acks(b, t, j)'
                          /\ \A e \in queue'[b] : e.job # j
                          /\ work'[b].job = j => b = a
    BY <1>0, WorkAlone DEF Acks
  <1>4. \A b \in Agents : work'[b].job \in Jobs \ {j} => work'[b] = work[b]
    BY <1>0
  <1>5. reports'[j] \in Paths
    BY <1>0 DEF Reached, Told, Paths
  <1>6. copies'[j] <= MaxRetries
    <2>1. copies'[j] \in Nat
      BY DEF TypeOK, GhostType
    <2>2. work'[a].attempt \in 0..MaxRetries
      <3>1. work'[a] \in Work /\ work'[a].job # NoJob
        BY <1>0, FleetAssumption DEF TypeOK, WorkerType
      <3> QED
        BY <3>1 DEF Work, NoWork, Stopped
    <2>3. copies'[j] <= MostCopies(work'[a])
      BY <1>0 DEF Reached, MostCopies
    <2> QED
      BY <2>1, <2>2, <2>3, FleetAssumption DEF MostCopies
  <1>7. \A i \in Jobs : \A b \in Agents : \A t \in Threads : Acks(b, t, i)' => Acks(b, t, i)
    BY DEF Acks
  <1>8. \A i \in Jobs \ {j} : reports'[i] = reports[i] /\ copies'[i] = copies[i]
    BY <1>0
  <1>9. \A b \in Agents : work'[b].job = j => Reached(work[b])'
    BY <1>3
  <1>10. \A b \in Agents : /\ \A e \in queue'[b] : e.job # j => e \in queue[b]
                           /\ work'[b].job \in Jobs \ {j} => work'[b] = work[b]
    BY <1>4
  <1>11. \A b \in Agents : /\ \A t \in Threads : Acks(b, t, j)' => Fresh(j)'
                           /\ \A e \in queue'[b] : e.job = j => Fresh(j)'
                           /\ work'[b].job = j => Reached(work[b])'
    BY <1>3, <1>9
  <1> QED
    BY <1>2, <1>5, <1>6, <1>7, <1>8, <1>10, <1>11, OthersOnPath

\* What an attempt to print does: its worker completes, fails, or waits to retry.
LEMMA PrintMoves ==
    ASSUME TypeOK, NEW a \in Agents, PrintOk(a) \/ PrintErr(a)
    PROVE  \E j \in Jobs : \E n \in 0..MaxRetries : \E s \in {"COMPLETED", "FAILED", "wait"} :
           /\ work[a] = [job |-> j, what |-> "print", attempt |-> n]
           /\ work' = [work EXCEPT ![a] = [job |-> j, what |-> s, attempt |-> n]]
           /\ IF s = "wait" THEN reports' = reports ELSE Report(j, s)
           /\ \/ /\ copies' = [copies EXCEPT ![j] = @ + 1]
                 /\ printedBy' = [printedBy EXCEPT ![j] = @ \cup {a}]
              \/ s # "COMPLETED" /\ UNCHANGED <<copies, printedBy>>
           /\ UNCHANGED <<status, owner, late, call, queue, history>>
  <1>1. work[a].what = "print"
    BY DEF PrintOk, PrintErr
  <1>2. work[a].job \in Jobs
    BY <1>1, WorkHasJob
  <1>3. PICK j \in Jobs, n \in 0..MaxRetries :
           work[a] = [job |-> j, what |-> "print", attempt |-> n]
    BY <1>1, <1>2, WorkHasJob, WorkOfJob DEF TypeOK
  <1>4. \A s : [work[a] EXCEPT !.what = s] = [job |-> j, what |-> s, attempt |-> n]
    BY <1>3
  <1>5. work[a].job = j
    BY <1>3
  <1>6. UNCHANGED <<status, owner, late, call, queue, history>>
    BY DEF PrintOk, PrintErr, backend, intake, store
  <1>7. CASE PrintOk(a)
    <2>1. /\ work' = [work EXCEPT ![a] = [job |-> j, what |-> "COMPLETED", attempt |-> n]]
          /\ Report(j, "COMPLETED")
          /\ copies' = [copies EXCEPT ![j] = @ + 1]
          /\ printedBy' = [printedBy EXCEPT ![j] = @ \cup {a}]
      BY <1>4, <1>5, <1>7 DEF PrintOk, Paper
    <2> QED
      BY <1>3, <1>6, <2>1
  <1>8. CASE PrintErr(a)
    <2>1. \/ /\ copies' = [copies EXCEPT ![j] = @ + 1]
             /\ printedBy' = [printedBy EXCEPT ![j] = @ \cup {a}]
          \/ UNCHANGED <<copies, printedBy>>
      BY <1>5, <1>8 DEF PrintErr, Paper
    <2>2. \/ /\ work' = [work EXCEPT ![a] = [job |-> j, what |-> "FAILED", attempt |-> n]]
             /\ Report(j, "FAILED")
          \/ /\ work' = [work EXCEPT ![a] = [job |-> j, what |-> "wait", attempt |-> n]]
             /\ reports' = reports
      BY <1>4, <1>5, <1>8 DEF PrintErr
    <2> QED
      BY <1>3, <1>6, <2>1, <2>2
  <1> QED
    BY <1>7, <1>8

\* OnPath is inductive, given the types, ownership and Apart.
LEMMA OnPathStep == TypeOK /\ Owned /\ Apart /\ OnPath /\ [Next]_vars => OnPath'
  <1> SUFFICES ASSUME TypeOK, Owned, Apart, OnPath, [Next]_vars PROVE OnPath'
    OBVIOUS
  <1>1. TypeOK' /\ OwnerKept
    BY TypingStep, OwnersKept
  <1>2. CASE UNCHANGED vars
    <2>1. NoNewCalls /\ QueueShrinks /\ NoNewWork /\ UNCHANGED <<reports, copies>>
      BY <1>2 DEF NoNewCalls, QueueShrinks, NoNewWork, Acks, vars, intake, store, ghosts
    <2> QED
      BY <1>1, <2>1, EmptiedOnPath
  <1>3. ASSUME Still PROVE OnPath'
    <2>1. UNCHANGED <<reports, copies>>
      BY <1>3 DEF Still
    <2> QED
      BY <1>1, <1>3, <2>1, StillShrinks, EmptiedOnPath
  <1>4. ASSUME NEW a \in Agents, Exit(a) PROVE OnPath'
    <2>1. Forget(a) /\ UNCHANGED <<reports, copies>>
      BY <1>4 DEF Exit, ghosts
    <2> QED
      BY <1>1, <2>1, ForgetShrinks, EmptiedOnPath
  <1>5. ASSUME NEW a \in Agents, Crash(a) PROVE OnPath'
    <2>1. NoNewCalls /\ QueueShrinks /\ NoNewWork /\ reports' = reports
      BY <1>5, ForgetShrinks DEF Crash
    <2>2. CASE copies' = copies
      BY <1>1, <2>1, <2>2, EmptiedOnPath
    <2>3. CASE work[a].what = "print" /\ copies' = [copies EXCEPT ![work[a].job] = @ + 1]
      <3>0. work[a].job \in Jobs /\ Reached(work[a]) /\ owner[work[a].job] = a
        BY <2>3, WorkHasJob DEF Owned, WorkOwned, OnPath, WorkReached
      <3>1. PICK j \in Jobs : j = work[a].job /\ owner[j] = a
        BY <3>0
      <3>2. /\ copies'[j] = copies[j] + 1
            /\ \A i \in Jobs \ {j} : copies'[i] = copies[i]
        BY <2>3, <3>1 DEF TypeOK, GhostType
      <3>3. copies'[j] <= MaxRetries
        <4>1. copies[j] \in Nat /\ work[a].attempt \in 0..MaxRetries /\ MaxRetries \in Nat
          BY <3>0, WorkHasJob, WorkOfJob, FleetAssumption DEF TypeOK, GhostType
        <4>2. copies[j] <= work[a].attempt - 1
          BY <2>3, <3>0, <3>1 DEF Reached, MostCopies
        <4> QED
          BY <3>2, <4>1, <4>2
      <3>4. \A b \in Agents : /\ \A t \in Threads : ~Acks(b, t, j)'
                              /\ \A e \in queue'[b] : e.job # j
                              /\ work'[b].job # j
        <4>1. work'[a] = NoWork /\ \A b \in Agents \ {a} : work'[b] = work[b]
          BY <1>5 DEF Crash, Forget, TypeOK, WorkerType
        <4>2. \A b \in Agents : work'[b].job # j
          BY <3>0, <3>1, <4>1, WorkAlone, FleetAssumption DEF NoWork
        <4>3. \A b \in Agents : /\ \A t \in Threads : ~Acks(b, t, j)
                                /\ \A e \in queue[b] : e.job # j
          BY <3>0, <3>1, WorkAlone
        <4> QED
          BY <2>1, <4>2, <4>3 DEF NoNewCalls, QueueShrinks
      <3>5. owner'[j] # NoAgent /\ reports'[j] \in Paths
        BY <1>1, <2>1, <3>0, <3>1, FleetAssumption DEF OwnerKept, Reached, Told, Paths
      <3>6. \A b \in Agents : /\ \A e \in queue'[b] : e.job # j => e \in queue[b]
                              /\ work'[b].job \in Jobs \ {j} => work'[b] = work[b]
        BY <2>1 DEF QueueShrinks, NoNewWork
      <3>7. \A i \in Jobs \ {j} :
               /\ reports'[i] = reports[i] /\ copies'[i] = copies[i]
               /\ \A b \in Agents : \A t \in Threads : Acks(b, t, i)' => Acks(b, t, i)
        BY <2>1, <3>2 DEF NoNewCalls
      <3>8. \A b \in Agents : /\ \A t \in Threads : Acks(b, t, j)' => Fresh(j)'
                              /\ \A e \in queue'[b] : e.job = j => Fresh(j)'
                              /\ work'[b].job = j => Reached(work[b])'
        BY <3>4
      <3> QED
        BY <1>1, <3>3, <3>5, <3>6, <3>7, <3>8, OthersOnPath
    <2> QED
      BY <1>5, <2>2, <2>3 DEF Crash
  <1>6. ASSUME NEW a \in Agents, NEW t \in Threads,
               ClaimAnswered(a, t), Granted(call[a][t].job)
        PROVE  OnPath'
    <2>1. PICK j \in Jobs :
             /\ owner[j] = NoAgent
             /\ \A b \in Agents : \A u \in Threads : \A i \in Jobs :
                   Acks(b, u, i)' <=> Acks(b, u, i) \/ (b = a /\ u = t /\ i = j)
             /\ owner' = [owner EXCEPT ![j] = a]
             /\ Report(j, "ACKNOWLEDGED")
             /\ UNCHANGED <<queue, work, copies>>
      BY <1>6, GrantedFills DEF Granted
    <2>2. reports[j] = <<>> /\ copies[j] = 0
      BY <2>1 DEF OnPath, Unclaimed
    <2>3. reports'[j] = <<"ACKNOWLEDGED">> /\ \A i \in Jobs \ {j} : reports'[i] = reports[i]
      BY <2>1, <2>2, ReportAdds, PathSteps
    <2>4. \A b \in Agents : work'[b].job # j /\ \A e \in queue'[b] : e.job # j
      BY <2>1, UnownedNowhere
    <2>5. owner'[j] # NoAgent
      BY <2>1, FleetAssumption DEF TypeOK, BackendType
    <2>6. Fresh(j)' /\ reports'[j] \in Paths /\ copies'[j] <= MaxRetries
      BY <2>1, <2>2, <2>3, FleetAssumption DEF Fresh, Paths
    <2>7. \A i \in Jobs \ {j} :
             /\ reports'[i] = reports[i] /\ copies'[i] = copies[i]
             /\ \A b \in Agents : \A u \in Threads : Acks(b, u, i)' => Acks(b, u, i)
      BY <2>1, <2>3
    <2>8. \A b \in Agents : /\ \A e \in queue'[b] : e.job # j => e \in queue[b]
                            /\ work'[b].job \in Jobs \ {j} => work'[b] = work[b]
      BY <2>1
    <2>9. \A b \in Agents : /\ \A u \in Threads : Acks(b, u, j)' => Fresh(j)'
                            /\ \A e \in queue'[b] : e.job = j => Fresh(j)'
                            /\ work'[b].job = j => Reached(work[b])'
      BY <2>4, <2>6
    <2> QED
      BY <1>1, <2>5, <2>6, <2>7, <2>8, <2>9, OthersOnPath
  <1>7. ASSUME NEW a \in Agents, NEW t \in Threads, AckReturned(a, t) PROVE OnPath'
    <2>1. PICK j \in Jobs :
             /\ j = call[a][t].job /\ Acks(a, t, j)
             /\ \A b \in Agents : \A u \in Threads : \A i \in Jobs :
                   Acks(b, u, i)' => Acks(b, u, i)
             /\ UNCHANGED <<work, reports, copies>>
      BY <1>7, AckMoves
    <2>2. PICK e : e.job = j /\ queue' = [queue EXCEPT ![a] = @ \cup {e}]
      BY <1>7, <2>1, AckMoves
    <2>3. \A b \in Agents : \A f \in queue'[b] : f.job # j => f \in queue[b]
      BY <2>2 DEF TypeOK, IntakeType
    <2>4. owner[j] = a /\ Fresh(j)
      BY <2>1 DEF Acks, Owned, CallsOwned, OnPath, CallsFresh
    <2>5. Fresh(j)'
      BY <2>1, <2>4 DEF Fresh
    <2>6. owner'[j] # NoAgent /\ reports'[j] \in Paths /\ copies'[j] <= MaxRetries
      BY <1>1, <2>4, <2>5, FleetAssumption DEF OwnerKept, Fresh, Paths
    <2>7. \A b \in Agents : work'[b].job # j
      <3>1. \A b \in Agents : work[b].job = j => b = a
        BY <2>4 DEF Owned, WorkOwned
      <3> QED
        BY <2>1, <3>1 DEF Apart, CallOrWork
    <2>8. \A i \in Jobs \ {j} :
             /\ reports'[i] = reports[i] /\ copies'[i] = copies[i]
             /\ \A b \in Agents : \A u \in Threads : Acks(b, u, i)' => Acks(b, u, i)
      BY <2>1
    <2>9. \A b \in Agents : /\ \A f \in queue'[b] : f.job # j => f \in queue[b]
                            /\ work'[b].job \in Jobs \ {j} => work'[b] = work[b]
      BY <2>1, <2>3
    <2>10. \A b \in Agents : /\ \A u \in Threads : Acks(b, u, j)' => Fresh(j)'
                             /\ \A f \in queue'[b] : f.job = j => Fresh(j)'
                             /\ work'[b].job = j => Reached(work[b])'
      BY <2>5, <2>7
    <2> QED
      BY <1>1, <2>6, <2>8, <2>9, <2>10, OthersOnPath
  <1>8. ASSUME NEW a \in Agents, Take(a) PROVE OnPath'
    <2>1. PICK e \in queue[a] :
             /\ e.job \in Jobs
             /\ queue' = [queue EXCEPT ![a] = @ \ {e}]
             /\ work' = [work EXCEPT ![a] = [job |-> e.job, what |-> FirstReport(a, e.job),
                                             attempt |-> 0]]
             /\ Report(e.job, FirstReport(a, e.job))
             /\ UNCHANGED <<owner, call, copies>>
      BY <1>8, TakeMoves
    <2> DEFINE j == e.job
    <2>2. owner'[j] # NoAgent
      BY <2>1, FleetAssumption DEF Owned, QueueOwned
    <2>3. FirstReport(a, j) \in {"PRINTING", "FAILED"}
      BY DEF FirstReport
    <2>4. reports[j] = <<"ACKNOWLEDGED">> /\ copies'[j] = 0
      BY <2>1 DEF OnPath, QueueFresh, Fresh
    <2>5. /\ reports'[j] = Append(<<"ACKNOWLEDGED">>, FirstReport(a, j))
          /\ \A i \in Jobs \ {j} : reports'[i] = reports[i]
      BY <2>1, <2>4, ReportAdds
    <2>6. work'[a] = [job |-> j, what |-> FirstReport(a, j), attempt |-> 0]
      BY <2>1 DEF TypeOK, WorkerType
    <2>7. Reached(work[a])'
      BY <2>3, <2>4, <2>5, <2>6, PathSteps DEF Reached, Told, MostCopies
    <2>8. reports'[j] \in Paths /\ copies'[j] <= MaxRetries
      BY <2>3, <2>4, <2>5, PathSteps, FleetAssumption DEF Paths
    <2>9. \A b \in Agents : /\ b # a => work'[b] = work[b]
                            /\ queue'[b] \subseteq queue[b] /\ e \notin queue'[a]
      BY <2>1 DEF TypeOK, IntakeType, WorkerType
    <2>10. \A b \in Agents : /\ \A t \in Threads : ~Acks(b, t, j)'
                             /\ \A f \in queue'[b] : f.job # j
                             /\ work'[b].job = j => b = a
      BY <2>1, <2>9, EntryAlone DEF Acks
    <2>11. \A b \in Agents : \A t \in Threads : \A i \in Jobs : Acks(b, t, i)' => Acks(b, t, i)
      BY <2>1 DEF Acks
    <2>12. \A b \in Agents : /\ work'[b].job = j => Reached(work[b])'
                             /\ work'[b].job \in Jobs \ {j} => work'[b] = work[b]
                             /\ \A f \in queue'[b] : f \in queue[b]
      BY <2>6, <2>7, <2>9, <2>10
    <2> HIDE DEF j
    <2>13. j \in Jobs /\ copies' = copies
      BY <2>1 DEF j
    <2> QED
      BY <1>1, <2>2, <2>5, <2>8, <2>10, <2>11, <2>12, <2>13, OthersOnPath
  <1>9. CASE BackendStep
    BY <1>3, <1>9, QuietBackend
  <1>10. ASSUME NEW a \in Agents, ProcessStep(a) \/ SessionStep(a) PROVE OnPath'
    BY <1>3, <1>4, <1>5, <1>10, QuietSteps DEF ProcessStep
  <1>11. ASSUME NEW a \in Agents, NEW t \in Threads, ClaimStep(a, t) PROVE OnPath'
    BY <1>3, <1>6, <1>7, <1>11, QuietCalls DEF ClaimStep
  <1>12. ASSUME NEW a \in Agents, WorkerStep(a) PROVE OnPath'
    <2>1. CASE Take(a)
      BY <1>8, <2>1
    <2>2. CASE (ReportReturned(a) /\ work[a].what # "PRINTING") \/ Abandon(a)
      <3>1. UNCHANGED <<call, queue, reports, copies>> /\ work' = [work EXCEPT ![a] = NoWork]
        BY <2>2 DEF ReportReturned, Abandon, intake, store, ghosts
      <3>2. NoNewWork
        BY <3>1, FleetAssumption DEF NoNewWork, NoWork, TypeOK, WorkerType
      <3>3. NoNewCalls /\ QueueShrinks
        BY <3>1 DEF NoNewCalls, QueueShrinks, Acks
      <3> QED
        BY <1>1, <3>1, <3>2, <3>3, EmptiedOnPath
    <2>3. CASE (ReportReturned(a) /\ work[a].what = "PRINTING") \/ Retry(a)
      <3>1. work[a].job \in Jobs /\ Reached(work[a])
        BY <2>3, WorkHasJob DEF ReportReturned, Retry, OnPath, WorkReached
      <3>2. PICK j \in Jobs : j = work[a].job
        BY <3>1
      <3>3. /\ UNCHANGED <<call, queue, reports, copies>>
            /\ \A b \in Agents \ {a} : work'[b] = work[b]
        BY <2>3 DEF ReportReturned, Retry, intake, store, ghosts, TypeOK, WorkerType
      <3>4. work[a].attempt \in 0..MaxRetries
        BY <3>1, WorkHasJob, WorkOfJob DEF TypeOK
      <3>5. /\ work'[a].job = j /\ work'[a].what = "print" /\ work'[a].attempt # 0
            /\ copies[j] <= work'[a].attempt - 1
        <4>1. CASE ReportReturned(a) /\ work[a].what = "PRINTING"
          <5>1. work'[a] = [job |-> j, what |-> "print", attempt |-> 1]
            BY <3>2, <4>1 DEF ReportReturned, Printing, TypeOK, WorkerType
          <5>2. copies[j] <= 0
            BY <3>1, <3>2, <4>1 DEF Reached, MostCopies
          <5> QED
            BY <5>1, <5>2
        <4>2. CASE Retry(a)
          <5>1. work'[a] = [job |-> j, what |-> "print", attempt |-> work[a].attempt + 1]
            BY <3>2, <4>2 DEF Retry, Printing, TypeOK, WorkerType
          <5>2. copies[j] <= work[a].attempt
            BY <3>1, <3>2, <4>2 DEF Reached, MostCopies, Retry
          <5>3. copies[j] \in Nat
            BY DEF TypeOK, GhostType
          <5> QED
            BY <3>4, <5>1, <5>2, <5>3
        <4> QED
          BY <2>3, <4>1, <4>2
      <3>6. reports[j] = <<"ACKNOWLEDGED", "PRINTING">>
        BY <2>3, <3>1, <3>2 DEF Reached, Told, ReportReturned, Retry
      <3>7. Reached(work[a])'
        BY <3>3, <3>5, <3>6 DEF Reached, Told, MostCopies
      <3> QED
        BY <1>1, <3>1, <3>2, <3>3, <3>5, <3>7, WorkOnPath
    <2>4. CASE PrintOk(a) \/ PrintErr(a)
      <3>1. PICK j \in Jobs, n \in 0..MaxRetries, s \in {"COMPLETED", "FAILED", "wait"} :
               /\ work[a] = [job |-> j, what |-> "print", attempt |-> n]
               /\ work' = [work EXCEPT ![a] = [job |-> j, what |-> s, attempt |-> n]]
               /\ IF s = "wait" THEN reports' = reports ELSE Report(j, s)
               /\ \/ /\ copies' = [copies EXCEPT ![j] = @ + 1]
                     /\ printedBy' = [printedBy EXCEPT ![j] = @ \cup {a}]
                  \/ s # "COMPLETED" /\ UNCHANGED <<copies, printedBy>>
               /\ UNCHANGED <<status, owner, late, call, queue, history>>
        BY <2>4, PrintMoves
      <3>2. /\ reports[j] = <<"ACKNOWLEDGED", "PRINTING">>
            /\ copies[j] <= n - 1 /\ n # 0
        BY <3>1 DEF OnPath, WorkReached, Reached, Told, MostCopies
      <3>3. copies'[j] <= n /\ \A i \in Jobs \ {j} : copies'[i] = copies[i]
        BY <3>1, <3>2 DEF TypeOK, GhostType
      <3>4. /\ reports'[j] = IF s = "wait" THEN reports[j] ELSE Append(reports[j], s)
            /\ \A i \in Jobs \ {j} : reports'[i] = reports[i]
        BY <3>1, ReportAdds
      <3>5. /\ work'[a] = [job |-> j, what |-> s, attempt |-> n]
            /\ \A b \in Agents \ {a} : work'[b] = work[b]
        BY <3>1 DEF TypeOK, WorkerType
      <3>6. Reached(work[a])'
        <4>1. s # "print" /\ s # "PRINTING"
          BY <3>1
        <4>2. reports'[j] = Told(work'[a])
          <5>1. work'[a].what = s /\ work'[a].attempt = n
            BY <3>5
          <5>2. /\ s = "COMPLETED" =>
                      reports'[j] = <<"ACKNOWLEDGED", "PRINTING", "COMPLETED">>
                /\ s = "FAILED" => reports'[j] = <<"ACKNOWLEDGED", "PRINTING", "FAILED">>
                /\ s = "wait" => reports'[j] = <<"ACKNOWLEDGED", "PRINTING">>
            BY <3>2, <3>4, PathSteps
          <5>3. s = "COMPLETED" \/ s = "FAILED" \/ s = "wait"
            BY <3>1
          <5> QED
            BY <3>2, <5>1, <5>2, <5>3 DEF Told
        <4>3. copies'[j] <= MostCopies(work'[a])
          BY <3>3, <3>5, <4>1 DEF MostCopies
        <4> QED
          BY <3>2, <3>5, <4>1, <4>2, <4>3 DEF Reached, Told, MostCopies
      <3>7. work[a].job = j /\ work'[a].job = j
        BY <3>1, <3>5
      <3> QED
        BY <1>1, <3>1, <3>3, <3>4, <3>5, <3>6, <3>7, WorkOnPath
    <2> QED
      BY <1>12, <2>1, <2>2, <2>3, <2>4 DEF WorkerStep
  <1> QED
    BY <1>2, <1>9, <1>10, <1>11, <1>12 DEF Next

\* What the following proofs rest on.
LEMMA AlwaysOnPath == Spec => [](TypeOK /\ Owned /\ Apart /\ OnPath)
<1>1. Init => OnPath
  BY FleetAssumption
  DEF Init, OnPath, Unclaimed, CallsFresh, QueueFresh, WorkReached, ReportsInOrder, CopiesBounded,
      NoCall, NoWork, Acks
<1> QED
  BY <1>1, OnPathStep, AlwaysApart, PTL DEF Spec

(***************************************************************************)
(* Whatever agents, sessions, pushes, fetches, failed requests and         *)
(* restarts there are, what agents report of a job is a prefix of          *)
(* ACKNOWLEDGED, PRINTING, COMPLETED or FAILED, or a failure for want of a *)
(* printer (agent.go:136-138, app.go:151-211).                             *)
(***************************************************************************)
THEOREM PathOfReports == Spec => []ReportsInOrder
  BY AlwaysOnPath, PTL DEF OnPath

(***************************************************************************)
(* However often its agent is killed, a job is put on paper at most        *)
(* MaxRetries times (app.go:163-184).                                      *)
(***************************************************************************)
THEOREM PaperBounded == Spec => []CopiesBounded
  BY AlwaysOnPath, PTL DEF OnPath
===============================================================================
