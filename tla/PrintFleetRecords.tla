-------------------------- MODULE PrintFleetRecords ---------------------------
(***************************************************************************)
(* What the backend and the dashboard say of a job, and what happened to   *)
(* it: proofs about PrintFleet that BackendNotAhead, HistoryTruthful and   *)
(* UnlistedUntouched always hold, and NothingRejected where only           *)
(* connections break.                                                      *)
(*                                                                         *)
(* The backend learns of a job from requests only, the ones on their way   *)
(* and the ones nobody waits for any more: Believed says that each of them *)
(* tells the truth already when it is sent.  The dashboard's record of a   *)
(* job is written when the job leaves its last place, and from then on the *)
(* job is nowhere (Recorded).  A claim is sent only for an enabled type,   *)
(* and what is enabled stays within MayEnable (Untouched).                 *)
(*                                                                         *)
(* Where no request fails, the places of a job tell how far the backend is *)
(* in the lifecycle (InStep), because a goroutine waits for the answer to  *)
(* a report before it goes on.  That a job whose claim is granted is       *)
(* pending needs that the backend had the job when it handed it out        *)
(* (Known).                                                                *)
(***************************************************************************)
EXTENDS PrintFleetPlaces

(***************************************************************************)
(* What is reported and printed stays so.                                  *)
(***************************************************************************)
\* Has status s been reported of job j?
Heard(j, s) == \E i \in DOMAIN reports[j] : reports[j][i] = s

\* What is reported and printed from now on is added to what was.
GhostsGrow ==
    \A j \in Jobs : /\ \A s \in Reports : Heard(j, s) => Heard(j, s)'
                    /\ printedBy[j] \subseteq printedBy'[j]

\* Reporting adds a status to its job's, and takes none away.
LEMMA ReportTells ==
    ASSUME TypeOK, NEW j \in Jobs, NEW what \in Reports, Report(j, what)
    PROVE  /\ Heard(j, what)'
           /\ \A i \in Jobs : \A s \in Reports : Heard(i, s) => Heard(i, s)'
  <1>1. reports[j] \in Seq(Reports)
    BY DEF TypeOK, GhostType
  <1>2. /\ reports'[j] = Append(reports[j], what)
        /\ \A i \in Jobs \ {j} : reports'[i] = reports[i]
    BY ReportAdds
  <1>3. /\ DOMAIN reports'[j] = 1..(Len(reports[j]) + 1)
        /\ DOMAIN reports[j] = 1..Len(reports[j])
        /\ Len(reports[j]) \in Nat
        /\ reports'[j][Len(reports[j]) + 1] = what
        /\ \A n \in 1..Len(reports[j]) : reports'[j][n] = reports[j][n]
    BY <1>1, <1>2, AppendProperties, LenProperties
  <1>4. Heard(j, what)'
    BY <1>3 DEF Heard
  <1>5. \A s \in Reports : Heard(j, s) => Heard(j, s)'
    BY <1>3 DEF Heard
  <1>6. \A i \in Jobs \ {j} : \A s \in Reports : Heard(i, s) => Heard(i, s)'
    BY <1>2 DEF Heard
  <1> QED
    BY <1>4, <1>5, <1>6

LEMMA GhostsGrowStep == TypeOK /\ [Next]_vars => GhostsGrow
  <1> SUFFICES ASSUME TypeOK, [Next]_vars PROVE GhostsGrow
    OBVIOUS
  <1>1. UNCHANGED <<reports, printedBy>> => GhostsGrow
    BY DEF GhostsGrow, Heard
  <1>2. ASSUME NEW j \in Jobs, NEW s \in Reports, Report(j, s), printedBy' = printedBy
        PROVE  GhostsGrow
    BY <1>2, ReportTells DEF GhostsGrow
  <1>3. ASSUME Still PROVE GhostsGrow
    BY <1>1, <1>3 DEF Still
  <1>4. CASE UNCHANGED vars
    BY <1>1, <1>4 DEF vars, ghosts
  <1>5. ASSUME NEW a \in Agents, Exit(a) \/ Crash(a) PROVE GhostsGrow
    <2>1. reports' = reports
      BY <1>5 DEF Exit, Crash, ghosts
    <2>2. \/ printedBy' = printedBy
          \/ printedBy' = [printedBy EXCEPT ![work[a].job] = @ \cup {a}]
      BY <1>5 DEF Exit, Crash, ghosts
    <2>3. \A j \in Jobs : printedBy[j] \subseteq printedBy'[j]
      BY <2>2 DEF TypeOK, GhostType
    <2> QED
      BY <2>1, <2>3 DEF GhostsGrow, Heard
  <1>6. ASSUME NEW a \in Agents, NEW t \in Threads, ClaimStep(a, t) PROVE GhostsGrow
    <2>1. CASE ClaimAnswered(a, t) /\ Granted(call[a][t].job)
      <3>1. PICK j \in Jobs : Report(j, "ACKNOWLEDGED") /\ printedBy' = printedBy
        BY <2>1, GrantedFills
      <3> QED
        BY <1>2, <3>1 DEF Reports
    <2>2. CASE AckReturned(a, t)
      BY <1>1, <2>2 DEF AckReturned, ghosts
    <2> QED
      BY <1>3, <1>6, <2>1, <2>2, QuietCalls DEF ClaimStep
  <1>7. ASSUME NEW a \in Agents, WorkerStep(a) PROVE GhostsGrow
    <2>1. CASE Take(a)
      <3>1. PICK j \in Jobs : Report(j, FirstReport(a, j)) /\ printedBy' = printedBy
        BY <2>1, TakeMoves
      <3> QED
        BY <1>2, <3>1 DEF FirstReport, Reports
    <2>2. CASE PrintOk(a) \/ PrintErr(a)
      <3>1. PICK j \in Jobs, n \in 0..MaxRetries, s \in {"COMPLETED", "FAILED", "wait"} :
               /\ work[a] = [job |-> j, what |-> "print", attempt |-> n]
               /\ work' = [work EXCEPT ![a] = [job |-> j, what |-> s, attempt |-> n]]
               /\ IF s = "wait" THEN reports' = reports ELSE Report(j, s)
               /\ \/ /\ copies' = [copies EXCEPT ![j] = @ + 1]
                     /\ printedBy' = [printedBy EXCEPT ![j] = @ \cup {a}]
                  \/ s # "COMPLETED" /\ UNCHANGED <<copies, printedBy>>
               /\ UNCHANGED <<status, owner, late, call, queue, history>>
        BY <2>2, PrintMoves
      <3>2. \A i \in Jobs : \A x \in Reports : Heard(i, x) => Heard(i, x)'
        <4>1. CASE s = "wait"
          BY <3>1, <4>1 DEF Heard
        <4>2. CASE s # "wait"
          BY <3>1, <4>2, ReportTells DEF Reports
        <4> QED
          BY <4>1, <4>2
      <3>3. \A i \in Jobs : printedBy[i] \subseteq printedBy'[i]
        BY <3>1 DEF TypeOK, GhostType
      <3> QED
        BY <3>2, <3>3 DEF GhostsGrow
    <2> QED
      BY <1>1, <1>7, <2>1, <2>2 DEF WorkerStep, ReportReturned, Retry, Abandon, ghosts
  <1>8. CASE BackendStep
    BY <1>3, <1>8, QuietBackend
  <1>9. ASSUME NEW a \in Agents, ProcessStep(a) \/ SessionStep(a) PROVE GhostsGrow
    BY <1>3, <1>5, <1>9, QuietSteps DEF ProcessStep
  <1> QED
    BY <1>4, <1>6, <1>7, <1>8, <1>9 DEF Next

-------------------------------------------------------------------------------
(***************************************************************************)
(* The backend is not ahead of the agents.                                 *)
(***************************************************************************)
\* Request m says nothing that is not so.
Honest(m) ==
    m.what \in Reports =>
        Heard(m.job, m.what) /\ (m.what = "COMPLETED" => m.agent \in printedBy[m.job])

LateHonest    == \A m \in late : Honest(m)
WorkPrinted == \A a \in Agents : work[a].what = "COMPLETED" => a \in printedBy[work[a].job]

Believed == LateHonest /\ WorkPrinted /\ BackendNotAhead

\* What is true stays true.
LEMMA StaysHonest ==
    ASSUME GhostsGrow, NEW m \in Request, Honest(m)
    PROVE  Honest(m)'
  BY DEF GhostsGrow, Honest, Request

\* The PATCH an acknowledging goroutine waits for is true.
LEMMA CallHonest ==
    ASSUME TypeOK, OnPath, NEW a \in Agents, NEW t \in Threads, call[a][t] # NoCall
    PROVE  Honest([agent |-> a, job |-> call[a][t].job, what |-> call[a][t].what])
  <1>1. CASE call[a][t].what = "CLAIM"
    BY <1>1 DEF Honest, Reports
  <1>2. CASE call[a][t].what = "ACKNOWLEDGED"
    <2>1. reports[call[a][t].job] = <<"ACKNOWLEDGED">>
      BY <1>2, AckOfJob DEF OnPath, CallsFresh, Fresh
    <2> QED
      BY <1>2, <2>1 DEF Honest, Heard
  <1> QED
    BY <1>1, <1>2, CallOfJob DEF TypeOK

\* So is the PATCH a worker waits for.
LEMMA WorkHonest ==
    ASSUME TypeOK, OnPath, WorkPrinted, NEW a \in Agents, work[a].what \in Reports
    PROVE  Honest([agent |-> a, job |-> work[a].job, what |-> work[a].what])
  <1>1. work[a].job \in Jobs /\ work[a].what \in {"PRINTING", "COMPLETED", "FAILED"}
    BY WorkHasJob, WorkKinds DEF TypeOK
  <1>2. reports[work[a].job] = Told(work[a])
    BY <1>1 DEF OnPath, WorkReached, Reached
  <1>3. Heard(work[a].job, work[a].what)
    <2>1. CASE work[a].what = "PRINTING"
      <3>1. reports[work[a].job] = <<"ACKNOWLEDGED", "PRINTING">>
        BY <1>2, <2>1 DEF Told
      <3> QED
        BY <2>1, <3>1 DEF Heard
    <2>2. CASE work[a].what = "COMPLETED"
      <3>1. reports[work[a].job] = <<"ACKNOWLEDGED", "PRINTING", "COMPLETED">>
        BY <1>2, <2>2 DEF Told
      <3> QED
        BY <2>2, <3>1 DEF Heard
    <2>3. CASE work[a].what = "FAILED"
      <3>1. \/ reports[work[a].job] = <<"ACKNOWLEDGED", "FAILED">>
            \/ reports[work[a].job] = <<"ACKNOWLEDGED", "PRINTING", "FAILED">>
        BY <1>2, <2>3 DEF Told
      <3> QED
        BY <2>3, <3>1 DEF Heard
    <2> QED
      BY <1>1, <2>1, <2>2, <2>3
  <1> QED
    BY <1>3 DEF Honest, WorkPrinted

\* All an agent leaves behind when it stops or is killed is true.
LEMMA InFlightHonest ==
    ASSUME TypeOK, OnPath, WorkPrinted, NEW a \in Agents, NEW m \in InFlight(a)
    PROVE  Honest(m)
  BY CallHonest, WorkHonest DEF InFlight

\* The requests that come to be late are true, and so is what the backend learns.
LateGetsHonest   == \A m \in late' : m \in late \/ Honest(m)
StatusGetsHonest ==
    \A j \in Jobs : status'[j] \in Reports =>
        \/ status'[j] = status[j]
        \/ \E m \in Request : /\ Honest(m) /\ m.job = j
                             /\ status'[j] = m.what /\ owner[j] = m.agent

LEMMA ServeHonest ==
    ASSUME TypeOK, NEW m \in Request, Honest(m), Serve(m)
    PROVE  StatusGetsHonest
  BY DEF Serve, Accepts, StatusGetsHonest, TypeOK, BackendType

\* A call that returns leaves nothing behind but its own request.
LEMMA ReturnedHonest ==
    ASSUME TypeOK, NEW a \in Agents, NEW m \in Request, Returned(a, m), Honest(m)
    PROVE  LateGetsHonest /\ StatusGetsHonest
  <1>1. status' = status => StatusGetsHonest
    BY DEF StatusGetsHonest
  <1> QED
    BY <1>1, ServeHonest, ReturnedLate DEF Returned, Answered, GaveUp, LateGetsHonest

\* A step whose requests are true and whose COMPLETED is printed keeps Believed.
LEMMA StaysBelieved ==
    ASSUME TypeOK, TypeOK', Believed, OwnerKept, GhostsGrow, LateGetsHonest, StatusGetsHonest,
           \A a \in Agents : work'[a].what = "COMPLETED" =>
                                work'[a] = work[a] \/ a \in printedBy'[work'[a].job]
    PROVE  Believed'
  <1> USE DEF Believed
  <1>1. LateHonest'
    <2>1. \A m \in late' : m \in Request /\ Honest(m)
      BY DEF TypeOK, BackendType, LateHonest, LateGetsHonest
    <2> QED
      BY <2>1, StaysHonest DEF LateHonest
  <1>2. WorkPrinted'
    <2> SUFFICES ASSUME NEW a \in Agents, work'[a].what = "COMPLETED"
                 PROVE  a \in printedBy'[work'[a].job]
      BY DEF WorkPrinted
    <2>1. CASE work'[a] = work[a]
      <3>1. a \in printedBy[work[a].job] /\ work[a].job \in Jobs
        BY <2>1, WorkHasJob DEF WorkPrinted
      <3> QED
        BY <2>1, <3>1 DEF GhostsGrow
    <2> QED
      BY <2>1
  <1>3. BackendNotAhead'
    <2> SUFFICES ASSUME NEW j \in Jobs, NEW s \in Reports, status'[j] = s
                 PROVE  Heard(j, s)' /\ (s = "COMPLETED" => owner'[j] \in printedBy'[j])
      BY DEF BackendNotAhead, Heard, Reports
    <2>1. Heard(j, s) /\ (s = "COMPLETED" => owner[j] \in printedBy[j])
      <3>1. CASE status'[j] = status[j]
        BY <3>1 DEF BackendNotAhead, Heard
      <3>2. CASE status'[j] # status[j]
        BY <3>2 DEF StatusGetsHonest, Honest
      <3> QED
        BY <3>1, <3>2
    <2>2. owner[j] \in printedBy[j] => owner'[j] \in printedBy'[j]
      BY DEF GhostsGrow, OwnerKept, TypeOK, GhostType
    <2> QED
      BY <2>1, <2>2 DEF GhostsGrow
  <1> QED
    BY <1>1, <1>2, <1>3

LEMMA BelievedStep == TypeOK /\ OnPath /\ Believed /\ [Next]_vars => Believed'
  <1> SUFFICES ASSUME TypeOK, OnPath, Believed, [Next]_vars PROVE Believed'
    OBVIOUS
  <1> DEFINE WorkGetsHonest == \A a \in Agents : work'[a].what = "COMPLETED" =>
                                work'[a] = work[a] \/ a \in printedBy'[work'[a].job]
  <1>1. TypeOK' /\ OwnerKept /\ GhostsGrow
    BY TypingStep, OwnersKept, GhostsGrowStep
  <1>2. LateGetsHonest /\ StatusGetsHonest /\ WorkGetsHonest => Believed'
    BY <1>1, StaysBelieved
  <1>3. /\ late' = late => LateGetsHonest
        /\ status' = status => StatusGetsHonest
        /\ work' = work => WorkGetsHonest
    BY DEF LateGetsHonest, StatusGetsHonest
  <1>4. \A a \in Agents : work[a].what \in Reports =>
           [agent |-> a, job |-> work[a].job, what |-> work[a].what] \in Request
    BY WorkHasJob DEF Request
  <1>5. CASE UNCHANGED vars
    BY <1>2, <1>3, <1>5 DEF vars, backend
  <1>6. CASE BackendStep
    <2>1. work' = work
      BY <1>6 DEF BackendStep, Create, Dispatch, Deliver
    <2>2. ASSUME NEW j \in Jobs, Create(j) \/ Dispatch(j) PROVE LateGetsHonest /\ StatusGetsHonest
      <3>1. late' = late /\ \E s \in {"PENDING", "DISPATCHED"} : status' = [status EXCEPT ![j] = s]
        BY <2>2 DEF Create, Dispatch
      <3>2. \A i \in Jobs : status'[i] \in Reports => status'[i] = status[i]
        BY <3>1 DEF Reports, TypeOK, BackendType
      <3> QED
        BY <1>3, <3>1, <3>2 DEF StatusGetsHonest
    <2>3. ASSUME NEW m \in late, Deliver(m) PROVE LateGetsHonest /\ StatusGetsHonest
      <3>1. m \in Request /\ Honest(m) /\ Serve(m) /\ late' \subseteq late
        BY <2>3 DEF Deliver, Believed, LateHonest, TypeOK, BackendType
      <3> QED
        BY <3>1, ServeHonest DEF LateGetsHonest
    <2> QED
      BY <1>2, <1>3, <1>6, <2>1, <2>2, <2>3 DEF BackendStep
  <1>7. ASSUME NEW a \in Agents, ProcessStep(a) PROVE Believed'
    <2>1. status' = status
      BY <1>7 DEF ProcessStep, Start, Stop, MainExit, WorkerExit, Exit, Crash, SaveSettings, backend
    <2>2. LateGetsHonest
      <3>1. CASE Stop(a) \/ Crash(a)
        BY <3>1, InFlightHonest DEF Stop, Crash, LateGetsHonest, Believed
      <3>2. CASE ~(Stop(a) \/ Crash(a))
        BY <1>3, <1>7, <3>2
        DEF ProcessStep, Start, MainExit, WorkerExit, Exit, SaveSettings, backend
      <3> QED
        BY <3>1, <3>2
    <2>3. WorkGetsHonest
      <3>1. work' = work \/ \E v \in {NoWork, Stopped} : work' = [work EXCEPT ![a] = v]
        BY <1>7
        DEF ProcessStep, Start, Stop, MainExit, WorkerExit, Exit, Crash, SaveSettings, Forget
      <3> QED
        BY <3>1 DEF NoWork, Stopped, TypeOK, WorkerType
    <2> QED
      BY <1>2, <1>3, <2>1, <2>2, <2>3
  <1>8. ASSUME NEW a \in Agents, SessionStep(a) PROVE Believed'
    BY <1>2, <1>3, <1>8
    DEF SessionStep, Connect, Tick, FetchOk, FetchFail, RecoverDone, DropLink, Disconnect, backend
  <1>9. ASSUME NEW a \in Agents, NEW t \in Threads, ClaimStep(a, t) PROVE Believed'
    <2>1. work' = work
      BY <1>9 DEF ClaimStep, BeginCall, ClaimAnswered, ClaimFailed, AckReturned
    <2>2. CASE BeginCall(a, t)
      BY <1>2, <1>3, <2>1, <2>2 DEF BeginCall, backend
    <2>3. CASE ~BeginCall(a, t)
      <3> DEFINE m(what) == [agent |-> a, job |-> call[a][t].job, what |-> what]
      <3>1. PICK what \in {"CLAIM", "ACKNOWLEDGED"} :
               call[a][t].what = what /\ Returned(a, m(what))
        BY <1>9, <2>3 DEF ClaimStep, ClaimAnswered, ClaimFailed, AckReturned, Returned
      <3>2. call[a][t] # NoCall
        BY <3>1 DEF NoCall
      <3>3. m(what) \in Request
        BY <3>2, CallOfJob DEF TypeOK, Request, Reports
      <3>4. Honest(m(what))
        BY <3>1, <3>2, CallHonest
      <3> QED
        BY <1>2, <1>3, <2>1, <3>1, <3>3, <3>4, ReturnedHonest
    <2> QED
      BY <2>2, <2>3
  <1>10. ASSUME NEW a \in Agents, WorkerStep(a) PROVE Believed'
    <2>1. CASE ReportReturned(a)
      <3> DEFINE m == [agent |-> a, job |-> work[a].job, what |-> work[a].what]
      <3>1. m \in Request /\ Returned(a, m) /\ Honest(m)
        BY <1>4, <2>1, WorkHonest DEF ReportReturned, Believed
      <3>2. WorkGetsHonest
        BY <2>1 DEF ReportReturned, Printing, NoWork, TypeOK, WorkerType
      <3> QED
        BY <1>2, <3>1, <3>2, ReturnedHonest
    <2>2. CASE PrintOk(a) \/ PrintErr(a)
      <3>1. PICK j \in Jobs, n \in 0..MaxRetries, s \in {"COMPLETED", "FAILED", "wait"} :
               /\ work[a] = [job |-> j, what |-> "print", attempt |-> n]
               /\ work' = [work EXCEPT ![a] = [job |-> j, what |-> s, attempt |-> n]]
               /\ IF s = "wait" THEN reports' = reports ELSE Report(j, s)
               /\ \/ /\ copies' = [copies EXCEPT ![j] = @ + 1]
                     /\ printedBy' = [printedBy EXCEPT ![j] = @ \cup {a}]
                  \/ s # "COMPLETED" /\ UNCHANGED <<copies, printedBy>>
               /\ UNCHANGED <<status, owner, late, call, queue, history>>
        BY <2>2, PrintMoves
      <3>2. WorkGetsHonest
        BY <3>1 DEF TypeOK, WorkerType, GhostType
      <3> QED
        BY <1>2, <1>3, <3>1, <3>2
    <2>3. CASE Take(a) \/ Retry(a) \/ Abandon(a)
      <3>1. UNCHANGED <<status, late>>
        BY <2>3 DEF Take, Retry, Abandon, backend
      <3>2. PICK v : work' = [work EXCEPT ![a] = v] /\ v.what # "COMPLETED"
        BY <2>3 DEF Take, FirstReport, Retry, Printing, Abandon, NoWork
      <3>3. WorkGetsHonest
        BY <3>2 DEF TypeOK, WorkerType
      <3> QED
        BY <1>2, <1>3, <3>1, <3>3
    <2> QED
      BY <1>10, <2>1, <2>2, <2>3 DEF WorkerStep
  <1> QED
    BY <1>5, <1>6, <1>7, <1>8, <1>9, <1>10 DEF Next

\* What the proof about the dashboard rests on as well.
LEMMA AlwaysBelieved == Spec => [](TypeOK /\ Owned /\ Apart /\ OnPath /\ Believed)
<1>1. Init => Believed
  BY DEF Init, Believed, LateHonest, WorkPrinted, BackendNotAhead, NoWork, Reports
<1> QED
  BY <1>1, BelievedStep, AlwaysOnPath, PTL DEF Spec

(***************************************************************************)
(* The backend never shows a status nobody reported, nor COMPLETED of a    *)
(* job that is not on paper, though requests are lost, come late and       *)
(* outlive the process that sent them (app.go:161-211, polling.go:103-135).*)
(***************************************************************************)
THEOREM BackendTruth == Spec => []BackendNotAhead
  BY AlwaysBelieved, PTL DEF Believed

-------------------------------------------------------------------------------
(***************************************************************************)
(* The dashboard's records.                                                *)
(***************************************************************************)
\* Agent a has a record of job j: it is through with it.
Done(a, j) == \E i \in DOMAIN history[a] : history[a][i].job = j

\* Record r of agent a is what happened.
RecordTrue(a, r) ==
    /\ owner[r.job] = a
    /\ reports[r.job] # <<>> /\ r.status = Last(reports[r.job])
    /\ r.status = "COMPLETED" => a \in printedBy[r.job] /\ r.failures < MaxRetries

DoneNowhere == \A a \in Agents : \A j \in Jobs : Done(a, j) => Nowhere(a, j)

Recorded == DoneNowhere /\ HistoryTruthful

\* What History.Add returns: the record in front, older ones behind it.
LEMMA AddElements ==
    ASSUME NEW h \in Seq(Record), NEW r \in Record, Len(h) <= HistoryMax
    PROVE  /\ Add(h, r) \in Seq(Record)
           /\ Len(Add(h, r)) <= HistoryMax
           /\ \A i \in DOMAIN Add(h, r) :
                 \/ i = 1 /\ Add(h, r)[i] = r
                 \/ i - 1 \in DOMAIN h /\ Add(h, r)[i] = h[i - 1]
  <1> DEFINE n == IF Len(h) < HistoryMax THEN Len(h) + 1 ELSE HistoryMax
             s == <<r>> \o h
             res == Add(h, r)
  <1>1. HistoryMax \in Nat \ {0} /\ Len(h) \in Nat
    BY FleetAssumption
  <1>2. n \in Nat \ {0} /\ n <= Len(h) + 1 /\ n <= HistoryMax
    BY <1>1
  <1>3. /\ s \in Seq(Record) /\ Len(s) = Len(h) + 1
        /\ \A i \in 1..(Len(h) + 1) : s[i] = IF i <= 1 THEN r ELSE h[i - 1]
    <2>1. <<r>> \in Seq(Record) /\ Len(<<r>>) = 1 /\ <<r>>[1] = r
      OBVIOUS
    <2>2. \A i \in 1..(1 + Len(h)) : s[i] = IF i <= 1 THEN <<r>>[i] ELSE h[i - 1]
      BY <2>1, ConcatProperties
    <2>3. s \in Seq(Record) /\ Len(s) = 1 + Len(h)
      BY <2>1, ConcatProperties
    <2> QED
      BY <1>1, <2>1, <2>2, <2>3
  <1>4. res = SubSeq(s, 1, n)
    BY DEF Add
  <1> HIDE DEF n, s, res
  <1>5. \A i \in 1..n : s[i] \in Record
    BY <1>1, <1>2, <1>3
  <1>6. /\ res \in Seq(Record) /\ Len(res) = n
        /\ \A i \in 1..n : res[i] = s[i]
    <2>1. /\ SubSeq(s, 1, n) \in Seq(Record)
          /\ Len(SubSeq(s, 1, n)) = IF 1 <= n THEN n - 1 + 1 ELSE 0
          /\ \A i \in 1..(n - 1 + 1) : SubSeq(s, 1, n)[i] = s[1 + i - 1]
      BY <1>2, <1>5, SubSeqProperties
    <2> QED
      BY <1>2, <1>4, <2>1
  <1>7. \A i \in DOMAIN res :
           \/ i = 1 /\ res[i] = r
           \/ i - 1 \in DOMAIN h /\ res[i] = h[i - 1]
    <2> SUFFICES ASSUME NEW i \in 1..n
                 PROVE  \/ i = 1 /\ res[i] = r
                        \/ i - 1 \in 1..Len(h) /\ res[i] = h[i - 1]
      BY <1>2, <1>6
    <2> QED
      BY <1>1, <1>2, <1>3, <1>6
  <1> QED
    BY <1>2, <1>6, <1>7 DEF res

\* A step that adds at most one record to each history, a true one of a job that is
\* through, and leaves the jobs that were through alone, keeps Recorded.
LEMMA StaysRecorded ==
    ASSUME TypeOK, TypeOK', Recorded, OwnerKept, GhostsGrow,
           \A a \in Agents : \A j \in Jobs :
              Done(a, j) => Nowhere(a, j)' /\ reports'[j] = reports[j],
           \A a \in Agents :
              \/ history'[a] \in {history[a], <<>>}
              \/ \E r \in Record : /\ history'[a] = Add(history[a], r)
                                   /\ ~Done(a, r.job) /\ Nowhere(a, r.job)' /\ RecordTrue(a, r)'
    PROVE  Recorded'
  <1> SUFFICES ASSUME NEW a \in Agents
               PROVE  /\ \A j \in Jobs : Done(a, j)' => Nowhere(a, j)'
                      /\ Len(history'[a]) <= HistoryMax
                      /\ \A i, k \in DOMAIN history'[a] :
                            history'[a][i].job = history'[a][k].job => i = k
                      /\ \A i \in DOMAIN history'[a] : RecordTrue(a, history[a][i])'
    BY DEF Recorded, DoneNowhere, HistoryTruthful, RecordTrue
  <1> DEFINE h == history[a]
  <1>1. /\ h \in Seq(Record) /\ Len(h) <= HistoryMax /\ Len(h) \in Nat /\ DOMAIN h = 1..Len(h)
        /\ \A i, k \in DOMAIN h : h[i].job = h[k].job => i = k
        /\ \A i \in DOMAIN h : h[i] \in Record /\ RecordTrue(a, h[i])
    BY DEF TypeOK, WorkerType, Recorded, HistoryTruthful, RecordTrue
  <1>2. \A i \in DOMAIN h : h[i].job \in Jobs /\ Done(a, h[i].job)
    BY <1>1 DEF Record, Done
  <1>3. \A i \in DOMAIN h : \A r : r = h[i] => RecordTrue(a, r)'
    BY <1>1, <1>2 DEF RecordTrue, OwnerKept, GhostsGrow
  <1>4. CASE history'[a] = h
    BY <1>1, <1>2, <1>3, <1>4 DEF Done
  <1>5. CASE history'[a] = <<>>
    BY <1>5, FleetAssumption DEF Done
  <1>6. CASE \E r \in Record : /\ history'[a] = Add(h, r)
                               /\ ~Done(a, r.job) /\ Nowhere(a, r.job)' /\ RecordTrue(a, r)'
    <2>1. PICK r \in Record : /\ history'[a] = Add(h, r)
                              /\ ~Done(a, r.job) /\ Nowhere(a, r.job)' /\ RecordTrue(a, r)'
      BY <1>6
    <2>2. /\ Len(history'[a]) <= HistoryMax
          /\ \A i \in DOMAIN history'[a] :
                \/ i = 1 /\ history'[a][i] = r
                \/ i - 1 \in DOMAIN h /\ history'[a][i] = h[i - 1]
      <3>1. \A g \in Seq(Record) : Len(g) <= HistoryMax =>
               /\ Len(Add(g, r)) <= HistoryMax
               /\ \A i \in DOMAIN Add(g, r) :
                     \/ i = 1 /\ Add(g, r)[i] = r
                     \/ i - 1 \in DOMAIN g /\ Add(g, r)[i] = g[i - 1]
        BY AddElements
      <3> QED
        BY <1>1, <2>1, <3>1
    <2>3. \A i \in DOMAIN history'[a] :
             \/ history'[a][i] = r
             \/ \E k \in DOMAIN h : history'[a][i] = h[k]
      BY <2>2
    <2>4. \A i \in DOMAIN h : h[i].job # r.job
      BY <1>2, <2>1
    <2>5. \A i, k \in DOMAIN history'[a] : history'[a][i].job = history'[a][k].job => i = k
      <3> SUFFICES ASSUME NEW i \in DOMAIN history'[a], NEW k \in DOMAIN history'[a],
                          history'[a][i].job = history'[a][k].job
                   PROVE  i = k
        OBVIOUS
      <3>1. i \in Int /\ k \in Int
        BY DEF TypeOK, WorkerType
      <3>2. CASE i = 1 \/ k = 1
        <4>1. \A n \in DOMAIN history'[a] : n = 1 => history'[a][n].job = r.job
          BY <1>1, <2>2, <2>4
        <4>2. \A n \in DOMAIN history'[a] : n # 1 => history'[a][n].job # r.job
          BY <1>1, <2>2, <2>4
        <4> QED
          BY <3>2, <4>1, <4>2
      <3>3. CASE i # 1 /\ k # 1
        <4>1. i - 1 = k - 1
          BY <1>1, <2>2, <3>3
        <4> QED
          BY <3>1, <4>1
      <3> QED
        BY <3>2, <3>3
    <2>6. \A i \in DOMAIN history'[a] : RecordTrue(a, history[a][i])'
      BY <1>3, <2>1, <2>3
    <2>7. \A j \in Jobs : Done(a, j)' => Nowhere(a, j)'
      BY <1>2, <2>1, <2>3 DEF Done
    <2> QED
      BY <2>2, <2>5, <2>6, <2>7
  <1> QED
    BY <1>4, <1>5, <1>6

\* A job that is through has its agent for owner, and is in no place of any agent.
LEMMA DoneOwned ==
    ASSUME TypeOK, Owned, Recorded, NEW a \in Agents, NEW j \in Jobs, Done(a, j)
    PROVE  owner[j] = a /\ \A b \in Agents : Nowhere(b, j)
  <1>1. owner[j] = a
    BY DEF Recorded, HistoryTruthful, Done
  <1>2. \A b \in Agents \ {a} : Nowhere(b, j)
    BY <1>1 DEF Owned, CallsOwned, QueueOwned, WorkOwned, Nowhere, Acks
  <1>3. Nowhere(a, j)
    BY DEF Recorded, DoneNowhere
  <1> QED
    BY <1>1, <1>2, <1>3

\* A step that concerns one job, which is not through, leaves alone those that are.
LEMMA OthersRecorded ==
    ASSUME TypeOK, TypeOK', Owned, Recorded, OwnerKept, GhostsGrow, NEW j \in Jobs,
           \A a \in Agents : ~Done(a, j),
           \A i \in Jobs \ {j} :
              /\ reports'[i] = reports[i]
              /\ \A a \in Agents : \A t \in Threads : Acks(a, t, i)' => Acks(a, t, i),
           \A a \in Agents : /\ \A e \in queue'[a] : e.job # j => e \in queue[a]
                             /\ work'[a].job \in Jobs \ {j} => work'[a].job = work[a].job,
           history' = history
    PROVE  Recorded'
  <1>1. ASSUME NEW a \in Agents, NEW i \in Jobs, Done(a, i)
        PROVE  Nowhere(a, i)' /\ reports'[i] = reports[i]
    <2>1. i \in Jobs \ {j}
      BY <1>1
    <2>2. Nowhere(a, i)
      BY <1>1 DEF Recorded, DoneNowhere
    <2> QED
      BY <2>1, <2>2 DEF Nowhere
  <1>2. \A a \in Agents : history'[a] \in {history[a], <<>>}
    OBVIOUS
  <1> QED
    BY <1>1, <1>2, StaysRecorded

\* So does a step that reports nothing and fills no place.
LEMMA EmptiedRecorded ==
    ASSUME TypeOK, TypeOK', Recorded, OwnerKept, GhostsGrow,
           NoNewCalls, QueueShrinks, SameWork, reports' = reports,
           \A a \in Agents : history'[a] \in {history[a], <<>>}
    PROVE  Recorded'
  <1>1. ASSUME NEW a \in Agents, NEW j \in Jobs, Done(a, j)
        PROVE  Nowhere(a, j)' /\ reports'[j] = reports[j]
    <2>1. Nowhere(a, j)
      BY <1>1 DEF Recorded, DoneNowhere
    <2> QED
      BY <2>1 DEF Nowhere, NoNewCalls, QueueShrinks, SameWork
  <1> QED
    BY <1>1, StaysRecorded

\* What process records of the job it is through with is true.
LEMMA OutcomeRecorded ==
    ASSUME TypeOK, TypeOK', Owned, Apart, OnPath, Believed, Recorded, OwnerKept, GhostsGrow,
           NEW a \in Agents, ReportReturned(a), work[a].what # "PRINTING", work[a].attempt # 0
    PROVE  Recorded'
  <1>1. /\ work[a].job \in Jobs /\ work[a].what \in {"COMPLETED", "FAILED"}
        /\ work[a].attempt \in 1..MaxRetries
    <2>1. work[a].job \in Jobs /\ work[a].what \in {"COMPLETED", "FAILED"}
      BY WorkHasJob, WorkKinds DEF TypeOK, ReportReturned
    <2>2. work[a].attempt \in 0..MaxRetries
      BY <2>1, WorkHasJob, WorkOfJob DEF TypeOK
    <2> QED
      BY <2>1, <2>2, FleetAssumption
  <1>2. PICK j \in Jobs : j = work[a].job
    BY <1>1
  <1>3. PICK s \in {"COMPLETED", "FAILED"} : s = work[a].what
    BY <1>1
  <1>4. PICK n \in 0..MaxRetries :
           n = (IF s = "FAILED" THEN work[a].attempt ELSE work[a].attempt - 1)
    BY <1>1, FleetAssumption
  <1> DEFINE r == [job |-> j, status |-> s, failures |-> n]
  <1>5. r \in Record /\ r.job = j /\ r.status = s /\ r.failures = n
    BY DEF Record
  <1>6. history' = [history EXCEPT ![a] = Add(@, r)]
    BY <1>2, <1>3, <1>4 DEF ReportReturned
  <1>7. UNCHANGED <<call, queue, reports, printedBy>> /\ work' = [work EXCEPT ![a] = NoWork]
    BY DEF ReportReturned, intake, store, ghosts
  <1> HIDE DEF r
  <1>8. Nowhere(a, j)'
    <2>1. work'[a].job # j
      BY <1>7, FleetAssumption DEF NoWork, TypeOK, WorkerType
    <2>2. \A t \in Threads : ~Acks(a, t, j)'
      BY <1>2, <1>7, WorkAlone DEF Acks
    <2>3. \A e \in queue'[a] : e.job # j
      BY <1>2, <1>7, WorkAlone
    <2> QED
      BY <2>1, <2>2, <2>3 DEF Nowhere
  <1>9. ~Done(a, j)
    BY <1>2 DEF Recorded, DoneNowhere, Nowhere
  <1>10. RecordTrue(a, r)'
    <2>1. owner'[j] = a
      BY <1>2 DEF Owned, WorkOwned, OwnerKept
    <2>2. reports'[j] # <<>> /\ s = Last(reports'[j])
      <3>1. reports'[j] = Told(work[a])
        BY <1>2, <1>7 DEF OnPath, WorkReached, Reached
      <3>2. \/ s = "COMPLETED" /\ reports'[j] = <<"ACKNOWLEDGED", "PRINTING", "COMPLETED">>
            \/ s = "FAILED" /\ reports'[j] = <<"ACKNOWLEDGED", "PRINTING", "FAILED">>
        BY <1>3, <3>1 DEF Told
      <3>3. Len(reports'[j]) = 3 /\ reports'[j][3] = s
        BY <3>2
      <3>4. reports'[j] # <<>>
        BY <3>2
      <3> QED
        BY <3>3, <3>4 DEF Last
    <2>3. s = "COMPLETED" => a \in printedBy'[j]
      BY <1>2, <1>3, <1>7 DEF Believed, WorkPrinted
    <2>4. s = "COMPLETED" => n < MaxRetries
      BY <1>1, <1>4, FleetAssumption
    <2> QED
      BY <1>5, <2>1, <2>2, <2>3, <2>4 DEF RecordTrue
  <1>11. ASSUME NEW b \in Agents, NEW i \in Jobs, Done(b, i)
         PROVE  Nowhere(b, i)' /\ reports'[i] = reports[i]
    <2>1. Nowhere(b, i)
      BY <1>11 DEF Recorded, DoneNowhere
    <2>2. work'[b].job # i
      BY <1>7, <2>1, FleetAssumption DEF Nowhere, NoWork, TypeOK, WorkerType
    <2> QED
      BY <1>7, <2>1, <2>2 DEF Nowhere, Acks
  <1>12. \A b \in Agents :
            \/ history'[b] \in {history[b], <<>>}
            \/ b = a /\ history'[b] = Add(history[b], r)
    BY <1>6 DEF TypeOK, WorkerType
  <1> QED
    BY <1>5, <1>8, <1>9, <1>10, <1>11, <1>12, StaysRecorded

LEMMA RecordedStep ==
    TypeOK /\ Owned /\ Apart /\ OnPath /\ Believed /\ Recorded /\ [Next]_vars => Recorded'
  <1> SUFFICES ASSUME TypeOK, Owned, Apart, OnPath, Believed, Recorded, [Next]_vars
               PROVE  Recorded'
    OBVIOUS
  <1>1. TypeOK' /\ OwnerKept /\ GhostsGrow
    BY TypingStep, OwnersKept, GhostsGrowStep
  <1>2. CASE UNCHANGED vars
    <2>1. NoNewCalls /\ QueueShrinks /\ SameWork /\ UNCHANGED <<reports, history>>
      BY <1>2 DEF NoNewCalls, QueueShrinks, SameWork, Acks, vars, intake, store, ghosts
    <2> QED
      BY <1>1, <2>1, EmptiedRecorded
  <1>3. ASSUME Still PROVE Recorded'
    <2>1. UNCHANGED <<reports, history>>
      BY <1>3 DEF Still
    <2> QED
      BY <1>1, <1>3, <2>1, StillShrinks, EmptiedRecorded
  <1>4. ASSUME NEW a \in Agents, Exit(a) \/ Crash(a) PROVE Recorded'
    <2>1. Forget(a) /\ reports' = reports
      BY <1>4 DEF Exit, Crash, ghosts
    <2>2. \A b \in Agents : history'[b] \in {history[b], <<>>}
      BY <2>1 DEF Forget, TypeOK, WorkerType
    <2> QED
      BY <1>1, <2>1, <2>2, ForgetShrinks, EmptiedRecorded
  <1>5. ASSUME NEW a \in Agents, NEW t \in Threads,
               ClaimAnswered(a, t), Granted(call[a][t].job)
        PROVE  Recorded'
    <2>1. PICK j \in Jobs :
             /\ owner[j] = NoAgent
             /\ \A b \in Agents : \A u \in Threads : \A i \in Jobs :
                   Acks(b, u, i)' <=> Acks(b, u, i) \/ (b = a /\ u = t /\ i = j)
             /\ Report(j, "ACKNOWLEDGED")
             /\ UNCHANGED <<queue, work, history>>
      BY <1>5, GrantedFills DEF Granted
    <2>2. \A b \in Agents : ~Done(b, j)
      BY <2>1, DoneOwned, FleetAssumption
    <2>3. \A i \in Jobs \ {j} :
             /\ reports'[i] = reports[i]
             /\ \A b \in Agents : \A u \in Threads : Acks(b, u, i)' => Acks(b, u, i)
      BY <2>1, ReportAdds
    <2> QED
      BY <1>1, <2>1, <2>2, <2>3, OthersRecorded
  <1>6. ASSUME NEW a \in Agents, NEW t \in Threads, AckReturned(a, t) PROVE Recorded'
    <2>1. PICK j \in Jobs :
             /\ j = call[a][t].job /\ Acks(a, t, j)
             /\ \A b \in Agents : \A u \in Threads : \A i \in Jobs :
                   Acks(b, u, i)' => Acks(b, u, i)
             /\ UNCHANGED <<work, history, reports>>
      BY <1>6, AckMoves
    <2>2. PICK e : e.job = j /\ queue' = [queue EXCEPT ![a] = @ \cup {e}]
      BY <1>6, <2>1, AckMoves
    <2>3. \A b \in Agents : \A f \in queue'[b] : f.job # j => f \in queue[b]
      BY <2>2 DEF TypeOK, IntakeType
    <2>4. \A b \in Agents : ~Done(b, j)
      BY <2>1, DoneOwned DEF Nowhere
    <2> QED
      BY <1>1, <2>1, <2>3, <2>4, OthersRecorded
  <1>7. ASSUME NEW a \in Agents, Take(a) PROVE Recorded'
    <2>1. PICK e \in queue[a] :
             /\ e.job \in Jobs
             /\ queue' = [queue EXCEPT ![a] = @ \ {e}]
             /\ work' = [work EXCEPT ![a] = [job |-> e.job, what |-> FirstReport(a, e.job),
                                             attempt |-> 0]]
             /\ Report(e.job, FirstReport(a, e.job))
             /\ UNCHANGED <<call, history>>
      BY <1>7, TakeMoves
    <2>2. \A b \in Agents : ~Done(b, e.job)
      BY <2>1, DoneOwned DEF Nowhere
    <2>3. \A i \in Jobs \ {e.job} :
             /\ reports'[i] = reports[i]
             /\ \A b \in Agents : \A u \in Threads : Acks(b, u, i)' => Acks(b, u, i)
      BY <2>1, ReportAdds DEF Acks
    <2>4. \A b \in Agents :
             /\ \A f \in queue'[b] : f.job # e.job => f \in queue[b]
             /\ work'[b].job \in Jobs \ {e.job} => work'[b].job = work[b].job
      BY <2>1 DEF TypeOK, IntakeType, WorkerType
    <2> QED
      BY <1>1, <2>1, <2>2, <2>3, <2>4, OthersRecorded
  <1>8. ASSUME NEW a \in Agents, WorkerStep(a), ~Take(a) PROVE Recorded'
    <2>1. /\ work[a].job \in Jobs
          /\ work'[a] = NoWork \/ work'[a].job = work[a].job
          /\ \A b \in Agents \ {a} : work'[b] = work[b]
          /\ UNCHANGED <<call, queue>>
      BY <1>8, WorkMoves DEF WorkerStep
    <2>2. NoNewCalls /\ QueueShrinks /\ SameWork
      BY <2>1, FleetAssumption DEF NoNewCalls, QueueShrinks, SameWork, Acks, NoWork
    <2>3. CASE ReportReturned(a) /\ work[a].what # "PRINTING" /\ work[a].attempt # 0
      BY <1>1, <2>3, OutcomeRecorded
    <2>4. CASE PrintOk(a) \/ PrintErr(a)
      <3>1. PICK j \in Jobs, n \in 0..MaxRetries, s \in {"COMPLETED", "FAILED", "wait"} :
               /\ work[a] = [job |-> j, what |-> "print", attempt |-> n]
               /\ work' = [work EXCEPT ![a] = [job |-> j, what |-> s, attempt |-> n]]
               /\ IF s = "wait" THEN reports' = reports ELSE Report(j, s)
               /\ \/ /\ copies' = [copies EXCEPT ![j] = @ + 1]
                     /\ printedBy' = [printedBy EXCEPT ![j] = @ \cup {a}]
                  \/ s # "COMPLETED" /\ UNCHANGED <<copies, printedBy>>
               /\ UNCHANGED <<status, owner, late, call, queue, history>>
        BY <2>4, PrintMoves
      <3>2. \A i \in Jobs \ {j} : reports'[i] = reports[i]
        BY <3>1, ReportAdds
      <3>3. \A b \in Agents : ~Done(b, j)
        BY <3>1, DoneOwned DEF Nowhere
      <3> QED
        BY <1>1, <2>2, <3>1, <3>2, <3>3, OthersRecorded DEF NoNewCalls, SameWork
    <2>5. CASE \/ ReportReturned(a) /\ ~(work[a].what # "PRINTING" /\ work[a].attempt # 0)
               \/ Retry(a) \/ Abandon(a)
      <3>1. UNCHANGED <<reports, history>>
        BY <2>5 DEF ReportReturned, Retry, Abandon, ghosts
      <3> QED
        BY <1>1, <2>2, <3>1, EmptiedRecorded
    <2> QED
      BY <1>8, <2>3, <2>4, <2>5 DEF WorkerStep
  <1>9. CASE BackendStep
    BY <1>3, <1>9, QuietBackend
  <1>10. ASSUME NEW a \in Agents, ProcessStep(a) \/ SessionStep(a) PROVE Recorded'
    BY <1>3, <1>4, <1>10, QuietSteps DEF ProcessStep
  <1>11. ASSUME NEW a \in Agents, NEW t \in Threads, ClaimStep(a, t) PROVE Recorded'
    BY <1>3, <1>5, <1>6, <1>11, QuietCalls DEF ClaimStep
  <1> QED
    BY <1>2, <1>7, <1>8, <1>9, <1>10, <1>11 DEF Next

(***************************************************************************)
(* Every record the dashboard shows, at any agent and any moment, is of a  *)
(* job that agent took and let go of, once, with the outcome it reported   *)
(* (app.go:186-211, history.go:31-39).                                     *)
(***************************************************************************)
THEOREM DashboardTruth == Spec => []HistoryTruthful
<1>1. Init => Recorded
  BY FleetAssumption DEF Init, Recorded, DoneNowhere, HistoryTruthful, Done
<1> QED
  BY <1>1, RecordedStep, AlwaysBelieved, PTL DEF Spec, Recorded

-------------------------------------------------------------------------------
(***************************************************************************)
(* Types that are not enabled.                                             *)
(***************************************************************************)
EnabledListed == \A a \in Agents : enabled[a] \subseteq MayEnable[a]
CallsListed   == \A a \in Agents : \A t \in Threads :
                    call[a][t].what = "CLAIM" => TypeOf[call[a][t].job] \in MayEnable[a]
LateListed    == \A m \in late : m.what = "CLAIM" => TypeOf[m.job] \in MayEnable[m.agent]

Untouched == EnabledListed /\ CallsListed /\ LateListed /\ UnlistedUntouched

\* The backend grants a claim that is listed to an agent that lists its type.
LEMMA ServeUntouched ==
    ASSUME TypeOK, UnlistedUntouched, NEW m \in Request,
           m.what = "CLAIM" => TypeOf[m.job] \in MayEnable[m.agent],
           Serve(m)
    PROVE  UnlistedUntouched'
  BY DEF Serve, UnlistedUntouched, TypeOK, BackendType, Request

\* A claim a goroutine waits for is listed, and so is what its call leaves behind.
LEMMA ReturnedUntouched ==
    ASSUME TypeOK, Untouched, NEW a \in Agents, NEW m \in Request,
           m.what = "CLAIM" => TypeOf[m.job] \in MayEnable[m.agent],
           Returned(a, m)
    PROVE  LateListed' /\ UnlistedUntouched'
  <1>1. LateListed'
    BY ReturnedLate DEF Untouched, LateListed
  <1>2. UnlistedUntouched'
    BY ServeUntouched DEF Returned, Answered, GaveUp, Untouched, UnlistedUntouched
  <1> QED
    BY <1>1, <1>2

\* A claim that is sent is listed, and other calls are no claims.
LEMMA CallUntouched ==
    ASSUME TypeOK, CallsListed, NEW a \in Agents, NEW t \in Threads, NEW c,
           c.what = "CLAIM" => TypeOf[c.job] \in MayEnable[a],
           call' = [call EXCEPT ![a][t] = c]
    PROVE  CallsListed'
  <1>1. call'[a][t] = c
    BY DEF TypeOK, IntakeType
  <1>2. \A b \in Agents : \A u \in Threads : <<b, u>> # <<a, t>> => call'[b][u] = call[b][u]
    BY DEF TypeOK, IntakeType
  <1> QED
    BY <1>1, <1>2 DEF CallsListed

LEMMA UntouchedStep == TypeOK /\ Untouched /\ [Next]_vars => Untouched'
  <1> SUFFICES ASSUME TypeOK, Untouched, [Next]_vars PROVE Untouched'
    OBVIOUS
  <1> USE DEF Untouched
  <1>1. /\ enabled' = enabled => EnabledListed'
        /\ call' = call => CallsListed'
        /\ late' = late => LateListed'
        /\ owner' = owner => UnlistedUntouched'
    BY DEF EnabledListed, CallsListed, LateListed, UnlistedUntouched
  <1>2. CASE UNCHANGED vars
    BY <1>1, <1>2 DEF vars, backend, config, intake
  <1>3. CASE BackendStep
    <2>1. UNCHANGED <<enabled, call>>
      BY <1>3 DEF BackendStep, Create, Dispatch, Deliver, config, intake
    <2>2. ASSUME NEW m \in late, Deliver(m) PROVE LateListed' /\ UnlistedUntouched'
      BY <2>2, ServeUntouched DEF Deliver, LateListed, TypeOK, BackendType
    <2> QED
      BY <1>1, <1>3, <2>1, <2>2 DEF BackendStep, Create, Dispatch
  <1>4. ASSUME NEW a \in Agents, ProcessStep(a) PROVE Untouched'
    <2>1. owner' = owner
      BY <1>4 DEF ProcessStep, Start, Stop, MainExit, WorkerExit, Exit, Crash, SaveSettings, backend
    <2>2. EnabledListed'
      <3>1. \/ enabled' = enabled
            \/ \E types \in SUBSET MayEnable[a] : enabled' = [enabled EXCEPT ![a] = types]
        BY <1>4 DEF ProcessStep, Start, Stop, MainExit, WorkerExit, Exit, Crash, SaveSettings,
                    config
      <3> QED
        BY <1>1, <3>1 DEF EnabledListed, TypeOK, ProcessType
    <2>3. CallsListed'
      <3>1. call' = call \/ call' = [call EXCEPT ![a] = [t \in Threads |-> NoCall]]
        BY <1>4 DEF ProcessStep, Start, Stop, MainExit, WorkerExit, Exit, Crash, SaveSettings,
                    Forget, intake
      <3>2. NoCall.what # "CLAIM"
        BY DEF NoCall
      <3>3. \A b \in Agents : \A t \in Threads : call'[b][t] = call[b][t] \/ call'[b][t] = NoCall
        BY <3>1 DEF TypeOK, IntakeType
      <3> QED
        BY <3>2, <3>3 DEF CallsListed
    <2>4. LateListed'
      <3>1. \A m \in InFlight(a) : m.what = "CLAIM" => TypeOf[m.job] \in MayEnable[m.agent]
        BY DEF InFlight, CallsListed, Reports
      <3>2. late' = late \/ \E out \in SUBSET InFlight(a) : late' = late \cup out
        BY <1>4 DEF ProcessStep, Start, Stop, MainExit, WorkerExit, Exit, Crash, SaveSettings,
                    backend
      <3> QED
        BY <3>1, <3>2 DEF LateListed
    <2> QED
      BY <1>1, <2>1, <2>2, <2>3, <2>4
  <1>5. ASSUME NEW a \in Agents, SessionStep(a) PROVE Untouched'
    BY <1>1, <1>5
    DEF SessionStep, Connect, Tick, FetchOk, FetchFail, RecoverDone, DropLink, Disconnect,
        backend, config, intake
  <1>6. ASSUME NEW a \in Agents, NEW t \in Threads, ClaimStep(a, t) PROVE Untouched'
    <2>1. enabled' = enabled
      BY <1>6 DEF ClaimStep, BeginCall, ClaimAnswered, ClaimFailed, AckReturned, config
    <2>2. CASE BeginCall(a, t)
      <3>1. Head(feed[a][t]) \in Jobs
        BY <2>2 DEF BeginCall, TypeOK, IntakeType
      <3>2. \/ call' = call
            \/ /\ TypeOf[Head(feed[a][t])] \in enabled[a]
               /\ call' = [call EXCEPT ![a][t] = [job |-> Head(feed[a][t]), what |-> "CLAIM"]]
        BY <2>2 DEF BeginCall, Allowed
      <3>3. CallsListed'
        <4>1. CASE call' = call
          BY <1>1, <4>1
        <4>2. CASE call' # call
          <5>1. PICK j \in Jobs : /\ TypeOf[j] \in enabled[a]
                                 /\ call' = [call EXCEPT ![a][t] = [job |-> j, what |-> "CLAIM"]]
            BY <3>1, <3>2, <4>2
          <5>2. TypeOf[[job |-> j, what |-> "CLAIM"].job] \in MayEnable[a]
            BY <5>1 DEF EnabledListed
          <5> QED
            BY <5>1, <5>2, CallUntouched
        <4> QED
          BY <4>1, <4>2
      <3> QED
        BY <1>1, <2>1, <2>2, <3>3 DEF BeginCall, backend
    <2>3. CASE ~BeginCall(a, t)
      <3> DEFINE m(what) == [agent |-> a, job |-> call[a][t].job, what |-> what]
      <3>1. PICK what \in {"CLAIM", "ACKNOWLEDGED"} :
               call[a][t].what = what /\ Returned(a, m(what))
        BY <1>6, <2>3 DEF ClaimStep, ClaimAnswered, ClaimFailed, AckReturned, Returned
      <3>2. call[a][t] # NoCall
        BY <3>1 DEF NoCall
      <3>3. m(what) \in Request
        BY <3>2, CallOfJob DEF TypeOK, Request, Reports
      <3>4. what = "CLAIM" => TypeOf[call[a][t].job] \in MayEnable[a]
        BY <3>1 DEF CallsListed
      <3>5. LateListed' /\ UnlistedUntouched'
        BY <3>1, <3>3, <3>4, ReturnedUntouched
      <3>6. \E c : c.what # "CLAIM" /\ call' = [call EXCEPT ![a][t] = c]
        <4>1. NoCall.what # "CLAIM"
          BY DEF NoCall
        <4>2. [call[a][t] EXCEPT !.what = "ACKNOWLEDGED"].what # "CLAIM"
          BY <3>2, CallOfJob DEF TypeOK
        <4>3. \/ call' = [call EXCEPT ![a][t] = NoCall]
              \/ call' = [call EXCEPT ![a][t] = [call[a][t] EXCEPT !.what = "ACKNOWLEDGED"]]
          BY <1>6, <2>3 DEF ClaimStep, ClaimAnswered, ClaimFailed, AckReturned
        <4> QED
          BY <4>1, <4>2, <4>3
      <3>7. CallsListed'
        BY <3>6, CallUntouched
      <3> QED
        BY <1>1, <2>1, <3>5, <3>7
    <2> QED
      BY <2>2, <2>3
  <1>7. ASSUME NEW a \in Agents, WorkerStep(a) PROVE Untouched'
    <2>1. UNCHANGED <<enabled, call>>
      BY <1>7 DEF WorkerStep, Take, ReportReturned, PrintOk, PrintErr, Retry, Abandon,
                  config, intake
    <2>2. CASE ReportReturned(a)
      <3> DEFINE m == [agent |-> a, job |-> work[a].job, what |-> work[a].what]
      <3>1. m \in Request /\ Returned(a, m) /\ m.what # "CLAIM"
        BY <2>2, WorkHasJob DEF ReportReturned, Request, Reports
      <3> QED
        BY <1>1, <2>1, <3>1, ReturnedUntouched
    <2>3. CASE ~ReportReturned(a)
      BY <1>1, <1>7, <2>1, <2>3 DEF WorkerStep, Take, PrintOk, PrintErr, Retry, Abandon, backend
    <2> QED
      BY <2>2, <2>3
  <1> QED
    BY <1>2, <1>3, <1>4, <1>5, <1>6, <1>7 DEF Next

(***************************************************************************)
(* An agent that never enables a type never comes to own a job of it, with *)
(* claims that arrive late, after a change of settings or a restart        *)
(* (agent.go:117-124).                                                     *)
(***************************************************************************)
THEOREM UnlistedStay == Spec => []UnlistedUntouched
<1>1. Init => Untouched
  BY DEF Init, Untouched, EnabledListed, CallsListed, LateListed, UnlistedUntouched, NoCall
<1> QED
  BY <1>1, UntouchedStep, Typing, PTL DEF Spec, Untouched


-------------------------------------------------------------------------------
(***************************************************************************)
(* The jobs the backend has.                                               *)
(***************************************************************************)
Held == {j \in Jobs : status[j] # "ABSENT"}

FeedsKnown  == feed \in [Agents -> [Threads -> Seq(Held)]]
ClaimsKnown == \A a \in Agents : \A t \in Threads :
                  call[a][t].what = "CLAIM" => call[a][t].job \in Held

Known == FeedsKnown /\ ClaimsKnown

\* What serving a request does to the lifecycle: to that of its job, if at all.
LEMMA ServeStatus ==
    ASSUME TypeOK, NEW m \in Request, Serve(m)
    PROVE  /\ \A j \in Jobs \ {m.job} : status'[j] = status[j]
           /\ status'[m.job] = IF Accepts(m) THEN m.what ELSE status[m.job]
           /\ m.what = "CLAIM" => status' = status
  BY DEF Serve, Accepts, Request, Reports, TypeOK, BackendType

\* The request a goroutine waits for.
LEMMA CallRequest ==
    ASSUME TypeOK, NEW a \in Agents, NEW t \in Threads,
           call[a][t].what \in {"CLAIM", "ACKNOWLEDGED"}
    PROVE  /\ call[a][t].job \in Jobs
           /\ [agent |-> a, job |-> call[a][t].job, what |-> call[a][t].what] \in Request
  <1>1. call[a][t] # NoCall
    BY DEF NoCall
  <1> QED
    BY <1>1, CallOfJob DEF TypeOK, Request, Reports

\* The report a worker waits for.
LEMMA WorkRequest ==
    ASSUME TypeOK, NEW a \in Agents, work[a].what \in Reports
    PROVE  [agent |-> a, job |-> work[a].job, what |-> work[a].what] \in Request
  BY WorkHasJob DEF Request

\* The backend does not forget a job.
LEMMA HeldGrows == TypeOK /\ [Next]_vars => Held \subseteq Held'
  <1> SUFFICES ASSUME TypeOK, [Next]_vars PROVE Held \subseteq Held'
    OBVIOUS
  <1>1. status' = status => Held \subseteq Held'
    BY DEF Held
  <1>2. ASSUME NEW m \in Request, Serve(m) PROVE Held \subseteq Held'
    BY <1>2, ServeStatus DEF Held, Accepts, Reports
  <1>3. ASSUME NEW a \in Agents, NEW m \in Request, Returned(a, m) PROVE Held \subseteq Held'
    BY <1>1, <1>2, <1>3 DEF Returned, Answered, GaveUp
  <1>4. CASE UNCHANGED vars
    BY <1>1, <1>4 DEF vars, backend
  <1>5. CASE BackendStep
    <2>1. ASSUME NEW j \in Jobs, Create(j) \/ Dispatch(j) PROVE Held \subseteq Held'
      BY <2>1 DEF Create, Dispatch, Held, TypeOK, BackendType
    <2>2. ASSUME NEW m \in late, Deliver(m) PROVE Held \subseteq Held'
      BY <1>2, <2>2 DEF Deliver, TypeOK, BackendType
    <2> QED
      BY <1>5, <2>1, <2>2 DEF BackendStep
  <1>6. ASSUME NEW a \in Agents, ProcessStep(a) \/ SessionStep(a) PROVE Held \subseteq Held'
    BY <1>1, <1>6
    DEF ProcessStep, Start, Stop, MainExit, WorkerExit, Exit, Crash, SaveSettings, SessionStep,
        Connect, Tick, FetchOk, FetchFail, RecoverDone, DropLink, Disconnect, backend
  <1>7. ASSUME NEW a \in Agents, NEW t \in Threads, ClaimStep(a, t) PROVE Held \subseteq Held'
    <2>1. CASE BeginCall(a, t)
      BY <1>1, <2>1 DEF BeginCall, backend
    <2>2. CASE ~BeginCall(a, t)
      <3> DEFINE m == [agent |-> a, job |-> call[a][t].job, what |-> call[a][t].what]
      <3>1. call[a][t].what \in {"CLAIM", "ACKNOWLEDGED"} /\ Returned(a, m)
        BY <1>7, <2>2 DEF ClaimStep, ClaimAnswered, ClaimFailed, AckReturned, Returned
      <3>2. m \in Request
        BY <3>1, CallRequest
      <3> HIDE DEF m
      <3> QED
        BY <1>3, <3>1, <3>2
    <2> QED
      BY <2>1, <2>2
  <1>8. ASSUME NEW a \in Agents, WorkerStep(a) PROVE Held \subseteq Held'
    <2>1. CASE ReportReturned(a)
      BY <1>3, <2>1, WorkRequest DEF ReportReturned
    <2>2. CASE ~ReportReturned(a)
      BY <1>1, <1>8, <2>2 DEF WorkerStep, Take, PrintOk, PrintErr, Retry, Abandon, backend
    <2> QED
      BY <2>1, <2>2
  <1> QED
    BY <1>4, <1>5, <1>6, <1>7, <1>8 DEF Next

\* What is known stays so while a goroutine is fed known jobs, and claims what it was fed.
LEMMA KnownStays ==
    ASSUME TypeOK, Known, Held \subseteq Held'
    PROVE  /\ feed \in [Agents -> [Threads -> Seq(Held')]]
           /\ feed' = feed => FeedsKnown'
           /\ call' = call => ClaimsKnown'
  <1>1. Seq(Held) \subseteq Seq(Held')
    OBVIOUS
  <1> QED
    BY <1>1 DEF Known, FeedsKnown, ClaimsKnown

LEMMA KnownFeed ==
    ASSUME TypeOK, Known, Held \subseteq Held', NEW a \in Agents, NEW t, NEW s,
           t \in Threads => s \in Seq(Held'),
           feed' = [feed EXCEPT ![a] = [feed[a] EXCEPT ![t] = s]]
    PROVE  FeedsKnown'
  <1>1. feed \in [Agents -> [Threads -> Seq(Held')]]
    BY KnownStays
  <1>2. [feed[a] EXCEPT ![t] = s] \in [Threads -> Seq(Held')]
    BY <1>1, ExceptType
  <1> QED
    BY <1>1, <1>2 DEF FeedsKnown

LEMMA KnownCall ==
    ASSUME TypeOK, Known, Held \subseteq Held', NEW a \in Agents, NEW t \in Threads, NEW c,
           c.what = "CLAIM" => c.job \in Held',
           call' = [call EXCEPT ![a][t] = c]
    PROVE  ClaimsKnown'
  <1>1. call'[a][t] = c
    BY DEF TypeOK, IntakeType
  <1>2. \A b \in Agents : \A u \in Threads : <<b, u>> # <<a, t>> => call'[b][u] = call[b][u]
    BY DEF TypeOK, IntakeType
  <1> QED
    BY <1>1, <1>2 DEF Known, ClaimsKnown

LEMMA KnownStep == TypeOK /\ Known /\ [Next]_vars => Known'
  <1> SUFFICES ASSUME TypeOK, Known, [Next]_vars PROVE Known'
    OBVIOUS
  <1>1. Held \subseteq Held' /\ feed \in [Agents -> [Threads -> Seq(Held')]]
        /\ (feed' = feed => FeedsKnown') /\ (call' = call => ClaimsKnown')
    BY HeldGrows, KnownStays
  <1>2. CASE UNCHANGED <<feed, call>>
    BY <1>1, <1>2 DEF Known
  <1>3. CASE BackendStep
    <2>1. ASSUME NEW j \in Jobs, Dispatch(j) PROVE Known'
      <3>1. j \in Held'
        BY <2>1 DEF Dispatch, Held, TypeOK, BackendType
      <3>2. PICK to \in SUBSET Agents :
               feed' = [a \in Agents |->
                          IF a \in to THEN [feed[a] EXCEPT ![session[a]] = Append(@, j)]
                          ELSE feed[a]]
        BY <2>1 DEF Dispatch
      <3>3. ASSUME NEW a \in Agents
            PROVE  [feed[a] EXCEPT ![session[a]] = Append(@, j)] \in [Threads -> Seq(Held')]
        <4>1. feed[a] \in [Threads -> Seq(Held')]
          BY <1>1
        <4>2. session[a] \in Threads => Append(feed[a][session[a]], j) \in Seq(Held')
          BY <3>1, <4>1
        <4> QED
          BY <4>1, <4>2, ExceptType
      <3>4. FeedsKnown'
        BY <1>1, <3>2, <3>3 DEF FeedsKnown
      <3> QED
        BY <1>1, <2>1, <3>4 DEF Dispatch, Known
    <2>2. ASSUME NEW j \in Jobs, Create(j) PROVE Known'
      BY <1>2, <2>2 DEF Create, intake
    <2>3. ASSUME NEW m \in late, Deliver(m) PROVE Known'
      BY <1>2, <2>3 DEF Deliver, intake
    <2> QED
      BY <1>3, <2>1, <2>2, <2>3 DEF BackendStep
  <1>4. ASSUME NEW a \in Agents, ProcessStep(a) PROVE Known'
    <2>1. CASE Exit(a) \/ Crash(a)
      <3>1. /\ feed' = [feed EXCEPT ![a] = [t \in Threads |-> <<>>]]
            /\ call' = [call EXCEPT ![a] = [t \in Threads |-> NoCall]]
        BY <2>1 DEF Exit, Crash, Forget
      <3>2. [t \in Threads |-> <<>>] \in [Threads -> Seq(Held')]
        OBVIOUS
      <3>3. FeedsKnown'
        BY <1>1, <3>1, <3>2 DEF FeedsKnown
      <3>4. \A b \in Agents : \A t \in Threads : call'[b][t] \in {call[b][t], NoCall}
        BY <3>1 DEF TypeOK, IntakeType
      <3>5. NoCall.what # "CLAIM"
        BY DEF NoCall
      <3>6. ASSUME NEW b \in Agents, NEW t \in Threads, call'[b][t].what = "CLAIM"
            PROVE  call'[b][t].job \in Held'
        <4>1. call'[b][t] = call[b][t]
          BY <3>4, <3>5, <3>6
        <4> QED
          BY <1>1, <3>6, <4>1 DEF Known, ClaimsKnown
      <3>7. ClaimsKnown'
        BY <3>6 DEF ClaimsKnown
      <3> QED
        BY <3>3, <3>7 DEF Known
    <2>2. CASE ~(Exit(a) \/ Crash(a))
      BY <1>2, <1>4, <2>2 DEF ProcessStep, Start, Stop, MainExit, WorkerExit, SaveSettings, intake
    <2> QED
      BY <2>1, <2>2
  <1>5. ASSUME NEW a \in Agents, SessionStep(a) PROVE Known'
    <2>1. CASE FetchOk(a)
      <3> DEFINE P == {j \in Jobs : status[j] \in Pendings}
      <3>1. PICK order \in SetToSeqs(P) : feed' = [feed EXCEPT ![a]["main"] = order]
        BY <2>1 DEF FetchOk
      <3>2. P \subseteq Held' /\ Cardinality(P) \in Nat
        BY <1>1, FS_Subset, FS_CardinalityType, FleetAssumption DEF Held, Pendings
      <3>3. order \in Seq(P)
        BY <3>2 DEF SetToSeqs
      <3> HIDE DEF P
      <3>4. order \in Seq(Held')
        BY <3>2, <3>3
      <3>5. feed' = [feed EXCEPT ![a] = [feed[a] EXCEPT !["main"] = order]]
        BY <3>1
      <3>6. FeedsKnown'
        BY <1>1, <3>4, <3>5, KnownFeed
      <3> QED
        BY <1>1, <2>1, <3>6 DEF FetchOk, Known
    <2>2. CASE DropLink(a)
      <3>1. PICK n \in 0..Len(feed[a][session[a]]) :
               feed' = [feed EXCEPT ![a][session[a]] = SubSeq(@, 1, n)]
        BY <2>2 DEF DropLink
      <3> DEFINE s == SubSeq(feed[a][session[a]], 1, n)
      <3>2. session[a] \in Threads => s \in Seq(Held')
        BY <1>1, <3>1
      <3>3. feed' = [feed EXCEPT ![a] = [feed[a] EXCEPT ![session[a]] = s]]
        BY <3>1
      <3> HIDE DEF s
      <3>4. FeedsKnown'
        BY <1>1, <3>2, <3>3, KnownFeed
      <3> QED
        BY <1>1, <2>2, <3>4 DEF DropLink, Known
    <2>3. CASE ~(FetchOk(a) \/ DropLink(a))
      BY <1>2, <1>5, <2>3 DEF SessionStep, Connect, Tick, FetchFail, RecoverDone, Disconnect, intake
    <2> QED
      BY <2>1, <2>2, <2>3
  <1>6. ASSUME NEW a \in Agents, NEW t \in Threads, ClaimStep(a, t) PROVE Known'
    <2>1. CASE BeginCall(a, t)
      <3>1. feed[a][t] \in Seq(Held') /\ feed[a][t] # <<>>
        BY <1>1, <2>1 DEF BeginCall
      <3>2. Head(feed[a][t]) \in Held' /\ Tail(feed[a][t]) \in Seq(Held')
        BY <3>1
      <3>3. feed' = [feed EXCEPT ![a] = [feed[a] EXCEPT ![t] = Tail(feed[a][t])]]
        BY <2>1 DEF BeginCall
      <3>4. FeedsKnown'
        BY <1>1, <3>2, <3>3, KnownFeed
      <3> DEFINE c == [job |-> Head(feed[a][t]), what |-> "CLAIM"]
      <3>5. call' = call \/ call' = [call EXCEPT ![a][t] = c]
        BY <2>1 DEF BeginCall
      <3>6. c.what = "CLAIM" => c.job \in Held'
        BY <3>2
      <3> HIDE DEF c
      <3>7. ClaimsKnown'
        BY <1>1, <3>5, <3>6, KnownCall
      <3> QED
        BY <3>4, <3>7 DEF Known
    <2>2. CASE ~BeginCall(a, t)
      <3>1. \E c : c.what # "CLAIM" /\ call' = [call EXCEPT ![a][t] = c]
        <4>1. NoCall.what # "CLAIM"
          BY DEF NoCall
        <4>2. call[a][t] # NoCall
          BY <1>6, <2>2 DEF ClaimStep, ClaimAnswered, ClaimFailed, AckReturned, NoCall
        <4>3. [call[a][t] EXCEPT !.what = "ACKNOWLEDGED"].what # "CLAIM"
          BY <4>2, CallOfJob DEF TypeOK
        <4>4. \/ call' = [call EXCEPT ![a][t] = NoCall]
              \/ call' = [call EXCEPT ![a][t] = [call[a][t] EXCEPT !.what = "ACKNOWLEDGED"]]
          BY <1>6, <2>2 DEF ClaimStep, ClaimAnswered, ClaimFailed, AckReturned
        <4> QED
          BY <4>1, <4>3, <4>4
      <3>2. ClaimsKnown'
        BY <1>1, <3>1, KnownCall
      <3>3. feed' = feed
        BY <1>6, <2>2 DEF ClaimStep, ClaimAnswered, ClaimFailed, AckReturned
      <3> QED
        BY <1>1, <3>2, <3>3 DEF Known
    <2> QED
      BY <2>1, <2>2
  <1>7. ASSUME NEW a \in Agents, WorkerStep(a) PROVE Known'
    BY <1>2, <1>7 DEF WorkerStep, Take, ReportReturned, PrintOk, PrintErr, Retry, Abandon, intake
  <1> QED
    BY <1>2, <1>3, <1>4, <1>5, <1>6, <1>7 DEF Next, vars, intake

LEMMA InitKnown == Init => Known
  <1> SUFFICES ASSUME Init PROVE Known
    OBVIOUS
  <1>1. <<>> \in Seq(Held)
    OBVIOUS
  <1> QED
    BY <1>1 DEF Init, Known, FeedsKnown, ClaimsKnown, NoCall

-------------------------------------------------------------------------------
(***************************************************************************)
(* Nothing goes wrong but connections: no request fails, no process is     *)
(* stopped, no settings are saved, and every agent has a printer for the   *)
(* types of all jobs.                                                      *)
(***************************************************************************)
Untroubled ==
    /\ MaxFaults = 0 /\ MaxStops = 0 /\ MaxSaves = 0
    /\ \A a \in Agents : \A j \in Jobs : TypeOf[j] \in MayMap[a]

Calm ==
    /\ late = {}
    /\ budget.faults = 0 /\ budget.stops = 0 /\ budget.saves = 0
    /\ \A a \in Agents : run[a] # "stopping"
    /\ printers = MayMap

\* So every request is answered.
LEMMA CalmAnswers ==
    ASSUME Calm, NEW a \in Agents, NEW m, Returned(a, m)
    PROVE  Answered(a, m)
  BY DEF Calm, Returned, GaveUp, Spend

\* And some steps are never taken.
LEMMA CalmNever ==
    ASSUME Calm, NEW a \in Agents
    PROVE  /\ ~Stop(a) /\ ~Exit(a) /\ ~Crash(a) /\ ~SaveSettings(a)
           /\ ~MainExit(a) /\ ~WorkerExit(a) /\ ~FetchFail(a) /\ ~Abandon(a)
           /\ \A t \in Threads : ~ClaimFailed(a, t)
  BY DEF Calm, Stop, Exit, Crash, SaveSettings, MainExit, WorkerExit, FetchFail, Abandon,
         ClaimFailed, GaveUp, Spend

LEMMA CalmStep == TypeOK /\ Calm /\ [Next]_vars => Calm'
  <1> SUFFICES ASSUME TypeOK, Calm, [Next]_vars PROVE Calm'
    OBVIOUS
  <1>1. CASE UNCHANGED <<late, budget, run, printers>>
    BY <1>1 DEF Calm
  <1>2. CASE BackendStep
    BY <1>1, <1>2 DEF BackendStep, Create, Dispatch, Deliver, Calm, config
  <1>3. ASSUME NEW a \in Agents, ProcessStep(a) PROVE Calm'
    <2>1. Start(a)
      BY <1>3, CalmNever DEF ProcessStep
    <2> QED
      BY <2>1 DEF Start, Calm, TypeOK, ProcessType, backend, config
  <1>4. ASSUME NEW a \in Agents, SessionStep(a) PROVE Calm'
    <2>1. CASE DropLink(a)
      <3>1. budget' = [budget EXCEPT !["drops"] = @ - 1]
        BY <2>1 DEF DropLink, Spend
      <3>2. budget'.faults = budget.faults /\ budget'.stops = budget.stops
            /\ budget'.saves = budget.saves
        BY <3>1 DEF TypeOK, BackendType, Budget
      <3> QED
        BY <2>1, <3>2 DEF DropLink, Calm, backend, config
    <2>2. CASE ~DropLink(a)
      BY <1>1, <1>4, <2>2, CalmNever
      DEF SessionStep, Connect, Tick, FetchOk, RecoverDone, Disconnect, backend, config
    <2> QED
      BY <2>1, <2>2
  <1>5. ASSUME NEW a \in Agents, NEW t \in Threads, ClaimStep(a, t) PROVE Calm'
    <2>1. CASE BeginCall(a, t)
      BY <1>1, <2>1 DEF BeginCall, backend, config
    <2>2. CASE ClaimAnswered(a, t)
      BY <1>1, <2>2 DEF ClaimAnswered, Answered, config
    <2>3. CASE AckReturned(a, t)
      BY <1>1, <2>3, CalmAnswers DEF AckReturned, Answered, config
    <2> QED
      BY <1>5, <2>1, <2>2, <2>3, CalmNever DEF ClaimStep
  <1>6. ASSUME NEW a \in Agents, WorkerStep(a) PROVE Calm'
    <2>1. CASE ReportReturned(a)
      BY <1>1, <2>1, CalmAnswers DEF ReportReturned, Answered, config
    <2>2. CASE ~ReportReturned(a)
      BY <1>1, <1>6, <2>2 DEF WorkerStep, Take, PrintOk, PrintErr, Retry, Abandon, backend, config
    <2> QED
      BY <2>1, <2>2
  <1> QED
    BY <1>1, <1>2, <1>3, <1>4, <1>5, <1>6 DEF Next, vars, backend, config

LEMMA InitCalm ==
    ASSUME Untroubled
    PROVE  Init => Calm
  BY DEF Untroubled, Init, Calm

-------------------------------------------------------------------------------
(***************************************************************************)
(* How far the backend is, by the place the job is in.                     *)
(***************************************************************************)
\* How far it is with the job of a worker that is at w.
StatusAt(w) == IF w.what = "PRINTING" THEN "ACKNOWLEDGED" ELSE "PRINTING"

NotStarted  == \A j \in Jobs : owner[j] = NoAgent => status[j] \in {"ABSENT"} \cup Pendings
CallsInStep == \A a \in Agents : \A t \in Threads : \A j \in Jobs :
                  Acks(a, t, j) => status[j] \in Pendings
QueueInStep == \A a \in Agents : \A e \in queue[a] : status[e.job] = "ACKNOWLEDGED"
WorkInStep  == \A a \in Agents : work[a].job \in Jobs => status[work[a].job] = StatusAt(work[a])

InStep == NotStarted /\ CallsInStep /\ QueueInStep /\ WorkInStep

\* A step that fills no place and serves nothing.
LEMMA QuietInStep ==
    ASSUME TypeOK, TypeOK', InStep, OwnerKept, NoNewCalls, QueueShrinks, NoNewWork,
           UNCHANGED status
    PROVE  InStep'
  <1> USE DEF InStep
  <1>1. NotStarted'
    BY DEF NotStarted, OwnerKept, TypeOK, BackendType
  <1>2. CallsInStep' /\ QueueInStep' /\ WorkInStep'
    BY DEF CallsInStep, QueueInStep, WorkInStep, NoNewCalls, QueueShrinks, NoNewWork
  <1> QED
    BY <1>1, <1>2

\* A step that concerns one job.
LEMMA OneInStep ==
    ASSUME TypeOK, TypeOK', InStep, OwnerKept, NEW j \in Jobs,
           \A i \in Jobs \ {j} :
              /\ status'[i] = status[i]
              /\ \A a \in Agents : \A t \in Threads : Acks(a, t, i)' => Acks(a, t, i),
           \A a \in Agents : /\ \A e \in queue'[a] : e.job # j => e \in queue[a]
                             /\ work'[a].job \in Jobs \ {j} => work'[a] = work[a],
           owner'[j] = NoAgent => status'[j] \in {"ABSENT"} \cup Pendings,
           \A a \in Agents : /\ \A t \in Threads : Acks(a, t, j)' => status'[j] \in Pendings
                             /\ \A e \in queue'[a] : e.job = j => status'[j] = "ACKNOWLEDGED"
                             /\ work'[a].job = j => status'[j] = StatusAt(work'[a])
    PROVE  InStep'
  <1> USE DEF InStep
  <1>1. NotStarted'
    BY DEF NotStarted, OwnerKept, TypeOK, BackendType
  <1>2. CallsInStep'
    BY DEF CallsInStep
  <1>3. QueueInStep'
    <2>1. \A a \in Agents : \A e \in queue'[a] : e.job \in Jobs
      BY DEF TypeOK, IntakeType, Entry
    <2> QED
      BY <2>1 DEF QueueInStep
  <1>4. WorkInStep'
    BY DEF WorkInStep, StatusAt
  <1> QED
    BY <1>1, <1>2, <1>3, <1>4

\* The backend takes a job that is new, or pushes it.
LEMMA BackendInStep ==
    ASSUME TypeOK, TypeOK', InStep, Calm, OwnerKept, BackendStep
    PROVE  InStep'
  <1>1. Still
    BY QuietBackend
  <1>2. ASSUME NEW j \in Jobs, NEW s \in Pendings, status[j] \in {"ABSENT", "PENDING"},
               status' = [status EXCEPT ![j] = s]
        PROVE  InStep'
    <2>1. status'[j] = s /\ \A i \in Jobs \ {j} : status'[i] = status[i]
      BY <1>2 DEF TypeOK, BackendType
    <2>2. ASSUME NEW a \in Agents
          PROVE  /\ \A e \in queue'[a] : e \in queue[a] /\ e.job # j
                 /\ work'[a].job \in Jobs => work'[a] = work[a] /\ work[a].job # j
                 /\ \A t \in Threads : \A i \in Jobs : Acks(a, t, i)' => Acks(a, t, i)
      BY <1>1, <1>2 DEF Still, InStep, QueueInStep, WorkInStep, StatusAt
    <2> QED
      BY <1>2, <2>1, <2>2, OneInStep
  <1>3. ASSUME NEW j \in Jobs, Create(j) \/ Dispatch(j) PROVE InStep'
    BY <1>2, <1>3 DEF Create, Dispatch, Pendings
  <1> QED
    BY <1>3 DEF BackendStep, Calm

\* A granted claim: the job was pending, and so it still is.
LEMMA GrantInStep ==
    ASSUME TypeOK, TypeOK', InStep, Known, OwnerKept, NEW a \in Agents, NEW t \in Threads,
           ClaimAnswered(a, t), Granted(call[a][t].job)
    PROVE  InStep'
  <1> DEFINE j == call[a][t].job
             m == [agent |-> a, job |-> j, what |-> "CLAIM"]
  <1>1. /\ j \in Jobs
        /\ \A b \in Agents : \A u \in Threads : \A i \in Jobs :
              Acks(b, u, i)' <=> Acks(b, u, i) \/ (b = a /\ u = t /\ i = j)
        /\ UNCHANGED <<queue, work>>
    BY GrantedFills
  <1>2. call[a][t].what = "CLAIM" /\ Serve(m)
    BY DEF ClaimAnswered, Answered
  <1>3. m \in Request /\ m.what = "CLAIM"
    BY <1>2, CallRequest
  <1>4. status' = status
    BY <1>2, <1>3, ServeStatus
  <1>5. status[j] \in Pendings
    <2>1. status[j] # "ABSENT"
      BY <1>2 DEF Known, ClaimsKnown, Held
    <2> QED
      BY <1>1, <2>1 DEF InStep, NotStarted, Granted
  <1>6. NotStarted' /\ QueueInStep' /\ WorkInStep'
    BY <1>1, <1>4 DEF InStep, NotStarted, QueueInStep, WorkInStep, OwnerKept, TypeOK, BackendType
  <1>7. CallsInStep'
    BY <1>1, <1>4, <1>5 DEF InStep, CallsInStep
  <1> QED
    BY <1>6, <1>7 DEF InStep

\* A served report of the owner, in its turn.
LEMMA ReportServed ==
    ASSUME TypeOK, NEW a \in Agents, NEW m \in Request, Answered(a, m), m.agent = a,
           m.what \in Reports, owner[m.job] = a, status[m.job] \in Follows(m.what)
    PROVE  /\ \A i \in Jobs \ {m.job} : status'[i] = status[i]
           /\ status'[m.job] = m.what
           /\ owner' = owner
  BY ServeStatus DEF Answered, Accepts, Serve, Reports

\* The acknowledgement is served, and the job is queued.
LEMMA AckInStep ==
    ASSUME TypeOK, TypeOK', Owned, Apart, InStep, Calm, OwnerKept,
           NEW a \in Agents, NEW t \in Threads, AckReturned(a, t)
    PROVE  InStep'
  <1>0. PICK j \in Jobs : j = call[a][t].job
    BY AckMoves
  <1> DEFINE m == [agent |-> a, job |-> j, what |-> "ACKNOWLEDGED"]
  <1>1. /\ Acks(a, t, j)
        /\ \A b \in Agents : \A u \in Threads : \A i \in Jobs :
              Acks(b, u, i)' <=> Acks(b, u, i) /\ <<b, u>> # <<a, t>>
        /\ \E e : e.job = j /\ queue' = [queue EXCEPT ![a] = @ \cup {e}]
        /\ UNCHANGED work
    BY <1>0, AckMoves
  <1>2. call[a][t].what = "ACKNOWLEDGED" /\ Answered(a, m)
    BY <1>0, CalmAnswers DEF AckReturned
  <1>3. m \in Request
    BY <1>0, <1>2, CallRequest
  <1>4. owner[j] = a /\ status[j] \in Follows("ACKNOWLEDGED")
    BY <1>0, <1>1, <1>2 DEF Owned, CallsOwned, InStep, CallsInStep, Follows
  <1>5. (\A i \in Jobs \ {j} : status'[i] = status[i]) /\ status'[j] = "ACKNOWLEDGED"
        /\ owner' = owner
    BY <1>2, <1>3, <1>4, ReportServed DEF Reports
  <1>6. \A b \in Agents : /\ \A u \in Threads : ~Acks(b, u, j)'
                          /\ work'[b].job # j
    <2>1. ASSUME NEW b \in Agents, NEW u \in Threads, Acks(b, u, j)' PROVE FALSE
      <3>1. Acks(b, u, j) /\ <<b, u>> # <<a, t>>
        BY <1>1, <2>1
      <3>2. b = a
        BY <1>4, <3>1 DEF Owned, CallsOwned, Acks
      <3>3. u = t
        BY <1>1, <3>1, <3>2 DEF Apart, CallsApart
      <3> QED
        BY <3>1, <3>2, <3>3
    <2>2. ASSUME NEW b \in Agents, work'[b].job = j PROVE FALSE
      <3>1. work[b].job = j
        BY <1>1, <2>2
      <3>2. b = a
        BY <1>1, <1>4, <3>1 DEF Owned, WorkOwned
      <3> QED
        BY <1>1, <3>1, <3>2 DEF Apart, CallOrWork
    <2> QED
      BY <2>1, <2>2
  <1>7. \A b \in Agents : \A e \in queue'[b] : e.job # j => e \in queue[b]
    BY <1>1 DEF TypeOK, IntakeType
  <1>8. owner'[j] # NoAgent
    BY <1>4, <1>5, FleetAssumption
  <1>9. \A i \in Jobs \ {j} :
            /\ status'[i] = status[i]
            /\ \A b \in Agents : \A u \in Threads : Acks(b, u, i)' => Acks(b, u, i)
    BY <1>1, <1>5
  <1>10. \A b \in Agents : /\ \A e \in queue'[b] : e.job # j => e \in queue[b]
                           /\ work'[b].job \in Jobs \ {j} => work'[b] = work[b]
    BY <1>1, <1>7
  <1>11. \A b \in Agents : /\ \A u \in Threads : Acks(b, u, j)' => status'[j] \in Pendings
                           /\ \A e \in queue'[b] : e.job = j => status'[j] = "ACKNOWLEDGED"
                           /\ work'[b].job = j => status'[j] = StatusAt(work'[b])
    BY <1>5, <1>6
  <1> QED
    BY <1>8, <1>9, <1>10, <1>11, OneInStep

\* A worker that gets on with its job, or lets go of it.
LEMMA WorkInTurn ==
    ASSUME TypeOK, TypeOK', Owned, Apart, InStep, OwnerKept, NEW a \in Agents,
           NEW j \in Jobs, work[a].job = j,
           work'[a] = NoWork \/ work'[a].job = j,
           \A b \in Agents \ {a} : work'[b] = work[b],
           UNCHANGED <<call, queue>>,
           \A i \in Jobs \ {j} : status'[i] = status[i],
           work'[a].job = j => status'[j] = StatusAt(work'[a])
    PROVE  InStep'
  <1>1. \A b \in Agents : /\ \A t \in Threads : ~Acks(b, t, j)
                          /\ \A e \in queue[b] : e.job # j
                          /\ work[b].job = j => b = a
    BY WorkAlone
  <1>2. owner'[j] # NoAgent
    BY FleetAssumption DEF Owned, WorkOwned, OwnerKept
  <1>3. NoWork.job \notin Jobs
    BY FleetAssumption DEF NoWork
  <1>4. \A i \in Jobs \ {j} :
           /\ status'[i] = status[i]
           /\ \A b \in Agents : \A t \in Threads : Acks(b, t, i)' => Acks(b, t, i)
    BY DEF Acks
  <1>5. \A b \in Agents : /\ \A e \in queue'[b] : e.job # j => e \in queue[b]
                          /\ work'[b].job \in Jobs \ {j} => work'[b] = work[b]
    BY <1>3
  <1>6. \A b \in Agents : work'[b].job = j => b = a
    BY <1>1
  <1>7. \A b \in Agents : /\ \A t \in Threads : Acks(b, t, j)' => status'[j] \in Pendings
                          /\ \A e \in queue'[b] : e.job = j => status'[j] = "ACKNOWLEDGED"
                          /\ work'[b].job = j => status'[j] = StatusAt(work'[b])
    BY <1>1, <1>6 DEF Acks
  <1> QED
    BY <1>2, <1>4, <1>5, <1>7, OneInStep

\* The worker takes a job the backend has acknowledged, and has a printer for it.
LEMMA TakeInStep ==
    ASSUME Untroubled, TypeOK, TypeOK', Owned, Apart, InStep, Calm, OwnerKept,
           NEW a \in Agents, Take(a)
    PROVE  InStep'
  <1>1. PICK e \in queue[a] :
           /\ e.job \in Jobs
           /\ work[a] = NoWork
           /\ queue' = [queue EXCEPT ![a] = @ \ {e}]
           /\ work' = [work EXCEPT ![a] = [job |-> e.job, what |-> FirstReport(a, e.job),
                                           attempt |-> 0]]
           /\ UNCHANGED <<owner, call>>
    BY TakeMoves
  <1>2. status' = status
    BY DEF Take, backend
  <1>3. FirstReport(a, e.job) = "PRINTING"
    BY <1>1 DEF FirstReport, HasPrinter, Calm, Untroubled
  <1>4. work'[a] = [job |-> e.job, what |-> "PRINTING", attempt |-> 0]
    BY <1>1, <1>3 DEF TypeOK, WorkerType
  <1>5. \A b \in Agents \ {a} : work'[b] = work[b]
    BY <1>1 DEF TypeOK, WorkerType
  <1>6. status[e.job] = "ACKNOWLEDGED"
    BY DEF InStep, QueueInStep
  <1>7. WorkInStep'
    BY <1>2, <1>4, <1>5, <1>6 DEF InStep, WorkInStep, StatusAt
  <1>8. \A b \in Agents : queue'[b] \subseteq queue[b]
    BY <1>1 DEF TypeOK, IntakeType
  <1>9. NotStarted' /\ CallsInStep' /\ QueueInStep'
    BY <1>1, <1>2, <1>8 DEF InStep, NotStarted, CallsInStep, QueueInStep, Acks
  <1> QED
    BY <1>7, <1>9 DEF InStep

\* The first report, or an outcome, is served.
LEMMA ReportInStep ==
    ASSUME TypeOK, TypeOK', Owned, Apart, InStep, Calm, OwnerKept,
           NEW a \in Agents, ReportReturned(a)
    PROVE  InStep'
  <1>1. PICK j \in Jobs : j = work[a].job
    BY WorkMoves
  <1>2. /\ work'[a] = NoWork \/ work'[a].job = j
        /\ \A b \in Agents \ {a} : work'[b] = work[b]
        /\ UNCHANGED <<call, queue>>
    BY <1>1, WorkMoves
  <1> DEFINE m == [agent |-> a, job |-> j, what |-> work[a].what]
  <1>3. work[a].what \in Reports /\ Answered(a, m)
    BY <1>1, CalmAnswers DEF ReportReturned
  <1>4. m \in Request
    BY <1>1, <1>3, WorkRequest
  <1>5. owner[j] = a
    BY <1>1 DEF Owned, WorkOwned
  <1>6. work[a].what \in {"PRINTING", "COMPLETED", "FAILED"}
    BY <1>3, WorkKinds DEF TypeOK
  <1>7. status[j] \in Follows(work[a].what)
    BY <1>1, <1>6 DEF InStep, WorkInStep, StatusAt, Follows
  <1>8. (\A i \in Jobs \ {j} : status'[i] = status[i]) /\ status'[j] = work[a].what
    BY <1>3, <1>4, <1>5, <1>7, ReportServed
  <1>9. work'[a] = IF work[a].what = "PRINTING" THEN Printing(j, 1) ELSE NoWork
    BY <1>1 DEF ReportReturned, TypeOK, WorkerType
  <1>10. work'[a].job = j => status'[j] = StatusAt(work'[a])
    <2>1. NoWork.job # j
      BY FleetAssumption DEF NoWork
    <2>2. Printing(j, 1).what = "print"
      BY DEF Printing
    <2> QED
      BY <1>8, <1>9, <2>1, <2>2 DEF StatusAt
  <1> QED
    BY <1>1, <1>2, <1>8, <1>10, WorkInTurn

\* The backend hears of the attempts only when they are over.
LEMMA AttemptInStep ==
    ASSUME TypeOK, TypeOK', Owned, Apart, InStep, OwnerKept,
           NEW a \in Agents, PrintOk(a) \/ PrintErr(a) \/ Retry(a)
    PROVE  InStep'
  <1>1. PICK j \in Jobs : j = work[a].job
    BY WorkMoves
  <1>2. /\ work'[a] = NoWork \/ work'[a].job = j
        /\ \A b \in Agents \ {a} : work'[b] = work[b]
        /\ UNCHANGED <<call, queue>>
    BY <1>1, WorkMoves
  <1>3. status' = status
    BY DEF PrintOk, PrintErr, Retry, backend
  <1>4. work[a].what \in {"print", "wait"} /\ work'[a].what # "PRINTING"
    <2>1. CASE PrintOk(a) \/ PrintErr(a)
      <3>1. PICK i \in Jobs : \E n \in 0..MaxRetries : \E s \in {"COMPLETED", "FAILED", "wait"} :
               /\ work[a] = [job |-> i, what |-> "print", attempt |-> n]
               /\ work' = [work EXCEPT ![a] = [job |-> i, what |-> s, attempt |-> n]]
        <4>1. PrintOk(a) \/ PrintErr(a)
          BY <2>1
        <4> QED
          BY <4>1, PrintMoves
      <3>2. work[a].what = "print"
        BY <3>1
      <3>3. work'[a].what # "PRINTING"
        BY <3>1 DEF TypeOK, WorkerType
      <3> QED
        BY <3>2, <3>3
    <2>2. CASE Retry(a)
      BY <2>2 DEF Retry, Printing, TypeOK, WorkerType
    <2> QED
      BY <2>1, <2>2
  <1>5. status[j] = "PRINTING"
    BY <1>1, <1>4 DEF InStep, WorkInStep, StatusAt
  <1>6. work'[a].job = j => status'[j] = StatusAt(work'[a])
    BY <1>3, <1>4, <1>5 DEF StatusAt
  <1> QED
    BY <1>1, <1>2, <1>3, <1>6, WorkInTurn

LEMMA InStepStep ==
    ASSUME Untroubled
    PROVE  TypeOK /\ Owned /\ Apart /\ Known /\ Calm /\ InStep /\ [Next]_vars => InStep'
  <1> SUFFICES ASSUME TypeOK, Owned, Apart, Known, Calm, InStep, [Next]_vars PROVE InStep'
    OBVIOUS
  <1>1. TypeOK' /\ OwnerKept
    BY TypingStep, OwnersKept
  <1>2. ASSUME Still, UNCHANGED status PROVE InStep'
    BY <1>1, <1>2, StillShrinks, QuietInStep
  <1>3. CASE UNCHANGED vars
    BY <1>2, <1>3 DEF vars, backend, intake, store, ghosts, Still, Acks
  <1>4. CASE BackendStep
    BY <1>1, <1>4, BackendInStep
  <1>5. ASSUME NEW a \in Agents, ProcessStep(a) \/ SessionStep(a) PROVE InStep'
    <2>1. SessionStep(a) \/ Start(a)
      BY <1>5, CalmNever DEF ProcessStep
    <2>2. UNCHANGED status
      BY <2>1 DEF SessionStep, Start, Connect, Tick, FetchOk, FetchFail, RecoverDone, DropLink,
                  Disconnect, backend
    <2> QED
      BY <1>2, <2>1, <2>2, QuietSteps
  <1>6. ASSUME NEW a \in Agents, NEW t \in Threads, ClaimStep(a, t) PROVE InStep'
    <2>1. CASE BeginCall(a, t)
      BY <1>2, <2>1, QuietCalls DEF BeginCall, backend
    <2>2. CASE ClaimAnswered(a, t) /\ ~Granted(call[a][t].job)
      <3> DEFINE m == [agent |-> a, job |-> call[a][t].job, what |-> "CLAIM"]
      <3>1. call[a][t].what = "CLAIM" /\ Serve(m)
        BY <2>2 DEF ClaimAnswered, Answered
      <3>2. m \in Request /\ m.what = "CLAIM"
        BY <3>1, CallRequest
      <3>3. status' = status
        BY <3>1, <3>2, ServeStatus
      <3> QED
        BY <1>2, <2>2, <3>3, QuietCalls
    <2>3. CASE ClaimAnswered(a, t) /\ Granted(call[a][t].job)
      BY <1>1, <2>3, GrantInStep
    <2>4. CASE AckReturned(a, t)
      BY <1>1, <2>4, AckInStep
    <2> QED
      BY <1>6, <2>1, <2>2, <2>3, <2>4, CalmNever DEF ClaimStep
  <1>7. ASSUME NEW a \in Agents, WorkerStep(a) PROVE InStep'
    <2>1. CASE Take(a)
      BY <1>1, <2>1, TakeInStep
    <2>2. CASE ReportReturned(a)
      BY <1>1, <2>2, ReportInStep
    <2>3. CASE PrintOk(a) \/ PrintErr(a) \/ Retry(a)
      BY <1>1, <2>3, AttemptInStep
    <2> QED
      BY <1>7, <2>1, <2>2, <2>3, CalmNever DEF WorkerStep
  <1> QED
    BY <1>3, <1>4, <1>5, <1>6, <1>7 DEF Next

LEMMA InitInStep == Init => InStep
  BY FleetAssumption DEF Init, InStep, NotStarted, CallsInStep, QueueInStep, WorkInStep, Acks,
                         NoCall, NoWork

LEMMA InStepImplies == TypeOK /\ InStep => NothingRejected
  <1> SUFFICES ASSUME TypeOK, InStep, NEW a \in Agents
               PROVE  /\ \A t \in Threads : call[a][t].what = "ACKNOWLEDGED" =>
                            status[call[a][t].job] \in Follows("ACKNOWLEDGED")
                      /\ work[a].what \in Reports =>
                            status[work[a].job] \in Follows(work[a].what)
    BY DEF NothingRejected
  <1>1. ASSUME NEW t \in Threads, call[a][t].what = "ACKNOWLEDGED"
        PROVE  status[call[a][t].job] \in Follows("ACKNOWLEDGED")
    BY <1>1, AckOfJob DEF InStep, CallsInStep, Follows
  <1>2. ASSUME work[a].what \in Reports
        PROVE  status[work[a].job] \in Follows(work[a].what)
    <2>1. work[a].job \in Jobs /\ work[a].what \in {"PRINTING", "COMPLETED", "FAILED"}
      BY <1>2, WorkHasJob, WorkKinds DEF TypeOK
    <2> QED
      BY <2>1 DEF InStep, WorkInStep, StatusAt, Follows
  <1> QED
    BY <1>1, <1>2

(***************************************************************************)
(* A backend that insists on the lifecycle rejects no report, whatever     *)
(* connections break, while requests do not fail, no process is stopped    *)
(* and the types of all jobs have a printer: each report is sent after the *)
(* one before it was served (agent.go:136-138, app.go:146-211).            *)
(***************************************************************************)
THEOREM ReportsAccepted ==
    ASSUME Untroubled
    PROVE  Spec => []NothingRejected
<1>1. Spec => [](TypeOK /\ Owned /\ Apart)
  BY AlwaysApart
<1>2. Init => Known /\ Calm /\ InStep
  BY InitKnown, InitCalm, InitInStep
<1>3. TypeOK /\ Owned /\ Apart /\ Known /\ Calm /\ InStep /\ [Next]_vars
         => Known' /\ Calm' /\ InStep'
  BY KnownStep, CalmStep, InStepStep
<1>4. TypeOK /\ InStep => NothingRejected
  BY InStepImplies
<1> QED
  BY <1>1, <1>2, <1>3, <1>4, PTL DEF Spec
===============================================================================
