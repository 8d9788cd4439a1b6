-------------------------- MODULE PrintFleetRefines ---------------------------
(***************************************************************************)
(* The fleet keeps the promise of PrintOnce: proof that PrintFleet         *)
(* implements it, with the phase of a job read off the places it is in.    *)
(*                                                                         *)
(* A job is open while it has no owner, taken while its owner has it in    *)
(* some place (PrintFleetPlaces!Nowhere), and over from then on.  A step   *)
(* of the fleet maps to one step of PrintOnce for each job: what fills the *)
(* first place takes the job, what empties the last one releases it, and   *)
(* moves between places are stutters.                                      *)
(***************************************************************************)
EXTENDS PrintFleetPlaces

\* Some agent has job j in hand.
Held(j) == \E a \in Agents : ~Nowhere(a, j)

\* The refinement mapping, by Held.
LEMMA PhaseByPlace ==
    ASSUME TypeOK, NEW j \in Jobs
    PROVE  Phase(j) = IF Held(j) THEN "taken" ELSE IF owner[j] = NoAgent THEN "open" ELSE "over"
  <1>1. \A a \in Agents : \A t \in Threads :
           call[a][t] = [job |-> j, what |-> "ACKNOWLEDGED"] <=> Acks(a, t, j)
    <2> SUFFICES ASSUME NEW a \in Agents, NEW t \in Threads
                 PROVE  call[a][t] = [job |-> j, what |-> "ACKNOWLEDGED"] <=> Acks(a, t, j)
      OBVIOUS
    <2>1. Acks(a, t, j) => call[a][t] # NoCall
      BY DEF Acks, NoCall
    <2> QED
      BY <2>1, CallOfJob DEF TypeOK, Acks
  <1>2. ASSUME NEW a \in Agents, ~Nowhere(a, j) PROVE Handlers(j) # {}
    <2>1. CASE \E t \in Threads : Acks(a, t, j)
      <3>1. PICK t \in Threads : <<a, t>> \in Acking(j)
        BY <1>1, <2>1 DEF Acking
      <3> QED
        BY <3>1 DEF Handlers
    <2>2. CASE \E e \in queue[a] : e.job = j
      <3>1. PICK e \in queue[a] : <<a, e>> \in Queued(j)
        BY <2>2 DEF Queued
      <3> QED
        BY <3>1 DEF Handlers
    <2>3. CASE work[a].job = j
      BY <2>3 DEF Handlers, Working
    <2> QED
      BY <1>2, <2>1, <2>2, <2>3 DEF Nowhere
  <1>3. ASSUME Handlers(j) # {} PROVE Held(j)
    <2>1. CASE Acking(j) # {}
      BY <1>1, <2>1 DEF Acking, Held, Nowhere
    <2>2. CASE Queued(j) # {}
      BY <2>2 DEF Queued, Held, Nowhere
    <2>3. CASE Working(j) # {}
      BY <2>3 DEF Working, Held, Nowhere
    <2> QED
      BY <1>3, <2>1, <2>2, <2>3 DEF Handlers
  <1> QED
    BY <1>2, <1>3 DEF Phase, Held

PhasesMapped ==
    \A j \in Jobs :
       Phase(j) = IF Held(j) THEN "taken" ELSE IF owner[j] = NoAgent THEN "open" ELSE "over"

\* In this state and in the next.
LEMMA PhasesByPlace == TypeOK => PhasesMapped
  BY PhaseByPlace DEF PhasesMapped

LEMMA NextPhasesByPlace == TypeOK' => PhasesMapped'
  BY PhasesByPlace, PTL

\* A job in hand has an owner.
LEMMA HeldOwned ==
    ASSUME TypeOK, Owned, NEW j \in Jobs, NEW a \in Agents, ~Nowhere(a, j)
    PROVE  owner[j] = a
  BY DEF Owned, CallsOwned, QueueOwned, WorkOwned, Nowhere, Acks

\* The steps of a job, by what happens to its place, its owner and its copies.
Moves(j) ==
    \/ /\ Held(j)' <=> Held(j)
       /\ owner'[j] = owner[j] /\ copies'[j] = copies[j]
    \/ /\ ~Held(j)
       /\ owner[j] = NoAgent /\ owner'[j] \in Agents /\ copies'[j] = copies[j]
    \/ /\ Held(j) /\ Held(j)'
       /\ owner'[j] = owner[j] /\ copies'[j] = copies[j] + 1
    \/ /\ Held(j) /\ ~Held(j)'
       /\ owner'[j] = owner[j] /\ copies'[j] \in {copies[j], copies[j] + 1}

LEMMA MovesRefine ==
    ASSUME TypeOK, TypeOK', Owned, OnPath', \A j \in Jobs : Moves(j)
    PROVE  Once!Next
  <1> SUFFICES ASSUME NEW j \in Jobs
               PROVE  \/ Once!Take(j) \/ Once!Strand(j) \/ Once!Copy(j)
                      \/ Once!Release(j) \/ Once!Same(j)
    BY DEF Once!Next
  <1>1. /\ Phase(j) = IF Held(j) THEN "taken" ELSE IF owner[j] = NoAgent THEN "open" ELSE "over"
        /\ Phase(j)' = IF Held(j)' THEN "taken"
                       ELSE IF owner'[j] = NoAgent THEN "open" ELSE "over"
    BY PhasesByPlace, NextPhasesByPlace DEF PhasesMapped
  <1>2. Held(j) => owner[j] \in Agents /\ owner[j] # NoAgent
    BY HeldOwned, FleetAssumption DEF Held
  <1>3. copies[j] \in Nat /\ copies'[j] <= MaxRetries
    BY DEF TypeOK, GhostType, OnPath, CopiesBounded
  <1>4. CASE /\ Held(j)' <=> Held(j)
             /\ owner'[j] = owner[j] /\ copies'[j] = copies[j]
    BY <1>1, <1>4 DEF Once!Same
  <1>5. CASE /\ ~Held(j)
             /\ owner[j] = NoAgent /\ owner'[j] \in Agents /\ copies'[j] = copies[j]
    BY <1>1, <1>5, FleetAssumption DEF Once!Take, Once!Strand
  <1>6. CASE /\ Held(j) /\ Held(j)'
             /\ owner'[j] = owner[j] /\ copies'[j] = copies[j] + 1
    <2>1. copies[j] < MaxRetries
      BY <1>3, <1>6, FleetAssumption
    <2> QED
      BY <1>1, <1>6, <2>1 DEF Once!Copy
  <1>7. CASE /\ Held(j) /\ ~Held(j)'
             /\ owner'[j] = owner[j] /\ copies'[j] \in {copies[j], copies[j] + 1}
    BY <1>1, <1>2, <1>3, <1>7 DEF Once!Release
  <1> QED
    BY <1>4, <1>5, <1>6, <1>7 DEF Moves

\* A step that leaves every place of a job as it was, and its owner and copies.
LEMMA PlacesSame ==
    ASSUME NEW j \in Jobs,
           \A a \in Agents : Nowhere(a, j)' <=> Nowhere(a, j),
           owner'[j] = owner[j], copies'[j] = copies[j]
    PROVE  Moves(j)
  BY DEF Moves, Held

\* A step that leaves all places alone may give an unowned job an owner.
LEMMA StillMoves ==
    ASSUME TypeOK, TypeOK', Owned, OwnerKept, Still, NEW j \in Jobs
    PROVE  Moves(j)
  <1>1. \A a \in Agents : work'[a].job = j <=> work[a].job = j
    BY DEF Still
  <1>2. \A a \in Agents : Nowhere(a, j)' <=> Nowhere(a, j)
    BY <1>1 DEF Still, Nowhere
  <1>3. copies'[j] = copies[j]
    BY DEF Still
  <1>4. CASE owner'[j] = owner[j]
    BY <1>2, <1>3, <1>4, PlacesSame
  <1>5. CASE owner'[j] # owner[j]
    <2>1. owner[j] = NoAgent /\ owner'[j] \in Agents
      BY <1>5 DEF OwnerKept, TypeOK, BackendType
    <2>2. ~Held(j)
      BY <2>1, HeldOwned, FleetAssumption DEF Held
    <2> QED
      BY <1>3, <2>1, <2>2 DEF Moves
  <1> QED
    BY <1>4, <1>5

\* An agent that loses a job from its last place releases it.
LEMMA LetGo ==
    ASSUME TypeOK, Owned, NEW j \in Jobs, NEW a \in Agents, ~Nowhere(a, j), Nowhere(a, j)',
           \A b \in Agents \ {a} : Nowhere(b, j) => Nowhere(b, j)',
           owner'[j] = owner[j], copies'[j] \in {copies[j], copies[j] + 1}
    PROVE  Moves(j)
  <1>1. \A b \in Agents \ {a} : Nowhere(b, j)
    BY HeldOwned
  <1> QED
    BY <1>1 DEF Moves, Held

\* The end of a process.
LEMMA ForgetMoves ==
    ASSUME TypeOK, Owned, NEW a \in Agents, Exit(a) \/ Crash(a), NEW j \in Jobs
    PROVE  Moves(j)
  <1>1. Forget(a) /\ owner' = owner
    BY DEF Exit, Crash, backend
  <1>2. \/ copies' = copies
        \/ work[a].what = "print" /\ copies' = [copies EXCEPT ![work[a].job] = @ + 1]
    BY DEF Exit, Crash, ghosts
  <1>3. Nowhere(a, j)'
    BY <1>1, ForgetClears DEF Nowhere
  <1>4. \A b \in Agents \ {a} : Nowhere(b, j)' <=> Nowhere(b, j)
    BY <1>1, ForgetClears DEF Nowhere
  <1>5. CASE Nowhere(a, j)
    <2>1. copies'[j] = copies[j]
      BY <1>2, <1>5 DEF Nowhere, TypeOK, GhostType
    <2> QED
      BY <1>1, <1>3, <1>4, <1>5, <2>1, PlacesSame
  <1>6. CASE ~Nowhere(a, j)
    <2>1. copies'[j] \in {copies[j], copies[j] + 1}
      BY <1>2 DEF TypeOK, GhostType
    <2> QED
      BY <1>1, <1>3, <1>4, <1>6, <2>1, LetGo
  <1> QED
    BY <1>5, <1>6

\* claimAndEnqueue: the granted claim takes the job, AckReturned hands it on.
LEMMA ClaimMoves ==
    ASSUME TypeOK, TypeOK', Owned, OwnerKept, NEW a \in Agents, NEW t \in Threads,
           ClaimStep(a, t), NEW i \in Jobs
    PROVE  Moves(i)
  <1>1. CASE ClaimAnswered(a, t) /\ Granted(call[a][t].job)
    <2>1. PICK j \in Jobs :
             /\ owner[j] = NoAgent
             /\ \A b \in Agents : \A u \in Threads : \A k \in Jobs :
                   Acks(b, u, k)' <=> Acks(b, u, k) \/ (b = a /\ u = t /\ k = j)
             /\ owner' = [owner EXCEPT ![j] = a]
             /\ UNCHANGED <<queue, work, copies>>
      BY <1>1, GrantedFills DEF Granted
    <2>2. CASE i = j
      <3>1. ~Held(i)
        BY <2>1, <2>2, HeldOwned, FleetAssumption DEF Held
      <3>2. owner'[i] = a
        BY <2>1, <2>2 DEF TypeOK, BackendType
      <3> QED
        BY <2>1, <2>2, <3>1, <3>2 DEF Moves
    <2>3. CASE i # j
      <3>1. \A b \in Agents : Nowhere(b, i)' <=> Nowhere(b, i)
        BY <2>1, <2>3 DEF Nowhere
      <3>2. owner'[i] = owner[i] /\ copies'[i] = copies[i]
        BY <2>1, <2>3 DEF TypeOK, BackendType
      <3> QED
        BY <3>1, <3>2, PlacesSame
    <2> QED
      BY <2>2, <2>3
  <1>2. CASE AckReturned(a, t)
    <2>1. PICK j \in Jobs :
             /\ j = call[a][t].job /\ Acks(a, t, j)
             /\ \A b \in Agents : \A u \in Threads : \A k \in Jobs :
                   Acks(b, u, k)' <=> Acks(b, u, k) /\ <<b, u>> # <<a, t>>
             /\ UNCHANGED <<work, copies>>
      BY <1>2, AckMoves
    <2>2. PICK e : e.job = j /\ queue' = [queue EXCEPT ![a] = @ \cup {e}]
      BY <1>2, <2>1, AckMoves
    <2>3. owner' = owner
      BY <1>2 DEF AckReturned, Returned, Answered, GaveUp, Serve
    <2>4. queue'[a] = queue[a] \cup {e} /\ \A b \in Agents \ {a} : queue'[b] = queue[b]
      BY <2>2 DEF TypeOK, IntakeType
    <2>5. CASE i = j
      <3>1. ~Nowhere(a, i) /\ ~Nowhere(a, i)'
        BY <2>1, <2>2, <2>4, <2>5 DEF Nowhere
      <3>2. \A b \in Agents \ {a} : Nowhere(b, i)' <=> Nowhere(b, i)
        BY <2>1, <2>4 DEF Nowhere
      <3> QED
        BY <2>1, <2>3, <3>1, <3>2, PlacesSame
    <2>6. CASE i # j
      <3>1. \A b \in Agents : \A u \in Threads : Acks(b, u, i)' <=> Acks(b, u, i)
        BY <2>1, <2>6 DEF Acks
      <3>2. \A b \in Agents : (\A f \in queue'[b] : f.job # i) <=> (\A f \in queue[b] : f.job # i)
        BY <2>2, <2>4, <2>6
      <3>3. \A b \in Agents : Nowhere(b, i)' <=> Nowhere(b, i)
        BY <2>1, <3>1, <3>2 DEF Nowhere
      <3> QED
        BY <2>1, <2>3, <3>3, PlacesSame
    <2> QED
      BY <2>5, <2>6
  <1> QED
    BY <1>1, <1>2, QuietCalls, StillMoves DEF ClaimStep

\* Take, and what process does to the job it has.
LEMMA WorkerMoves ==
    ASSUME TypeOK, Owned, Apart, NEW a \in Agents, WorkerStep(a), NEW i \in Jobs
    PROVE  Moves(i)
  <1>1. CASE Take(a)
    <2>1. PICK e \in queue[a] :
             /\ e.job \in Jobs
             /\ work[a] = NoWork
             /\ queue' = [queue EXCEPT ![a] = @ \ {e}]
             /\ work' = [work EXCEPT ![a] = [job |-> e.job, what |-> FirstReport(a, e.job),
                                             attempt |-> 0]]
             /\ UNCHANGED <<owner, call, copies>>
      BY <1>1, TakeMoves
    <2>2. /\ queue'[a] = queue[a] \ {e} /\ work'[a].job = e.job
          /\ \A b \in Agents \ {a} : queue'[b] = queue[b] /\ work'[b] = work[b]
      BY <2>1 DEF TypeOK, IntakeType, WorkerType
    <2>3. \A b \in Agents \ {a} : Nowhere(b, i)' <=> Nowhere(b, i)
      BY <2>1, <2>2 DEF Nowhere, Acks
    <2>4. Nowhere(a, i)' <=> Nowhere(a, i)
      <3>1. CASE i = e.job
        BY <2>2, <3>1 DEF Nowhere
      <3>2. CASE i # e.job
        BY <2>1, <2>2, <3>2, FleetAssumption DEF Nowhere, Acks, NoWork
      <3> QED
        BY <3>1, <3>2
    <2> QED
      BY <2>1, <2>3, <2>4, PlacesSame
  <1>2. CASE ~Take(a)
    <2>1. /\ work[a].job \in Jobs
          /\ work'[a] = NoWork \/ work'[a].job = work[a].job
          /\ \A b \in Agents \ {a} : work'[b] = work[b]
          /\ UNCHANGED <<call, queue>>
      BY <1>2, WorkMoves DEF WorkerStep
    <2>2. owner' = owner
      <3>1. CASE ReportReturned(a)
        <4>1. Serve([agent |-> a, job |-> work[a].job, what |-> work[a].what]) => owner' = owner
          BY <3>1 DEF ReportReturned, Serve, Reports
        <4> QED
          BY <3>1, <4>1 DEF ReportReturned, Returned, Answered, GaveUp
      <3>2. CASE ~ReportReturned(a)
        BY <1>2, <3>2 DEF WorkerStep, PrintOk, PrintErr, Retry, Abandon, backend
      <3> QED
        BY <3>1, <3>2
    <2>3. /\ copies'[i] = copies[i] \/ (i = work[a].job /\ copies'[i] = copies[i] + 1)
          /\ copies' # copies => work'[a].job = work[a].job
      <3>1. CASE PrintOk(a) \/ PrintErr(a)
        <4>1. PICK j \in Jobs, n \in 0..MaxRetries, s \in {"COMPLETED", "FAILED", "wait"} :
                 /\ work[a] = [job |-> j, what |-> "print", attempt |-> n]
                 /\ work' = [work EXCEPT ![a] = [job |-> j, what |-> s, attempt |-> n]]
                 /\ IF s = "wait" THEN reports' = reports ELSE Report(j, s)
                 /\ \/ /\ copies' = [copies EXCEPT ![j] = @ + 1]
                       /\ printedBy' = [printedBy EXCEPT ![j] = @ \cup {a}]
                    \/ s # "COMPLETED" /\ UNCHANGED <<copies, printedBy>>
                 /\ UNCHANGED <<status, owner, late, call, queue, history>>
          BY <3>1, PrintMoves
        <4>2. work[a].job = j /\ work'[a].job = j
          BY <4>1 DEF TypeOK, WorkerType
        <4>3. copies'[i] = copies[i] \/ (i = j /\ copies'[i] = copies[i] + 1)
          BY <4>1 DEF TypeOK, GhostType
        <4> QED
          BY <4>2, <4>3
      <3>2. CASE ~(PrintOk(a) \/ PrintErr(a))
        BY <1>2, <3>2 DEF WorkerStep, ReportReturned, Retry, Abandon, ghosts
      <3> QED
        BY <3>1, <3>2
    <2>4. \A b \in Agents \ {a} : Nowhere(b, i)' <=> Nowhere(b, i)
      BY <2>1 DEF Nowhere, Acks
    <2>5. CASE i # work[a].job
      <3>1. work'[a].job # i
        BY <2>1, <2>5, FleetAssumption DEF NoWork
      <3>2. Nowhere(a, i)' <=> Nowhere(a, i)
        BY <2>1, <2>5, <3>1 DEF Nowhere, Acks
      <3> QED
        BY <2>2, <2>3, <2>4, <2>5, <3>2, PlacesSame
    <2>6. CASE i = work[a].job /\ work'[a].job = work[a].job
      <3>1. ~Nowhere(a, i) /\ ~Nowhere(a, i)'
        BY <2>6 DEF Nowhere
      <3>2. Held(i) /\ Held(i)'
        BY <3>1 DEF Held
      <3> QED
        BY <2>2, <2>3, <3>2 DEF Moves
    <2>7. CASE i = work[a].job /\ work'[a].job # work[a].job
      <3>1. ~Nowhere(a, i)
        BY <2>7 DEF Nowhere
      <3>2. Nowhere(a, i)'
        <4>1. \A t \in Threads : ~Acks(a, t, i)'
          BY <2>1, <2>7, WorkAlone DEF Acks
        <4>2. \A e \in queue'[a] : e.job # i
          BY <2>1, <2>7, WorkAlone
        <4> QED
          BY <2>7, <4>1, <4>2 DEF Nowhere
      <3>3. copies'[i] = copies[i]
        BY <2>3, <2>7
      <3> QED
        BY <2>2, <2>4, <3>1, <3>2, <3>3, LetGo
    <2> QED
      BY <2>5, <2>6, <2>7
  <1> QED
    BY <1>1, <1>2

\* Every step of the fleet is a step of PrintOnce.
LEMMA StepRefines ==
    TypeOK /\ Owned /\ Apart /\ OnPath /\ OnPath' /\ [Next]_vars => [Once!Next]_(Once!vars)
  <1> SUFFICES ASSUME TypeOK, Owned, Apart, OnPath', [Next]_vars PROVE Once!Next
    OBVIOUS
  <1>1. TypeOK' /\ OwnerKept
    BY TypingStep, OwnersKept
  <1> SUFFICES ASSUME NEW j \in Jobs PROVE Moves(j)
    BY <1>1, MovesRefine
  <1>2. Still => Moves(j)
    BY <1>1, StillMoves
  <1>3. CASE UNCHANGED vars
    <2>1. Still
      BY <1>3 DEF Still, Acks, vars, intake, store, ghosts
    <2> QED
      BY <1>2, <2>1
  <1>4. CASE BackendStep
    BY <1>2, <1>4, QuietBackend
  <1>5. ASSUME NEW a \in Agents, ProcessStep(a) \/ SessionStep(a) PROVE Moves(j)
    BY <1>2, <1>5, QuietSteps, ForgetMoves DEF ProcessStep
  <1>6. ASSUME NEW a \in Agents, NEW t \in Threads, ClaimStep(a, t) PROVE Moves(j)
    BY <1>1, <1>6, ClaimMoves
  <1>7. ASSUME NEW a \in Agents, WorkerStep(a) PROVE Moves(j)
    BY <1>7, WorkerMoves
  <1> QED
    BY <1>3, <1>4, <1>5, <1>6, <1>7 DEF Next

\* No job is in hand at the start.
LEMMA InitRefines == Init => Once!Init
  <1> SUFFICES ASSUME Init PROVE Once!Init
    OBVIOUS
  <1>1. TypeOK
    BY InitTyping
  <1>2. \A j \in Jobs : ~Held(j)
    BY FleetAssumption DEF Init, Held, Nowhere, Acks, NoCall, NoWork
  <1>3. \A j \in Jobs : Phase(j) = "open"
    BY <1>1, <1>2, PhaseByPlace DEF Init
  <1> QED
    BY <1>3 DEF Init, Once!Init

(***************************************************************************)
(* For each job, whatever happens to the others: one agent takes it, once; *)
(* paper comes out only while it has the job, at most MaxRetries times;    *)
(* and once it lets go no agent takes the job again (README.md:55-60).     *)
(* The fleet implements PrintOnce.                                         *)
(***************************************************************************)
THEOREM Refinement == Spec => ImplementsPrintOnce
  BY InitRefines, StepRefines, AlwaysOnPath, PTL DEF Spec, ImplementsPrintOnce, Once!Spec
===============================================================================
