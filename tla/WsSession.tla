------------------------------ MODULE WsSession -------------------------------
(***************************************************************************)
(* The WebSocket connection of one agent in time (internal/agent/agent.go, *)
(* Run and SendOut; websocket.go), and the dashboard's copy of whether it  *)
(* is up (ui/assets/app.js, the status store).  What the agent does with   *)
(* jobs is PrintFleet; here a job is time its reader spends.               *)
(*                                                                         *)
(* Time passes in units of Unit seconds, and only when nothing is due:     *)
(* everything local, and the answer of a peer that is well, takes less; a  *)
(* wait shorter than a unit takes no time.                                 *)
(***************************************************************************)
EXTENDS Integers, Sequences, SequencesExt, FiniteSets

CONSTANTS
    Unit, MaxBackoff,           \* in seconds
    PingInterval, PongTimeout,  \* in units
    DialTimeout,                \* in units: the dialer's limit
    SendCap,                    \* capacity of sendCh
    InboxMax,                   \* bound: frames unread when the peer sends another
    MaxPolls,                   \* bound: status requests under way
    None

ASSUME WsAssumption ==
    /\ {Unit, MaxBackoff, PingInterval, PongTimeout, DialTimeout, SendCap, InboxMax, MaxPolls} \subseteq Nat \ {0}
    /\ PingInterval < PongTimeout
    /\ None \notin Nat

VARIABLES
    phase,      \* of Run and runWebSocket
    backoff,    \* in seconds
    waited,     \* time in the phase "hang" or "wait"
    connected,  \* App.connected, set by onStatus
    ping,       \* time until the ticker fires
    deadline,   \* time until the read deadline, or None
    reader,     \* the reader of this session
    sendCh,     \* messages in it, from earlier sessions too
    peer,       \* the backend answers ("well"), or nothing comes from it ("silent")
    broken,     \* the connection is reset
    asked,      \* a ping is not answered yet
    inbox,      \* frames that have arrived and are not read
    shown,      \* Alpine.store('status').connected
    polls,      \* status requests under way, oldest first: None until served
    quiet,      \* ghost: time since the reader last read a frame or ended a job
    held,       \* ghost: time the reader spent on jobs since it last read a pong
    faulty,     \* ghost: the peer was silent or the connection broke in this session
    offline     \* ghost: time the peer has been well and the agent has not been connected

time  == <<waited, ping, deadline>>
net   == <<peer, broken, asked, inbox>>
dash  == <<shown, polls>>
ghost == <<quiet, held, faulty, offline>>
vars  == <<phase, backoff, connected, reader, sendCh, time, net, dash, ghost>>

(***************************************************************************)
(* The types of the state; sendCh never exceeds its capacity and no wait   *)
(* is longer than the cap of the backoff (agent.go:36, 67-83).             *)
(***************************************************************************)
TypeOK ==
    /\ phase \in {"dial", "hang", "hello", "fetch", "serve", "wait"}
    /\ backoff \in Nat
    /\ waited \in 0..DialTimeout + MaxBackoff \div Unit
    /\ connected \in BOOLEAN
    /\ ping \in 0..PingInterval
    /\ deadline \in 0..PongTimeout \cup {None}
    /\ reader \in {"none", "reading", "busy", "failed"}
    /\ sendCh \in 0..SendCap
    /\ peer \in {"well", "silent"}
    /\ broken \in BOOLEAN /\ asked \in BOOLEAN
    /\ inbox \in Seq({"pong", "ping", "job"})
    /\ shown \in BOOLEAN
    /\ polls \in Seq(BOOLEAN \cup {None})
    /\ quiet \in Nat /\ held \in Nat
    /\ faulty \in BOOLEAN
    /\ offline \in Nat

Online == phase \in {"hello", "fetch", "serve"}

-------------------------------------------------------------------------------
(***************************************************************************)
(* The agent's main goroutine.                                             *)
(***************************************************************************)
\* A dial into silence hangs, and goes through or not once the peer is there.
Dialling == IF peer = "well" THEN "dial" ELSE "hang"

\* Dialled: connected is set before anything is sent on the connection.
Connect ==
    /\ phase \in {"dial", "hang"}
    /\ peer = "well"
    /\ phase' = "hello"
    /\ waited' = 0
    /\ connected' = TRUE
    /\ offline' = 0
    /\ UNCHANGED <<backoff, reader, sendCh, ping, deadline, net, dash, quiet, held, faulty>>

HelloSent ==
    /\ phase = "hello"
    /\ ~broken
    /\ phase' = "fetch"
    /\ UNCHANGED <<backoff, connected, reader, sendCh, time, net, dash, ghost>>

\* fetchPending is over, one way or the other; only now is anything read.
Serving ==
    /\ phase = "fetch"
    /\ phase' = "serve"
    /\ reader' = "reading"
    /\ ping' = PingInterval
    /\ UNCHANGED <<backoff, connected, sendCh, waited, deadline, net, dash, ghost>>

\* runWebSocket returns, and Run waits.  A reader that is busy with a job is
\* PrintFleet's business from here on.
Ended ==
    /\ phase' = "wait"
    /\ waited' = 0
    /\ connected' = FALSE
    /\ reader' = "none"
    /\ ping' = 0 /\ deadline' = None
    /\ broken' = FALSE /\ asked' = FALSE /\ inbox' = <<>>
    /\ quiet' = 0 /\ held' = 0 /\ faulty' = FALSE
    /\ UNCHANGED <<backoff, peer, dash, offline>>

DialFailed ==
    /\ phase = "hang"
    /\ Ended
    /\ UNCHANGED sendCh

WriteMayFail == broken \/ peer = "silent"

HelloFailed ==
    /\ phase = "hello"
    /\ WriteMayFail
    /\ Ended
    /\ UNCHANGED sendCh

\* A plausible slip: the cap is forgotten.
DoubledUncapped(b) == 2 * b

\* The delay is never reset.
Doubled(b) == IF 2 * b > MaxBackoff THEN MaxBackoff ELSE 2 * b

WaitLeft == waited < backoff \div Unit

Redial ==
    /\ phase = "wait"
    /\ ~WaitLeft
    /\ phase' = Dialling
    /\ backoff' = Doubled(backoff)
    /\ waited' = 0
    /\ UNCHANGED <<connected, reader, sendCh, ping, deadline, net, dash, ghost>>

\* A plausible slip: a ping that is sent counts as a sign of life.
SendPingRenews ==
    /\ phase = "serve"
    /\ ping = 0
    /\ ~broken
    /\ ping' = PingInterval
    /\ asked' = TRUE
    /\ deadline' = IF deadline = None THEN None ELSE PongTimeout
    /\ UNCHANGED <<phase, backoff, connected, reader, sendCh, waited,
                   peer, broken, inbox, dash, ghost>>

SendPing ==
    /\ phase = "serve"
    /\ ping = 0
    /\ \/ /\ ~broken
          /\ ping' = PingInterval
          /\ asked' = TRUE
          /\ UNCHANGED <<phase, backoff, connected, reader, sendCh, waited, deadline,
                         peer, broken, inbox, dash, ghost>>
       \/ /\ WriteMayFail
          /\ Ended
          /\ UNCHANGED sendCh

\* A message whose write fails is gone.
SendQueued ==
    /\ phase = "serve"
    /\ sendCh > 0
    /\ sendCh' = sendCh - 1
    /\ \/ /\ ~broken
          /\ UNCHANGED <<phase, backoff, connected, reader, time, net, dash, ghost>>
       \/ /\ WriteMayFail
          /\ Ended

ReaderError ==
    /\ phase = "serve"
    /\ reader = "failed"
    /\ Ended
    /\ UNCHANGED sendCh

-------------------------------------------------------------------------------
(***************************************************************************)
(* Its reader.                                                             *)
(***************************************************************************)
Reads(frame) ==
    /\ reader = "reading"
    /\ inbox # <<>> /\ Head(inbox) = frame
    /\ inbox' = Tail(inbox)
    /\ quiet' = 0
    /\ UNCHANGED <<phase, backoff, connected, waited, ping, peer, broken, asked, dash,
                   faulty, offline>>

\* A plausible slip: the deadline of writes is used.
PongDeadlineOfWrites == 1

\* The pong handler's deadline.
PongDeadline == PongTimeout

ReadPong ==
    /\ Reads("pong")
    /\ deadline' = PongDeadline
    /\ held' = 0
    /\ UNCHANGED <<reader, sendCh>>

\* A plausible slip: it is queued whatever there is.
ReadPingUnbounded ==
    /\ Reads("ping")
    /\ sendCh' = sendCh + 1
    /\ UNCHANGED <<reader, deadline, held>>

\* SendOut drops what does not fit.
ReadPing ==
    /\ Reads("ping")
    /\ sendCh' = IF sendCh < SendCap THEN sendCh + 1 ELSE sendCh
    /\ UNCHANGED <<reader, deadline, held>>

\* claimAndEnqueue, in the reader: two requests without a time limit.
ReadJob ==
    /\ Reads("job")
    /\ reader' = "busy"
    /\ UNCHANGED <<sendCh, deadline, held>>

JobDone ==
    /\ reader = "busy"
    /\ reader' = "reading"
    /\ quiet' = 0
    /\ UNCHANGED <<phase, backoff, connected, sendCh, time, net, dash, held, faulty, offline>>

\* Past the deadline a read fails, though frames may be waiting to be read.
ReadFails ==
    /\ reader = "reading"
    /\ broken \/ deadline = 0
    /\ reader' = "failed"
    /\ UNCHANGED <<phase, backoff, connected, sendCh, time, net, dash, ghost>>

-------------------------------------------------------------------------------
(***************************************************************************)
(* The peer, the network, and time.                                        *)
(***************************************************************************)
Pongs == Cardinality({i \in DOMAIN inbox : inbox[i] = "pong"})

\* Unread pongs beyond what a deadline can wait for are not counted.
AnswerPing ==
    /\ Online /\ ~broken /\ peer = "well" /\ asked
    /\ asked' = FALSE
    /\ inbox' = IF Pongs * PingInterval > PongTimeout THEN inbox ELSE Append(inbox, "pong")
    /\ UNCHANGED <<phase, backoff, connected, reader, sendCh, time, peer, broken, dash, ghost>>

Push(frame) ==
    /\ Online /\ ~broken /\ peer = "well"
    /\ Len(inbox) < InboxMax
    /\ inbox' = Append(inbox, frame)
    /\ UNCHANGED <<phase, backoff, connected, reader, sendCh, time, peer, broken, asked, dash, ghost>>

PeerChanges ==
    /\ peer' = IF peer = "well" THEN "silent" ELSE "well"
    /\ faulty' = Online
    /\ offline' = 0
    /\ phase' = IF phase = "dial" THEN "hang" ELSE phase
    /\ UNCHANGED <<backoff, connected, reader, sendCh, time, broken, asked, inbox, dash,
                   quiet, held>>

Break ==
    /\ Online /\ ~broken
    /\ broken' = TRUE
    /\ faulty' = TRUE
    /\ UNCHANGED <<phase, backoff, connected, reader, sendCh, time, peer, asked, inbox, dash,
                   quiet, held, offline>>

\* Nothing is due.
Idle ==
    /\ phase \notin {"dial", "hello"}
    /\ phase = "hang" => waited < DialTimeout
    /\ phase = "wait" => WaitLeft
    /\ phase = "serve" =>
          /\ ping > 0 /\ sendCh = 0
          /\ reader # "failed"
          /\ reader = "reading" => inbox = <<>> /\ deadline # 0 /\ ~broken
    /\ Online /\ ~broken /\ peer = "well" => ~asked

\* How long an agent may be without a backend that is there.
LongestLoss == DialTimeout + MaxBackoff \div Unit

\* Counting stops where it makes no difference any more.
Up(n, most) == IF n < most THEN n + 1 ELSE n

Tick ==
    /\ Idle
    /\ waited' = IF phase \in {"hang", "wait"} THEN waited + 1 ELSE waited
    /\ ping' = IF phase = "serve" THEN ping - 1 ELSE ping
    /\ deadline' = IF deadline \in {None, 0} THEN deadline ELSE deadline - 1
    /\ quiet' = IF phase = "serve" /\ deadline # None THEN Up(quiet, PongTimeout + 1) ELSE 0
    /\ held' = IF reader = "busy" THEN Up(held, PongTimeout - PingInterval) ELSE held
    /\ offline' = IF peer = "well" /\ ~connected THEN Up(offline, LongestLoss + 1) ELSE 0
    /\ UNCHANGED <<phase, backoff, connected, reader, sendCh, net, dash, faulty>>

-------------------------------------------------------------------------------
(***************************************************************************)
(* The dashboard: every five seconds status.load asks, without looking     *)
(* whether the last answer is there.                                       *)
(***************************************************************************)
Others == <<phase, backoff, connected, reader, sendCh, time, net, ghost>>

Poll ==
    /\ Len(polls) < MaxPolls
    /\ polls' = Append(polls, None)
    /\ UNCHANGED <<shown, Others>>

ServePoll(i) ==
    /\ polls[i] = None
    /\ polls' = [polls EXCEPT ![i] = connected]
    /\ UNCHANGED <<shown, Others>>

\* A plausible slip: connected ||= s.connected.
PollBackSticky(i) ==
    /\ polls[i] # None
    /\ shown' = (shown \/ polls[i])
    /\ polls' = RemoveAt(polls, i)
    /\ UNCHANGED Others

\* Answers come in any order.
PollBack(i) ==
    /\ polls[i] # None
    /\ shown' = polls[i]
    /\ polls' = RemoveAt(polls, i)
    /\ UNCHANGED Others

-------------------------------------------------------------------------------
Init ==
    /\ backoff = 1 /\ waited = 0
    /\ connected = FALSE
    /\ ping = 0 /\ deadline = None
    /\ reader = "none" /\ sendCh = 0
    /\ peer \in {"well", "silent"}
    /\ phase = Dialling
    /\ broken = FALSE /\ asked = FALSE /\ inbox = <<>>
    /\ shown = FALSE /\ polls = <<>>
    /\ quiet = 0 /\ held = 0 /\ faulty = FALSE /\ offline = 0

Main == Connect \/ HelloSent \/ HelloFailed \/ Serving \/ DialFailed \/ Redial
        \/ SendPing \/ SendQueued \/ ReaderError
Reader == ReadPong \/ ReadPing \/ ReadJob \/ JobDone \/ ReadFails
Dashboard == Poll \/ \E i \in DOMAIN polls : ServePoll(i) \/ PollBack(i)

Next ==
    \/ Main \/ Reader \/ Dashboard
    \/ AnswerPing \/ Push("ping") \/ Push("job") \/ PeerChanges \/ Break
    \/ Tick

Spec == Init /\ [][Next]_vars

\* The page keeps asking, and the daemon on the same machine answers it.
FairSpec ==
    /\ Spec
    /\ WF_vars(Poll)
    /\ \A i \in 1..MaxPolls : WF_vars(i \in DOMAIN polls /\ (ServePoll(i) \/ PollBack(i)))

-------------------------------------------------------------------------------
(***************************************************************************)
(* Once a pong has come, a peer that falls silent is noticed in time: the  *)
(* reader, unless it is held up by a job, never waits longer for a frame   *)
(* than the pong timeout (websocket.go:17-21, 62-64, 71-75).               *)
(***************************************************************************)
SilenceNoticed ==
    phase = "serve" /\ deadline # None /\ reader = "reading" => quiet <= PongTimeout

(***************************************************************************)
(* A session whose peer answers is not given up, unless jobs have held up  *)
(* the reader between two pongs for as long as the pong timeout exceeds    *)
(* the ping interval, 30 s (websocket.go:17-21, 62-64, 83-85, 113-117).    *)
(***************************************************************************)
HealthyKept ==
    reader = "failed" /\ ~faulty => held >= PongTimeout - PingInterval

(***************************************************************************)
(* However often and however long the connection was lost, an agent whose  *)
(* backend is there again is connected within the time limit of a dial and *)
(* the longest backoff (agent.go:42-76, websocket.go:37).                  *)
(***************************************************************************)
ReconnectsInTime == offline <= LongestLoss

(***************************************************************************)
(* The dashboard ends up showing the state of the connection once that     *)
(* lasts, though answers cross (app.js:59-71, agent.go:59-61,              *)
(* websocket.go:43-45).                                                    *)
(***************************************************************************)
DashboardCatchesUp ==
    /\ <>[]connected => <>[]shown
    /\ <>[]~connected => <>[]~shown
===============================================================================
