--------------------------- MODULE WsSessionProofs -----------------------------
(***************************************************************************)
(* What WsSession promises, proved for every unit, interval, timeout,      *)
(* backoff and capacity.                                                   *)
(*                                                                         *)
(* Time is in the state, so that "in time" is an invariant: each of them   *)
(* bounds a ghost clock, and is kept by a Tick because something that has  *)
(* to happen first keeps Tick from being taken.  The inductive invariants  *)
(* say how far each clock can have gone in each phase.                     *)
(***************************************************************************)
EXTENDS WsSession, SequenceTheorems, FiniteSetTheorems, TLAPS

-------------------------------------------------------------------------------
(***************************************************************************)
(* The division of a backoff into units.                                   *)
(***************************************************************************)
LEMMA UnitsOf ==
    ASSUME NEW b \in Nat
    PROVE  b \div Unit \in Nat
<1> QED  BY WsAssumption

LEMMA UnitsGrow ==
    ASSUME NEW b \in Nat, NEW c \in Nat, b <= c
    PROVE  b \div Unit <= c \div Unit
<1> QED  BY WsAssumption

LEMMA Numbers ==
    /\ Unit \in Nat \ {0} /\ MaxBackoff \in Nat \ {0}
    /\ PingInterval \in Nat \ {0} /\ PongTimeout \in Nat \ {0}
    /\ DialTimeout \in Nat \ {0} /\ SendCap \in Nat \ {0}
    /\ MaxBackoff \div Unit \in Nat
    /\ LongestLoss \in Nat
<1>1. MaxBackoff \div Unit \in Nat
  BY WsAssumption, UnitsOf
<1> QED  BY <1>1, WsAssumption DEF LongestLoss

LEMMA ZeroFits ==
    /\ 0 \in 0..DialTimeout + MaxBackoff \div Unit
    /\ 0 \in 0..PingInterval /\ 0 \in 0..SendCap
<1> QED  BY Numbers

(***************************************************************************)
(* What the page's requests are after one of them is back.                 *)
(***************************************************************************)
LEMMA RemovedType ==
    ASSUME NEW S, NEW s \in Seq(S), NEW i \in DOMAIN s
    PROVE  RemoveAt(s, i) \in Seq(S)
<1>1. Len(s) \in Nat /\ i \in 1..Len(s)
  BY LenProperties
<1>2. SubSeq(s, 1, i - 1) \in Seq(S)
  <2>1. \A k \in 1..(i - 1) : s[k] \in S
    BY <1>1, ElementOfSeq
  <2> QED  BY <1>1, <2>1, SubSeqProperties
<1>3. SubSeq(s, i + 1, Len(s)) \in Seq(S)
  <2>1. \A k \in (i + 1)..Len(s) : s[k] \in S
    BY <1>1, ElementOfSeq
  <2> QED  BY <1>1, <2>1, SubSeqProperties
<1> QED  BY <1>2, <1>3, ConcatProperties DEF RemoveAt

-------------------------------------------------------------------------------
(***************************************************************************)
(* The steps of Next, by name.                                             *)
(***************************************************************************)
LEMMA Steps ==
    ASSUME Next, NEW P,
           Connect => P, HelloSent \/ HelloFailed => P, Serving => P,
           DialFailed => P, Redial => P,
           SendPing => P, SendQueued => P, ReaderError => P,
           ReadPong => P, ReadPing => P, ReadJob => P, JobDone => P, ReadFails => P,
           Dashboard => P,
           AnswerPing => P,
           \A frame \in {"ping", "job"} : Push(frame) => P,
           PeerChanges => P, Break => P, Tick => P
    PROVE  P
<1> QED  BY DEF Next, Main, Reader

Frames == {"pong", "ping", "job"}

\* The end of a session, or of a dial, changes sendCh at most by the message
\* that was to be sent.
LEMMA SendPingCases ==
    ASSUME SendPing
    PROVE  \/ /\ phase = "serve" /\ ping = 0 /\ ~broken
              /\ ping' = PingInterval /\ asked' = TRUE
              /\ UNCHANGED <<phase, backoff, connected, reader, sendCh, waited, deadline,
                             peer, broken, inbox, dash, ghost>>
           \/ /\ phase = "serve" /\ Ended /\ UNCHANGED sendCh
<1> QED  BY DEF SendPing

LEMMA SendQueuedCases ==
    ASSUME SendQueued
    PROVE  /\ phase = "serve" /\ sendCh > 0 /\ sendCh' = sendCh - 1
           /\ \/ UNCHANGED <<phase, backoff, connected, reader, time, net, dash, ghost>>
              \/ Ended
<1> QED  BY DEF SendQueued

-------------------------------------------------------------------------------
(***************************************************************************)
(* Types, and what the waits are bounded by: the backoff by its cap, and   *)
(* each wait by the backoff or by the dialer's limit.                      *)
(***************************************************************************)
Waits ==
    /\ backoff \in 1..MaxBackoff
    /\ phase \in {"hello", "fetch", "serve", "dial"} => waited = 0
    /\ phase = "hang" => waited <= DialTimeout
    /\ phase = "wait" => waited <= backoff \div Unit
    /\ phase = "dial" => peer = "well"

Typed == TypeOK /\ Waits

LEMMA BackoffUnits ==
    ASSUME Waits
    PROVE  /\ backoff \div Unit \in Nat
           /\ backoff \div Unit <= MaxBackoff \div Unit
<1>1. backoff \in Nat /\ backoff <= MaxBackoff
  BY Numbers DEF Waits
<1> QED  BY <1>1, Numbers, UnitsOf, UnitsGrow

LEMMA EndedTyped ==
    ASSUME Typed, Ended, sendCh' \in 0..SendCap
    PROVE  Typed'
<1>1. TypeOK'
  <2>1. <<>> \in Seq({"pong", "ping", "job"})
    BY EmptySeq
  <2> QED  BY <2>1, ZeroFits DEF Typed, TypeOK, Ended, dash
<1>2. Waits'
  <2>1. waited' = 0 /\ phase' = "wait" /\ backoff' = backoff
    BY DEF Ended
  <2> QED  BY <2>1, BackoffUnits DEF Typed, Waits
<1> QED  BY <1>1, <1>2 DEF Typed

LEMMA InboxKept ==
    ASSUME TypeOK, NEW frame \in Frames
    PROVE  /\ Append(inbox, frame) \in Seq(Frames)
           /\ inbox # <<>> => Tail(inbox) \in Seq(Frames)
<1>1. inbox \in Seq(Frames)
  BY DEF TypeOK, Frames
<1> QED  BY <1>1, AppendProperties, HeadTailProperties

LEMMA TypedStep ==
    ASSUME Typed, [Next]_vars
    PROVE  Typed'
<1> USE DEF Typed
<1>1. CASE UNCHANGED vars
  BY <1>1 DEF vars, time, net, dash, ghost, TypeOK, Waits
<1>2. CASE Next
  <2>1. ASSUME Connect PROVE Typed'
    <3>1. TypeOK'
      BY <2>1, ZeroFits DEF Connect, TypeOK, net, dash
    <3>2. Waits'
      BY <2>1 DEF Connect, Waits, net
    <3> QED  BY <3>1, <3>2
  <2>2. ASSUME HelloSent \/ HelloFailed PROVE Typed'
    <3>1. CASE HelloSent
      BY <3>1 DEF HelloSent, TypeOK, Waits, time, net, dash, ghost
    <3>2. CASE HelloFailed
      BY <3>2, EndedTyped DEF HelloFailed, TypeOK
    <3> QED  BY <2>2, <3>1, <3>2
  <2>3. ASSUME Serving PROVE Typed'
    BY <2>3, Numbers DEF Serving, TypeOK, Waits, net, dash, ghost
  <2>4. ASSUME DialFailed PROVE Typed'
    BY <2>4, EndedTyped DEF DialFailed, TypeOK
  <2>5. ASSUME Redial PROVE Typed'
    <3>1. Doubled(backoff) \in 1..MaxBackoff
      BY Numbers DEF Doubled, Waits
    <3>2. phase' \in {"dial", "hang"} /\ (phase' = "dial" => peer = "well")
          /\ backoff' = Doubled(backoff) /\ waited' = 0
          /\ UNCHANGED <<connected, reader, sendCh, ping, deadline, net, dash, ghost>>
      BY <2>5 DEF Redial, Dialling
    <3> QED  BY <3>1, <3>2, Numbers DEF TypeOK, Waits, net, dash, ghost
  <2>6. ASSUME SendPing PROVE Typed'
    <3>1. CASE /\ ping' = PingInterval /\ asked' = TRUE
               /\ UNCHANGED <<phase, backoff, connected, reader, sendCh, waited, deadline,
                              peer, broken, inbox, dash, ghost>>
      <4>1. PingInterval \in 0..PingInterval
        BY Numbers
      <4> QED  BY <3>1, <4>1 DEF TypeOK, Waits, dash, ghost
    <3>2. CASE Ended /\ UNCHANGED sendCh
      BY <3>2, EndedTyped DEF TypeOK
    <3> QED  BY <2>6, <3>1, <3>2, SendPingCases
  <2>7. ASSUME SendQueued PROVE Typed'
    <3>1. sendCh' \in 0..SendCap
      BY <2>7, Numbers, SendQueuedCases DEF TypeOK
    <3>2. CASE UNCHANGED <<phase, backoff, connected, reader, time, net, dash, ghost>>
      BY <3>1, <3>2 DEF TypeOK, Waits, time, net, dash, ghost
    <3> QED  BY <2>7, <3>1, <3>2, SendQueuedCases, EndedTyped
  <2>8. ASSUME ReaderError PROVE Typed'
    BY <2>8, EndedTyped DEF ReaderError, TypeOK
  <2>9. ASSUME ReadPong PROVE Typed'
    <3>1. inbox' \in Seq({"pong", "ping", "job"})
      BY <2>9, InboxKept DEF ReadPong, Reads, Frames
    <3> QED  BY <2>9, <3>1, Numbers DEF ReadPong, Reads, PongDeadline, TypeOK, Waits, dash
  <2>10. ASSUME ReadPing PROVE Typed'
    <3>1. inbox' \in Seq({"pong", "ping", "job"})
      BY <2>10, InboxKept DEF ReadPing, Reads, Frames
    <3>2. sendCh' \in 0..SendCap
      BY <2>10, Numbers DEF ReadPing, TypeOK
    <3> QED  BY <2>10, <3>1, <3>2 DEF ReadPing, Reads, TypeOK, Waits, dash
  <2>11. ASSUME ReadJob PROVE Typed'
    <3>1. inbox' \in Seq({"pong", "ping", "job"})
      BY <2>11, InboxKept DEF ReadJob, Reads, Frames
    <3> QED  BY <2>11, <3>1 DEF ReadJob, Reads, TypeOK, Waits, dash
  <2>12. ASSUME JobDone PROVE Typed'
    BY <2>12 DEF JobDone, TypeOK, Waits, time, net, dash
  <2>13. ASSUME ReadFails PROVE Typed'
    BY <2>13 DEF ReadFails, TypeOK, Waits, time, net, dash, ghost
  <2>14. ASSUME Dashboard PROVE Typed'
    <3>1. UNCHANGED Others
      BY <2>14 DEF Dashboard, Poll, ServePoll, PollBack
    <3>2. polls' \in Seq(BOOLEAN \cup {None}) /\ shown' \in BOOLEAN
      <4>1. CASE Poll
        BY <4>1, AppendProperties DEF Poll, TypeOK
      <4>2. ASSUME NEW i \in DOMAIN polls, ServePoll(i)
            PROVE  polls' \in Seq(BOOLEAN \cup {None}) /\ shown' \in BOOLEAN
        <5>1. i \in 1..Len(polls)
          BY LenProperties DEF TypeOK
        <5> QED  BY <4>2, <5>1, ExceptSeq DEF ServePoll, TypeOK
      <4>3. ASSUME NEW i \in DOMAIN polls, PollBack(i)
            PROVE  polls' \in Seq(BOOLEAN \cup {None}) /\ shown' \in BOOLEAN
        <5>1. polls[i] \in BOOLEAN \cup {None}
          BY ElementOfSeq, LenProperties DEF TypeOK
        <5> QED  BY <4>3, <5>1, RemovedType DEF PollBack, TypeOK
      <4> QED  BY <2>14, <4>1, <4>2, <4>3 DEF Dashboard
    <3> QED  BY <3>1, <3>2 DEF Others, TypeOK, Waits, time, net, ghost
  <2>15. ASSUME AnswerPing PROVE Typed'
    <3>1. inbox' \in Seq({"pong", "ping", "job"})
      BY <2>15, InboxKept DEF AnswerPing, Frames, TypeOK
    <3> QED  BY <2>15, <3>1 DEF AnswerPing, TypeOK, Waits, time, dash, ghost
  <2>16. ASSUME NEW frame \in {"ping", "job"}, Push(frame) PROVE Typed'
    <3>1. inbox' \in Seq({"pong", "ping", "job"})
      BY <2>16, InboxKept DEF Push, Frames
    <3> QED  BY <2>16, <3>1 DEF Push, TypeOK, Waits, time, dash, ghost
  <2>17. ASSUME PeerChanges PROVE Typed'
    <3>1. Waits'
      BY <2>17, Numbers DEF PeerChanges, TypeOK, Waits, time
    <3>2. TypeOK'
      BY <2>17 DEF PeerChanges, Online, TypeOK, time, dash
    <3> QED  BY <3>1, <3>2
  <2>18. ASSUME Break PROVE Typed'
    BY <2>18 DEF Break, TypeOK, Waits, time, dash
  <2>19. ASSUME Tick PROVE Typed'
    <3>1. ping' \in 0..PingInterval
      BY <2>19, Numbers DEF Tick, Idle, TypeOK
    <3>2. deadline' \in 0..PongTimeout \cup {None}
      BY <2>19, Numbers, WsAssumption DEF Tick, TypeOK
    <3>3. quiet' \in Nat /\ held' \in Nat /\ offline' \in Nat
      BY <2>19 DEF Tick, Up, TypeOK
    <3>4. /\ phase \in {"hello", "fetch", "serve", "dial"} => waited' = 0
          /\ phase = "hang" => waited' <= DialTimeout
          /\ phase = "wait" => waited' <= backoff \div Unit
      BY <2>19, BackoffUnits, Numbers DEF Tick, Idle, WaitLeft, TypeOK, Waits
    <3>5. waited' \in 0..DialTimeout + MaxBackoff \div Unit
      BY <2>19, <3>4, BackoffUnits, Numbers DEF Tick, TypeOK
    <3>6. UNCHANGED <<phase, backoff, connected, reader, sendCh, net, dash, faulty>>
      BY <2>19 DEF Tick
    <3>7. TypeOK'
      BY <3>1, <3>2, <3>3, <3>5, <3>6 DEF TypeOK, net, dash
    <3>8. Waits'
      BY <3>4, <3>6 DEF Waits, net
    <3> QED  BY <3>7, <3>8
  <2> HIDE DEF Typed
  <2> QED  BY <1>2, <2>1, <2>2, <2>3, <2>4, <2>5, <2>6, <2>7, <2>8, <2>9, <2>10, <2>11,
              <2>12, <2>13, <2>14, <2>15, <2>16, <2>17, <2>18, <2>19, Steps
<1> QED  BY <1>1, <1>2

LEMMA InitTyped == Init => Typed
<1> SUFFICES ASSUME Init PROVE Typed
  OBVIOUS
<1>1. <<>> \in Seq({"pong", "ping", "job"}) /\ <<>> \in Seq(BOOLEAN \cup {None})
  BY EmptySeq
<1>2. backoff \in Nat /\ backoff \in 1..MaxBackoff
  BY Numbers DEF Init
<1>3. phase = Dialling /\ Dialling \in {"dial", "hang"} /\ waited = 0 /\ waited <= DialTimeout
      /\ (phase = "dial" => peer = "well")
  BY Numbers DEF Init, Dialling
<1>4. Waits
  BY <1>2, <1>3 DEF Waits
<1>5. TypeOK
  BY <1>1, <1>2, <1>3, ZeroFits DEF Init, TypeOK
<1> QED  BY <1>4, <1>5 DEF Typed

LEMMA AlwaysTyped == Spec => []Typed
<1> QED  BY InitTyped, TypedStep, PTL DEF Spec

(***************************************************************************)
(* The types of the state: sendCh never exceeds its capacity, and no wait  *)
(* is longer than the cap of the backoff and the limit of a dial           *)
(* (agent.go:36, 67-83, 175-181).                                          *)
(***************************************************************************)
THEOREM Typing == Spec => []TypeOK
<1>1. Typed => TypeOK
  BY DEF Typed
<1> QED  BY <1>1, AlwaysTyped, PTL

-------------------------------------------------------------------------------
(***************************************************************************)
(* Silence.  There is a reader, and a deadline, only while the session is  *)
(* served; and while the reader waits, the time since it last read and the *)
(* time it still has make no more than the pong timeout: Tick takes from   *)
(* one what it adds to the other, and stops when a deadline is due.        *)
(***************************************************************************)
Sessions ==
    /\ phase # "serve" => reader = "none" /\ deadline = None
    /\ phase = "serve" => reader # "none"

Quiets == reader = "reading" /\ deadline # None => quiet + deadline <= PongTimeout

Silence == Sessions /\ Quiets

LEMMA EndedSilence ==
    ASSUME Ended
    PROVE  Silence'
<1> QED  BY DEF Ended, Silence, Sessions, Quiets

LEMMA SilenceStep ==
    ASSUME Typed, Silence, [Next]_vars
    PROVE  Silence'
<1> USE DEF Silence
<1>1. CASE UNCHANGED <<phase, reader, deadline, quiet>>
  BY <1>1 DEF Sessions, Quiets
<1>2. CASE Next
  <2>1. ASSUME Connect PROVE Silence'
    BY <2>1 DEF Connect, Sessions, Quiets
  <2>2. ASSUME HelloSent \/ HelloFailed PROVE Silence'
    BY <2>2, EndedSilence DEF HelloSent, HelloFailed, Sessions, Quiets, time, ghost
  <2>3. ASSUME Serving PROVE Silence'
    BY <2>3 DEF Serving, Sessions, Quiets
  <2>4. ASSUME DialFailed \/ ReaderError PROVE Silence'
    BY <2>4, EndedSilence DEF DialFailed, ReaderError
  <2>5. ASSUME Redial PROVE Silence'
    BY <2>5 DEF Redial, Dialling, Sessions, Quiets, ghost
  <2>6. ASSUME SendPing PROVE Silence'
    BY <2>6, <1>1, SendPingCases, EndedSilence DEF ghost
  <2>7. ASSUME SendQueued PROVE Silence'
    BY <2>7, <1>1, SendQueuedCases, EndedSilence DEF time, ghost
  <2>8. ASSUME ReadPong PROVE Silence'
    BY <2>8, Numbers DEF ReadPong, Reads, PongDeadline, Sessions, Quiets
  <2>9. ASSUME ReadPing \/ ReadJob PROVE Silence'
    <3>1. deadline # None => deadline \in 0..PongTimeout
      BY DEF Typed, TypeOK
    <3> QED  BY <2>9, <3>1, Numbers DEF ReadPing, ReadJob, Reads, Sessions, Quiets
  <2>10. ASSUME JobDone PROVE Silence'
    <3>1. deadline # None => deadline \in 0..PongTimeout
      BY DEF Typed, TypeOK
    <3> QED  BY <2>10, <3>1, Numbers DEF JobDone, Sessions, Quiets, time
  <2>11. ASSUME ReadFails PROVE Silence'
    BY <2>11 DEF ReadFails, Sessions, Quiets, time, ghost
  <2>12. ASSUME Dashboard PROVE Silence'
    <3>1. UNCHANGED Others
      BY <2>12 DEF Dashboard, Poll, ServePoll, PollBack
    <3> QED  BY <3>1, <1>1 DEF Others, time, ghost
  <2>13. ASSUME AnswerPing \/ Break PROVE Silence'
    BY <2>13, <1>1 DEF AnswerPing, Break, time, ghost
  <2>14. ASSUME NEW frame \in {"ping", "job"}, Push(frame) PROVE Silence'
    BY <2>14, <1>1 DEF Push, time, ghost
  <2>15. ASSUME PeerChanges PROVE Silence'
    BY <2>15 DEF PeerChanges, Sessions, Quiets, time
  <2>16. ASSUME Tick PROVE Silence'
    <3>1. deadline \in 0..PongTimeout \cup {None} /\ quiet \in Nat /\ None \notin Nat
      BY WsAssumption DEF Typed, TypeOK
    <3>2. UNCHANGED <<phase, reader>>
      BY <2>16 DEF Tick
    <3>3. deadline = None => deadline' = None
      BY <2>16 DEF Tick
    <3>4. Sessions'
      BY <3>2, <3>3 DEF Sessions
    <3>5. ASSUME reader' = "reading", deadline' # None
          PROVE  quiet' + deadline' <= PongTimeout
      <4>1. reader = "reading" /\ phase = "serve" /\ deadline # None
        BY <3>2, <3>3, <3>5 DEF Sessions
      <4>2. deadline # 0
        BY <2>16, <4>1 DEF Tick, Idle
      <4>3. deadline' = deadline - 1 /\ quiet' = Up(quiet, PongTimeout + 1)
        BY <2>16, <4>1, <4>2 DEF Tick
      <4>4. quiet' <= quiet + 1 /\ quiet' \in Nat
        BY <3>1, <4>3, Numbers DEF Up
      <4>5. quiet + deadline <= PongTimeout /\ deadline \in Nat
        BY <3>1, <4>1 DEF Quiets
      <4> QED  BY <3>1, <4>3, <4>4, <4>5, Numbers
    <3> QED  BY <3>4, <3>5 DEF Quiets
  <2> HIDE DEF Silence
  <2> QED  BY <1>2, <2>1, <2>2, <2>3, <2>4, <2>5, <2>6, <2>7, <2>8, <2>9, <2>10, <2>11,
              <2>12, <2>13, <2>14, <2>15, <2>16, Steps
<1> QED  BY <1>1, <1>2 DEF vars, time, ghost

LEMMA InitSilence == Init => Silence
<1> QED  BY DEF Init, Dialling, Silence, Sessions, Quiets

LEMMA AlwaysSilence == Spec => []Silence
<1> QED  BY InitSilence, SilenceStep, AlwaysTyped, PTL DEF Spec

(***************************************************************************)
(* Once a pong has come, a peer that falls silent is noticed in time: the  *)
(* reader, unless it is held up by a job, never waits longer for a frame   *)
(* than the pong timeout (websocket.go:17-21, 62-64, 71-75).               *)
(***************************************************************************)
THEOREM NoticedInTime == Spec => []SilenceNoticed
<1>1. Typed /\ Silence => SilenceNoticed
  <2> SUFFICES ASSUME Typed, Silence, deadline # None, reader = "reading"
               PROVE  quiet <= PongTimeout
    BY DEF SilenceNoticed
  <2>1. deadline \in 0..PongTimeout /\ quiet \in Nat
    BY DEF Typed, TypeOK
  <2>2. quiet + deadline <= PongTimeout
    BY DEF Silence, Quiets
  <2> QED  BY <2>1, <2>2, Numbers
<1> QED  BY <1>1, AlwaysTyped, AlwaysSilence, PTL

-------------------------------------------------------------------------------
(***************************************************************************)
(* Health.  faulty remembers every fault of a session; without one the     *)
(* connection is whole and the peer answers.                               *)
(***************************************************************************)
Health ==
    /\ connected <=> Online
    /\ ~Online => ~broken
    /\ Online /\ ~faulty => ~broken /\ peer = "well"

LEMMA EndedHealth ==
    ASSUME Ended
    PROVE  Health'
<1> QED  BY DEF Ended, Health, Online

LEMMA HealthStep ==
    ASSUME Typed, Health, [Next]_vars
    PROVE  Health'
<1>1. CASE UNCHANGED <<phase, connected, peer, broken, faulty>>
  BY <1>1 DEF Health, Online
<1>2. CASE Next
  <2>1. ASSUME Connect PROVE Health'
    BY <2>1 DEF Connect, Health, Online, net
  <2>2. ASSUME HelloSent \/ HelloFailed PROVE Health'
    BY <2>2, EndedHealth DEF HelloSent, HelloFailed, Health, Online, net, ghost
  <2>3. ASSUME Serving PROVE Health'
    BY <2>3 DEF Serving, Health, Online, net, ghost
  <2>4. ASSUME DialFailed \/ ReaderError PROVE Health'
    BY <2>4, EndedHealth DEF DialFailed, ReaderError
  <2>5. ASSUME Redial PROVE Health'
    BY <2>5 DEF Redial, Dialling, Health, Online, net, ghost
  <2>6. ASSUME SendPing PROVE Health'
    BY <2>6, <1>1, SendPingCases, EndedHealth DEF ghost
  <2>7. ASSUME SendQueued PROVE Health'
    BY <2>7, <1>1, SendQueuedCases, EndedHealth DEF net, ghost
  <2>8. ASSUME ReadPong \/ ReadPing \/ ReadJob PROVE Health'
    BY <2>8, <1>1 DEF ReadPong, ReadPing, ReadJob, Reads
  <2>9. ASSUME JobDone \/ ReadFails PROVE Health'
    BY <2>9, <1>1 DEF JobDone, ReadFails, net, ghost
  <2>10. ASSUME Dashboard PROVE Health'
    <3>1. UNCHANGED Others
      BY <2>10 DEF Dashboard, Poll, ServePoll, PollBack
    <3> QED  BY <3>1, <1>1 DEF Others, net, ghost
  <2>11. ASSUME AnswerPing PROVE Health'
    BY <2>11, <1>1 DEF AnswerPing, ghost
  <2>12. ASSUME NEW frame \in {"ping", "job"}, Push(frame) PROVE Health'
    BY <2>12, <1>1 DEF Push, ghost
  <2>13. ASSUME PeerChanges PROVE Health'
    BY <2>13 DEF PeerChanges, Health, Online
  <2>14. ASSUME Break PROVE Health'
    BY <2>14 DEF Break, Health, Online
  <2>15. ASSUME Tick PROVE Health'
    BY <2>15, <1>1 DEF Tick, net
  <2> QED  BY <1>2, <2>1, <2>2, <2>3, <2>4, <2>5, <2>6, <2>7, <2>8, <2>9, <2>10, <2>11,
              <2>12, <2>13, <2>14, <2>15, Steps
<1> QED  BY <1>1, <1>2 DEF vars, net, ghost

LEMMA InitHealth == Init => Health
<1> QED  BY DEF Init, Dialling, Health, Online

LEMMA AlwaysHealth == Spec => []Health
<1> QED  BY InitHealth, HealthStep, AlwaysTyped, PTL DEF Spec

-------------------------------------------------------------------------------
(***************************************************************************)
(* How much of a deadline is gone.  Without a fault the peer answers a     *)
(* ping before time passes: so if no pong is due, less of the deadline has *)
(* gone than of the ping interval; and if one is, time passes only while   *)
(* a job keeps the reader from it.                                         *)
(***************************************************************************)
PongThere == \E i \in DOMAIN inbox : inbox[i] = "pong"
Due == asked \/ PongThere

Gone == PongTimeout - deadline

Pinged ==
    phase = "serve" /\ ~faulty /\ deadline # None =>
        /\ Gone <= PingInterval + held
        /\ ~Due => Gone <= PingInterval - ping

Answered == Pinged /\ HealthyKept

LEMMA PongStays ==
    ASSUME TypeOK, PongThere,
           \/ \E frame \in Frames : inbox' = Append(inbox, frame)
           \/ inbox # <<>> /\ Head(inbox) # "pong" /\ inbox' = Tail(inbox)
    PROVE  PongThere'
<1>1. inbox \in Seq(Frames)
  BY DEF TypeOK, Frames
<1>2. PICK i \in DOMAIN inbox : inbox[i] = "pong"
  BY DEF PongThere
<1>3. i \in 1..Len(inbox) /\ Len(inbox) \in Nat
  BY <1>1, <1>2, LenProperties
<1>4. ASSUME NEW frame \in Frames, inbox' = Append(inbox, frame) PROVE PongThere'
  <2>1. inbox' \in Seq(Frames) /\ Len(inbox') = Len(inbox) + 1 /\ inbox'[i] = inbox[i]
    BY <1>1, <1>3, <1>4, AppendProperties
  <2>2. i \in DOMAIN inbox'
    BY <1>3, <2>1, LenProperties
  <2> QED  BY <1>2, <2>1, <2>2 DEF PongThere
<1>5. ASSUME inbox # <<>>, Head(inbox) # "pong", inbox' = Tail(inbox) PROVE PongThere'
  <2>1. inbox' \in Seq(Frames) /\ Len(inbox') = Len(inbox) - 1
        /\ \A k \in 1..Len(inbox') : inbox'[k] = inbox[k + 1]
    BY <1>1, <1>5, HeadTailProperties
  <2>2. Head(inbox) = inbox[1]
    BY <1>5
  <2>3. i # 1
    BY <1>2, <1>5, <2>2
  <2>4. i - 1 \in 1..Len(inbox') /\ (i - 1) + 1 = i
    BY <1>3, <2>1, <2>3
  <2>5. i - 1 \in DOMAIN inbox'
    BY <2>1, <2>4, LenProperties
  <2> QED  BY <1>2, <2>1, <2>4, <2>5 DEF PongThere
<1> QED  BY <1>4, <1>5

LEMMA AnswerIsThere ==
    ASSUME TypeOK, AnswerPing
    PROVE  PongThere'
<1>1. inbox \in Seq(Frames)
  BY DEF TypeOK, Frames
<1>2. CASE inbox' = Append(inbox, "pong")
  <2>1. inbox' \in Seq(Frames) /\ Len(inbox') = Len(inbox) + 1
        /\ inbox'[Len(inbox) + 1] = "pong"
    BY <1>1, <1>2, AppendProperties DEF Frames
  <2>2. Len(inbox) + 1 \in DOMAIN inbox'
    BY <1>1, <2>1, LenProperties
  <2> QED  BY <2>1, <2>2 DEF PongThere
<1>3. CASE inbox' # Append(inbox, "pong")
  <2>1. inbox' = inbox /\ Pongs * PingInterval > PongTimeout
    BY <1>3 DEF AnswerPing
  <2>2. ASSUME ~PongThere PROVE FALSE
    <3>1. {i \in DOMAIN inbox : inbox[i] = "pong"} = {}
      BY <2>2 DEF PongThere
    <3>2. Pongs = 0
      BY <3>1, FS_EmptySet DEF Pongs
    <3>3. Pongs * PingInterval = 0
      BY <3>2, Numbers
    <3> QED  BY <2>1, <3>3, Numbers
  <2> QED  BY <2>1, <2>2 DEF PongThere
<1> QED  BY <1>2, <1>3

LEMMA EndedAnswered ==
    ASSUME Ended
    PROVE  Answered'
<1> QED  BY DEF Ended, Answered, Pinged, HealthyKept

\* A step that leaves the deadline and the clocks alone, and no pong behind.
LEMMA DueAnswered ==
    ASSUME Answered, Due => Due',
           UNCHANGED <<phase, ping, deadline, held>>,
           faulty => faulty', reader' = "failed" => reader = "failed"
    PROVE  Answered'
<1> QED  BY DEF Answered, Pinged, HealthyKept, Gone

LEMMA TickAnswered ==
    ASSUME Typed, Sessions, Health, Answered, Tick
    PROVE  Answered'
<1>1. UNCHANGED <<phase, connected, reader, net, faulty>>
  BY DEF Tick
<1>2. UNCHANGED Due
  BY <1>1 DEF Due, PongThere, net
<1>3. HealthyKept'
  BY <1>1 DEF Answered, HealthyKept, Tick, Idle, Sessions
<1>4. ASSUME phase = "serve", ~faulty, deadline' # None
      PROVE  /\ Gone' <= PingInterval + held'
             /\ ~Due => Gone' <= PingInterval - ping'
  <2>1. deadline # None
    BY <1>4 DEF Tick
  <2>2. deadline \in 0..PongTimeout /\ ping \in 0..PingInterval /\ held \in Nat
    BY <2>1 DEF Typed, TypeOK
  <2>3. Gone <= PingInterval + held /\ (~Due => Gone <= PingInterval - ping)
    BY <1>4, <2>1 DEF Answered, Pinged
  <2>4. ping > 0 /\ ping' = ping - 1 /\ reader # "failed" /\ reader # "none"
    BY <1>4 DEF Tick, Idle, Sessions
  <2>5. ~asked
    BY <1>4 DEF Health, Online, Tick, Idle
  <2>6. /\ deadline' = IF deadline = 0 THEN 0 ELSE deadline - 1
    BY <2>1 DEF Tick
  <2>7. held' = IF reader = "busy" THEN Up(held, PongTimeout - PingInterval) ELSE held
    BY DEF Tick
  <2>8. held' \in Nat /\ held <= held' /\ ping' \in Nat
    BY <2>2, <2>4, <2>7 DEF Up
  <2>9. CASE ~Due
    <3>1. Gone' <= PingInterval - ping'
      BY <2>2, <2>3, <2>4, <2>6, <2>9, Numbers, WsAssumption DEF Gone
    <3>2. Gone' \in Int
      BY <2>2, <2>6, Numbers DEF Gone
    <3>3. PingInterval \in Nat
      BY Numbers
    <3>4. held' \in Nat /\ ping' \in Nat
      BY <2>8
    <3>5. \A g \in Int, n, p, h \in Nat : g <= n - p => g <= n + h
      OBVIOUS
    <3>6. Gone' <= PingInterval + held'
      BY <3>1, <3>2, <3>3, <3>4, <3>5
    <3> QED  BY <3>1, <3>6
  <2>10. CASE Due
    <3>1. inbox # <<>>
      <4>1. PICK i \in DOMAIN inbox : inbox[i] = "pong"
        BY <2>5, <2>10 DEF Due, PongThere
      <4> QED  BY <4>1
    <3>2. reader # "reading"
      BY <1>4, <3>1 DEF Tick, Idle
    <3>3. reader = "busy"
      BY <2>4, <3>2 DEF Typed, TypeOK
    <3>4. CASE held < PongTimeout - PingInterval
      <4>1. held' = held + 1
        BY <2>7, <3>3, <3>4 DEF Up
      <4>2. Gone' <= Gone + 1
        BY <2>2, <2>6, Numbers DEF Gone
      <4>3. Gone \in Int /\ Gone' \in Int
        BY <2>2, <2>6, Numbers DEF Gone
      <4> QED  BY <2>2, <2>3, <2>10, <4>1, <4>2, <4>3, Numbers
    <3>5. CASE ~(held < PongTimeout - PingInterval)
      <4>1. held' = held
        BY <2>7, <3>3, <3>5 DEF Up
      <4>2. Gone' <= PongTimeout /\ Gone' \in Int
        BY <2>2, <2>6, Numbers DEF Gone
      <4> QED  BY <2>2, <2>10, <3>5, <4>1, <4>2, Numbers
    <3> QED  BY <3>4, <3>5
  <2> QED  BY <2>9, <2>10
<1>5. Pinged'
  BY <1>1, <1>2, <1>4 DEF Pinged
<1> QED  BY <1>3, <1>5 DEF Answered

LEMMA AnsweredStep ==
    ASSUME Typed, Sessions, Health, Answered, [Next]_vars
    PROVE  Answered'
<1> DEFINE same == UNCHANGED <<phase, ping, deadline, held, faulty, reader>>
<1>1. ASSUME same, UNCHANGED <<asked, inbox>> PROVE Answered'
  <2>1. UNCHANGED Due
    BY <1>1 DEF Due, PongThere
  <2> QED  BY <1>1, <2>1, DueAnswered
<1>2. CASE Next
  <2>1. ASSUME Connect PROVE Answered'
    BY <2>1 DEF Connect, Answered, Pinged, HealthyKept
  <2>2. ASSUME HelloSent \/ HelloFailed PROVE Answered'
    <3>1. CASE HelloSent
      BY <3>1 DEF HelloSent, Answered, Pinged, HealthyKept, ghost
    <3> QED  BY <2>2, <3>1, EndedAnswered DEF HelloFailed
  <2>3. ASSUME Serving PROVE Answered'
    BY <2>3 DEF Serving, Sessions, Answered, Pinged, HealthyKept
  <2>4. ASSUME DialFailed \/ ReaderError PROVE Answered'
    BY <2>4, EndedAnswered DEF DialFailed, ReaderError
  <2>5. ASSUME Redial PROVE Answered'
    BY <2>5 DEF Redial, Dialling, Answered, Pinged, HealthyKept, ghost
  <2>6. ASSUME SendPing PROVE Answered'
    <3>1. CASE /\ phase = "serve" /\ ping = 0
               /\ ping' = PingInterval /\ asked' = TRUE
               /\ UNCHANGED <<phase, reader, deadline, inbox, ghost>>
      <4>1. Due'
        BY <3>1 DEF Due
      <4> QED  BY <3>1, <4>1 DEF Answered, Pinged, HealthyKept, Gone, ghost
    <3> QED  BY <2>6, <3>1, SendPingCases, EndedAnswered
  <2>7. ASSUME SendQueued PROVE Answered'
    BY <2>7, <1>1, SendQueuedCases, EndedAnswered DEF time, net, ghost
  <2>8. ASSUME ReadPong PROVE Answered'
    <3>1. deadline' = PongTimeout /\ held' = 0 /\ ping' = ping /\ reader' = "reading"
      BY <2>8 DEF ReadPong, Reads, PongDeadline
    <3>2. ping \in 0..PingInterval
      BY DEF Typed, TypeOK
    <3>3. Gone' = 0
      BY <3>1, Numbers DEF Gone
    <3> QED  BY <3>1, <3>2, <3>3, Numbers DEF Answered, Pinged, HealthyKept
  <2>9. ASSUME ReadPing \/ ReadJob PROVE Answered'
    <3>1. inbox # <<>> /\ Head(inbox) # "pong" /\ inbox' = Tail(inbox) /\ asked' = asked
      BY <2>9 DEF ReadPing, ReadJob, Reads
    <3>2. Due => Due'
      BY <3>1, PongStays DEF Due, Typed
    <3> QED  BY <2>9, <3>2, DueAnswered DEF ReadPing, ReadJob, Reads
  <2>10. ASSUME JobDone PROVE Answered'
    <3>1. UNCHANGED Due
      BY <2>10 DEF JobDone, Due, PongThere, net
    <3> QED  BY <2>10, <3>1, DueAnswered DEF JobDone, time
  <2>11. ASSUME ReadFails PROVE Answered'
    <3>1. UNCHANGED <<phase, deadline, ping, held, faulty, asked, inbox>> /\ reader = "reading"
      BY <2>11 DEF ReadFails, time, net, ghost
    <3>2. UNCHANGED Due
      BY <3>1 DEF Due, PongThere
    <3>3. Pinged'
      BY <3>1, <3>2 DEF Answered, Pinged, Gone
    <3>4. ASSUME ~faulty PROVE held >= PongTimeout - PingInterval
      <4>1. phase = "serve"
        BY <3>1 DEF Sessions
      <4>2. ~broken
        BY <3>4, <4>1 DEF Health, Online
      <4>3. deadline = 0
        BY <2>11, <4>2 DEF ReadFails
      <4>4. Gone <= PingInterval + held
        BY <3>4, <4>1, <4>3, WsAssumption DEF Answered, Pinged
      <4>5. held \in Nat
        BY DEF Typed, TypeOK
      <4> QED  BY <4>3, <4>4, <4>5, Numbers DEF Gone
    <3> QED  BY <3>1, <3>3, <3>4 DEF Answered, HealthyKept
  <2>12. ASSUME Dashboard PROVE Answered'
    <3>1. UNCHANGED Others
      BY <2>12 DEF Dashboard, Poll, ServePoll, PollBack
    <3> QED  BY <3>1, <1>1 DEF Others, time, net, ghost
  <2>13. ASSUME AnswerPing PROVE Answered'
    <3>1. Due'
      BY <2>13, AnswerIsThere DEF Due, Typed
    <3> QED  BY <2>13, <3>1, DueAnswered DEF AnswerPing, time, ghost
  <2>14. ASSUME NEW frame \in {"ping", "job"}, Push(frame) PROVE Answered'
    <3>1. inbox' = Append(inbox, frame) /\ asked' = asked /\ frame \in Frames
      BY <2>14 DEF Push, Frames
    <3>2. Due => Due'
      BY <3>1, PongStays DEF Due, Typed
    <3> QED  BY <2>14, <3>2, DueAnswered DEF Push, time, ghost
  <2>15. ASSUME PeerChanges PROVE Answered'
    BY <2>15 DEF PeerChanges, Sessions, Online, Answered, Pinged, HealthyKept
  <2>16. ASSUME Break PROVE Answered'
    BY <2>16 DEF Break, Answered, Pinged, HealthyKept
  <2>17. ASSUME Tick PROVE Answered'
    BY <2>17, TickAnswered
  <2> QED  BY <1>2, <2>1, <2>2, <2>3, <2>4, <2>5, <2>6, <2>7, <2>8, <2>9, <2>10, <2>11,
              <2>12, <2>13, <2>14, <2>15, <2>16, <2>17, Steps
<1> QED  BY <1>1, <1>2 DEF vars, time, net, ghost

LEMMA InitAnswered == Init => Answered
<1> QED  BY DEF Init, Answered, Pinged, HealthyKept

LEMMA AlwaysAnswered == Spec => []Answered
<1>1. Silence => Sessions
  BY DEF Silence
<1> QED  BY <1>1, InitAnswered, AnsweredStep, AlwaysTyped, AlwaysSilence, AlwaysHealth, PTL
         DEF Spec

(***************************************************************************)
(* A session whose peer answers is not given up, unless jobs have held up  *)
(* the reader between two pongs for as long as the pong timeout exceeds    *)
(* the ping interval (websocket.go:17-21, 62-64, 83-85, 113-117).          *)
(***************************************************************************)
THEOREM HealthySessionsKept == Spec => []HealthyKept
<1>1. Answered => HealthyKept
  BY DEF Answered
<1> QED  BY <1>1, AlwaysAnswered, PTL

-------------------------------------------------------------------------------
(***************************************************************************)
(* Back in time.  The peer can only have been back for as long as the      *)
(* phase has lasted: a dial that hangs lasts no longer than the dialer's   *)
(* limit, the wait after it no longer than the backoff, and the next dial  *)
(* finds the peer.                                                         *)
(***************************************************************************)
Offlines ==
    /\ peer = "silent" \/ connected => offline = 0
    /\ phase = "hang" => offline <= waited
    /\ phase = "wait" => offline <= DialTimeout + waited
    /\ phase = "dial" => offline <= LongestLoss

LEMMA EndedOfflines ==
    ASSUME Typed, Health, Offlines, Ended, phase # "wait", phase # "dial"
    PROVE  Offlines'
<1>1. phase' = "wait" /\ waited' = 0 /\ connected' = FALSE /\ offline' = offline /\ peer' = peer
  BY DEF Ended
<1>2. offline <= DialTimeout
  <2>1. CASE phase = "hang"
    <3>1. offline <= waited /\ waited <= DialTimeout /\ waited \in Int /\ offline \in Nat
      BY <2>1, Numbers DEF Offlines, Typed, TypeOK, Waits
    <3> QED  BY <3>1, Numbers
  <2>2. CASE phase # "hang"
    <3>1. Online
      BY <2>2 DEF Online, Typed, TypeOK
    <3>2. offline = 0
      BY <3>1 DEF Health, Offlines
    <3> QED  BY <3>2, Numbers
  <2> QED  BY <2>1, <2>2
<1> QED  BY <1>1, <1>2, Numbers DEF Offlines, Typed, TypeOK

LEMMA OfflinesStep ==
    ASSUME Typed, Health, Offlines, [Next]_vars
    PROVE  Offlines'
<1>1. CASE UNCHANGED <<phase, waited, connected, peer, offline>>
  BY <1>1 DEF Offlines
<1>2. CASE Next
  <2>1. ASSUME Connect PROVE Offlines'
    BY <2>1 DEF Connect, Offlines
  <2>2. ASSUME HelloSent \/ HelloFailed PROVE Offlines'
    BY <2>2, EndedOfflines DEF HelloSent, HelloFailed, Offlines, time, net, ghost
  <2>3. ASSUME Serving PROVE Offlines'
    BY <2>3 DEF Serving, Offlines, net, ghost
  <2>4. ASSUME DialFailed \/ ReaderError PROVE Offlines'
    BY <2>4, EndedOfflines DEF DialFailed, ReaderError
  <2>5. ASSUME Redial PROVE Offlines'
    <3>1. /\ phase = "wait" /\ ~(waited < backoff \div Unit)
          /\ phase' = Dialling /\ waited' = 0
          /\ UNCHANGED <<connected, peer, offline>>
      BY <2>5 DEF Redial, WaitLeft, net, ghost
    <3>2. offline <= LongestLoss
      <4>1. waited <= backoff \div Unit /\ backoff \div Unit <= MaxBackoff \div Unit
            /\ backoff \div Unit \in Nat
        BY <3>1, BackoffUnits DEF Typed, Waits
      <4>2. waited \in Int /\ offline \in Nat /\ offline <= DialTimeout + waited
        BY <3>1, Numbers DEF Offlines, Typed, TypeOK
      <4> QED  BY <4>1, <4>2, Numbers DEF LongestLoss
    <3> QED  BY <3>1, <3>2, Numbers DEF Dialling, Offlines, Typed, TypeOK
  <2>6. ASSUME SendPing PROVE Offlines'
    BY <2>6, <1>1, SendPingCases, EndedOfflines DEF ghost
  <2>7. ASSUME SendQueued PROVE Offlines'
    BY <2>7, <1>1, SendQueuedCases, EndedOfflines DEF time, net, ghost
  <2>8. ASSUME ReadPong \/ ReadPing \/ ReadJob PROVE Offlines'
    BY <2>8, <1>1 DEF ReadPong, ReadPing, ReadJob, Reads
  <2>9. ASSUME JobDone \/ ReadFails PROVE Offlines'
    BY <2>9, <1>1 DEF JobDone, ReadFails, time, net, ghost
  <2>10. ASSUME Dashboard PROVE Offlines'
    <3>1. UNCHANGED Others
      BY <2>10 DEF Dashboard, Poll, ServePoll, PollBack
    <3> QED  BY <3>1, <1>1 DEF Others, time, net, ghost
  <2>11. ASSUME AnswerPing PROVE Offlines'
    BY <2>11, <1>1 DEF AnswerPing, time, ghost
  <2>12. ASSUME NEW frame \in {"ping", "job"}, Push(frame) PROVE Offlines'
    BY <2>12, <1>1 DEF Push, time, ghost
  <2>13. ASSUME PeerChanges PROVE Offlines'
    <3>1. waited \in Nat /\ waited' = waited /\ offline' = 0
      BY <2>13, Numbers DEF PeerChanges, time, Typed, TypeOK
    <3>2. phase' # "dial"
      BY <2>13 DEF PeerChanges
    <3> QED  BY <3>1, <3>2, Numbers DEF Offlines
  <2>14. ASSUME Break PROVE Offlines'
    BY <2>14, <1>1 DEF Break, time
  <2>15. ASSUME Tick PROVE Offlines'
    <3>1. UNCHANGED <<phase, connected, peer>> /\ phase # "dial"
      BY <2>15 DEF Tick, Idle, net
    <3>2. waited \in Nat /\ offline \in Nat
      BY Numbers DEF Typed, TypeOK
    <3>3. offline' = IF peer = "well" /\ ~connected THEN Up(offline, LongestLoss + 1) ELSE 0
      BY <2>15 DEF Tick
    <3>4. peer = "silent" \/ connected => offline' = 0
      BY <3>3
    <3>5. offline' = 0 \/ offline' <= offline + 1
      BY <3>2, <3>3 DEF Up
    <3>6. phase \in {"hang", "wait"} => waited' = waited + 1
      BY <2>15 DEF Tick
    <3>7. offline' \in Nat
      BY <3>2, <3>3 DEF Up
    <3> QED  BY <3>1, <3>2, <3>4, <3>5, <3>6, <3>7, Numbers DEF Offlines
  <2> QED  BY <1>2, <2>1, <2>2, <2>3, <2>4, <2>5, <2>6, <2>7, <2>8, <2>9, <2>10, <2>11,
              <2>12, <2>13, <2>14, <2>15, Steps
<1> QED  BY <1>1, <1>2 DEF vars, time, net, ghost

LEMMA InitOfflines == Init => Offlines
<1> QED  BY Numbers DEF Init, Dialling, Offlines

LEMMA AlwaysOfflines == Spec => []Offlines
<1> QED  BY InitOfflines, OfflinesStep, AlwaysTyped, AlwaysHealth, PTL DEF Spec

(***************************************************************************)
(* However often and however long the connection was lost, an agent whose  *)
(* backend is there again is connected within the time limit of a dial and *)
(* the longest backoff (agent.go:42-76, websocket.go:37).                  *)
(***************************************************************************)
THEOREM BackInTime == Spec => []ReconnectsInTime
<1>1. Typed /\ Health /\ Offlines => ReconnectsInTime
  <2> SUFFICES ASSUME Typed, Health, Offlines PROVE offline <= LongestLoss
    BY DEF ReconnectsInTime
  <2>1. /\ waited \in Nat /\ offline \in Nat
        /\ waited <= DialTimeout + MaxBackoff \div Unit
    BY Numbers DEF Typed, TypeOK
  <2>2. CASE phase = "hang"
    BY <2>1, <2>2, Numbers DEF Offlines, LongestLoss
  <2>3. CASE phase = "wait"
    <3>1. waited <= backoff \div Unit /\ offline <= DialTimeout + waited
      BY <2>3 DEF Typed, Waits, Offlines
    <3>2. backoff \div Unit <= MaxBackoff \div Unit /\ backoff \div Unit \in Nat
      BY BackoffUnits DEF Typed
    <3> QED  BY <2>1, <3>1, <3>2, Numbers DEF LongestLoss
  <2>4. CASE phase = "dial"
    BY <2>4 DEF Offlines
  <2>5. CASE Online
    BY <2>5, Numbers DEF Health, Offlines
  <2> QED  BY <2>2, <2>3, <2>4, <2>5 DEF Typed, TypeOK, Online
<1> QED  BY <1>1, AlwaysTyped, AlwaysHealth, AlwaysOfflines, PTL
===============================================================================
