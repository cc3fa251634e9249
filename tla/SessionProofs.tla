---------------------------- MODULE SessionProofs ----------------------------
(***************************************************************************)
(* A timely client closes its session before its proof runs out, and the   *)
(* lease outlives the session, for every TTL and any number of streams.    *)
(***************************************************************************)
EXTENDS Session, TLAPS

(***************************************************************************)
(* How long Start and the opening of a stream may take.  Nothing in the    *)
(* code enforces either bound.                                             *)
(***************************************************************************)
Slack == Larger(StartDelay, OpenDelay)

Timely ==
  /\ Slack + 2 * Interval + OpenDelay < TTL
  /\ GiveUp + MinAttempt + OpenDelay < TTL

Attempting == {"discover", "opening", "exchange"}

(***************************************************************************)
(* When the loop must have moved on, counted from its last proof.          *)
(***************************************************************************)
TimeInv ==
  /\ confirmedAt <= now
  /\ pc \in {"new", "creating"} => leaseID = 0
  /\ pc = "over" => leaseID = 0 \/ Done
  /\ pc \in {"creating", "connecting"} =>
       now <= until /\ until = confirmedAt + StartDelay
  /\ pc = "ticker" =>
       /\ until = tickAt
       /\ now <= confirmedAt + Slack + Interval
       /\ tickAt <= confirmedAt + Slack + Interval
  /\ pc = "backoff" => now <= until /\ until <= confirmedAt + GiveUp
  /\ pc \in Attempting \cup {"backoff"} => sentAt <= now /\ tickAt <= sentAt + Interval
  /\ pc \in Attempting =>
       /\ by <= sentAt + Interval
       /\ \/ by <= confirmedAt + Slack + 2 * Interval
          \/ by <= confirmedAt + GiveUp + MinAttempt
       /\ now <= by + OpenDelay
       /\ until <= by + OpenDelay
  /\ pc = "discover" => now <= by /\ until = by

(***************************************************************************)
(* An answer the client can still receive is the one to the request it is  *)
(* waiting on.                                                             *)
(***************************************************************************)
StreamInv ==
  /\ Done => heartbeat = NoStream
  /\ heartbeat # NoStream => heartbeat \in open
  /\ pc \notin {"ticker", "exchange"} => heartbeat = NoStream
  /\ pc = "exchange" => stream # NoStream
  /\ pc = "exchange" /\ ~Done => heartbeat = stream
  /\ \A s \in Stream \ open : answers[s] = 0
  /\ \A s \in open : pc # "exchange" => requests[s] = 0 /\ answers[s] = 0
  /\ \A s \in open : requests[s] + answers[s] <= 1
  /\ \A s \in open : answers[s] > 0 => sentAt + TTL <= leaseUntil

(***************************************************************************)
(* What the loop takes for a proof is one.                                 *)
(***************************************************************************)
ProofInv ==
  /\ leaseUntil <= now + TTL
  /\ pc = "new" => leaseState = "none"
  /\ pc \in {"connecting", "ticker", "backoff"} \cup Attempting => leaseState # "none"
  /\ leaseState # "none" /\ ~Done /\ pc \notin {"new", "over"} =>
       leaseState = "alive" /\ confirmedAt + TTL <= leaseUntil

IInv == TypeOK /\ TimeInv /\ StreamInv /\ ProofInv
-----------------------------------------------------------------------------
(* The loop's derived intervals are natural numbers. *)
LEMMA Derived ==
  /\ TTL \in Nat /\ Interval \in Nat /\ Interval > 0 /\ GiveUp \in Nat /\ GiveUp <= TTL
  /\ Slack \in Nat /\ StartDelay <= Slack /\ OpenDelay <= Slack
  /\ StartDelay \in Nat /\ OpenDelay \in Nat /\ MinAttempt \in Nat /\ MinAttempt > 0
  /\ FirstBackoff \in Nat /\ FirstBackoff > 0 /\ MaxBackoff \in Nat /\ MaxBackoff > 0
  /\ MaxTime \in Nat /\ NoStream \notin Stream
BY SessionAssumption DEF Interval, GiveUp, Slack, Larger

(* The ticker's next tick is at most one interval away. *)
LEMMA NextTick ==
  ASSUME NEW a \in Nat, NEW n \in Nat, n >= a
  PROVE  LET t == a + Interval * ((n - a) \div Interval + 1)
         IN  t \in Nat /\ t <= n + Interval
<1>1. Interval \in Nat /\ Interval > 0
  BY Derived
<1>2. \A x \in Nat, i \in Nat : i > 0 => x \div i \in Nat /\ i * (x \div i) <= x
  OBVIOUS
<1>3. (n - a) \div Interval \in Nat /\ Interval * ((n - a) \div Interval) <= n - a
  BY <1>1, <1>2
<1>4. \A i \in Nat, q \in Nat : i * (q + 1) = i * q + i /\ i * q \in Nat
  OBVIOUS
<1> QED
  BY <1>1, <1>3, <1>4

(* A timely loop that is running is within its proof. *)
LEMMA WithinProof ==
  ASSUME Timely, TypeOK, TimeInv, pc \notin {"new", "over"}
  PROVE  now < confirmedAt + TTL
BY Derived DEF Timely, TypeOK, TimeInv, Attempting

(* The session ends together with the loop. *)
LEMMA EndStep ==
  ASSUME NEW how \in {"stopped", "invalidated"}, IInv, EndSession(how), Return,
         UNCHANGED <<now, server>>, pc # "new"
  PROVE  IInv'
<1>1. TypeOK'
  BY Derived DEF IInv, TypeOK, EndSession, Return, server, wire, session, loop
<1>2. TimeInv'
  BY Derived DEF IInv, TypeOK, TimeInv, Attempting, Done, EndSession, Return, server, wire, session, loop
<1>3. StreamInv'
  BY Derived DEF IInv, TypeOK, StreamInv, ProofInv, TimeInv, Attempting, Done, EndSession, Return, server, wire, session, loop
<1>4. ProofInv'
  BY Derived DEF IInv, TypeOK, StreamInv, ProofInv, Attempting, Done, EndSession, Return, server, wire, session, loop
<1> QED
  BY <1>1, <1>2, <1>3, <1>4 DEF IInv

(* The loop returns because the session is over. *)
LEMMA ReturnStep ==
  ASSUME NEW s \in Stream \cup {NoStream}, IInv, Done, CloseHeartbeat(s), Return,
         UNCHANGED <<now, server>>, pc # "new"
  PROVE  IInv'
<1>1. TypeOK'
  BY Derived DEF IInv, TypeOK, CloseHeartbeat, Return, server, wire, session, loop
<1>2. TimeInv'
  BY Derived DEF IInv, TypeOK, TimeInv, Attempting, Done, CloseHeartbeat, Return, server, wire, session, loop
<1>3. StreamInv'
  BY Derived DEF IInv, TypeOK, StreamInv, ProofInv, TimeInv, Attempting, Done, CloseHeartbeat, Return, server, wire, session, loop
<1>4. ProofInv'
  BY Derived DEF IInv, TypeOK, StreamInv, ProofInv, Attempting, Done, CloseHeartbeat, Return, server, wire, session, loop
<1> QED
  BY <1>1, <1>2, <1>3, <1>4 DEF IInv

(* The loop backs off with its stream closed. *)
LEMMA BackOffStep ==
  ASSUME NEW s \in Stream \cup {NoStream}, IInv, pc \in Attempting, ~Done,
         s = heartbeat, CloseHeartbeat(s), NEW left \in Nat \ {0},
         left = confirmedAt + GiveUp - now, BackOff(left), UNCHANGED <<now, server>>
  PROVE  IInv'
<1>1. TypeOK'
  BY Derived DEF IInv, TypeOK, CloseHeartbeat, BackOff, Smaller, server, wire, session, loop
<1>2. TimeInv'
  BY Derived DEF IInv, TypeOK, TimeInv, Attempting, Done, CloseHeartbeat, BackOff, Smaller, server, wire, session, loop
<1>3. StreamInv'
  BY Derived DEF IInv, TypeOK, StreamInv, ProofInv, TimeInv, Attempting, Done, CloseHeartbeat, BackOff, Smaller, server, wire, session, loop
<1>4. ProofInv'
  BY Derived DEF IInv, TypeOK, StreamInv, ProofInv, Attempting, Done, CloseHeartbeat, BackOff, Smaller, server, wire, session, loop
<1> QED
  BY <1>1, <1>2, <1>3, <1>4 DEF IInv

(* A failed attempt keeps the invariant. *)
LEMMA FailedStep ==
  ASSUME NEW s \in Stream \cup {NoStream}, IInv, pc \in Attempting, Failed(s),
         ~Done => s = heartbeat
  PROVE  IInv'
<1>1. UNCHANGED <<now, server>> /\ pc # "new"
  BY DEF Failed, Attempting
<1>2. CASE Done
  BY <1>1, <1>2, ReturnStep DEF Failed
<1>3. CASE ~Done /\ confirmedAt + GiveUp - now <= 0
  BY <1>1, <1>3, EndStep DEF Failed
<1>4. CASE ~Done /\ ~(confirmedAt + GiveUp - now <= 0)
  <2>1. confirmedAt + GiveUp - now \in Nat \ {0}
    BY <1>4, Derived DEF IInv, TypeOK
  <2> QED
    BY <1>1, <1>4, <2>1, BackOffStep DEF Failed
<1> QED
  BY <1>2, <1>3, <1>4

(* Start keeps the invariant. *)
LEMMA StartStep ==
  ASSUME IInv, Start
  PROVE  IInv'
<1>1. TypeOK'
  BY Derived DEF IInv, TypeOK, Start, server, wire, session, loop
<1>2. TimeInv'
  BY Derived DEF IInv, TypeOK, TimeInv, Attempting, Done, Start, server, wire, session, loop
<1>3. StreamInv'
  BY Derived DEF IInv, TypeOK, StreamInv, ProofInv, TimeInv, Attempting, Done, Start, server, wire, session, loop
<1>4. ProofInv'
  BY Derived DEF IInv, TypeOK, StreamInv, ProofInv, Attempting, Done, Start, server, wire, session, loop
<1> QED
  BY <1>1, <1>2, <1>3, <1>4 DEF IInv

(* CreateLeaseAnswered keeps the invariant. *)
LEMMA CreateLeaseAnsweredStep ==
  ASSUME IInv, CreateLeaseAnswered
  PROVE  IInv'
<1>1. TypeOK'
  BY Derived DEF IInv, TypeOK, CreateLeaseAnswered, Return, server, wire, session, loop
<1>2. TimeInv'
  BY Derived DEF IInv, TypeOK, TimeInv, Attempting, Done, CreateLeaseAnswered, Return, server, wire, session, loop
<1>3. StreamInv'
  BY Derived DEF IInv, TypeOK, StreamInv, ProofInv, TimeInv, Attempting, Done, CreateLeaseAnswered, Return, server, wire, session, loop
<1>4. ProofInv'
  BY Derived DEF IInv, TypeOK, StreamInv, ProofInv, Attempting, Done, CreateLeaseAnswered, Return, server, wire, session, loop
<1> QED
  BY <1>1, <1>2, <1>3, <1>4 DEF IInv

(* StartHeartbeats, when it succeeds, keeps the invariant. *)
LEMMA StartHeartbeatsSucceeds ==
  ASSUME IInv, StartHeartbeats, ~(EndSession("invalidated") /\ Return)
  PROVE  IInv'
<1>1. TypeOK'
  BY Derived DEF IInv, TypeOK, StreamInv, Done, StartHeartbeats, OpenStream, Unused, server, wire, session, loop
<1>2. TimeInv'
  BY Derived DEF IInv, TypeOK, TimeInv, Attempting, Done, StartHeartbeats, OpenStream, Unused, server, wire, session, loop
<1>3. StreamInv'
  BY Derived DEF IInv, TypeOK, StreamInv, ProofInv, TimeInv, Attempting, Done, StartHeartbeats, OpenStream, Unused, server, wire, session, loop
<1>4. ProofInv'
  BY Derived DEF IInv, TypeOK, StreamInv, ProofInv, Attempting, Done, StartHeartbeats, OpenStream, Unused, server, wire, session, loop
<1> QED
  BY <1>1, <1>2, <1>3, <1>4 DEF IInv

(* Beat keeps the invariant. *)
LEMMA BeatStep ==
  ASSUME IInv, Beat
  PROVE  IInv'
<1>1. TypeOK'
  BY Derived, NextTick DEF IInv, TypeOK, Beat, Attempt, Exchange, server, wire, session, loop
<1>2. TimeInv'
  BY Derived, NextTick DEF IInv, TypeOK, TimeInv, Attempting, Done, Beat, Attempt, Exchange, server, wire, session, loop
<1>3. StreamInv'
  BY Derived DEF IInv, TypeOK, StreamInv, ProofInv, TimeInv, Attempting, Done, Beat, Attempt, Exchange, server, wire, session, loop
<1>4. ProofInv'
  BY Derived DEF IInv, TypeOK, StreamInv, ProofInv, Attempting, Done, Beat, Attempt, Exchange, server, wire, session, loop
<1> QED
  BY <1>1, <1>2, <1>3, <1>4 DEF IInv

(* Retry keeps the invariant. *)
LEMMA RetryStep ==
  ASSUME IInv, Retry
  PROVE  IInv'
<1>1. TypeOK'
  BY Derived DEF IInv, TypeOK, Retry, Attempt, Exchange, Smaller, Larger, server, wire, session, loop
<1>2. TimeInv'
  BY Derived DEF IInv, TypeOK, TimeInv, Attempting, Done, Retry, Attempt, Exchange, Smaller, Larger, server, wire, session, loop
<1>3. StreamInv'
  BY Derived DEF IInv, TypeOK, StreamInv, ProofInv, TimeInv, Attempting, Done, Retry, Attempt, Exchange, Smaller, Larger, server, wire, session, loop
<1>4. ProofInv'
  BY Derived DEF IInv, TypeOK, StreamInv, ProofInv, Attempting, Done, Retry, Attempt, Exchange, Smaller, Larger, server, wire, session, loop
<1> QED
  BY <1>1, <1>2, <1>3, <1>4 DEF IInv

(* DiscoverLeader, when it succeeds, keeps the invariant. *)
LEMMA DiscoverLeaderSucceeds ==
  ASSUME IInv, DiscoverLeader, ~(Failed(NoStream))
  PROVE  IInv'
<1>1. TypeOK'
  BY Derived DEF IInv, TypeOK, StreamInv, Done, DiscoverLeader, server, wire, session, loop
<1>2. TimeInv'
  BY Derived DEF IInv, TypeOK, TimeInv, Attempting, Done, DiscoverLeader, server, wire, session, loop
<1>3. StreamInv'
  BY Derived DEF IInv, TypeOK, StreamInv, ProofInv, TimeInv, Attempting, Done, DiscoverLeader, server, wire, session, loop
<1>4. ProofInv'
  BY Derived DEF IInv, TypeOK, StreamInv, ProofInv, Attempting, Done, DiscoverLeader, server, wire, session, loop
<1> QED
  BY <1>1, <1>2, <1>3, <1>4 DEF IInv

(* ReconnectHeartbeat, when it succeeds, keeps the invariant. *)
LEMMA ReconnectHeartbeatSucceeds ==
  ASSUME IInv, ReconnectHeartbeat, ~(Failed(NoStream))
  PROVE  IInv'
<1>1. TypeOK'
  BY Derived DEF IInv, TypeOK, StreamInv, Done, ReconnectHeartbeat, OpenStream, Exchange, Unused, server, wire, session, loop
<1>2. TimeInv'
  BY Derived DEF IInv, TypeOK, TimeInv, Attempting, Done, ReconnectHeartbeat, OpenStream, Exchange, Unused, server, wire, session, loop
<1>3. StreamInv'
  BY Derived DEF IInv, TypeOK, StreamInv, ProofInv, TimeInv, Attempting, Done, ReconnectHeartbeat, OpenStream, Exchange, Unused, server, wire, session, loop
<1>4. ProofInv'
  BY Derived DEF IInv, TypeOK, StreamInv, ProofInv, Attempting, Done, ReconnectHeartbeat, OpenStream, Exchange, Unused, server, wire, session, loop
<1> QED
  BY <1>1, <1>2, <1>3, <1>4 DEF IInv

(* Acknowledged keeps the invariant. *)
LEMMA AcknowledgedStep ==
  ASSUME IInv, Acknowledged
  PROVE  IInv'
<1>1. TypeOK'
  BY Derived DEF IInv, TypeOK, StreamInv, Done, Acknowledged, server, wire, session, loop
<1>2. TimeInv'
  BY Derived DEF IInv, TypeOK, TimeInv, Attempting, Done, Acknowledged, server, wire, session, loop
<1>3. StreamInv'
  BY Derived DEF IInv, TypeOK, StreamInv, ProofInv, TimeInv, Attempting, Done, Acknowledged, server, wire, session, loop
<1>4. ProofInv'
  BY Derived DEF IInv, TypeOK, StreamInv, ProofInv, Attempting, Done, Acknowledged, server, wire, session, loop
<1> QED
  BY <1>1, <1>2, <1>3, <1>4 DEF IInv

(* LoopStops keeps the invariant. *)
LEMMA LoopStopsStep ==
  ASSUME IInv, LoopStops
  PROVE  IInv'
<1>1. TypeOK'
  BY Derived DEF IInv, TypeOK, LoopStops, Return, server, wire, session, loop
<1>2. TimeInv'
  BY Derived DEF IInv, TypeOK, TimeInv, Attempting, Done, LoopStops, Return, server, wire, session, loop
<1>3. StreamInv'
  BY Derived DEF IInv, TypeOK, StreamInv, ProofInv, TimeInv, Attempting, Done, LoopStops, Return, server, wire, session, loop
<1>4. ProofInv'
  BY Derived DEF IInv, TypeOK, StreamInv, ProofInv, Attempting, Done, LoopStops, Return, server, wire, session, loop
<1> QED
  BY <1>1, <1>2, <1>3, <1>4 DEF IInv

(* Stop keeps the invariant. *)
LEMMA StopStep ==
  ASSUME IInv, Stop
  PROVE  IInv'
<1>1. TypeOK'
  BY Derived DEF IInv, TypeOK, Stop, EndSession, server, wire, session, loop
<1>2. TimeInv'
  BY Derived DEF IInv, TypeOK, TimeInv, Attempting, Done, Stop, EndSession, server, wire, session, loop
<1>3. StreamInv'
  BY Derived DEF IInv, TypeOK, StreamInv, ProofInv, TimeInv, Attempting, Done, Stop, EndSession, server, wire, session, loop
<1>4. ProofInv'
  BY Derived DEF IInv, TypeOK, StreamInv, ProofInv, Attempting, Done, Stop, EndSession, server, wire, session, loop
<1> QED
  BY <1>1, <1>2, <1>3, <1>4 DEF IInv

(* ServerCreates keeps the invariant. *)
LEMMA ServerCreatesStep ==
  ASSUME IInv, ServerCreates
  PROVE  IInv'
<1>1. TypeOK'
  BY Derived DEF IInv, TypeOK, ServerCreates, server, wire, session, loop
<1>2. TimeInv'
  BY Derived DEF IInv, TypeOK, TimeInv, Attempting, Done, ServerCreates, server, wire, session, loop
<1>3. StreamInv'
  BY Derived DEF IInv, TypeOK, StreamInv, ProofInv, TimeInv, Attempting, Done, ServerCreates, server, wire, session, loop
<1>4. ProofInv'
  BY Derived DEF IInv, TypeOK, StreamInv, ProofInv, Attempting, TimeInv, Done, ServerCreates, server, wire, session, loop
<1> QED
  BY <1>1, <1>2, <1>3, <1>4 DEF IInv

(* ServerExpires keeps the invariant. *)
LEMMA ServerExpiresStep ==
  ASSUME Timely, IInv, ServerExpires
  PROVE  IInv'
<1>1. TypeOK'
  BY Derived DEF IInv, TypeOK, ServerExpires, server, wire, session, loop
<1>2. TimeInv'
  BY Derived DEF IInv, TypeOK, TimeInv, Attempting, Done, ServerExpires, server, wire, session, loop
<1>3. StreamInv'
  BY Derived DEF IInv, TypeOK, StreamInv, ProofInv, TimeInv, Attempting, Done, ServerExpires, server, wire, session, loop
<1>4. ProofInv'
  BY Derived, WithinProof DEF IInv, TypeOK, StreamInv, ProofInv, Attempting, Done, ServerExpires, server, wire, session, loop
<1> QED
  BY <1>1, <1>2, <1>3, <1>4 DEF IInv

(* Tick keeps the invariant. *)
LEMMA TickStep ==
  ASSUME Timely, IInv, Tick
  PROVE  IInv'
<1>1. TypeOK'
  BY Derived DEF IInv, TypeOK, Tick, server, wire, session, loop
<1>2. TimeInv'
  BY Derived DEF IInv, TypeOK, TimeInv, Attempting, Done, Tick, server, wire, session, loop
<1>3. StreamInv'
  BY Derived DEF IInv, TypeOK, StreamInv, ProofInv, TimeInv, Attempting, Done, Tick, server, wire, session, loop
<1>4. ProofInv'
  BY Derived, WithinProof DEF IInv, TypeOK, StreamInv, ProofInv, Attempting, Done, Tick, server, wire, session, loop
<1> QED
  BY <1>1, <1>2, <1>3, <1>4 DEF IInv

(* Heartbeat keeps the invariant. *)
LEMMA HeartbeatStep ==
  ASSUME NEW s \in Stream, IInv, Heartbeat(s)
  PROVE  IInv'
<1>1. TypeOK'
  BY Derived DEF IInv, TypeOK, Heartbeat, server, wire, session, loop
<1>2. TimeInv'
  BY Derived DEF IInv, TypeOK, TimeInv, Attempting, Done, Heartbeat, server, wire, session, loop
<1>3. StreamInv'
  BY Derived DEF IInv, TypeOK, StreamInv, ProofInv, TimeInv, Attempting, Done, Heartbeat, server, wire, session, loop
<1>4. ProofInv'
  BY Derived DEF IInv, TypeOK, StreamInv, ProofInv, Attempting, Done, Heartbeat, server, wire, session, loop
<1> QED
  BY <1>1, <1>2, <1>3, <1>4 DEF IInv

(* StartHeartbeats keeps the invariant. *)
LEMMA StartHeartbeatsStep ==
  ASSUME IInv, StartHeartbeats
  PROVE  IInv'
<1>1. CASE EndSession("invalidated") /\ Return
  BY <1>1, EndStep DEF StartHeartbeats
<1>2. CASE ~(EndSession("invalidated") /\ Return)
  BY <1>2, StartHeartbeatsSucceeds
<1> QED
  BY <1>1, <1>2

(* DiscoverLeader keeps the invariant. *)
LEMMA DiscoverLeaderStep ==
  ASSUME IInv, DiscoverLeader
  PROVE  IInv'
<1>1. CASE Failed(NoStream)
  <2>1. pc \in Attempting /\ heartbeat = NoStream
    BY DEF DiscoverLeader, Attempting, IInv, StreamInv
  <2> QED
    BY <1>1, <2>1, FailedStep
<1>2. CASE ~(Failed(NoStream))
  BY <1>2, DiscoverLeaderSucceeds
<1> QED
  BY <1>1, <1>2

(* ReconnectHeartbeat keeps the invariant. *)
LEMMA ReconnectHeartbeatStep ==
  ASSUME IInv, ReconnectHeartbeat
  PROVE  IInv'
<1>1. CASE Failed(NoStream)
  <2>1. pc \in Attempting /\ heartbeat = NoStream
    BY DEF ReconnectHeartbeat, Attempting, IInv, StreamInv
  <2> QED
    BY <1>1, <2>1, FailedStep
<1>2. CASE ~(Failed(NoStream))
  BY <1>2, ReconnectHeartbeatSucceeds
<1> QED
  BY <1>1, <1>2

(* ExchangeFailed keeps the invariant. *)
LEMMA ExchangeFailedStep ==
  ASSUME IInv, ExchangeFailed
  PROVE  IInv'
<1>1. pc \in Attempting /\ stream \in Stream \cup {NoStream} /\ (~Done => stream = heartbeat)
  BY DEF ExchangeFailed, Attempting, IInv, TypeOK, StreamInv
<1> QED
  BY <1>1, FailedStep DEF ExchangeFailed

(* Init establishes the invariant. *)
LEMMA InitInv ==
  ASSUME Init
  PROVE  IInv
BY Derived DEF Init, IInv, TypeOK, TimeInv, StreamInv, ProofInv, Attempting, Done

(***************************************************************************)
(* The inductive invariant: the loop's timers, the streams and the proof   *)
(* stay related, whatever the network does (pkg/client/session.go).        *)
(***************************************************************************)
THEOREM Invariance ==
  ASSUME Timely
  PROVE  Spec => []IInv
<1>1. IInv /\ [Next]_vars => IInv'
  <2> SUFFICES ASSUME IInv, [Next]_vars
               PROVE  IInv'
    OBVIOUS
  <2>1. CASE Next
    BY ZenonT(60), <2>1, StartStep, CreateLeaseAnsweredStep, StartHeartbeatsStep, BeatStep, RetryStep,
       DiscoverLeaderStep, ReconnectHeartbeatStep, AcknowledgedStep, ExchangeFailedStep,
       LoopStopsStep, StopStep, ServerCreatesStep, ServerExpiresStep, HeartbeatStep, TickStep
       DEF Next
  <2>2. CASE UNCHANGED vars
    BY <2>2 DEF vars, server, wire, session, loop, IInv, TypeOK, TimeInv, StreamInv, ProofInv,
                Done
  <2> QED
    BY <2>1, <2>2
<1> QED
  BY <1>1, InitInv, PTL DEF Spec

(* Types, and no stream is left open behind the session's back. *)
THEOREM TypeCorrect ==
  ASSUME Timely
  PROVE  Spec => []TypeOK
BY Invariance, PTL DEF IInv

(***************************************************************************)
(* The invariant implies both properties.                                  *)
(***************************************************************************)
LEMMA ActiveRuns ==
  ASSUME IInv, Active
  PROVE  pc \notin {"new", "over"} /\ ~Done /\ leaseState # "none"
BY DEF IInv, TypeOK, TimeInv, ProofInv, Active, Attempting

(***************************************************************************)
(* heartbeatLoop closes the session before its last proof runs out, for    *)
(* every TTL, provided Start and the opening of streams are timely.        *)
(***************************************************************************)
THEOREM SessionEndsInTime ==
  ASSUME Timely
  PROVE  Spec => []GivesUpInTime
<1>1. IInv => GivesUpInTime
  BY ActiveRuns, WithinProof DEF IInv, GivesUpInTime
<1> QED
  BY <1>1, Invariance, PTL

(***************************************************************************)
(* While a timely client's session is open, the server has not expired its *)
(* lease, so nobody else holds its locks.                                  *)
(***************************************************************************)
THEOREM LeaseHeldWhileActive ==
  ASSUME Timely
  PROVE  Spec => []LeaseOutlivesSession
<1>1. IInv => LeaseOutlivesSession
  BY ActiveRuns DEF IInv, ProofInv, LeaseOutlivesSession
<1> QED
  BY <1>1, Invariance, PTL
=============================================================================
