------------------------------- MODULE Session -------------------------------
(***************************************************************************)
(* A client's lease session (pkg/client: Start, the heartbeat loop,        *)
(* invalidation, Stop) against a server that keeps a lease for one TTL     *)
(* after every renewal it receives, which is what LeaseTracking shows of   *)
(* the cluster.  Time is discrete; the loop's goroutine runs when a timer  *)
(* or an answer wakes it.  Messages take any time, streams break at any    *)
(* time, a request may reach the server after its stream was cancelled.    *)
(***************************************************************************)
EXTENDS Integers

CONSTANTS
  TTL,           \* of the lease, in time units
  FirstBackoff, MaxBackoff, MinAttempt,   \* 50 ms, 500 ms, 1 ms
  StartDelay,    \* the longest Start takes
  OpenDelay,     \* the longest the opening of a stream blocks
  Stream,        \* names for heartbeat streams, used again once forgotten
  NoStream,      \* nil
  MaxTime

Interval == TTL \div 3
GiveUp == TTL - TTL \div 4

ASSUME SessionAssumption ==
  /\ TTL \in Nat /\ TTL >= 4
  /\ {FirstBackoff, MaxBackoff, MinAttempt} \subseteq Nat \ {0}
  /\ {StartDelay, OpenDelay, MaxTime} \subseteq Nat
  /\ NoStream \notin Stream

VARIABLES
  now,
  leaseState, leaseUntil,          \* the server's lease, and until when it keeps it at least
  open,                            \* the streams that are not cancelled
  requests, answers,               \* requests[s], answers[s]: on their way on stream s
  leaseID, ended, heartbeat,       \* leaseSession: 0 or the lease, how it ended, the stream
  pc,                              \* where Start, then heartbeatLoop, is
  until,                           \* the timer it waits for
  by,                              \* the deadline of the attempt
  stream,                          \* the stream of the exchange
  tickAt, sentAt, confirmedAt, backoff

server == <<leaseState, leaseUntil>>
wire == <<open, requests, answers>>
session == <<leaseID, ended, heartbeat>>
loop == <<pc, until, by, stream, tickAt, sentAt, confirmedAt, backoff>>
vars == <<now, server, wire, session, loop>>

Smaller(a, b) == IF a < b THEN a ELSE b
Larger(a, b) == IF a > b THEN a ELSE b

Unused(s) == s \notin open /\ requests[s] = 0

(* runCtx is cancelled, Done is closed *)
Done == ended # "no"

(***************************************************************************)
(* What an application goes by: activeLeaseID succeeds and Done is open.   *)
(***************************************************************************)
Active == leaseID # 0 /\ ~Done

Init ==
  /\ now = 0
  /\ leaseState = "none" /\ leaseUntil = 0
  /\ open = {}
  /\ requests = [s \in Stream |-> 0] /\ answers = [s \in Stream |-> 0]
  /\ leaseID = 0 /\ ended = "no" /\ heartbeat = NoStream
  /\ pc = "new" /\ until = 0 /\ by = 0 /\ stream = NoStream
  /\ tickAt = 0 /\ sentAt = 0 /\ confirmedAt = 0 /\ backoff = 0
-----------------------------------------------------------------------------
(***************************************************************************)
(* leaseSession.  The contexts of all streams derive from runCtx, so its   *)
(* end cancels them; an answer on a cancelled stream is never received.    *)
(***************************************************************************)
EndSession(how) ==
  /\ ended' = how
  /\ heartbeat' = NoStream
  /\ open' = {}
  /\ answers' = [s \in Stream |-> 0]
  /\ UNCHANGED <<requests, leaseID>>

Return ==
  /\ pc' = "over" /\ until' = 0 /\ by' = 0 /\ stream' = NoStream
  /\ UNCHANGED <<tickAt, sentAt, confirmedAt, backoff>>

(* mutant: the stream is forgotten and not cancelled *)
ForgetHeartbeat(s) ==
  /\ heartbeat' = IF heartbeat = s THEN NoStream ELSE heartbeat
  /\ UNCHANGED <<wire, leaseID, ended>>

CloseHeartbeat(s) ==
  /\ IF heartbeat = s
     THEN /\ heartbeat' = NoStream
          /\ open' = open \ {s}
          /\ answers' = [x \in Stream |-> IF x = s THEN 0 ELSE answers[x]]
     ELSE UNCHANGED <<heartbeat, open, answers>>
  /\ UNCHANGED <<requests, leaseID, ended>>

(***************************************************************************)
(* openHeartbeatStream: once the session is over, its context fails it.    *)
(***************************************************************************)
OpenStream(s) ==
  /\ ~Done
  /\ Unused(s)
  /\ heartbeat' = s
  /\ open' = open \cup {s}
  /\ UNCHANGED <<answers, leaseID, ended>>
-----------------------------------------------------------------------------
(***************************************************************************)
(* Start.  createSentAt is confirmedAt of the loop it starts.              *)
(***************************************************************************)
Start ==
  /\ pc = "new"
  /\ pc' = "creating"
  /\ until' = now + StartDelay
  /\ confirmedAt' = now
  /\ UNCHANGED <<now, server, wire, session, by, stream, tickAt, sentAt, backoff>>

CreateLeaseAnswered ==
  /\ pc = "creating"
  /\ \/ /\ leaseState # "none"
        /\ leaseID' = 1
        /\ pc' = "connecting"
        /\ UNCHANGED <<until, by, stream, tickAt, sentAt, confirmedAt, backoff>>
     \/ Return /\ UNCHANGED leaseID
  /\ UNCHANGED <<now, server, wire, ended, heartbeat>>

StartHeartbeats ==
  /\ pc = "connecting"
  /\ \/ /\ \E s \in Stream : OpenStream(s) /\ UNCHANGED requests
        /\ pc' = "ticker"
        /\ tickAt' = now + Interval
        /\ until' = now + Interval
        /\ UNCHANGED <<by, stream, sentAt, confirmedAt, backoff>>
     \/ EndSession("invalidated") /\ Return
  /\ UNCHANGED <<now, server>>
-----------------------------------------------------------------------------
(***************************************************************************)
(* heartbeatAttemptWithin: an exchange on the session's stream, or first a *)
(* new stream to the leader.  Only discoverLeader and the exchange go by   *)
(* the attempt's deadline; opening a stream goes by the session's context. *)
(***************************************************************************)
Exchange(s) ==
  /\ pc' = "exchange"
  /\ stream' = s
  /\ requests' = [requests EXCEPT ![s] = @ + 1]

Attempt(timeout) ==
  /\ sentAt' = now
  /\ by' = now + timeout
  /\ until' = now + timeout
  /\ IF heartbeat = NoStream
     THEN pc' = "discover" /\ UNCHANGED <<requests, stream>>
     ELSE Exchange(heartbeat)
  /\ UNCHANGED <<now, server, open, answers, session, confirmedAt, backoff>>

(***************************************************************************)
(* The attempt failed, with the stream (if any) closed.  The loop gives up *)
(* or backs off; backoff is 0 outside its retries.                         *)
(***************************************************************************)
BackOff(left) ==
  LET wait == IF backoff = 0 THEN FirstBackoff ELSE backoff
  IN  /\ pc' = "backoff"
      /\ until' = now + Smaller(wait, left)
      /\ backoff' = Smaller(2 * wait, MaxBackoff)
      /\ by' = 0 /\ stream' = NoStream
      /\ UNCHANGED <<tickAt, sentAt, confirmedAt>>

Failed(s) ==
  LET left == confirmedAt + GiveUp - now
  IN  /\ IF Done THEN CloseHeartbeat(s) /\ Return
         ELSE IF left <= 0 THEN EndSession("invalidated") /\ Return
         ELSE CloseHeartbeat(s) /\ BackOff(left)
      /\ UNCHANGED <<now, server>>

(***************************************************************************)
(* A ticker keeps to its grid and holds one tick for a busy receiver.      *)
(***************************************************************************)
Beat ==
  /\ pc = "ticker"
  /\ now >= tickAt
  /\ tickAt' = tickAt + Interval * ((now - tickAt) \div Interval + 1)
  /\ Attempt(Interval)

(* mutant: a retry may take as long as any attempt *)
RetryUnbounded ==
  /\ pc = "backoff"
  /\ now >= until
  /\ Attempt(Interval)
  /\ UNCHANGED tickAt

Retry ==
  /\ pc = "backoff"
  /\ now >= until
  /\ Attempt(Smaller(Interval, Larger(confirmedAt + GiveUp - now, MinAttempt)))
  /\ UNCHANGED tickAt

DiscoverLeader ==
  /\ pc = "discover"
  /\ \/ /\ ~Done
        /\ pc' = "opening"
        /\ until' = now + OpenDelay
        /\ UNCHANGED <<now, server, wire, session, by, stream, tickAt, sentAt, confirmedAt,
                       backoff>>
     \/ Failed(NoStream)

ReconnectHeartbeat ==
  /\ pc = "opening"
  /\ \/ /\ \E s \in Stream : OpenStream(s) /\ Exchange(s)
        /\ until' = by
        /\ UNCHANGED <<now, server, by, tickAt, sentAt, confirmedAt, backoff>>
     \/ Failed(NoStream)

(* mutant: the proof counts from the answer *)
AcknowledgedOnArrival ==
  /\ pc = "exchange"
  /\ answers[stream] > 0
  /\ answers' = [answers EXCEPT ![stream] = @ - 1]
  /\ confirmedAt' = now
  /\ pc' = "ticker" /\ until' = tickAt /\ by' = 0 /\ backoff' = 0 /\ stream' = NoStream
  /\ UNCHANGED <<now, server, open, requests, session, tickAt, sentAt>>

Acknowledged ==
  /\ pc = "exchange"
  /\ answers[stream] > 0
  /\ answers' = [answers EXCEPT ![stream] = @ - 1]
  /\ confirmedAt' = sentAt
  /\ pc' = "ticker" /\ until' = tickAt /\ by' = 0 /\ backoff' = 0 /\ stream' = NoStream
  /\ UNCHANGED <<now, server, open, requests, session, tickAt, sentAt>>

(* an error on the stream, or its time is up *)
ExchangeFailed == pc = "exchange" /\ Failed(stream)

LoopStops ==
  /\ Done
  /\ pc \in {"ticker", "backoff"}
  /\ Return
  /\ UNCHANGED <<now, server, wire, session>>

(* Client.Stop, from any goroutine *)
Stop ==
  /\ ~Done
  /\ EndSession("stopped")
  /\ UNCHANGED <<now, server, loop>>
-----------------------------------------------------------------------------
(***************************************************************************)
(* The server: CreateLease, Heartbeat and the expiry.                      *)
(***************************************************************************)
ServerCreates ==
  /\ pc = "creating"
  /\ leaseState = "none"
  /\ leaseState' = "alive"
  /\ leaseUntil' = now + TTL
  /\ UNCHANGED <<now, wire, session, loop>>

Heartbeat(s) ==
  /\ requests[s] > 0
  /\ requests' = [requests EXCEPT ![s] = @ - 1]
  /\ \/ /\ leaseState = "alive"
        /\ leaseUntil' = now + TTL
        /\ answers' = [answers EXCEPT ![s] = IF s \in open THEN @ + 1 ELSE @]
     \/ UNCHANGED <<leaseUntil, answers>>
  /\ UNCHANGED <<now, leaseState, open, session, loop>>

ServerExpires ==
  /\ leaseState = "alive"
  /\ now >= leaseUntil
  /\ leaseState' = "expired"
  /\ UNCHANGED <<now, leaseUntil, wire, session, loop>>

(***************************************************************************)
(* Time goes on unless the client has something to do now.                 *)
(***************************************************************************)
Tick ==
  /\ now < MaxTime
  /\ pc \in {"new", "over"} \/ (now < until /\ ~Done)
  /\ now' = now + 1
  /\ UNCHANGED <<server, wire, session, loop>>

Next ==
  \/ Start \/ CreateLeaseAnswered \/ StartHeartbeats
  \/ Beat \/ Retry \/ DiscoverLeader \/ ReconnectHeartbeat
  \/ Acknowledged \/ ExchangeFailed \/ LoopStops \/ Stop
  \/ ServerCreates \/ ServerExpires \/ (\E s \in Stream : Heartbeat(s))
  \/ Tick

Spec == Init /\ [][Next]_vars
-----------------------------------------------------------------------------
(***************************************************************************)
(* Types, and no stream is leaked: a stream that is not cancelled is the   *)
(* session's (swapHeartbeat, closeHeartbeat, invalidate, stop).            *)
(***************************************************************************)
TypeOK ==
  /\ now \in 0..MaxTime
  /\ leaseState \in {"none", "alive", "expired"} /\ leaseUntil \in Nat
  /\ requests \in [Stream -> Nat] /\ answers \in [Stream -> Nat]
  /\ leaseID \in {0, 1} /\ ended \in {"no", "stopped", "invalidated"}
  /\ heartbeat \in Stream \cup {NoStream} /\ stream \in Stream \cup {NoStream}
  /\ pc \in {"new", "creating", "connecting", "ticker", "discover", "opening", "exchange",
             "backoff", "over"}
  /\ {until, by, tickAt, sentAt, confirmedAt, backoff} \subseteq Nat
  /\ open \subseteq Stream \cap {heartbeat}

(***************************************************************************)
(* The session is over before its last proof is: the loop "gives up [...]  *)
(* before the last proof runs out" (heartbeatLoop), whatever attempt it is *)
(* in the middle of. The quarter TTL by which it means to be early is what *)
(* the attempts that are under way may use up.                             *)
(***************************************************************************)
GivesUpInTime == Active => now < confirmedAt + TTL

(***************************************************************************)
(* While the application may act on its locks, the lease exists and nobody *)
(* else can hold them: what the client takes for a proof is one, although  *)
(* answers carry only the lease id and come late or never.                 *)
(***************************************************************************)
LeaseOutlivesSession == Active => leaseState = "alive"
=============================================================================
