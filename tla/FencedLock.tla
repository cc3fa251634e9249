----------------------------- MODULE FencedLock -----------------------------
(***************************************************************************)
(* What the lock service promises its clients, with no log, replica,       *)
(* snapshot or crash in sight: sessions open and end, a free lock is       *)
(* granted to a session that is open, with a token above every earlier     *)
(* one, ending a session frees its locks, and a client is told only of     *)
(* locks that were granted.  An answer may reach the client at any time    *)
(* after the grant, also when the lock is long gone: that is what the      *)
(* token is for.                                                           *)
(***************************************************************************)
EXTENDS Integers

CONSTANTS
  Lock,     \* lock names
  Client    \* who may open a session

VARIABLES
  live,     \* live[id]: the client whose session id is, for the open sessions
  opened,   \* the id of the next session
  held,     \* held[l]: the session that holds l and its token, for the held locks
  minted,   \* the newest token
  granted,  \* all grants there have been
  told      \* the grants a client may have been told of

vars == <<live, opened, held, minted, granted, told>>

None == [k \in {} |-> k]
Without(f, S) == [k \in DOMAIN f \ S |-> f[k]]
With(f, k, v) == [j \in DOMAIN f \cup {k} |-> IF j = k THEN v ELSE f[j]]

Init ==
  /\ live = None /\ opened = 1
  /\ held = None /\ minted = 0
  /\ granted = {} /\ told = {}

Open(c) ==
  /\ live' = With(live, opened, c)
  /\ opened' = opened + 1
  /\ UNCHANGED <<held, minted, granted, told>>

Grant(l, id) ==
  /\ l \notin DOMAIN held /\ id \in DOMAIN live
  /\ minted' = minted + 1
  /\ held' = With(held, l, [session |-> id, token |-> minted + 1])
  /\ granted' = granted \cup {[lock |-> l, session |-> id, token |-> minted + 1]}
  /\ UNCHANGED <<live, opened, told>>

Free(l) ==
  /\ held' = Without(held, {l})
  /\ UNCHANGED <<live, opened, minted, granted, told>>

End(id) ==
  /\ live' = Without(live, {id})
  /\ held' = Without(held, {l \in DOMAIN held : held[l].session = id})
  /\ UNCHANGED <<opened, minted, granted, told>>

Tell(g) ==
  /\ told' = told \cup {g}
  /\ UNCHANGED <<live, opened, held, minted, granted>>

Next ==
  \/ \E c \in Client : Open(c)
  \/ \E l \in Lock, id \in DOMAIN live : Grant(l, id)
  \/ \E l \in DOMAIN held : Free(l)
  \/ \E id \in DOMAIN live : End(id)
  \/ \E g \in granted : Tell(g)

Spec == Init /\ [][Next]_vars
=============================================================================
