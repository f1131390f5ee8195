---------------------------- MODULE EdgeReplay ----------------------------
(***************************************************************************)
(* Replay protection of the SIP edge API: EdgeAuthenticator.authenticate.  *)
(* A request carries a nonce and a whole-second timestamp under one        *)
(* signature, so presenting it again repeats both.  The head row of the    *)
(* edge serializes its requests; the database clock is finer than the      *)
(* timestamps and is counted in half seconds.                              *)
(***************************************************************************)
EXTENDS Integers, FiniteSets, FiniteSetsExt

CONSTANTS SignedAt,        \* the timestamp of each nonce an edge signed
          NonceWindow,     \* seconds a request may differ from the database clock (30)
          NonceCapacity,   \* nonces kept for one edge
          PurgeLimit,      \* expired nonces removed per request (100)
          MaxHalfSeconds   \* database time covered

ASSUME ReplayBounds ==
  /\ NonceWindow \in Nat /\ NonceCapacity \in Nat /\ PurgeLimit \in Nat
  /\ MaxHalfSeconds \in Nat
  /\ \A n \in DOMAIN SignedAt : SignedAt[n] \in Int

VARIABLES dbTime, nonces, nonceUses

replayVars == <<dbTime, nonces, nonceUses>>

SignedNonces == DOMAIN SignedAt

ReplayInit ==
  /\ dbTime = 0
  /\ nonces = {}
  /\ nonceUses = [n \in SignedNonces |-> 0]

Whole(t) == t \div 2

\* verify_request: the timestamp is within the window of the database clock.
InWindow(ts) == Whole(dbTime) - ts <= NonceWindow /\ ts - Whole(dbTime) <= NonceWindow

Bug_ExpiryOf(ts) == 2 * (ts + NonceWindow)

\* expires_at: one second past the window.
ExpiryOf(ts) == 2 * (ts + NonceWindow + 1)

Expired == {n \in nonces : ExpiryOf(SignedAt[n]) < dbTime}

\* The oldest expired nonces go first, PurgeLimit of them.
Purged ==
  IF Cardinality(Expired) <= PurgeLimit THEN {Expired}
  ELSE {P \in kSubset(PurgeLimit, Expired) :
          \A n \in P, m \in Expired \ P : SignedAt[n] <= SignedAt[m]}

Authenticate(n) ==
  /\ InWindow(SignedAt[n])
  /\ \E P \in Purged :
       /\ n \notin nonces \ P
       /\ Cardinality(nonces \ P) < NonceCapacity
       /\ nonces' = (nonces \ P) \cup {n}
  /\ nonceUses' = [nonceUses EXCEPT ![n] = @ + 1]
  /\ UNCHANGED dbTime

Tick ==
  /\ dbTime < MaxHalfSeconds
  /\ dbTime' = dbTime + 1
  /\ UNCHANGED <<nonces, nonceUses>>

ReplayNext == Tick \/ \E n \in SignedNonces : Authenticate(n)

ReplaySpec == ReplayInit /\ [][ReplayNext]_replayVars

-----------------------------------------------------------------------------
\* A signed request is accepted at most once in all time: its nonce is never
\* purged while its timestamp would still be accepted, early timestamps,
\* truncated seconds and a full table included.
AcceptedOnce == \A n \in SignedNonces : nonceUses[n] <= 1
============================================================================
