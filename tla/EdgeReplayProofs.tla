-------------------------- MODULE EdgeReplayProofs --------------------------
(* Replay protection holds for every window, capacity and purge limit, and     *)
(* for any set of signed requests.                                             *)
EXTENDS EdgeReplay, TLAPS

(* The inductive invariant: a nonce that was accepted is still stored, or it   *)
(* expired, and an expired one is outside the window for good.                 *)
ReplayIInv ==
  /\ dbTime \in Nat
  /\ nonces \subseteq SignedNonces
  /\ nonceUses \in [SignedNonces -> Nat]
  /\ AcceptedOnce
  /\ \A n \in SignedNonces :
       nonceUses[n] = 1 => n \in nonces \/ ExpiryOf(SignedAt[n]) < dbTime

\* Only expired nonces are purged.
LEMMA PurgedExpired == \A P \in Purged : P \subseteq Expired
  BY DEF Purged, kSubset

\* Whole seconds are the half seconds rounded down.
LEMMA WholeBounds == \A t \in Nat : Whole(t) \in Nat /\ 2 * Whole(t) <= t /\ t < 2 * Whole(t) + 2
  BY DEF Whole

\* A request whose nonce has expired is outside the window.
LEMMA ExpiredIsLate ==
  ASSUME dbTime \in Nat, NEW n \in SignedNonces, ExpiryOf(SignedAt[n]) < dbTime
  PROVE  ~InWindow(SignedAt[n])
  <1>1. SignedAt[n] \in Int /\ NonceWindow \in Nat
    BY ReplayBounds DEF SignedNonces
  <1>2. Whole(dbTime) \in Nat /\ dbTime < 2 * Whole(dbTime) + 2
    BY WholeBounds
  <1>3. 2 * (SignedAt[n] + NonceWindow + 1) < dbTime
    BY DEF ExpiryOf
  <1>4. SignedAt[n] + NonceWindow + 1 < Whole(dbTime) + 1
    <2> HIDE DEF Whole
    <2> DEFINE a == SignedAt[n] + NonceWindow + 1
               b == Whole(dbTime)
    <2>1. a \in Int /\ b \in Nat
      BY <1>1, <1>2
    <2>2. 2 * a < 2 * b + 2
      BY <1>2, <1>3, <2>1
    <2> HIDE DEF a, b
    <2>3. a < b + 1
      BY <2>1, <2>2
    <2> QED BY <2>3 DEF a, b
  <1> QED BY <1>1, <1>2, <1>4 DEF InWindow

LEMMA InitReplay == ReplayInit => ReplayIInv
  BY DEF ReplayInit, ReplayIInv, AcceptedOnce

\* The clock only makes more nonces expire.
LEMMA TickReplay == ReplayIInv /\ Tick => ReplayIInv'
  <1> SUFFICES ASSUME ReplayIInv, Tick PROVE ReplayIInv'
    OBVIOUS
  <1>1. dbTime' \in Nat /\ dbTime' = dbTime + 1
    BY DEF ReplayIInv, Tick
  <1>2. \A n \in SignedNonces : ExpiryOf(SignedAt[n]) < dbTime => ExpiryOf(SignedAt[n]) < dbTime'
    <2> SUFFICES ASSUME NEW n \in SignedNonces, ExpiryOf(SignedAt[n]) < dbTime
                 PROVE  ExpiryOf(SignedAt[n]) < dbTime'
      OBVIOUS
    <2>1. ExpiryOf(SignedAt[n]) \in Int
      BY ReplayBounds DEF ExpiryOf, SignedNonces
    <2> QED BY <1>1, <2>1 DEF ReplayIInv
  <1> QED BY <1>1, <1>2 DEF ReplayIInv, Tick, AcceptedOnce, ExpiryOf

\* A request that is accepted had not been accepted before.
LEMMA AuthenticateReplay == \A n \in SignedNonces : ReplayIInv /\ Authenticate(n) => ReplayIInv'
  <1> SUFFICES ASSUME NEW n \in SignedNonces, ReplayIInv, Authenticate(n) PROVE ReplayIInv'
    OBVIOUS
  <1>1. PICK P \in Purged : n \notin nonces \ P /\ nonces' = (nonces \ P) \cup {n}
    BY DEF Authenticate
  <1>2. P \subseteq nonces /\ \A m \in P : ExpiryOf(SignedAt[m]) < dbTime
    BY PurgedExpired DEF Expired
  <1>3. nonceUses[n] = 0
    <2>1. nonceUses[n] \in Nat /\ nonceUses[n] <= 1
      BY DEF ReplayIInv, AcceptedOnce
    <2>2. nonceUses[n] # 1
      <3> SUFFICES ASSUME nonceUses[n] = 1 PROVE FALSE
        OBVIOUS
      <3>1. ExpiryOf(SignedAt[n]) < dbTime
        BY <1>1, <1>2 DEF ReplayIInv
      <3> QED BY <3>1, ExpiredIsLate DEF ReplayIInv, Authenticate
    <2> QED BY <2>1, <2>2
  <1>4. nonceUses' \in [SignedNonces -> Nat]
        /\ nonceUses'[n] = 1 /\ \A m \in SignedNonces \ {n} : nonceUses'[m] = nonceUses[m]
    BY <1>3 DEF ReplayIInv, Authenticate
  <1>5. nonces' \subseteq SignedNonces /\ dbTime' = dbTime
    BY <1>1 DEF ReplayIInv, Authenticate
  <1>6. AcceptedOnce'
    BY <1>4 DEF ReplayIInv, AcceptedOnce
  <1>7. ASSUME NEW m \in SignedNonces, nonceUses'[m] = 1
        PROVE  m \in nonces' \/ ExpiryOf(SignedAt[m]) < dbTime'
    BY <1>1, <1>2, <1>4, <1>5, <1>7 DEF ReplayIInv
  <1> QED BY <1>4, <1>5, <1>6, <1>7 DEF ReplayIInv, ExpiryOf

(* A signed request is accepted at most once, whatever the capacity, the purge *)
(* limit and the order of requests (EdgeAuthenticator.authenticate): the extra *)
(* second of the stored expiry outlasts every timestamp the window accepts.    *)
THEOREM NeverReplayed == ReplaySpec => []AcceptedOnce
  <1>1. ReplayIInv /\ [ReplayNext]_replayVars => ReplayIInv'
    <2> SUFFICES ASSUME ReplayIInv, [ReplayNext]_replayVars PROVE ReplayIInv'
      OBVIOUS
    <2>1. CASE UNCHANGED replayVars
      BY <2>1 DEF ReplayIInv, AcceptedOnce, ExpiryOf, replayVars
    <2> QED BY <2>1, TickReplay, AuthenticateReplay DEF ReplayNext
  <1>2. ReplayIInv => AcceptedOnce
    BY DEF ReplayIInv
  <1> QED BY <1>1, <1>2, InitReplay, PTL DEF ReplaySpec
=============================================================================
