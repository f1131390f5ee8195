---------------------------- MODULE LoginLimiter ----------------------------
(***************************************************************************)
(* The counter of failed logins (domain/auth/ratelimit.py): a fixed-window *)
(* counter in the shared cache, and a bounded in-process one that answers  *)
(* while the cache does not.  A login checks, then authenticates, then     *)
(* records its failure or resets the counter; logins overlap, windows end  *)
(* and the cache goes away between any two of these.                       *)
(***************************************************************************)
EXTENDS Naturals, Sequences, SequencesExt, Common

CONSTANTS LimitKeys,       \* digests of (email, address)
          Logins,          \* concurrent logins
          MaxFailures,     \* login_max_failures
          MaxKeys,         \* max_keys of the local counter
          MaxWindows,      \* bound on windows
          MaxCacheFlips    \* bound on outages of the cache

VARIABLES window,     \* the current window
          shared,     \* <<key, window>> -> count in the cache
          local,      \* the ordered dictionary: entries [key, window, count]
          cacheUp,
          login,      \* login -> its state
          failures,   \* history: key -> failures recorded in this window, up to MaxFailures
          unearned,   \* history: a login was refused without that many failures
          cacheFlips

limitVars == <<window, shared, local, cacheUp, login, failures, unearned, cacheFlips>>
IdleLogin == [pc |-> "idle", key |-> None]

LimitInit ==
  /\ window = 1
  /\ shared = [e \in LimitKeys \X (1..MaxWindows) |-> 0]
  /\ local = <<>>
  /\ cacheUp = TRUE
  /\ login = [l \in Logins |-> IdleLogin]
  /\ failures = [k \in LimitKeys |-> 0]
  /\ unearned = FALSE
  /\ cacheFlips = 0

\* _prune: entries of past windows go, from the newest end until a current one.
Prune ==
  LET current == {n \in DOMAIN local : local[n].window >= window}
  IN IF current = {} THEN <<>>
     ELSE SubSeq(local, 1, CHOOSE n \in current : \A m \in current : m <= n)
Entries(seq, k) == SelectSeq(seq, LAMBDA e : e.key = k /\ e.window = window)
Others(seq, k) == SelectSeq(seq, LAMBDA e : ~(e.key = k /\ e.window = window))
LocalCount(k) == LET found == Entries(Prune, k) IN IF found = <<>> THEN 0 ELSE Head(found).count

Bug_SharedCount(k) == FoldFunctionOnSet(+, 0, shared, {k} \X (1..MaxWindows))
\* The store key carries the window.
SharedCount(k) == shared[<<k, window>>]

LimitUnchanged == UNCHANGED <<window, cacheUp, cacheFlips>>

\* RateLimitGate.check: the cache, or the local counter when the cache fails.
Check(l, k) ==
  LET refused == IF cacheUp THEN SharedCount(k) >= MaxFailures ELSE LocalCount(k) >= MaxFailures
  IN
  /\ login[l].pc = "idle"
  /\ login' = IF refused THEN login ELSE [login EXCEPT ![l] = [pc |-> "checked", key |-> k]]
  /\ unearned' = (unearned \/ (refused /\ failures[k] < MaxFailures))
  /\ local' = IF cacheUp THEN local ELSE Prune
  /\ UNCHANGED <<shared, failures>> /\ LimitUnchanged

\* record_failure.  Over max_keys the newest entry goes.
Recorded(k) ==
  LET entry == [key |-> k, window |-> window, count |-> LocalCount(k) + 1]
      all == Append(Others(Prune, k), entry)
  IN SubSeq(all, 1, IF Len(all) > MaxKeys THEN MaxKeys ELSE Len(all))

RecordFailure(l) ==
  LET k == login[l].key IN
  /\ login[l].pc = "checked"
  /\ \/ cacheUp /\ shared' = [shared EXCEPT ![<<k, window>>] = @ + 1] /\ UNCHANGED local
     \/ ~cacheUp /\ local' = Recorded(k) /\ UNCHANGED shared
  /\ failures' = [failures EXCEPT ![k] = IF @ < MaxFailures THEN @ + 1 ELSE @]
  /\ login' = [login EXCEPT ![l] = IdleLogin]
  /\ UNCHANGED unearned /\ LimitUnchanged

\* The login succeeded.
ResetCounter(l) ==
  LET k == login[l].key IN
  /\ login[l].pc = "checked"
  /\ \/ cacheUp /\ shared' = [shared EXCEPT ![<<k, window>>] = 0] /\ UNCHANGED local
     \/ ~cacheUp /\ local' = Others(Prune, k) /\ UNCHANGED shared
  /\ login' = [login EXCEPT ![l] = IdleLogin]
  /\ UNCHANGED <<failures, unearned>> /\ LimitUnchanged

WindowEnds ==
  /\ window < MaxWindows
  /\ window' = window + 1
  /\ failures' = [k \in LimitKeys |-> 0]
  /\ UNCHANGED <<shared, local, cacheUp, login, unearned, cacheFlips>>

CacheFlips ==
  /\ cacheFlips < MaxCacheFlips /\ cacheFlips' = cacheFlips + 1
  /\ cacheUp' = ~cacheUp
  /\ UNCHANGED <<window, shared, local, login, failures, unearned>>

LimitNext ==
  \/ \E l \in Logins : (\E k \in LimitKeys : Check(l, k)) \/ RecordFailure(l) \/ ResetCounter(l)
  \/ WindowEnds \/ CacheFlips

LimitSpec == LimitInit /\ [][LimitNext]_limitVars

-----------------------------------------------------------------------------
(* A login is refused only when its key really failed login_max_failures times *)
(* in the current window: no failure of an earlier window, of another key or   *)
(* counted twice across the two backends is held against it                    *)
(* (domain/auth/ratelimit.py check, _prune, _with_fallback).                   *)
RefusalIsEarned == ~unearned
=============================================================================
