------------------------------ MODULE Lockout ------------------------------
(***************************************************************************)
(* Login throttling: app/auth_lockout.py as login and change_password      *)
(* (app/auth_router.py) use it.  The table of failures is in memory and    *)
(* guarded by one lock; a request notes its attempt as a failure BEFORE    *)
(* the slow password check and takes the entry back when the check         *)
(* succeeds.                                                               *)
(*                                                                         *)
(* A key is (username, ip) for a login and ("pwchange:" + username, ip)    *)
(* for a password change.  An absent entry is NoEntry: an entry in the     *)
(* table always counts at least one attempt.  A refused request changes    *)
(* nothing and is not an action.                                           *)
(***************************************************************************)
EXTENDS Integers, Sequences

CONSTANTS
  LoginThreads,        (* request threads                                  *)
  Keys,
  MAX_ATTEMPTS, BASE_BACKOFF_SECONDS, MAX_BACKOFF_SECONDS,
  MaxClock             (* bound: seconds explored                          *)

ASSUME ConstantsAssumption ==
  /\ MAX_ATTEMPTS \in Nat \ {0}
  /\ BASE_BACKOFF_SECONDS \in Nat
  /\ MAX_BACKOFF_SECONDS \in Nat
  /\ MaxClock \in Nat

VARIABLES
  clock,     (* time.monotonic()                                           *)
  failures,  (* _failures                                                  *)
  stage, key, (* where a request is, and the key it runs under             *)
  \* History, read by no action.
  times      (* when the attempts an entry counts were admitted            *)

lockoutVars == <<clock, failures, stage, key, times>>

-----------------------------------------------------------------------------

NoEntry == [count |-> 0, locked_until |-> 0, last_seen |-> 0]

(* BASE * 2 ** (count - MAX_ATTEMPTS), doubled no further than the cap.    *)
Backoff(count) ==
  LET doubled == BASE_BACKOFF_SECONDS * 2 ^ (count - MAX_ATTEMPTS)
  IN  IF doubled \in 0 .. MAX_BACKOFF_SECONDS THEN doubled ELSE MAX_BACKOFF_SECONDS

(* Mutated: a lock that starts one attempt late.                           *)
NotedLate(e, now) ==
  [count |-> e.count + 1,
   locked_until |-> IF e.count + 1 > MAX_ATTEMPTS THEN now + Backoff(e.count + 1)
                                                  ELSE e.locked_until,
   last_seen |-> now]

(* The entry after one more attempt, now.                                  *)
Noted(e, now) ==
  [count |-> e.count + 1,
   locked_until |-> IF e.count + 1 >= MAX_ATTEMPTS THEN now + Backoff(e.count + 1)
                                                   ELSE e.locked_until,
   last_seen |-> now]

(* Mutated: an entry that is not locked is taken for stale.                *)
StaleWhenUnlocked(e, now) == e.count > 0 /\ e.locked_until <= now

(* _evict_stale: only idle time counts, not whether an entry is locked.    *)
Stale(e, now) == e.count > 0 /\ now - e.last_seen > MAX_BACKOFF_SECONDS

Locked(k) == failures[k].locked_until > clock

-----------------------------------------------------------------------------

LockoutInit ==
  /\ clock = 0
  /\ failures = [k \in Keys |-> NoEntry]
  /\ stage = [t \in LoginThreads |-> "idle"]
  /\ key \in [LoginThreads -> Keys]
  /\ times = [k \in Keys |-> <<>>]

Tick ==
  /\ clock < MaxClock
  /\ clock' = clock + 1
  /\ UNCHANGED <<failures, stage, key, times>>

(* check_and_note_attempt, not locked: note the attempt, sweep the table.  *)
Attempt(t, k) ==
  /\ stage[t] = "idle" /\ ~ Locked(k)
  /\ failures' = [j \in Keys |->
                    IF j = k THEN Noted(failures[k], clock)
                    ELSE IF Stale(failures[j], clock) THEN NoEntry ELSE failures[j]]
  /\ times' = [j \in Keys |->
                 IF j = k THEN Append(times[k], clock)
                 ELSE IF Stale(failures[j], clock) THEN <<>> ELSE times[j]]
  /\ stage' = [stage EXCEPT ![t] = "verify"]
  /\ key' = [key EXCEPT ![t] = k]
  /\ UNCHANGED clock

(* The password is right: record_success drops the whole entry, with the   *)
(* attempts other requests have noted in the meantime.                     *)
Accept(t) ==
  /\ stage[t] = "verify"
  /\ failures' = [failures EXCEPT ![key[t]] = NoEntry]
  /\ times' = [times EXCEPT ![key[t]] = <<>>]
  /\ stage' = [stage EXCEPT ![t] = "idle"]
  /\ UNCHANGED <<clock, key>>

(* It is wrong, or the lookup fails: the noted attempt stays.              *)
Reject(t) ==
  /\ stage[t] = "verify"
  /\ stage' = [stage EXCEPT ![t] = "idle"]
  /\ UNCHANGED <<clock, failures, key, times>>

LockoutStep(t) == (\E k \in Keys : Attempt(t, k)) \/ Accept(t) \/ Reject(t)

LockoutNext == Tick \/ \E t \in LoginThreads : LockoutStep(t)

LockoutSpec == LockoutInit /\ [][LockoutNext]_lockoutVars

-----------------------------------------------------------------------------
(* Types of the state.                                                     *)
Entry == [count : Nat, locked_until : Nat, last_seen : Nat]

LockoutTypeOK ==
  /\ clock \in Nat
  /\ failures \in [Keys -> Entry]
  /\ stage \in [LoginThreads -> {"idle", "verify"}]
  /\ key \in [LoginThreads -> Keys]
  /\ times \in [Keys -> Seq(Nat)]

(* However many requests for a key run at once, from the attempt that      *)
(* reaches MAX_ATTEMPTS on every admitted attempt waited out the back-off  *)
(* of the one before: requests cannot stack up while the slow checks run   *)
(* (check_and_note_attempt, lines 70-76).                                  *)
AttemptsSpaced ==
  \A k \in Keys : \A i \in MAX_ATTEMPTS .. Len(times[k]) - 1 :
    times[k][i + 1] >= times[k][i] + Backoff(i)

(* A key that is locked is so because of MAX_ATTEMPTS attempts or more     *)
(* with no success since, and for MAX_BACKOFF_SECONDS from now at most.    *)
LocksJustified ==
  \A k \in Keys : Locked(k) =>
    /\ Len(times[k]) >= MAX_ATTEMPTS
    /\ failures[k].locked_until <= clock + MAX_BACKOFF_SECONDS

Dropped(k) == failures[k].count > 0 /\ failures'[k].count = 0

(* An entry goes away only because a request for its own key succeeded, or *)
(* when it has been idle for more than MAX_BACKOFF_SECONDS and is not      *)
(* locked: attempts under other keys can neither reset a count that is     *)
(* being built up nor lift a lock-out (_evict_stale, lines 30-45).         *)
EvictionHarmless ==
  [][\A k \in Keys : Dropped(k) =>
       \/ \E t \in LoginThreads : key[t] = k /\ stage[t] = "verify" /\ stage'[t] = "idle"
       \/ clock - failures[k].last_seen > MAX_BACKOFF_SECONDS /\ ~ Locked(k)]_lockoutVars

(* While a key is locked nothing makes the lock-out longer.                *)
LockNotExtended ==
  [][\A k \in Keys : Locked(k) =>
       failures'[k].locked_until <= failures[k].locked_until]_lockoutVars

=============================================================================
