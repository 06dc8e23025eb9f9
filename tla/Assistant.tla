----------------------------- MODULE Assistant -----------------------------
(***************************************************************************)
(* The AI assistant's shared state: the single row of ai_config            *)
(* (app/ai/config_store.py, the config endpoints of app/ai/router.py), its *)
(* use by app/ai/provider_factory.py, and the daily limit of calls         *)
(* (app/ai/rate_limit.py).                                                 *)
(*                                                                         *)
(* A save checks in one critical section whether the stored key will do,   *)
(* reads the row in a second one to carry its key over, and replaces the   *)
(* row in a third.  A call reads the provider in one and the key in        *)
(* another.  What is asked and answered is left out; a key is known by the *)
(* provider that it was given for.                                         *)
(***************************************************************************)
EXTENDS Requests, Sequences, FiniteSets, SequencesExt

CONSTANTS
  Providers,   (* of PROVIDER_PRESETS                                      *)
  Keyed,       (* those that a key is required for                         *)
  DailyLimit,  (* tinysiem_ai_daily_call_limit                             *)
  Day,         (* _WINDOW_SECONDS                                          *)
  LastTime     (* bound: the clock                                         *)

ASSUME AssistantAssumption ==
  /\ Keyed \subseteq Providers /\ "none" \notin Providers
  /\ DailyLimit \in Nat /\ Day \in Nat /\ LastTime \in Nat
  /\ IsFiniteSet(Admins) /\ Admins # {}

VARIABLES
  config,    (* the row of ai_config, or NoConfig                          *)
  order,     (* what each thread saves or calls with, and has read         *)
  crossed,   (* history: threads in whose save or call another save ended  *)
  excused,   (* history: the save of the row was among them                *)
  clock,     (* time.monotonic                                             *)
  calls,     (* _calls of one user: times, oldest first                    *)
  recorded,  (* history: the times of all calls, and the latest time a     *)
             (* call had been counted with when they were recorded         *)
  newest,    (* history: the latest time a call was counted with           *)
  lastCall   (* history: provider and key of the last call                 *)

assistantVars == <<config, order, crossed, excused, clock, calls, recorded, newest, lastCall>>

Config(provider, key) == [provider |-> provider, key |-> key]
NoConfig == Config("none", {})
Order(now, asked, read) == [now |-> now, asked |-> asked, read |-> read]
NoOrder == Order(0, NoConfig, NoConfig)

AssistantInit ==
  /\ config = NoConfig /\ order = [a \in Admins |-> NoOrder] /\ crossed = {} /\ excused = FALSE
  /\ clock = 0 /\ calls = <<>> /\ recorded = <<>> /\ newest = 0 /\ lastCall = NoConfig

-----------------------------------------------------------------------------

(* The answer.                                                             *)
Finish(a) == Goto(a, "idle") /\ order' = [order EXCEPT ![a] = NoOrder]

(* PUT /ai/config: without a key for a provider that needs one, the stored *)
(* row must have one for it, else 422.                                     *)
SaveConfig(a, provider, key) ==
  /\ Arrive(a, "readRow")
  /\ key \in {{}, {provider}}
  /\ \/ provider \notin Keyed \/ key # {}
     \/ config.provider = provider /\ config.key # {}
  /\ order' = [order EXCEPT ![a] = Order(0, Config(provider, key), NoConfig)]
  /\ crossed' = crossed \ {a}
  /\ UNCHANGED <<config, excused, clock, calls, recorded, newest, lastCall>>

(* save_ai_config reads the row; encryption may raise first (503).         *)
ReadRow(a) ==
  /\ At(a, "readRow") /\ Goto(a, "replace")
  /\ order' = [order EXCEPT ![a].read = config]
  /\ UNCHANGED <<config, crossed, excused, clock, calls, recorded, newest, lastCall>>
EncryptRaises(a) ==
  /\ At(a, "replace") /\ order[a].asked.key # {} /\ Finish(a)
  /\ UNCHANGED <<config, crossed, excused, clock, calls, recorded, newest, lastCall>>

(* The key to store: the one given, or that of the same provider.          *)
(* Mutated form: or that of whatever provider there was.                   *)
CarriedAlways(o) == IF o.asked.key # {} THEN o.asked.key ELSE o.read.key
Carried(o) ==
  IF o.asked.key # {} THEN o.asked.key
  ELSE IF o.read.provider = o.asked.provider THEN o.read.key ELSE {}

(* DELETE and INSERT, each committed by itself; a failure of the second    *)
(* leaves no row.                                                          *)
ReplaceRow(a) ==
  /\ At(a, "replace") /\ Finish(a)
  /\ config' = Config(order[a].asked.provider, Carried(order[a]))
  /\ crossed' = crossed \cup (Admins \ {a}) /\ excused' = (a \in crossed)
  /\ UNCHANGED <<clock, calls, recorded, newest, lastCall>>
InsertFails(a) ==
  /\ At(a, "replace") /\ Finish(a)
  /\ config' = NoConfig
  /\ crossed' = crossed \cup (Admins \ {a}) /\ excused' = (a \in crossed)
  /\ UNCHANGED <<clock, calls, recorded, newest, lastCall>>

-----------------------------------------------------------------------------

(* A call of an endpoint: check_and_record reads the clock ...             *)
BeginCall(a) ==
  /\ Arrive(a, "record")
  /\ order' = [order EXCEPT ![a] = Order(clock, NoConfig, NoConfig)]
  /\ UNCHANGED <<config, crossed, excused, clock, calls, recorded, newest, lastCall>>

(* ... and under its lock drops the old times from the front and counts    *)
(* the others: a 429, or the call is recorded.  Mutated form: a call more  *)
(* is let through.                                                         *)
Kept(times, now) ==
  LET first == SelectInSeq(times, LAMBDA t : t >= now - Day)
  IN  IF first = 0 THEN <<>> ELSE SubSeq(times, first, Len(times))
UnderLimitByOne(times) == Len(times) <= DailyLimit
UnderLimit(times) == Len(times) < DailyLimit

RecordCall(a) ==
  /\ At(a, "record")
  /\ LET kept == Kept(calls, order[a].now)
     IN  IF UnderLimit(kept)
         THEN /\ Goto(a, "provider") /\ calls' = Append(kept, order[a].now)
              /\ recorded' =
                   Append(recorded, [now |-> order[a].now, after |-> newest])
         ELSE Goto(a, "idle") /\ calls' = kept /\ UNCHANGED recorded
  /\ order' = [order EXCEPT ![a] = NoOrder]
  /\ newest' = Max({newest, order[a].now})
  /\ UNCHANGED <<config, crossed, excused, clock, lastCall>>

(* POST /ai/config/test calls the provider without counting the call.      *)
TestConfig(a) ==
  /\ Arrive(a, "provider")
  /\ UNCHANGED assistantVars

(* get_active_provider: the provider, without which it answers 503; then   *)
(* the key.  The call goes out with both.                                  *)
ReadProvider(a) ==
  /\ At(a, "provider")
  /\ IF config = NoConfig THEN Finish(a)
     ELSE Goto(a, "key") /\ order' = [order EXCEPT ![a].read = config]
  /\ crossed' = crossed \ {a}
  /\ UNCHANGED <<config, excused, clock, calls, recorded, newest, lastCall>>
ReadKey(a) ==
  /\ At(a, "key") /\ Finish(a)
  /\ lastCall' = IF a \in crossed THEN NoConfig
                 ELSE Config(order[a].read.provider, config.key)
  /\ UNCHANGED <<config, crossed, excused, clock, calls, recorded, newest>>

Tick ==
  /\ clock < LastTime /\ clock' = clock + 1
  /\ UNCHANGED <<config, order, crossed, excused, calls, recorded, newest, lastCall>>

(* The row stays; the calls are forgotten.                                 *)
AssistantRestart ==
  /\ order' = [a \in Admins |-> NoOrder] /\ crossed' = {}
  /\ calls' = <<>> /\ recorded' = <<>> /\ newest' = 0 /\ lastCall' = NoConfig
  /\ UNCHANGED <<config, excused, clock>>

AssistantStep(a) ==
  \/ \E p \in Providers, key \in SUBSET Providers : SaveConfig(a, p, key)
  \/ ReadRow(a) \/ EncryptRaises(a) \/ ReplaceRow(a) \/ InsertFails(a)
  \/ BeginCall(a) \/ RecordCall(a) \/ TestConfig(a) \/ ReadProvider(a) \/ ReadKey(a)

-----------------------------------------------------------------------------

(* No provider has stored, or is called with, a key that was given for     *)
(* another, the latter unless a save came between the two reads; and what  *)
(* is stored has the key it needs, unless a save came between the check    *)
(* and the save.                                                           *)
OwnKey(c) == c.key \subseteq {c.provider}
KeysStayHome ==
  /\ OwnKey(config) /\ OwnKey(lastCall)
  /\ config.provider \in Keyed /\ config.key = {} => excused

(* In no day are more calls recorded than the limit, as long as no call    *)
(* has been counted with a time after that day; and one for each other     *)
(* thread at most once this has dropped what was of the day.               *)
CallsCapped ==
  \A t \in 0..LastTime, late \in BOOLEAN :
    Cardinality({i \in DOMAIN recorded :
                   recorded[i].now \in (t - Day)..t /\ late = (recorded[i].after > t)})
      <= IF late THEN Cardinality(Admins) - 1 ELSE DailyLimit

=============================================================================
