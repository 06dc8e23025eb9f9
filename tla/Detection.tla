----------------------------- MODULE Detection -----------------------------
(***************************************************************************)
(* From a received line to a firing: app/ingest/pipeline.py (decode,       *)
(* insert, evaluate) and the two stateful kinds of rule in                 *)
(* app/rules/engine.py, a correlation rule and a threshold rule.           *)
(*                                                                         *)
(* Every ingesting thread decodes, inserts and evaluates its own event, so *)
(* events reach the rules in another order than they were stamped in.  The *)
(* correlation table is in memory and under _corr_lock, firing included;   *)
(* the threshold rule asks the store, and reads the clock for its window   *)
(* before it gets the store's lock.                                        *)
(*                                                                         *)
(* The firing gate behind both rules is Suppression; a rule's exceptions   *)
(* are left out, and so is a count that raises (evaluate logs it): it      *)
(* leaves what a restart before the count leaves, an event nobody judged.  *)
(* An event is what the two rules see of it: the captured value (an absent *)
(* field is one value like any other) and a kind, which says what          *)
(* conditions it meets.  What makes the threshold rule look and what it    *)
(* then counts are two conditions: the rule's operator decides the first,  *)
(* and the count's SQL is an equality whatever the operator.               *)
(***************************************************************************)
EXTENDS Integers, Sequences, FiniteSets

CONSTANTS
  Threads,         (* threads that ingest events                           *)
  Entities,        (* values of the capture field                          *)
  Kinds,           (* what the rules tell events apart by                  *)
  Steps,           (* len(steps) of the correlation rule                   *)
  Hits,            (* per kind, the steps (from 0) whose condition it meets *)
  Window,          (* window_seconds of the correlation rule               *)
  Triggers,        (* kinds of the threshold rule's source that meet its   *)
                   (* condition by its operator; none if the source is *   *)
  Counted,         (* kinds of that source whose field equals the value    *)
  ThresholdCount,  (* threshold_count                                      *)
  CountWindow,     (* window_seconds of the threshold rule                 *)
  MaxEvents,       (* bound: events explored                               *)
  MaxClock,        (* bound: clock ticks explored                          *)
  MaxBoots         (* bound: process starts explored                       *)

ASSUME RulesAssumption ==
  /\ Steps \in Nat /\ Steps >= 2
  /\ Hits \in [Kinds -> SUBSET (0 .. Steps - 1)] /\ Triggers \subseteq Kinds /\ Counted \subseteq Kinds
  /\ Window \in Nat /\ ThresholdCount \in Nat \ {0} /\ CountWindow \in Nat
ASSUME BoundsAssumption == MaxEvents \in Nat /\ MaxClock \in Nat /\ MaxBoots \in Nat

VARIABLES
  clock,   (* the wall clock                                               *)
  last,    (* events received                                              *)
  store,   (* the events table                                             *)
  corr,    (* _corr_state[rule]: an entry per captured value that has one  *)
  pc,      (* where each thread is in store_and_evaluate                   *)
  call,    (* its event, and since_ts                                      *)
  \* History, read by no action.
  boot,    (* number of the running process                                *)
  seen,    (* per captured value, what the correlation rule was shown      *)
  judged   (* the evaluations of the threshold rule                        *)

vars == <<clock, last, store, corr, pc, call, boot, seen, judged>>

-----------------------------------------------------------------------------

Idle  == [id |-> 0, at |-> 0, since |-> 0]

Without(table, key) == [k \in DOMAIN table \ {key} |-> table[k]]
With(table, key, entry) ==
  [k \in DOMAIN table \cup {key} |-> IF k = key THEN entry ELSE table[k]]

-----------------------------------------------------------------------------

Init ==
  /\ clock = 0 /\ last = 0 /\ store = {}
  /\ corr = [e \in {} |-> 0]
  /\ pc = [t \in Threads |-> "idle"] /\ call = [t \in Threads |-> Idle]
  /\ boot = 1 /\ seen = [e \in Entities |-> <<>>] /\ judged = {}

Tick ==
  /\ clock < MaxClock
  /\ clock' = clock + 1
  /\ UNCHANGED <<last, store, corr, pc, call, boot, seen, judged>>

Goto(t, label) == pc' = [pc EXCEPT ![t] = label]
Return(t) == Goto(t, "idle") /\ call' = [call EXCEPT ![t] = Idle]

(* A line arrives and is decoded: the event gets its ingested_at.          *)
Receive(t, entity, kind) ==
  /\ pc[t] = "idle" /\ last < MaxEvents
  /\ last' = last + 1
  /\ call' = [call EXCEPT ![t] = [id |-> last + 1, entity |-> entity, kind |-> kind,
                                  at |-> clock, since |-> 0]]
  /\ Goto(t, "insert")
  /\ UNCHANGED <<clock, store, corr, boot, seen, judged>>

Row(c) == [id |-> c.id, entity |-> c.entity, kind |-> c.kind, at |-> c.at]

Insert(t) ==
  /\ pc[t] = "insert"
  /\ store' = store \cup {Row(call[t])}
  /\ Goto(t, "correlate")
  /\ UNCHANGED <<clock, last, corr, call, boot, seen, judged>>

(* The INSERT raises: the client gets the error and no rule sees the event. *)
InsertFails(t) ==
  /\ pc[t] = "insert"
  /\ Return(t)
  /\ UNCHANGED <<clock, last, store, corr, boot, seen, judged>>

(* Mutated forms of Live: nothing is cleaned up, entries go a tick early.  *)
LiveForever(table) == table
LiveBefore(table) ==
  [e \in {k \in DOMAIN table : clock - table[k].at < Window} |-> table[e]]

(* _cleanup_corr: entries older than the window go, of every value.        *)
Live(table) ==
  [e \in {k \in DOMAIN table : clock - table[k].at <= Window} |-> table[e]]

(* An event meets the step that an entry waits for: the entry goes with    *)
(* the last step, and else moves on.                                       *)
Advanced(table, e) ==
  IF table[e].step + 1 = Steps - 1 THEN Without(table, e)
  ELSE [table EXCEPT ![e].step = @ + 1]

(* _evaluate_correlation, under _corr_lock.  A value without an entry gets *)
(* one from an event that meets step 0; one that has an entry waits for    *)
(* the step after it, and fires on the last.                               *)
Correlate(t) ==
  LET c    == call[t]
      e    == c.entity
      live == Live(corr)
      opens    == e \notin DOMAIN live /\ 0 \in Hits[c.kind]
      advances == e \in DOMAIN live /\ live[e].step + 1 \in Hits[c.kind]
      fires    == advances /\ live[e].step + 1 = Steps - 1
  IN
  /\ pc[t] = "correlate"
  /\ corr' = CASE opens    -> With(live, e, [step |-> 0, at |-> clock])
               [] advances -> Advanced(live, e)
               [] OTHER    -> live
  /\ seen' = [seen EXCEPT ![e] =
                Append(@, [kind |-> c.kind, at |-> clock, boot |-> boot,
                           opened |-> opens, raised |-> fires])]
  /\ IF c.kind \in Triggers THEN Goto(t, "since") /\ UNCHANGED call ELSE Return(t)
  /\ UNCHANGED <<clock, last, store, boot, judged>>

(* count_events_in_window reads the clock ...                              *)
Since(t) ==
  /\ pc[t] = "since"
  /\ call' = [call EXCEPT ![t].since = clock - CountWindow]
  /\ Goto(t, "count")
  /\ UNCHANGED <<clock, last, store, corr, boot, seen, judged>>

(* ... and counts under the store's lock: field = value.                   *)
InWindow(since) == {x \in store : x.kind \in Counted /\ x.at >= since}

(* Mutated form of Reached: the event itself is not stored yet.            *)
ReachedByOthers(c) ==
  Cardinality({x \in InWindow(c.since) : x.id # c.id}) >= ThresholdCount

Reached(c) == Cardinality(InWindow(c.since)) >= ThresholdCount

Count(t) ==
  LET c == call[t] IN
  /\ pc[t] = "count"
  /\ judged' = judged \cup {[id |-> c.id, kind |-> c.kind, at |-> c.at,
                             since |-> c.since, fired |-> Reached(c)]}
  /\ Return(t)
  /\ UNCHANGED <<clock, last, store, corr, boot, seen>>

(* The process dies and starts again: the store is on disk, the table was  *)
(* in memory, and events between insert and evaluation are never judged.   *)
Restart ==
  /\ boot < MaxBoots
  /\ boot' = boot + 1
  /\ corr' = [e \in {} |-> 0]
  /\ pc' = [t \in Threads |-> "idle"] /\ call' = [t \in Threads |-> Idle]
  /\ UNCHANGED <<clock, last, store, seen, judged>>

Step(t) ==
  \/ \E e \in Entities, k \in Kinds : Receive(t, e, k)
  \/ Insert(t) \/ InsertFails(t) \/ Correlate(t) \/ Since(t) \/ Count(t)

Next == Tick \/ Restart \/ \E t \in Threads : Step(t)

Spec == Init /\ [][Next]_vars

-----------------------------------------------------------------------------
(* A chain of a value: positions in what the rule was shown, in order, one *)
(* per step, each meeting its step, in one process and within the window.  *)
Chains(e) ==
  LET s == seen[e] IN
  {p \in [0 .. Steps - 1 -> DOMAIN s] :
     /\ \A k \in 1 .. Steps - 1 : p[k - 1] < p[k]
     /\ \A k \in 0 .. Steps - 1 : k \in Hits[s[p[k]].kind]
     /\ s[p[0]].boot = s[p[Steps - 1]].boot
     /\ s[p[Steps - 1]].at - s[p[0]].at <= Window}

RaisedIn(e, first, final) == \E i \in first .. final : seen[e][i].raised

(* A firing of the correlation rule is explained by a chain that ends with *)
(* its event and begins after the value's previous firing: no event is     *)
(* used twice, none from another value, before a restart or outside the    *)
(* window (line 238, the cleanup on line 223).                             *)
FiringsExplained ==
  \A e \in Entities : \A i \in DOMAIN seen[e] :
    seen[e][i].raised =>
      \E p \in Chains(e) : p[Steps - 1] = i /\ ~ RaisedIn(e, p[0], i - 1)

(* A chain whose first event opened an entry fires, at its last event or   *)
(* before: whatever other events come in between, none makes the rule lose *)
(* its place (lines 227 to 241 advance an entry and never set it back).    *)
OpenedChainsFire ==
  \A e \in Entities : \A p \in Chains(e) :
    seen[e][p[0]].opened => RaisedIn(e, p[0], p[Steps - 1])

(* Of threshold_count events that the rule's count is of, that all made it *)
(* look, and that each find all the others in their window, one fires, in  *)
(* whatever order they were stamped, stored, and counted: the last to      *)
(* count sees them all, because every event is inserted before it is       *)
(* evaluated.  With the operator eq these are all events that meet the     *)
(* condition.  With any other they are those that equal the value besides: *)
(* of a burst of others nothing is said, and the rule may well be silent.  *)
ThresholdNotMissed ==
  \A burst \in {J \in SUBSET {j \in judged : j.kind \in Counted} :
                  Cardinality(J) = ThresholdCount} :
    (\A x, y \in burst : x.at >= y.since) => \E x \in burst : x.fired

=============================================================================
