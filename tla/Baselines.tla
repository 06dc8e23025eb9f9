----------------------------- MODULE Baselines -----------------------------
(***************************************************************************)
(* The baseline job (app/baselines/engine.py), its tables (store.py) and   *)
(* the requests that reset a source's baselines or acknowledge violations. *)
(*                                                                         *)
(* The job is one loop: a round fixes the hour and the weekday, and for    *)
(* each source counts its recent events, reads its baseline for that slot, *)
(* reports a count far above it, and writes the baseline back with the     *)
(* count taken in (Welford's update).  Each of these is a critical section *)
(* of its own, and requests run in between.                                *)
(*                                                                         *)
(* A mean is its numerator over n, and m2 its numerator over n: "total" is *)
(* n * mean and "spread" is n * m2, both whole numbers for whole counts.   *)
(* The rounding of floats is left out.  The time of a round is its slot.   *)
(***************************************************************************)
EXTENDS Requests, Sequences, FiniteSets

CONSTANTS
  BaselineSources,   (* sources in the order in which a round takes them   *)
  Slots,             (* hours of weekdays                                  *)
  Observed,          (* numbers of events a round may count                *)
  MinSamples,        (* tinysiem_baseline_min_samples                      *)
  Threshold,         (* tinysiem_baseline_z_threshold                      *)
  MaxCounts          (* bound: counts explored                             *)

ASSUME BaselineAssumption ==
  /\ BaselineSources \in Seq(STRING) /\ Observed \subseteq Nat
  /\ MinSamples \in Nat /\ Threshold \in Nat /\ MaxCounts \in Nat

SourceSet == {BaselineSources[i] : i \in DOMAIN BaselineSources}

VARIABLES
  baselines,    (* the baselines table: NoBaseline where there is no row   *)
  violations,   (* the baseline_violations table                           *)
  job,          (* where the round is and what it has in hand              *)
  counts,       (* number of counts so far                                 *)
  sampled,      (* history: the counts taken in since the last reset       *)
  undone        (* history: slots whose reset a round wrote over           *)

baselineVars == <<baselines, violations, job, counts, sampled, undone>>

Baseline(n, total, spread) == [n |-> n, total |-> total, spread |-> spread]
NoBaseline == Baseline(0, 0, 0)
Rest == [at |-> "rest", slot |-> CHOOSE s \in Slots : TRUE, next |-> 1, observed |-> 0,
         existing |-> NoBaseline]
Source == BaselineSources[job.next]
Key == <<Source, job.slot>>
Keys == SourceSet \X Slots

-----------------------------------------------------------------------------

(* std_dev is the root of spread / n^2, and 1 at least divides; all terms  *)
(* are multiplied by n.                                                    *)
Deviates(b, x) ==
  LET above == b.n * x - b.total
  IN  /\ above >= Threshold * b.n
      /\ above * above >= Threshold * Threshold * b.spread

(* Welford's update: m2 grows by the product of the distances to the old   *)
(* and to the new mean.  Mutated form: by that to the old mean, twice.     *)
UpdatedOldMean(b, x) ==
  IF b.n = 0 THEN Baseline(1, x, 0)
  ELSE Baseline(b.n + 1, b.total + x,
         (b.n + 1) * ((b.n * b.spread + (b.n * x - b.total) * (b.n * x - b.total))
                      \div (b.n * b.n)))
Updated(b, x) ==
  IF b.n = 0 THEN Baseline(1, x, 0)
  ELSE Baseline(b.n + 1, b.total + x,
         ((b.n + 1) * b.spread + (b.n * x - b.total) * ((b.n + 1) * x - (b.total + x)))
           \div b.n)

BaselinesInit ==
  /\ baselines = [k \in Keys |-> NoBaseline] /\ violations = {} /\ job = Rest
  /\ counts = 0 /\ sampled = [k \in Keys |-> <<>>] /\ undone = {}

(* The loop wakes up and fixes the slot; sources without events never get  *)
(* a turn.                                                                 *)
BeginRound(slot) ==
  /\ job.at = "rest" /\ counts < MaxCounts /\ BaselineSources # <<>>
  /\ job' = [Rest EXCEPT !.at = "count", !.slot = slot]
  /\ UNCHANGED <<baselines, violations, counts, sampled, undone>>

AfterSource ==
  job' = IF job.next = Len(BaselineSources) THEN Rest
         ELSE [Rest EXCEPT !.at = "count", !.slot = job.slot, !.next = job.next + 1]

(* count_events_in_window; a failure passes the source over.               *)
CountEvents(x) ==
  /\ job.at = "count" /\ counts < MaxCounts /\ counts' = counts + 1
  /\ job' = [job EXCEPT !.at = "get", !.observed = x]
  /\ UNCHANGED <<baselines, violations, sampled, undone>>
CountFails ==
  /\ job.at = "count" /\ AfterSource
  /\ UNCHANGED <<baselines, violations, counts, sampled, undone>>

(* get_baseline, and what is decided from it.  Mutated form: the count at  *)
(* hand is among the samples.                                              *)
FarAboveWithIt(b, x) == b.n >= MinSamples /\ Deviates(Updated(b, x), x)
FarAbove(b, x) == b.n >= MinSamples /\ b.n > 0 /\ Deviates(b, x)

GetBaseline ==
  /\ job.at = "get"
  /\ job' = [job EXCEPT !.existing = baselines[Key],
                        !.at = IF FarAbove(baselines[Key], job.observed) THEN "report" ELSE "upsert"]
  /\ UNCHANGED <<baselines, violations, counts, sampled, undone>>

(* insert_violation; then the alert, whose failure is only logged.         *)
InsertViolation ==
  /\ job.at = "report"
  /\ violations' = violations \cup
       {[key |-> Key, existing |-> job.existing, observed |-> job.observed,
         acknowledged |-> FALSE]}
  /\ job' = [job EXCEPT !.at = "upsert"]
  /\ UNCHANGED <<baselines, counts, sampled, undone>>

(* upsert_baseline.  A reset since the read is undone by it.               *)
UpsertBaseline ==
  /\ job.at = "upsert"
  /\ baselines' = [baselines EXCEPT ![Key] = Updated(job.existing, job.observed)]
  /\ sampled' = [sampled EXCEPT ![Key] = Append(@, job.observed)]
  /\ undone' = IF baselines[Key] = job.existing THEN undone ELSE undone \cup {Key}
  /\ AfterSource
  /\ UNCHANGED <<violations, counts>>

(* Any other failure ends the round, which is logged.                      *)
RoundFails ==
  /\ job.at \in {"get", "report", "upsert"} /\ job' = Rest
  /\ UNCHANGED <<baselines, violations, counts, sampled, undone>>

(* DELETE /baselines/{source}: all its slots.                              *)
Reset(source) ==
  /\ baselines' = [k \in Keys |-> IF k[1] = source THEN NoBaseline ELSE baselines[k]]
  /\ sampled' = [k \in Keys |-> IF k[1] = source THEN <<>> ELSE sampled[k]]
  /\ undone' = {k \in undone : k[1] # source}
  /\ UNCHANGED <<violations, job, counts>>

(* PATCH of a violation, whatever value it gives.                          *)
Acknowledge(v) ==
  /\ violations' = (violations \ {v}) \cup {[v EXCEPT !.acknowledged = TRUE]}
  /\ UNCHANGED <<baselines, job, counts, sampled, undone>>

(* The tables stay, a round under way is gone.                             *)
BaselinesRestart ==
  /\ job' = Rest /\ UNCHANGED <<baselines, violations, counts, sampled, undone>>

JobStep ==
  \/ \E slot \in Slots : BeginRound(slot)
  \/ \E x \in Observed : CountEvents(x)
  \/ CountFails \/ GetBaseline \/ InsertViolation \/ UpsertBaseline \/ RoundFails

BaselineRequest(a) ==
  /\ Arrive(a, "idle")
  /\ \/ \E source \in SourceSet : Reset(source)
     \/ \E v \in violations : Acknowledge(v)

-----------------------------------------------------------------------------

(* The number, the sum and the spread (n times the sum of squares, less    *)
(* the square of the sum) of some counts.                                  *)
SumOf(s) ==
  LET upTo[i \in 0..Len(s)] == IF i = 0 THEN 0 ELSE upTo[i - 1] + s[i]
  IN  upTo[Len(s)]
Squares(s) == [i \in DOMAIN s |-> s[i] * s[i]]
BaselineOf(s) == Baseline(Len(s), SumOf(s), Len(s) * SumOf(Squares(s)) - SumOf(s) * SumOf(s))

(* A baseline is that of the counts since the last reset, unless a round   *)
(* undid the reset: neither an update nor a failure in the middle of a     *)
(* round takes a count in twice or half, or one of another slot.           *)
BaselineOfSamples == \A k \in Keys \ undone : baselines[k] = BaselineOf(sampled[k])

(* Every count that was taken in, though it lies far above those before    *)
(* it, has been reported, and with what was expected from those.           *)
DeviationsReported ==
  \A k \in Keys \ undone : \A i \in DOMAIN sampled[k] :
    LET before == BaselineOf(SubSeq(sampled[k], 1, i - 1))
    IN  i > MinSamples /\ i > 1 /\ Deviates(before, sampled[k][i]) =>
          \E v \in violations :
            v.key = k /\ v.existing = before /\ v.observed = sampled[k][i]

=============================================================================
