------------------------------- MODULE Caches -------------------------------
(***************************************************************************)
(* What an event is tested against once it is stored (store_and_evaluate   *)
(* of app/ingest/pipeline.py): the rules and their exceptions, then the    *)
(* watchlist; beside them the requests that change all three, and          *)
(* restarts (the lifespan of app/main.py).                                 *)
(***************************************************************************)
EXTENDS Rules, Watchlists

CONSTANT Met   (* what events meet: sets of indicators                     *)

VARIABLE hit   (* the entry that a thread found and has yet to report      *)

vars == <<requestVars, excVars, ruleVars, watchVars, hit>>

Init ==
  /\ RequestsInit /\ ExcInit /\ RulesInit /\ WatchInit
  /\ hit = [w \in Workers |-> {}]

Administer(a) ==
  \/ RulesStep(a) /\ UNCHANGED <<excVars, watchVars, hit>>
  \/ ExcStep(a) /\ UNCHANGED <<ruleVars, watchVars, hit>>
  \/ WatchStep(a) /\ UNCHANGED <<excVars, ruleVars, hit>>

Evaluate(w) ==
  EvaluateStep(w) /\ UNCHANGED <<requestVars, excVars, watchVars, hit>>

(* check_event looks for an entry that the event meets ...                 *)
Check(w, met) ==
  /\ walk[w].state = "check"
  /\ \/ Match(met) = {} /\ walk' = [walk EXCEPT ![w] = Resting] /\ UNCHANGED hit
     \/ \E e \in Match(met) : /\ hit' = [hit EXCEPT ![w] = {e}]
                              /\ walk' = [walk EXCEPT ![w].state = "report"]
  /\ UNCHANGED <<requestVars, excVars, watchVars, files, rules, job, events, torn>>

(* ... and writes its alert, when the entry may be gone.                   *)
Report(w) ==
  /\ walk[w].state = "report"
  /\ hit' = [hit EXCEPT ![w] = {}]
  /\ walk' = [walk EXCEPT ![w] = Resting]
  /\ UNCHANGED <<requestVars, excVars, watchVars, files, rules, job, events, torn>>

Restart ==
  /\ RequestsRestart /\ RulesRestart /\ ExcRestart /\ WatchRestart
  /\ hit' = [w \in Workers |-> {}]

Next ==
  \/ \E a \in Admins : Administer(a)
  \/ \E w \in Workers : Evaluate(w) \/ Report(w) \/ \E met \in Met : Check(w, met)
  \/ Restart

Spec == Init /\ [][Next]_vars

=============================================================================
