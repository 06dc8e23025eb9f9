---------------------------- MODULE Integrations ----------------------------
(***************************************************************************)
(* Pull integrations: the scheduler loop of app/main.py, the runner and    *)
(* store of app/integrations, and their endpoints.                         *)
(*                                                                         *)
(* Scheduler and manual runs are tasks of one event loop.  The drivers are *)
(* coroutines that never await, so under the Python 3.12 of the Dockerfile *)
(* wait_for neither interrupts them nor lets another task in: the loop     *)
(* executes one run at a time, and run_due as a whole, while the           *)
(* synchronous endpoints (create, patch, delete) run on other threads and  *)
(* come in between any two of their steps.  (Before 3.12 wait_for wraps    *)
(* the driver in a task and yields; that is not modelled.)                 *)
(*                                                                         *)
(* The events of a service are numbered by their time, in which they need  *)
(* not appear.  A cursor is a time, from which a pull reads on, inclusive, *)
(* or from the beginning (the S3 driver never looks at it).  What a pull   *)
(* gets is whatever the service puts on the one page that is read, or on   *)
(* the pages before the driver breaks off: any part of what there is, the  *)
(* newest without the older ones included.  The cursor moves to the newest *)
(* event of it all the same; what the page had left out or the service did *)
(* not show yet is passed over for good.  A CloudWatch cursor is a number  *)
(* that the next pull cannot parse, which makes that pull fail.            *)
(***************************************************************************)
EXTENDS Integers, Sequences, SequencesExt

CONSTANTS
  Ids,          (* integration ids                                         *)
  Busy,         (* bound: the integrations whose service logs events       *)
  MaxEvents,    (* bound: the time of a service's last event               *)
  MaxQueue,     (* bound: manual runs waiting                              *)
  Restarts      (* bound: whether the process may die and be restarted     *)

VARIABLES
  order,      (* the integrations table, by created_at                     *)
  enabled,
  polled,     (* last_run_at is set                                        *)
  cursor,     (* next_cursor of the latest ok run, 0 without one           *)
  source,     (* events a service holds                                    *)
  evaluated,  (* events in the store that the rules have seen              *)
  queue,      (* manual runs accepted, not started                         *)
  sched,      (* the scheduler loop: "ready", "busy" or "asleep"           *)
  todo,       (* the rest of run_due's list                                *)
  run,        (* the run the event loop is in                              *)
  created,
  \* History, read by no action.
  first,      (* time the first successful pull began at, 0 before         *)
  left        (* events that a successful pull passed over: older than the *)
              (* newest of its page and not on it                          *)

table == <<order, enabled, polled, created>>
data  == <<cursor, evaluated, first, left>>
vars  == <<table, data, source, queue, sched, todo, run>>

-----------------------------------------------------------------------------

NoRun == [at |-> "none", id |-> "none", by |-> "none", row |-> FALSE,
          old |-> 0, since |-> 0, next |-> 0, page |-> {}, rest |-> {}]

Present(i) == Contains(order, i)
Times(i) == IF i \in Busy THEN 1 .. MaxEvents ELSE {}
Begun(i, by) == [NoRun EXCEPT !.at = "get", !.id = i, !.by = by]
At(where) == run.at = where
Pulled(r, where) == [r EXCEPT !.at = where, !.since = 0, !.next = 0, !.page = {}, !.rest = {}]
Fail == run' = Pulled(run, "error")

-----------------------------------------------------------------------------

Init ==
  /\ order = <<>> /\ created = {}
  /\ enabled = [i \in Ids |-> FALSE] /\ polled = [i \in Ids |-> FALSE]
  /\ cursor = [i \in Ids |-> 0] /\ first = [i \in Ids |-> 0]
  /\ source = [i \in Ids |-> {}] /\ left = [i \in Ids |-> {}]
  /\ evaluated = [i \in Ids |-> {}]
  /\ queue = <<>> /\ sched = "ready" /\ todo = <<>> /\ run = NoRun

(* A service that is polled shows another event, perhaps a late one.       *)
Produce(i) ==
  /\ Present(i)
  /\ \E e \in Times(i) \ source[i] : source' = [source EXCEPT ![i] = @ \cup {e}]
  /\ UNCHANGED <<table, data, queue, sched, todo, run>>

(* POST /integrations                                                      *)
Create(i) ==
  /\ i \notin created
  /\ created' = created \cup {i} /\ order' = Append(order, i)
  /\ enabled' = [enabled EXCEPT ![i] = TRUE]
  /\ UNCHANGED <<polled, data, source, queue, sched, todo, run>>

(* PATCH /integrations/{id}                                                *)
Patch(i) ==
  /\ Present(i)
  /\ enabled' = [enabled EXCEPT ![i] = ~ @]
  /\ UNCHANGED <<order, polled, created, data, source, queue, sched, todo, run>>

(* DELETE /integrations/{id}: the row and the runs there are by now.       *)
Delete(i) ==
  /\ Present(i)
  /\ order' = SelectSeq(order, LAMBDA j : j # i)
  /\ enabled' = [enabled EXCEPT ![i] = FALSE] /\ polled' = [polled EXCEPT ![i] = FALSE]
  /\ cursor' = [cursor EXCEPT ![i] = 0] /\ first' = [first EXCEPT ![i] = 0]
  /\ left' = [left EXCEPT ![i] = {}]
  /\ run' = IF run.id = i THEN [run EXCEPT !.row = FALSE] ELSE run
  /\ UNCHANGED <<created, evaluated, source, queue, sched, todo>>

(* POST /integrations/{id}/run: the run is a task of its own, for later.   *)
Trigger(i) ==
  /\ At("none") /\ sched # "busy" /\ Present(i) /\ Len(queue) < MaxQueue
  /\ queue' = Append(queue, i)
  /\ UNCHANGED <<table, data, source, sched, todo, run>>

(* Mutated form of StartManual: disabled integrations have to wait.        *)
StartManualEnabled ==
  /\ At("none") /\ sched # "busy" /\ queue # <<>> /\ enabled[Head(queue)]
  /\ run' = Begun(Head(queue), "manual") /\ queue' = Tail(queue)
  /\ UNCHANGED <<table, data, source, sched, todo>>

(* The task's turn comes, whether or not the integration is enabled.       *)
StartManual ==
  /\ At("none") /\ sched # "busy" /\ queue # <<>>
  /\ run' = Begun(Head(queue), "manual") /\ queue' = Tail(queue)
  /\ UNCHANGED <<table, data, source, sched, todo>>

(* run_due: one look at the table, of which disabled rows are passed over. *)
List ==
  /\ At("none") /\ sched = "ready"
  /\ sched' = "busy"
  /\ LET due == SelectSeq(order, LAMBDA i : enabled[i])
     IN  todo' = [n \in DOMAIN due |-> [id |-> due[n], polled |-> polled[due[n]]]]
  /\ UNCHANGED <<table, data, source, queue, run>>

(* The next row of the list.  A row that was polled before has a           *)
(* last_run_at, which list_integrations marks as UTC and run_due subtracts  *)
(* from a time without zone: TypeError, before schedule_minutes matters and *)
(* outside the try, so run_due ends.                                        *)
Check ==
  /\ At("none") /\ sched = "busy" /\ todo # <<>>
  /\ LET row == Head(todo) IN
       IF row.polled
         THEN todo' = <<>> /\ sched' = "asleep" /\ UNCHANGED run
         ELSE todo' = Tail(todo) /\ run' = Begun(row.id, "scheduler") /\ UNCHANGED sched
  /\ UNCHANGED <<table, data, source, queue>>

(* End of the list: the loop sleeps ...                                    *)
Sleep ==
  /\ At("none") /\ sched = "busy" /\ todo = <<>>
  /\ sched' = "asleep"
  /\ UNCHANGED <<table, data, source, queue, todo, run>>

(* ... for 60 s.                                                           *)
Elapse ==
  /\ sched = "asleep" /\ sched' = "ready"
  /\ UNCHANGED <<table, data, source, queue, todo, run>>

(* run_integration: gone by now, or a run row is about to be made.         *)
Get ==
  /\ At("get")
  /\ run' = IF Present(run.id) THEN [run EXCEPT !.at = "insert"] ELSE NoRun
  /\ UNCHANGED <<table, data, source, queue, sched, todo>>

InsertRun ==
  /\ At("insert")
  /\ run' = [run EXCEPT !.at = "pull", !.row = TRUE]
  /\ UNCHANGED <<table, data, source, queue, sched, todo>>

(* Mutated: the time of the pull, beyond every event.                      *)
NewCursorNow(page, since) == {MaxEvents + 1}

(* new_cursor of the drivers: the newest of the page, or where it began.   *)
NewCursor(page, since) ==
  LET seen == page \cup {since} IN {c \in seen : \A e \in seen : e <= c}

(* get_last_cursor and the driver.  Without a cursor it starts now, or     *)
(* some time back (bound: not after the last event there will be); a page  *)
(* may also hold what is older (S3).                                       *)
Pull ==
  LET i == run.id IN
  /\ At("pull")
  /\ \E since \in IF cursor[i] = 0 THEN Times(i) \cup {1} ELSE {cursor[i]} :
     \E page \in SUBSET source[i] : \E next \in NewCursor(page, since) :
       run' = [run EXCEPT !.at = "ingest", !.old = cursor[i], !.since = since,
                          !.next = next, !.page = page, !.rest = page]
  /\ UNCHANGED <<table, data, source, queue, sched, todo>>

(* Mutated form of PullFails: try again.                                   *)
PullFailsRetry ==
  /\ At("pull")
  /\ run' = [run EXCEPT !.at = "insert"]
  /\ UNCHANGED <<table, data, source, queue, sched, todo>>

(* The cursor is read; the driver, or parsing the cursor, raises.          *)
PullFails ==
  /\ At("pull")
  /\ run' = [run EXCEPT !.at = "error", !.old = cursor[run.id]]
  /\ UNCHANGED <<table, data, source, queue, sched, todo>>

(* One event of the page: insert_event, then evaluate.                     *)
Ingest ==
  LET i == run.id IN
  /\ At("ingest")
  /\ \E e \in run.rest :
       /\ evaluated' = [evaluated EXCEPT ![i] = @ \cup {e}]
       /\ run' = [run EXCEPT !.rest = @ \ {e}]
  /\ UNCHANGED <<table, cursor, first, left, source, queue, sched, todo>>

(* Either raises: what was ingested before stays, this event may be stored *)
(* without the rules having seen it.                                       *)
IngestFails ==
  /\ At("ingest") /\ run.rest # {}
  /\ Fail
  /\ UNCHANGED <<table, data, source, queue, sched, todo>>

(* What the page leaves out, though it holds something newer.              *)
PassedOver(page, since) == (UNION {since .. e : e \in page}) \ page

(* finish_run(ok): the cursor moves, unless the run's row was deleted.     *)
FinishOk ==
  LET i == run.id IN
  /\ At("ingest") /\ run.rest = {}
  /\ IF run.row
       THEN /\ cursor' = [cursor EXCEPT ![i] = run.next]
            /\ first' = [first EXCEPT ![i] = IF @ = 0 THEN run.since ELSE @]
            /\ left' = [left EXCEPT ![i] = @ \cup PassedOver(run.page, run.since)]
       ELSE UNCHANGED <<cursor, first, left>>
  /\ run' = Pulled(run, "status")
  /\ UNCHANGED <<table, evaluated, source, queue, sched, todo>>

(* update_run_status                                                       *)
Status ==
  /\ run.at \in {"status", "errorstatus"}
  /\ polled' = [polled EXCEPT ![run.id] = Present(run.id)]
  /\ run' = NoRun
  /\ UNCHANGED <<order, enabled, created, data, source, queue, sched, todo>>

StatusFails ==
  /\ At("status") /\ Fail
  /\ UNCHANGED <<table, data, source, queue, sched, todo>>

(* finish_run(error) in the except branch.  It also overrules an "ok" that *)
(* the same run has just recorded: the last ok run is the one before.      *)
FinishError ==
  LET i == run.id IN
  /\ At("error")
  /\ IF run.row
       THEN /\ cursor' = [cursor EXCEPT ![i] = run.old]
            /\ first' = [first EXCEPT ![i] = IF run.old = 0 THEN 0 ELSE @]
            /\ left' = [left EXCEPT ![i] = {e \in @ : e < run.old}]
       ELSE UNCHANGED <<cursor, first, left>>
  /\ run' = [run EXCEPT !.at = "errorstatus", !.old = 0]
  /\ UNCHANGED <<table, evaluated, source, queue, sched, todo>>

Crash ==
  /\ Restarts
  /\ queue' = <<>> /\ todo' = <<>> /\ sched' = "ready" /\ run' = NoRun
  /\ UNCHANGED <<table, data, source>>

RunStep ==
  \/ Get \/ InsertRun \/ Pull \/ PullFails \/ Ingest \/ IngestFails
  \/ FinishOk \/ Status \/ StatusFails \/ FinishError

DueStep == List \/ Check \/ Sleep

Next ==
  \/ \E i \in Ids : Produce(i) \/ Create(i) \/ Patch(i) \/ Delete(i) \/ Trigger(i)
  \/ StartManual \/ DueStep \/ Elapse \/ RunStep \/ Crash

Spec == Init /\ [][Next]_vars

(* The event loop never stops while it has something to do, sleeps end, and *)
(* it takes up ready tasks in turn.                                         *)
FairSpec ==
  /\ Spec
  /\ WF_vars(RunStep) /\ WF_vars(Check \/ Sleep) /\ WF_vars(Elapse)
  /\ SF_vars(List) /\ SF_vars(StartManual)

-----------------------------------------------------------------------------
(* Everything the cursor has passed, since the first successful pull, is in *)
(* the store and was seen by the rules, unless a pull that succeeded had a  *)
(* newer event on its page and this one not: a run that breaks off half-way, *)
(* a restart, a manual run or a deletion in between never makes the next    *)
(* pull start beyond an event that was fetched and not ingested             *)
(* (run_integration).  That pages do leave events out is the drivers' doing. *)
NothingSkipped ==
  \A i \in Ids : \A e \in 1 .. MaxEvents :
    (first[i] # 0 /\ first[i] <= e /\ e < cursor[i]) => e \in evaluated[i] \cup left[i]

(* A run that was started ends, whatever fails in it.                      *)
RunsEnd == run.at # "none" ~> run.at = "none"

(* A manual run that was accepted is started, the scheduler and other      *)
(* manual runs notwithstanding, unless the process dies.                   *)
ManualRuns ==
  \A i \in Ids :
    (queue # <<>> /\ Head(queue) = i) ~> (run.id = i /\ run.by = "manual") \/ queue = <<>>

(* "Background scheduler checks every 60 s; configurable per-integration   *)
(* interval" (README.md, API Integrations): an integration that stays      *)
(* enabled is polled again and again.                                      *)
PolledAgain ==
  \A i \in Ids :
    <>[](Present(i) /\ enabled[i]) => []<>(run.id = i /\ run.by = "scheduler")

=============================================================================
