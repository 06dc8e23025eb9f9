------------------------------ MODULE Sandbox ------------------------------
(***************************************************************************)
(* The SQL sandbox: POST /query/sql (app/query/router.py) and the tool     *)
(* query_events_sql of the MCP server (app/mcp_server/server.py).          *)
(*                                                                         *)
(* Both run statements on one connection, which holds the result of the    *)
(* last statement executed on it until the rows are fetched.  A request    *)
(* waits a limited time for a lock, has a worker thread execute and fetch, *)
(* and waits a limited time for that; leaving the pool of that worker it   *)
(* waits for it without a limit, and only then gives the lock back.  The   *)
(* MCP tool takes no lock and has no time limit.  A statement is valid;    *)
(* its result is known by the one who asked.                               *)
(***************************************************************************)
EXTENDS Requests, FiniteSets

CONSTANT Tools   (* threads of Admins whose queries come from the MCP tool *)

ASSUME SandboxAssumption == Tools \subseteq Admins

VARIABLES
  holders,   (* requests that have _exec_lock                              *)
  result,    (* whose statement the connection's result is of              *)
  worker,    (* how far the worker of a request is                         *)
  answer,    (* what the last query of a thread was answered: the status   *)
             (* and whose rows                                             *)
  audited,   (* the audit log: who was audited, for what                   *)
  mixed      (* history: threads whose worker met one of the MCP tool, or  *)
             (* that of a thread of the tool which met another             *)

sandboxVars == <<holders, result, worker, answer, audited, mixed>>

Answer(status, rows) == [status |-> status, rows |-> rows]
NoAnswer == Answer(0, {})

SandboxInit ==
  /\ holders = {} /\ result = {} /\ audited = {} /\ mixed = {}
  /\ worker = [a \in Admins |-> "none"] /\ answer = [a \in Admins |-> NoAnswer]

Executing == {a \in Admins : worker[a] \in {"execute", "fetch"}}

(* A worker begins.  History: who runs at the same time.                   *)
StartWorker(a) ==
  /\ worker' = [worker EXCEPT ![a] = "execute"]
  /\ LET met == {b \in Executing : a \in Tools \/ b \in Tools}
     IN  mixed' = (mixed \ {a}) \cup met \cup (IF met = {} THEN {} ELSE {a})

(* A valid query arrives.                                                  *)
Query(a) ==
  /\ IF a \in Tools THEN Arrive(a, "result") /\ StartWorker(a)
                    ELSE Arrive(a, "lock") /\ UNCHANGED <<worker, mixed>>
  /\ answer' = [answer EXCEPT ![a] = NoAnswer]
  /\ UNCHANGED <<holders, result, audited>>

(* The lock is free, or is not in time: 429, which is not audited.         *)
TakeLock(a) ==
  /\ At(a, "lock") /\ holders = {}
  /\ Goto(a, "result") /\ holders' = {a} /\ StartWorker(a)
  /\ UNCHANGED <<result, answer, audited>>
Busy(a) ==
  /\ At(a, "lock") /\ holders # {}
  /\ Goto(a, "idle") /\ answer' = [answer EXCEPT ![a] = Answer(429, {})]
  /\ UNCHANGED <<holders, result, worker, audited, mixed>>

(* _execute: the statement, then the rows of the connection's result.      *)
(* Either may raise; once fetched, a result has no more rows.              *)
Execute(a) ==
  /\ worker[a] = "execute"
  /\ \/ worker' = [worker EXCEPT ![a] = "fetch"] /\ result' = {a}
     \/ worker' = [worker EXCEPT ![a] = "raised"] /\ result' = {}
  /\ UNCHANGED <<pc, served, overlap, holders, answer, audited, mixed>>
Fetch(a) ==
  /\ worker[a] = "fetch"
  /\ \/ worker' = [worker EXCEPT ![a] = "fetched"]
     \/ result = {} /\ worker' = [worker EXCEPT ![a] = "raised"]
  /\ answer' = [answer EXCEPT ![a] = Answer(0, result)]
  /\ result' = {}
  /\ UNCHANGED <<pc, served, overlap, holders, audited, mixed>>

(* The result does not come in time: the pool is left, which waits.        *)
(* Mutated form: the pool is left without waiting, and the lock given back *)
(* with an answer of 408.                                                  *)
TimeoutAtOnce(a) ==
  /\ At(a, "result") /\ a \notin Tools /\ worker[a] \in {"execute", "fetch"}
  /\ Goto(a, "idle") /\ holders' = holders \ {a}
  /\ answer' = [answer EXCEPT ![a] = Answer(408, {})]
  /\ audited' = audited \cup {<<a, "timeout">>}
  /\ UNCHANGED <<result, worker, mixed>>
Timeout(a) ==
  /\ At(a, "result") /\ a \notin Tools /\ worker[a] \in {"execute", "fetch"}
  /\ Goto(a, "leave")
  /\ UNCHANGED sandboxVars

Ended(a) == worker[a] \in {"fetched", "raised"}
Release(a) ==
  /\ Goto(a, "idle") /\ holders' = holders \ {a}
  /\ worker' = [worker EXCEPT ![a] = "none"]
  /\ UNCHANGED <<result, mixed>>

(* ... until the worker ends, whatever it brought: 408, audited.           *)
TimedOut(a) ==
  /\ At(a, "leave") /\ Ended(a) /\ Release(a)
  /\ answer' = [answer EXCEPT ![a] = Answer(408, {})]
  /\ audited' = audited \cup {<<a, "timeout">>}

(* The worker ended in time: the rows, which a request has audited; or its *)
(* error, as a 500 without an audit.                                       *)
Respond(a) ==
  /\ At(a, "result") /\ Ended(a) /\ Release(a)
  /\ IF worker[a] = "raised"
     THEN answer' = [answer EXCEPT ![a] = Answer(500, {})] /\ UNCHANGED audited
     ELSE /\ answer' = [answer EXCEPT ![a] = Answer(200, answer[a].rows)]
          /\ audited' = IF a \in Tools THEN audited ELSE audited \cup {<<a, "rows">>}

(* A new process has no lock, worker or connection; the log stays.         *)
SandboxRestart ==
  /\ holders' = {} /\ result' = {} /\ mixed' = {}
  /\ worker' = [a \in Admins |-> "none"] /\ answer' = [a \in Admins |-> NoAnswer]
  /\ UNCHANGED audited

SandboxStep(a) ==
  \/ Query(a) \/ TakeLock(a) \/ Busy(a) \/ Execute(a) \/ Fetch(a)
  \/ Timeout(a) \/ TimedOut(a) \/ Respond(a)

-----------------------------------------------------------------------------

(* Requests execute one at a time, also when one is past its time limit;   *)
(* and no query takes the rows of another or leaves them to it, unless one *)
(* of the MCP tool is executed while it is.                                *)
OwnRows ==
  /\ Cardinality(Executing \ Tools) <= 1
  /\ \A a \in Admins \ mixed : answer[a].status = 200 => answer[a].rows = {a}

=============================================================================
