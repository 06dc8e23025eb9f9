----------------------------- MODULE Exceptions -----------------------------
(***************************************************************************)
(* Exceptions to rules: the rule_exceptions table and the cache that       *)
(* evaluate() asks (app/rules/exceptions_store.py, the exception endpoints *)
(* of app/rules/router.py, load_exceptions in app/rules/engine.py).        *)
(*                                                                         *)
(* A handler changes the table in one critical section of the database     *)
(* lock, reads all of it in a second one and swaps the cache in one of     *)
(* another lock.  An exception stands for one that the events at hand      *)
(* meet; its field, value and reason are left out.                         *)
(***************************************************************************)
EXTENDS Requests, FiniteSets

CONSTANT RuleNames   (* rules that exceptions are about                    *)

VARIABLES
  excRows,      (* the rule_exceptions table: the rule of each id          *)
  excGiven,     (* ids given out so far: as UUIDs, none twice              *)
  exceptions,   (* _exceptions: the rules that have some                   *)
  excRead,      (* what load_exceptions read, before the swap              *)
  excSince      (* history: see Catalogue!since                            *)

excVars == <<excRows, excGiven, exceptions, excRead, excSince>>

ExcRow == [id : Nat, rule : RuleNames]

(* The rows by rule, as load_exceptions groups them.                       *)
Grouped(rows) == {r.rule : r \in rows}

(* History: after a change that leaves `rows`.                             *)
ExcChanged(a, rows) ==
  excSince' = [b \in Admins |-> IF b = a THEN {Grouped(rows)}
                                ELSE IF excSince[b] = {} THEN {}
                                ELSE excSince[b] \cup {Grouped(rows)}]

-----------------------------------------------------------------------------

ExcInit ==
  /\ excRows = {} /\ excGiven = 0 /\ exceptions = {}
  /\ excRead = [a \in Admins |-> {}] /\ excSince = [a \in Admins |-> {}]

(* POST /rules/{name}/exceptions; a rule need not exist.                   *)
AddException(a, name) ==
  /\ Arrive(a, "excRead")
  /\ excGiven' = excGiven + 1
  /\ excRows' = excRows \cup {[id |-> excGiven', rule |-> name]}
  /\ ExcChanged(a, excRows')
  /\ UNCHANGED <<exceptions, excRead>>

(* DELETE of an exception of the rule it is asked of, else 404.            *)
DeleteException(a, row) ==
  /\ Arrive(a, "excRead")
  /\ excRows' = excRows \ {row}
  /\ ExcChanged(a, excRows')
  /\ UNCHANGED <<excGiven, exceptions, excRead>>

(* load_exceptions reads the table.  Mutated form: before the change that  *)
(* it is to make known, so that the cache stays as it was.                 *)
ReadRowsStale(a) ==
  /\ At(a, "excRead") /\ Goto(a, "excSwap")
  /\ excRead' = [excRead EXCEPT ![a] = exceptions]
  /\ UNCHANGED <<excRows, excGiven, exceptions, excSince>>
ReadRows(a) ==
  /\ At(a, "excRead") /\ Goto(a, "excSwap")
  /\ excRead' = [excRead EXCEPT ![a] = Grouped(excRows)]
  /\ UNCHANGED <<excRows, excGiven, exceptions, excSince>>

(* ... and swaps the cache; the request is answered.                       *)
SwapExceptions(a) ==
  /\ At(a, "excSwap") /\ Goto(a, "idle")
  /\ exceptions' = excRead[a]
  /\ excRead' = [excRead EXCEPT ![a] = {}]
  /\ excSince' = [excSince EXCEPT ![a] = {}]
  /\ UNCHANGED <<excRows, excGiven>>

(* At startup, before requests are served, the cache is made anew.         *)
ExcRestart ==
  /\ exceptions' = Grouped(excRows)
  /\ excRead' = [a \in Admins |-> {}] /\ excSince' = [a \in Admins |-> {}]
  /\ UNCHANGED <<excRows, excGiven>>

ExcStep(a) ==
  \/ \E name \in RuleNames : AddException(a, name)
  \/ \E row \in excRows : DeleteException(a, row)
  \/ ReadRows(a) \/ SwapExceptions(a)

ExcNext == (\E a \in Admins : ExcStep(a)) \/ (RequestsRestart /\ ExcRestart)

ExcSpec == RequestsInit /\ ExcInit /\ [][ExcNext]_<<requestVars, excVars>>

-----------------------------------------------------------------------------

(* The cache of exceptions is refreshed after every change with the table  *)
(* as it was then or later: an older read may replace a newer one only     *)
(* when two requests overlap.                                              *)
ExcCatalogue ==
  INSTANCE Catalogue WITH Writers <- Admins, Tables <- SUBSET RuleNames,
                          table <- Grouped(excRows), cached <- exceptions,
                          since <- excSince
ExceptionsFresh == ExcCatalogue!Spec

=============================================================================
