------------------------------ MODULE Requests ------------------------------
(***************************************************************************)
(* Requests of administrators, each served by a thread of its own: what    *)
(* the modules about rule files, exceptions and watchlists share.  A       *)
(* handler runs from its arrival to its answer, one label at a time, and   *)
(* the handlers of other requests run in between.                          *)
(***************************************************************************)
EXTENDS Integers

CONSTANTS
  Admins,       (* threads that serve administrators                       *)
  MaxRequests   (* bound: requests and restarts explored                   *)

ASSUME RequestsAssumption == MaxRequests \in Nat

VARIABLES
  pc,       (* what each thread does next; "idle" between requests         *)
  served,   (* requests and restarts so far                                *)
  overlap   (* history: two requests were in progress at one time          *)

requestVars == <<pc, served, overlap>>

Quiet == \A a \in Admins : pc[a] = "idle"

RequestsInit ==
  /\ pc = [a \in Admins |-> "idle"] /\ served = 0 /\ overlap = FALSE

(* A request arrives and passes the checks of its handler.                 *)
Arrive(a, label) ==
  /\ pc[a] = "idle" /\ served < MaxRequests
  /\ pc' = [pc EXCEPT ![a] = label] /\ served' = served + 1
  /\ overlap' = (overlap \/ ~Quiet)

(* A thread goes on to a label; "idle" is the answer.                      *)
Goto(a, label) ==
  pc' = [pc EXCEPT ![a] = label] /\ UNCHANGED <<served, overlap>>

At(a, label) == pc[a] = label

(* The process starts again: no request survives it.                       *)
RequestsRestart ==
  /\ served < MaxRequests /\ served' = served + 1
  /\ pc' = [a \in Admins |-> "idle"] /\ overlap' = FALSE

=============================================================================
