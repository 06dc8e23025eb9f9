------------------------------- MODULE Triage -------------------------------
(***************************************************************************)
(* Triage of alerts: PATCH /alerts/{id} (app/alerts/router.py) and the     *)
(* alert_triage table (app/storage/duckdb_store.py).                       *)
(*                                                                         *)
(* A patch names some of the two fields.  The handler looks the alert up   *)
(* in the current alert file, reads the whole table in one critical        *)
(* section of the database lock, fills in the fields it was not given from *)
(* what it read, and writes both in another critical section.  The reads   *)
(* of lists, facets and summaries change nothing and are left out, as are  *)
(* who triaged and when.                                                   *)
(***************************************************************************)
EXTENDS Requests, FiniteSets

CONSTANTS
  Alerts,     (* alert ids                                                 *)
  Statuses,   (* _VALID_STATUSES; "open" is what an alert is born with     *)
  Analysts    (* whom an alert may be assigned to; "" is nobody            *)

Fields == {"status", "assigned_to"}
Values(f) == IF f = "status" THEN Statuses ELSE Analysts
Default == [f \in Fields |-> IF f = "status" THEN "open" ELSE ""]

ASSUME TriageAssumption == Default["status"] \in Statuses /\ Default["assigned_to"] \in Analysts

(* What a request may give: a field it leaves out has the value "unset".   *)
Patches ==
  {p \in [Fields -> Statuses \cup Analysts \cup {"unset"}] :
     \A f \in Fields : p[f] \in Values(f) \cup {"unset"}}

VARIABLES
  current,   (* alerts whose line is in the current alert file             *)
  triage,    (* the alert_triage table; an alert without a row has the     *)
             (* default                                                    *)
  patch,     (* what each thread was asked, of which alert, and has read   *)
  given,     (* history: the value that the last patch naming it wrote     *)
  behind     (* history: fields written since a thread read the table      *)

triageVars == <<current, triage, patch, given, behind>>

Patch(alert, fields, read) == [alert |-> alert, fields |-> fields, read |-> read]
NoPatch == Patch({}, Default, Default)

-----------------------------------------------------------------------------

TriageInit ==
  /\ current = Alerts
  /\ triage = [x \in Alerts |-> Default] /\ given = triage
  /\ patch = [a \in Admins |-> NoPatch]
  /\ behind = [a \in Admins |-> {}]

(* A valid patch of an alert that the current file has, else 422 or 404:   *)
(* read_all_alerts reads the file before the table.                        *)
PatchAlert(a, x, fields) ==
  /\ Arrive(a, "triageRead")
  /\ x \in current
  /\ patch' = [patch EXCEPT ![a] = Patch({x}, fields, Default)]
  /\ UNCHANGED <<current, triage, given, behind>>

(* get_triage_map.                                                         *)
ReadTriage(a) ==
  /\ At(a, "triageRead") /\ Goto(a, "triageWrite")
  /\ \E x \in patch[a].alert :
       patch' = [patch EXCEPT ![a] = Patch({x}, patch[a].fields, triage[x])]
  /\ behind' = [behind EXCEPT ![a] = {}]
  /\ UNCHANGED <<current, triage, given>>

(* The fields given, over those that were read.  Mutated form: over those  *)
(* an alert is born with.                                                  *)
MergedDefault(p) ==
  [f \in Fields |-> IF p.fields[f] = "unset" THEN Default[f] ELSE p.fields[f]]
Merged(p) ==
  [f \in Fields |-> IF p.fields[f] = "unset" THEN p.read[f] ELSE p.fields[f]]

(* upsert_triage, and the answer.  History: a patch writes the fields that *)
(* it names, and anew those that it read before another patch wrote them.  *)
UpsertTriage(a) ==
  /\ At(a, "triageWrite") /\ Goto(a, "idle")
  /\ \E x \in patch[a].alert :
       LET written == {f \in Fields : patch[a].fields[f] # "unset"} \cup behind[a]
       IN  /\ triage' = [triage EXCEPT ![x] = Merged(patch[a])]
           /\ given' = [given EXCEPT ![x] =
                [f \in Fields |-> IF f \in written THEN Merged(patch[a])[f] ELSE given[x][f]]]
           /\ behind' = [b \in Admins |->
                IF b = a THEN {}
                ELSE IF patch[b].alert = {x} THEN behind[b] \cup written ELSE behind[b]]
  /\ patch' = [patch EXCEPT ![a] = NoPatch]
  /\ UNCHANGED current

(* The alert file is rotated (AlertFile): its alerts can no longer be      *)
(* patched; requests that have found theirs go on.                         *)
RotateAlerts ==
  /\ served < MaxRequests /\ served' = served + 1 /\ current # {}
  /\ current' = {}
  /\ UNCHANGED <<pc, overlap, triage, patch, given, behind>>

(* The file and the table stay; requests under way are gone.               *)
TriageRestart ==
  /\ patch' = [a \in Admins |-> NoPatch] /\ behind' = [a \in Admins |-> {}]
  /\ UNCHANGED <<current, triage, given>>

TriageStep(a) ==
  \/ \E x \in Alerts, fields \in Patches : PatchAlert(a, x, fields)
  \/ ReadTriage(a) \/ UpsertTriage(a)

-----------------------------------------------------------------------------

(* No patch undoes a field it did not name, unless another patch named the *)
(* field between its read and its write: patches one after the other keep  *)
(* each other's fields, and two at once lose at most those of the first    *)
(* that the second did not name.                                           *)
TriageKept == triage = given

=============================================================================
