-------------------------------- MODULE Desk --------------------------------
(***************************************************************************)
(* What analysts and administrators do at their desks, with the baseline   *)
(* job: triage, baselines, queries, the assistant.  The parts share the    *)
(* threads that serve requests and the database lock, and no table: a      *)
(* behaviour stays within one of them, its area.                           *)
(***************************************************************************)
EXTENDS Triage, Baselines, Sandbox, Assistant

CONSTANT Areas   (* areas explored                                         *)

VARIABLE area    (* that of this behaviour                                 *)

vars == <<area, requestVars, triageVars, baselineVars, sandboxVars, assistantVars>>

Init ==
  /\ area \in Areas
  /\ RequestsInit /\ TriageInit /\ BaselinesInit /\ SandboxInit /\ AssistantInit

InTriage ==
  /\ area = "triage"
  /\ RotateAlerts \/ \E a \in Admins : TriageStep(a)
  /\ UNCHANGED <<area, baselineVars, sandboxVars, assistantVars>>

(* The job, and requests that are one critical section each.               *)
InBaselines ==
  /\ area = "baselines"
  /\ \/ JobStep /\ UNCHANGED requestVars
     \/ \E a \in Admins : BaselineRequest(a)
  /\ UNCHANGED <<area, triageVars, sandboxVars, assistantVars>>

InSandbox ==
  /\ area = "sandbox" /\ \E a \in Admins : SandboxStep(a)
  /\ UNCHANGED <<area, triageVars, baselineVars, assistantVars>>

InAssistant ==
  /\ area = "assistant"
  /\ \/ Tick /\ UNCHANGED requestVars
     \/ \E a \in Admins : AssistantStep(a)
  /\ UNCHANGED <<area, triageVars, baselineVars, sandboxVars>>

Restart ==
  /\ RequestsRestart
  /\ TriageRestart /\ BaselinesRestart /\ SandboxRestart /\ AssistantRestart
  /\ UNCHANGED area

Next == InTriage \/ InBaselines \/ InSandbox \/ InAssistant \/ Restart

Spec == Init /\ [][Next]_vars

=============================================================================
