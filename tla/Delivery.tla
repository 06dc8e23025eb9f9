------------------------------ MODULE Delivery ------------------------------
(***************************************************************************)
(* Log lines on their way into the store: one program or socket that they  *)
(* come from, the server's work on its calls, requests that change the     *)
(* decoders meanwhile, faults and restarts.                                *)
(***************************************************************************)
EXTENDS Tailer, Upload, Listeners

vars == <<requestVars, decoderVars, ingestVars, tailVars, uploadVars, listenVars>>

Init ==
  /\ RequestsInit /\ DecodersInit /\ IngestInit
  /\ TailerInit /\ UploadInit /\ ListenersInit

Administer(a) ==
  /\ DecodersStep(a) /\ served' <= scenario.requests
  /\ UNCHANGED <<ingestVars, tailVars, uploadVars, listenVars>>

ServeCall(k) ==
  Serve(k) /\ UNCHANGED <<requestVars, decoderVars, tailVars, uploadVars, listenVars>>
FailCall(k) ==
  Fail(k) /\ UNCHANGED <<requestVars, decoderVars, tailVars, uploadVars, listenVars>>

(* The log file is written and rotated while a program follows it.         *)
LogStep(step) ==
  /\ Runs("syslog") \/ Runs("auth")
  /\ step
  /\ UNCHANGED <<requestVars, decoderVars, ingestVars, uploadVars, listenVars>>
Log == LogStep(WriteLog) \/ LogStep(RenameLog) \/ LogStep(CreateLog) \/ LogStep(ReopenLog)

TailSteps ==
  /\ \/ (StartTail \/ Follow) /\ UNCHANGED ingestVars
     \/ TailPosts
  /\ UNCHANGED <<requestVars, decoderVars, uploadVars, listenVars>>

UploadSteps == Uploads /\ UNCHANGED <<requestVars, decoderVars, tailVars, listenVars>>
ListenSteps == Listen /\ UNCHANGED <<requestVars, decoderVars, tailVars, uploadVars>>

Restart ==
  /\ RequestsRestart /\ served' <= scenario.requests
  /\ DecodersRestart /\ IngestRestart /\ ListenersRestart
  /\ UNCHANGED <<tailVars, uploadVars>>

Next ==
  \/ \E a \in Admins : Administer(a)
  \/ \E k \in Slots : ServeCall(k) \/ FailCall(k)
  \/ Log \/ TailSteps \/ UploadSteps \/ ListenSteps
  \/ Restart

(* The threads of the server go on, so does the program that follows the   *)
(* file, and a rotation that has begun ends.                               *)
Fairness ==
  /\ WF_vars(TailSteps) /\ WF_vars(LogStep(CreateLog))
  /\ \A k \in Slots : WF_vars(ServeCall(k))

Spec == Init /\ [][Next]_vars /\ Fairness

=============================================================================
