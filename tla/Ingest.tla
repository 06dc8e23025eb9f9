------------------------------- MODULE Ingest -------------------------------
(***************************************************************************)
(* The endpoints that take log lines and the syslog listener's work, line  *)
(* by line (app/ingest/router.py, app/ingest/pipeline.py,                  *)
(* app/listeners/syslog.py), beside the reloading of decoders.             *)
(*                                                                         *)
(* A call is a request or a line heard on a socket.  Call 0 is the one a   *)
(* client waits for; the others are waited for by nobody, as of a request  *)
(* that its client gave up, which the server finishes all the same.        *)
(***************************************************************************)
EXTENDS Decoders

CONSTANTS
  Scenarios,    (* what is explored: see Scenario                          *)
  MaxCalls,     (* bound: calls in progress that nobody waits for          *)
  ErrorCap      (* _MAX_INGEST_ERRORS                                      *)

(* One program or socket that lines come from, and bounds: requests about  *)
(* decoders and restarts; errors, lost answers and restarts; lines written *)
(* to a log and files it is in.                                            *)
Scenario == [program : {"none", "syslog", "auth", "upload", "socket", "beats"},
             requests : Nat, faults : Nat, written : Nat, logs : Nat]

ASSUME IngestAssumption == MaxCalls \in Nat \ {0} /\ ErrorCap \in Nat /\ Scenarios \subseteq Scenario

VARIABLES
  scenario,  (* the one that is explored                                   *)
  calls,     (* the calls in progress                                      *)
  stored,    (* the events table: the lines of its rows in their order     *)
  faults,    (* faults so far                                              *)
  refused,   (* history: lines that no decoder took                        *)
  broken     (* history: lines whose insertion raised or was cut short     *)

ingestVars == <<scenario, calls, stored, faults, refused, broken>>

-----------------------------------------------------------------------------

(* A call: its endpoint, source and lines, which one is at hand and what   *)
(* is done with it next; the numbers of the lines that failed, whether     *)
(* there were too many of them, and the answer.                            *)
Call(kind, source, lines) ==
  [kind |-> kind, source |-> source, lines |-> lines, at |-> 1, step |-> "begin",
   csv |-> NoFile, errors |-> <<>>, truncated |-> FALSE, answer |-> "none"]
NoCall == [Call("none", "none", <<>>) EXCEPT !.step = "free"]

Slots == 0 .. MaxCalls
Line(k) == calls[k].lines[calls[k].at]
On(k, step) == calls[k].step = step

Then(k, step) == calls' = [calls EXCEPT ![k].step = step]

(* Nobody waits for the answer of another call than call 0.                *)
Answered(k, call, answer) ==
  IF k = 0 THEN [call EXCEPT !.step = "answered", !.answer = answer] ELSE NoCall

(* The line is done: on to the next one, or the answer.                    *)
Onward(k, call) ==
  IF call.at < Len(call.lines) THEN [call EXCEPT !.at = @ + 1, !.step = "decode"]
  ELSE Answered(k, call, "ok")
LineDone(k) == calls' = [calls EXCEPT ![k] = Onward(k, @)]

(* It failed: a request for a single line fails with it, one for many      *)
(* notes the number of the line (_record_error), up to a limit.            *)
Noted(call) ==
  IF Len(call.errors) < ErrorCap THEN [call EXCEPT !.errors = Append(@, call.at)]
  ELSE [call EXCEPT !.truncated = TRUE]
LineFailed(k, answer) ==
  calls' = [calls EXCEPT ![k] = IF @.kind = "file" THEN Onward(k, Noted(@))
                                ELSE IF @.kind = "raw" THEN Answered(k, @, answer)
                                ELSE Onward(k, @)]

Fault == faults < scenario.faults /\ faults' = faults + 1
Runs(program) == scenario.program = program

IngestInit ==
  /\ scenario \in Scenarios
  /\ calls = [k \in Slots |-> NoCall] /\ stored = <<>>
  /\ faults = 0 /\ refused = {} /\ broken = {}

-----------------------------------------------------------------------------

(* A request or a line arrives.                                            *)
Submit(k, call) ==
  /\ On(k, "free") /\ calls' = [calls EXCEPT ![k] = call]
  /\ UNCHANGED <<scenario, stored, faults, refused, broken>>

(* POST /ingest/file asks once whether its source is one of CSV files; the *)
(* first line is the header then.  The other endpoints ask nothing.        *)
BeginCall(k) ==
  /\ On(k, "begin")
  /\ LET doc == decoders[calls[k].source]
         csv == calls[k].kind = "file" /\ doc.kind = "decoder" /\ doc.type = "csv"
     IN  calls' = [calls EXCEPT ![k] =
           IF ~csv THEN [@ EXCEPT !.step = "decode"]
           ELSE IF Len(@.lines) = 1 THEN Answered(k, @, "ok")
           ELSE [@ EXCEPT !.step = "decode", !.at = 2, !.csv = doc]]
  /\ UNCHANGED <<scenario, stored, faults, refused, broken>>

(* A row is decoded with the decoder that the request began with, and      *)
(* outside the try: where that raises, the whole request fails.            *)
Taken(k) ==
  IF calls[k].csv # NoFile THEN Matches(calls[k].csv, Line(k))
  ELSE Decodes(calls[k].source, Line(k))
Raises(k) ==
  calls[k].kind = "file" /\ calls[k].csv # NoFile /\ Line(k) \in calls[k].csv.raises

(* Beats and the listener keep lines that no decoder takes (strict=False). *)
(* Mutated form: they are as strict as the others.                         *)
KeptAnywayNever(k) == FALSE
KeptAnyway(k) == calls[k].kind \in {"beats", "syslog"}

DecodeLine(k) ==
  /\ On(k, "decode")
  /\ IF Raises(k) THEN calls' = [calls EXCEPT ![k] = Answered(k, @, "500")]
     ELSE IF Taken(k) \/ KeptAnyway(k) THEN Then(k, "insert") ELSE LineFailed(k, "422")
  /\ refused' = IF Taken(k) THEN refused ELSE refused \cup {Line(k)}
  /\ UNCHANGED <<scenario, stored, faults, broken>>

(* insert_event.                                                           *)
InsertLine(k) ==
  /\ On(k, "insert")
  /\ stored' = Append(stored, Line(k))
  /\ Then(k, "evaluate")
  /\ UNCHANGED <<scenario, faults, refused, broken>>

InsertRaises(k) ==
  /\ On(k, "insert") /\ Fault
  /\ LineFailed(k, "500")
  /\ broken' = broken \cup {Line(k)}
  /\ UNCHANGED <<scenario, stored, refused>>

(* The rules, then the watchlist; an exception there fails the line after  *)
(* it was stored.                                                          *)
EvaluateLine(k) ==
  /\ On(k, "evaluate") /\ LineDone(k)
  /\ UNCHANGED <<scenario, stored, faults, refused, broken>>

EvaluateRaises(k) ==
  /\ On(k, "evaluate") /\ Fault
  /\ LineFailed(k, "500")
  /\ UNCHANGED <<scenario, stored, refused, broken>>

Serve(k) ==
  \/ BeginCall(k) \/ DecodeLine(k) \/ InsertLine(k) \/ EvaluateLine(k)
Fail(k) == InsertRaises(k) \/ EvaluateRaises(k)

(* The client has its answer, or gives the call up, because its time is    *)
(* over or the connection broke; the server goes on with it unless it was  *)
(* done.  After a restart there is nothing left to wait for.               *)
Receive(answers) ==
  /\ On(0, "answered") /\ calls[0].answer \in answers
  /\ calls' = [calls EXCEPT ![0] = NoCall]
  /\ UNCHANGED <<scenario, stored, faults, refused, broken>>

Abandon ==
  /\ ~On(0, "free") /\ Fault
  /\ IF On(0, "answered") THEN calls' = [calls EXCEPT ![0] = NoCall]
     ELSE \E k \in Slots \ {0} :
            /\ On(k, "free") /\ \A j \in 1 .. k - 1 : ~On(j, "free")
            /\ calls' = [calls EXCEPT ![k] = calls[0], ![0] = NoCall]
  /\ UNCHANGED <<scenario, stored, refused, broken>>

BrokenOff == On(0, "free") /\ UNCHANGED ingestVars

(* A restart ends all calls; what clients wait for breaks off.             *)
IngestRestart ==
  /\ Fault
  /\ broken' = broken \cup UNION {{calls[k].lines[i] : i \in calls[k].at .. Len(calls[k].lines)} :
                                  k \in {j \in Slots : calls[j].step \notin {"free", "answered"}}}
  /\ calls' = [k \in Slots |-> NoCall]
  /\ UNCHANGED <<scenario, stored, refused>>

=============================================================================
