------------------------------- MODULE Upload -------------------------------
(***************************************************************************)
(* The program that sends a file in batches (scripts/ingest_file.py, also  *)
(* the backfill of the two tailers), and what it writes to the file of     *)
(* rejects.                                                                *)
(*                                                                         *)
(* It numbers the lines of a batch as it reads them, by newlines; the      *)
(* server splits what it gets with splitlines(), which also splits at form *)
(* feeds and the like.  With --csv the header line goes before each batch. *)
(***************************************************************************)
EXTENDS Ingest

CONSTANTS
  RowSources,     (* sources of CSV files                                  *)
  Header,         (* the line that is the header of the file               *)
  FileLines,      (* the lines of the file after it that are not blank     *)
  BatchSize,      (* --batch-size                                          *)
  Pieces          (* the lines that the server takes a line for            *)

ASSUME UploadAssumption ==
  /\ FileLines \in Seq(Lines) \ {<<>>} /\ Header \in Lines \ ToSet(FileLines)
  /\ \A doc \in Docs : doc.type = "csv" <=> doc.source \in RowSources
  /\ BatchSize \in Nat \ {0} /\ Pieces \in [Lines -> Seq(Lines)]

VARIABLES
  up,        (* the program: what it does, the batch it is at              *)
  rejects,   (* the file of rejects: lines, or 0 for no line               *)
  dropped    (* history: lines of batches with too many errors             *)

uploadVars == <<up, rejects, dropped>>

Retries == 3   (* MAX_RETRIES                                              *)

(* read_batches: the lines of the batch at hand.                           *)
Batch == SubSeq(FileLines, up.first, Min({up.first + BatchSize - 1, Len(FileLines)}))

(* What is sent, and how the server splits it.                             *)
Sent == IF up.csv THEN <<Header>> \o Batch ELSE Batch
InPieces(line) == Pieces[line] # <<line>>
Body ==
  IF \E i \in DOMAIN Sent : InPieces(Sent[i])
  THEN FlattenSeq([i \in DOMAIN Sent |-> Pieces[Sent[i]]]) ELSE Sent

UploadInit ==
  /\ up = [source |-> CHOOSE s \in Sources : TRUE, csv |-> FALSE, state |-> "off", first |-> 1, attempt |-> 0]
  /\ rejects = {} /\ dropped = {}

-----------------------------------------------------------------------------

UpAt(state) == up.state = state

(* A file of rows is to be sent with --csv (docs/integrations.md).         *)
StartUpload(source, csv) ==
  /\ UpAt("off") /\ Runs("upload")
  /\ source \in RowSources => csv
  /\ up' = [up EXCEPT !.source = source, !.csv = csv, !.state = "send", !.attempt = 1]
  /\ UNCHANGED <<rejects, dropped>>

SendBatch ==
  /\ UpAt("send") /\ Submit(0, Call("file", up.source, Body))
  /\ up' = [up EXCEPT !.state = "wait"]
  /\ UNCHANGED <<rejects, dropped>>

NextBatch ==
  up' = [up EXCEPT !.first = @ + Len(Batch), !.attempt = 1,
                   !.state = IF up.first + Len(Batch) > Len(FileLines) THEN "done" ELSE "send"]

(* The line that an error of the server is about, by the program's count.  *)
Named(number) ==
  LET at == number - (IF up.csv THEN 1 ELSE 0)
  IN  IF at \in DOMAIN Batch THEN Batch[at] ELSE 0

(* The errors of the answer go to the rejects; that there were more of     *)
(* them than the answer holds is not looked at.                            *)
BatchDone ==
  /\ UpAt("wait") /\ Receive({"ok"})
  /\ rejects' = rejects \cup {Named(n) : n \in ToSet(calls[0].errors)}
  /\ dropped' = IF calls[0].truncated THEN dropped \cup ToSet(Batch) ELSE dropped
  /\ NextBatch

(* It has no answer or an error instead of one.  After three attempts that *)
(* failed all lines of the batch are rejects.                              *)
(* Mutated form: it is left out.                                           *)
AllOrNone == {}
AllOfBatch == ToSet(Batch)
BatchFails ==
  /\ UpAt("wait")
  /\ Abandon \/ BrokenOff \/ Receive({"500"})
  /\ IF up.attempt = Retries THEN NextBatch /\ rejects' = rejects \cup AllOfBatch
     ELSE up' = [up EXCEPT !.state = "send", !.attempt = @ + 1] /\ UNCHANGED rejects
  /\ UNCHANGED dropped

(* A 401 or 403, as when the token was revoked, ends the program.          *)
Unauthorized ==
  /\ UpAt("send") /\ Fault
  /\ up' = [up EXCEPT !.state = "aborted"]
  /\ UNCHANGED <<scenario, calls, stored, refused, broken, rejects, dropped>>

Uploads ==
  \/ (\E s \in Sources, csv \in BOOLEAN : StartUpload(s, csv)) /\ UNCHANGED ingestVars
  \/ SendBatch \/ BatchDone \/ BatchFails \/ Unauthorized

-----------------------------------------------------------------------------

SameBatch(i, j) ==
  \E b \in 0 .. Len(FileLines) : {i, j} \subseteq b * BatchSize + 1 .. b * BatchSize + BatchSize
TogetherWithPieces(i) ==
  \/ \E j \in DOMAIN FileLines : SameBatch(i, j) /\ InPieces(FileLines[j])
  \/ up.csv /\ InPieces(Header)

(* When the program is done every line of the file is stored or among the  *)
(* rejects, except in batches that had too many errors or a line that the  *)
(* server takes for several, the header if it is sent with them.           *)
RejectsComplete ==
  UpAt("done") => \A i \in DOMAIN FileLines :
    \/ FileLines[i] \in ToSet(stored) \cup rejects \cup dropped
    \/ TogetherWithPieces(i)

=============================================================================
