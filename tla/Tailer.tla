------------------------------- MODULE Tailer -------------------------------
(***************************************************************************)
(* The programs that follow a log file and send each new line              *)
(* (scripts/ingest_syslog_tail.py, scripts/ingest_auth_log.py), the daemon *)
(* that writes the file, and the rotation of it.                           *)
(*                                                                         *)
(* The two programs differ in that the second one drops lines that are not *)
(* of sshd and takes a 422 for any other error.  Rotation renames the file *)
(* and makes a new one; the daemon writes to the old one until it is told. *)
(* A line is written in one piece and is not blank.                        *)
(***************************************************************************)
EXTENDS Ingest

CONSTANTS
  TailSource,     (* --source; "sshd" of the second program                *)
  Foreign         (* lines that are not of sshd                            *)

ASSUME TailerAssumption ==
  TailSource \in Sources /\ \A s \in Scenarios : 1 .. s.written \subseteq Lines

VARIABLES
  logs,      (* the files by inode: the lines in them                      *)
  path,      (* the file that the path names, 0 for none                   *)
  writer,    (* the file that the daemon has open                          *)
  tail,      (* the program: what it does, the file it has open            *)
  fate,      (* what became of each line                                   *)
  failures,  (* history: attempts to send each line that failed            *)
  late       (* history: lines written to a file after it was left         *)

tailVars == <<logs, path, writer, tail, fate, failures, late>>

Attempts == 3

Tailed == UNION {1 .. s.written : s \in Scenarios}
Written == UNION {ToSet(logs[i]) : i \in DOMAIN logs}
NextLine == 1 + Cardinality(Written)

TailerInit ==
  /\ logs = <<<<>>>> /\ path = 1 /\ writer = 1
  /\ tail = [state |-> "off", file |-> 0, at |-> 0, line |-> 0,
             attempt |-> 0, draining |-> FALSE, opened |-> {}, before |-> {}]
  /\ fate = [l \in Lines |-> "unread"] /\ failures = [l \in Lines |-> 0] /\ late = {}

-----------------------------------------------------------------------------
(* The daemon and logrotate.                                               *)

Left(file) == file \in tail.opened /\ file # tail.file

WriteLog ==
  /\ NextLine <= scenario.written
  /\ logs' = [logs EXCEPT ![writer] = Append(@, NextLine)]
  /\ late' = IF Left(writer) THEN late \cup {NextLine} ELSE late
  /\ UNCHANGED <<path, writer, tail, fate, failures>>

RenameLog ==
  /\ path # 0 /\ Len(logs) < scenario.logs /\ path' = 0
  /\ UNCHANGED <<logs, writer, tail, fate, failures, late>>

CreateLog ==
  /\ path = 0 /\ logs' = Append(logs, <<>>) /\ path' = Len(logs')
  /\ UNCHANGED <<writer, tail, fate, failures, late>>

ReopenLog ==
  /\ path \notin {0, writer} /\ writer' = path
  /\ UNCHANGED <<logs, path, tail, fate, failures, late>>

-----------------------------------------------------------------------------

TailAt(state) == tail.state = state
Reading == tail.at < Len(logs[tail.file])
Keeps == UNCHANGED <<logs, path, writer, late>>

(* It starts at the end of the file.                                       *)
StartTail ==
  /\ TailAt("off") /\ (Runs("syslog") \/ Runs("auth")) /\ path # 0
  /\ tail' = [tail EXCEPT !.state = "read", !.file = path, !.at = Len(logs[path]),
                          !.opened = {path}, !.before = ToSet(logs[path])]
  /\ Keeps /\ UNCHANGED <<fate, failures>>

(* The next line is taken; one that is not of sshd is passed over.         *)
ReadLine ==
  /\ TailAt("read") /\ Reading
  /\ LET line == logs[tail.file][tail.at + 1]
         passed == Runs("auth") /\ line \in Foreign
     IN  /\ tail' = IF passed THEN [tail EXCEPT !.at = @ + 1]
                    ELSE [tail EXCEPT !.at = @ + 1, !.line = line, !.attempt = 1,
                                      !.state = "post"]
         /\ fate' = IF passed THEN [fate EXCEPT ![line] = "passed over"] ELSE fate
  /\ Keeps /\ UNCHANGED failures

(* At the end of the file it looks whether the path names another one; if  *)
(* so it reads on to the end of the old one.  Mutated form: it never does. *)
RotatedNever == FALSE
Rotated == path \notin {0, tail.file}
LookAtPath ==
  /\ TailAt("read") /\ ~Reading /\ ~tail.draining /\ Rotated
  /\ tail' = [tail EXCEPT !.draining = TRUE]
  /\ Keeps /\ UNCHANGED <<fate, failures>>

(* Then it opens what the path names now; when that is nothing, open()     *)
(* raises and the program ends.  Mutated form: it does not read on.        *)
DrainedAtOnce == tail.draining
Drained == tail.draining /\ ~Reading
OpenNew ==
  /\ TailAt("read") /\ Drained
  /\ tail' = IF path = 0 THEN [tail EXCEPT !.state = "dead"]
             ELSE [tail EXCEPT !.file = path, !.at = 0, !.draining = FALSE,
                               !.opened = @ \cup {path}]
  /\ Keeps /\ UNCHANGED <<fate, failures>>

Follow == ReadLine \/ LookAtPath \/ OpenNew

-----------------------------------------------------------------------------
(* post_line, with the calls of Ingest.                                    *)

Post ==
  /\ TailAt("post") /\ Submit(0, Call("raw", TailSource, <<tail.line>>))
  /\ tail' = [tail EXCEPT !.state = "wait"]
  /\ Keeps /\ UNCHANGED <<fate, failures>>

(* The line is done with.  Mutated form: `return` is missing.              *)
SettleAndGoOn(how) ==
  /\ fate' = [fate EXCEPT ![tail.line] = how]
  /\ tail' = [tail EXCEPT !.attempt = @ + 1,
                          !.state = IF tail.attempt < Attempts THEN "post" ELSE "read"]
Settle(how) ==
  /\ fate' = [fate EXCEPT ![tail.line] = how]
  /\ tail' = [tail EXCEPT !.state = "read", !.line = 0, !.attempt = 0]

(* The answers that end a line for good.  Mutated form: any answer.        *)
FinalAny == {"422", "500"}
Final == IF Runs("syslog") THEN {"422"} ELSE {}

PostDone ==
  /\ TailAt("wait")
  /\ \/ Receive({"ok"}) /\ Settle("sent")
     \/ Receive(Final) /\ Settle("skipped")
  /\ Keeps /\ UNCHANGED failures

(* Any other error is followed by another attempt, three in all.           *)
PostFails ==
  /\ TailAt("wait")
  /\ Receive({"422", "500"} \ Final) \/ Abandon \/ BrokenOff
  /\ failures' = [failures EXCEPT ![tail.line] = @ + 1]
  /\ IF tail.attempt = Attempts THEN Settle("given up")
     ELSE /\ tail' = [tail EXCEPT !.state = "post", !.attempt = @ + 1]
          /\ UNCHANGED fate
  /\ Keeps

TailPosts == Post \/ PostDone \/ PostFails

-----------------------------------------------------------------------------

Copies(line) == Cardinality({i \in DOMAIN stored : stored[i] = line})

(* What the program counts agrees with the store: a line counted as sent   *)
(* is there, one that is skipped met no decoder that takes it, and one is  *)
(* given up only after three failed attempts.                              *)
FatesExplained ==
  \A l \in Lines :
    /\ fate[l] = "sent" => l \in ToSet(stored)
    /\ fate[l] = "skipped" => l \in refused
    /\ fate[l] = "given up" => failures[l] = Attempts

(* A line is stored once, and once more at most for each failed attempt:   *)
(* an attempt that failed may have stored it.                              *)
CopiesExplained == Runs("syslog") \/ Runs("auth") => \A l \in Lines : Copies(l) <= 1 + failures[l]

(* Rotation loses no line of a file that the program has opened, but those *)
(* written to it after it was left.                                        *)
OpenedAreRead ==
  \A i \in tail.opened \ {tail.file} : \A l \in ToSet(logs[i]) :
    fate[l] = "unread" => l \in late \cup tail.before

(* A line in the file at the path, which the program found or will find    *)
(* there, is settled one day: unless the program ended, the file was       *)
(* rotated away again before it looked, or had been left.                  *)
ToFollow(l) ==
  tail.file # 0 /\ path # 0 /\ l \in ToSet(logs[path]) \ tail.before /\ l \notin late
RotatedTwice(l) == \E i \in 1 .. tail.file - 1 : i \notin tail.opened /\ l \in ToSet(logs[i])
LinesSettle ==
  \A l \in Tailed : ToFollow(l) ~> fate[l] # "unread" \/ TailAt("dead") \/ RotatedTwice(l)

=============================================================================
