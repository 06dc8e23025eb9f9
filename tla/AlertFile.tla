----------------------------- MODULE AlertFile -----------------------------
(***************************************************************************)
(* The alert log on disk: app/alerts/file_writer.py::write_alert with its  *)
(* rotation, and the second writer of the same file,                       *)
(* app/baselines/engine.py::_write_baseline_alert.                         *)
(*                                                                         *)
(* Names and files are kept apart, as the file system does: a directory    *)
(* entry points at a file, an open handle keeps its file through a rename, *)
(* and a rename onto a name that is taken replaces what was there.  Only   *)
(* the append itself is under flock; the size check and the rename that    *)
(* rotates are not.                                                        *)
(*                                                                         *)
(* A rotated name carries the second of the rotation.  The size limit is   *)
(* counted in lines (MaxLines); MaxRate lines at most are written in one   *)
(* second, fewer than fill a file, as 50 MB of alerts do not fit into a    *)
(* second.                                                                 *)
(***************************************************************************)
EXTENDS Integers, Sequences, FiniteSets

CONSTANTS
  RuleThreads,      (* threads inside write_alert                          *)
  BaselineThreads,  (* threads inside _write_baseline_alert                *)
  MaxLines,         (* tinysiem_alert_max_mb, in lines                     *)
  MaxRate,          (* bound: lines appended per second                    *)
  MaxSecond,        (* bound: seconds explored                             *)
  MaxAlerts         (* bound: alerts explored                              *)

ASSUME RateAssumption ==
  MaxLines \in Nat \ {0} /\ MaxRate \in Nat /\ MaxRate < MaxLines
ASSUME SecondsAssumption == MaxSecond \in Nat
ASSUME WritersAssumption ==
  IsFiniteSet(RuleThreads) /\ RuleThreads \cap BaselineThreads = {}

VARIABLES
  second,   (* wall clock, in the seconds a rotated name is made of         *)
  burst,    (* lines appended in this second                                *)
  current,  (* file that alerts.log points at, NoFile if it does not exist  *)
  rotated,  (* rotated[s]: file that alerts.<s>.log points at, or NoFile    *)
  files,    (* contents of all files ever made; file i is files[i]          *)
  stage,    (* where each thread is                                         *)
  stamp,    (* the second in the rotated name a thread has made up          *)
  handle,   (* the file a thread has open                                   *)
  alert,    (* the alert a thread writes: who raised it, and a number       *)
  made,     (* number of alerts so far                                      *)
  \* History, read by no action.
  measured  (* the file whose size a thread's check saw                     *)

disk    == <<current, rotated, files>>
locals  == <<stage, stamp, handle, alert, measured>>
logVars == <<second, burst, disk, locals, made>>

-----------------------------------------------------------------------------

NoFile  == 0
NoAlert == [by |-> "none", n |-> 0]
Writers == RuleThreads \cup BaselineThreads
Seconds == 0 .. MaxSecond

(* Every alert has an id of its own (uuid4).                                *)
NewAlert(t) == [by |-> t, n |-> made + 1]

(* The size check, and the stamp of a rotated name.                         *)
Full(f) == Len(files[f]) >= MaxLines

StampOfDay == 0                                      \* mutated: no time of day
Stamp == second

Goto(t, where) == stage' = [stage EXCEPT ![t] = where]

-----------------------------------------------------------------------------

LogInit ==
  /\ second = 0 /\ burst = 0
  /\ current = NoFile /\ rotated = [s \in Seconds |-> NoFile] /\ files = <<>>
  /\ stage = [t \in Writers |-> "idle"]
  /\ stamp = [t \in Writers |-> 0]
  /\ handle = [t \in Writers |-> NoFile]
  /\ alert = [t \in Writers |-> NoAlert]
  /\ measured = [t \in Writers |-> NoFile]
  /\ made = 0

NextSecond ==
  /\ second < MaxSecond
  /\ second' = second + 1 /\ burst' = 0
  /\ UNCHANGED <<disk, locals, made>>

(* A rule, correlation or watchlist alert starts with the rotation check, a *)
(* baseline alert opens the file at once.                                   *)
Begin(t) ==
  /\ stage[t] = "idle" /\ made < MaxAlerts
  /\ made' = made + 1
  /\ alert' = [alert EXCEPT ![t] = NewAlert(t)]
  /\ Goto(t, IF t \in RuleThreads THEN "exists" ELSE "open")
  /\ UNCHANGED <<second, burst, disk, stamp, handle, measured>>

(* path.exists()                                                            *)
Exists(t) ==
  /\ stage[t] = "exists"
  /\ Goto(t, IF current = NoFile THEN "open" ELSE "stat")
  /\ UNCHANGED <<second, burst, disk, stamp, handle, alert, measured, made>>

(* A call that ends drops its locals.                                       *)
EndCall(t) ==
  /\ Goto(t, "idle")
  /\ stamp' = [stamp EXCEPT ![t] = 0]
  /\ handle' = [handle EXCEPT ![t] = NoFile]
  /\ alert' = [alert EXCEPT ![t] = NoAlert]
  /\ measured' = [measured EXCEPT ![t] = NoFile]

(* stat() or rename() of a file that is gone raises, and no line is         *)
(* written: this code is outside the try.                                   *)
Raise(t) ==
  /\ stage[t] \in {"stat", "rename"} /\ current = NoFile
  /\ EndCall(t)
  /\ UNCHANGED <<second, burst, disk, made>>

Stat(t) ==
  /\ stage[t] = "stat" /\ current # NoFile
  /\ measured' = [measured EXCEPT ![t] = current]
  /\ \/ /\ Full(current)
        /\ stamp' = [stamp EXCEPT ![t] = Stamp]
        /\ Goto(t, "rename")
     \/ /\ ~ Full(current)
        /\ Goto(t, "open")
        /\ UNCHANGED stamp
  /\ UNCHANGED <<second, burst, disk, handle, alert, made>>

(* path.rename(rotated): whatever alerts.log is by now takes the name.      *)
Rename(t) ==
  /\ stage[t] = "rename" /\ current # NoFile
  /\ rotated' = [rotated EXCEPT ![stamp[t]] = current]
  /\ current' = NoFile
  /\ Goto(t, "open")
  /\ UNCHANGED <<second, burst, files, stamp, handle, alert, measured, made>>

(* open(path, "a") makes the file when it does not exist.                   *)
OpenLog(t) ==
  /\ stage[t] = "open"
  /\ \/ /\ current = NoFile
        /\ files' = Append(files, <<>>)
        /\ current' = Len(files) + 1
     \/ /\ current # NoFile
        /\ UNCHANGED <<files, current>>
  /\ handle' = [handle EXCEPT ![t] = current']
  /\ Goto(t, "append")
  /\ UNCHANGED <<second, burst, rotated, stamp, alert, measured, made>>

(* One appended line, wherever the handle's file is by now.                 *)
AppendLine(t) ==
  /\ stage[t] = "append" /\ burst < MaxRate
  /\ files' = [files EXCEPT ![handle[t]] = Append(@, alert[t])]
  /\ burst' = burst + 1
  /\ Goto(t, "notify")
  /\ UNCHANGED <<second, current, rotated, stamp, handle, alert, measured, made>>

(* Mutated form of AppendFails: the error is logged and no more.            *)
AppendFailsGoesOn(t) ==
  /\ stage[t] \in {"open", "append"}
  /\ Goto(t, "notify")
  /\ UNCHANGED <<second, burst, disk, stamp, handle, alert, measured, made>>

(* open or write fails: logged, no line and no notification.                *)
AppendFails(t) ==
  /\ stage[t] \in {"open", "append"}
  /\ EndCall(t)
  /\ UNCHANGED <<second, burst, disk, made>>

(* The line is there.  An fsync that fails, and a notify() that returns or  *)
(* raises, end the call alike.                                              *)
Notify(t) ==
  /\ stage[t] = "notify"
  /\ EndCall(t)
  /\ UNCHANGED <<second, burst, disk, made>>

LogStep(t) ==
  \/ Begin(t) \/ Exists(t) \/ Stat(t) \/ Raise(t) \/ Rename(t)
  \/ OpenLog(t) \/ AppendLine(t) \/ AppendFails(t) \/ Notify(t)

LogNext == NextSecond \/ \E t \in Writers : LogStep(t)

LogSpec == LogInit /\ [][LogNext]_logVars

-----------------------------------------------------------------------------
(* Nobody is notified of an alert that did not reach a file: a call that    *)
(* gets to notify() has its line in one, whatever renames came in between;  *)
(* a failed append ends the call (write_alert, lines 66-72).                *)
NotifiedAreWritten ==
  \A t \in Writers : stage[t] = "notify" =>
    \E f \in 1 .. Len(files) : \E i \in 1 .. Len(files[f]) : files[f][i] = alert[t]

(* A rotation takes a name that is taken only if the file it renames is not *)
(* the one whose size it measured: one thread alone never destroys a        *)
(* rotated part.                                                            *)
ReplacesOnlyStale ==
  [][\A t \in Writers :
       (Rename(t) /\ rotated[stamp[t]] # NoFile) => measured[t] # current]_logVars

=============================================================================
