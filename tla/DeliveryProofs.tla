--------------------------- MODULE DeliveryProofs ---------------------------
(***************************************************************************)
(* Log lines on their way into the store (Delivery), for any lines,        *)
(* decoders, administrators, scenarios, files and calls in progress.       *)
(*                                                                         *)
(* A followed line is at every moment unread, in the hand of the program,  *)
(* or settled; a copy of it that is stored, or that a pending call may     *)
(* still store, is paid for by the attempt under way or by a failed one.   *)
(* A line off a socket is ahead of its call, stored, or was broken off.    *)
(* A source that has a file has its decoder, or a load that will come to   *)
(* that file, or holds what it says.  Of an uploaded file, the batches     *)
(* before the one at hand are accounted for, and of this one what its call *)
(* has done with, if the server has told of every error.                   *)
(***************************************************************************)
EXTENDS Delivery, FiniteSetTheorems, SequenceTheorems, WellFoundedInduction, TLAPS

-----------------------------------------------------------------------------
(* Sequences.                                                              *)

LEMMA AppendDoes ==
  ASSUME NEW S, NEW s \in Seq(S), NEW x \in S
  PROVE  /\ Append(s, x) \in Seq(S) /\ Len(s) \in Nat /\ Len(Append(s, x)) = Len(s) + 1
         /\ DOMAIN s = 1 .. Len(s) /\ DOMAIN Append(s, x) = 1 .. Len(s) + 1
         /\ \A i \in 1 .. Len(s) : Append(s, x)[i] = s[i]
         /\ Append(s, x)[Len(s) + 1] = x
         /\ ToSet(Append(s, x)) = ToSet(s) \cup {x}
<1>1. /\ Append(s, x) \in Seq(S) /\ Len(s) \in Nat /\ Len(Append(s, x)) = Len(s) + 1
      /\ \A i \in 1 .. Len(s) : Append(s, x)[i] = s[i]
      /\ Append(s, x)[Len(s) + 1] = x
  BY AppendProperties, LenProperties
<1>2. DOMAIN s = 1 .. Len(s) /\ DOMAIN Append(s, x) = 1 .. Len(s) + 1
  BY <1>1, LenProperties
<1> DEFINE t == Append(s, x)
<1>3. \A i \in 1 .. Len(s) + 1 : i \in 1 .. Len(s) \/ i = Len(s) + 1
  BY <1>1
<1>4. ToSet(t) = {t[i] : i \in 1 .. Len(s) + 1} /\ ToSet(s) = {s[i] : i \in 1 .. Len(s)}
  BY <1>2 DEF ToSet
<1> HIDE DEF t
<1>5. ToSet(t) = ToSet(s) \cup {x}
  <2>1. 1 .. Len(s) \subseteq 1 .. Len(s) + 1 /\ Len(s) + 1 \in 1 .. Len(s) + 1
    BY <1>1
  <2> QED
    BY <1>1, <1>3, <1>4, <2>1 DEF t
<1> QED
  BY <1>1, <1>2, <1>5 DEF t

LEMMA ToSetTyped ==
  ASSUME NEW S, NEW s \in Seq(S)
  PROVE  /\ DOMAIN s = 1 .. Len(s) /\ Len(s) \in Nat
         /\ ToSet(s) \subseteq S
         /\ \A i \in 1 .. Len(s) : s[i] \in S /\ s[i] \in ToSet(s)
         /\ \A x \in ToSet(s) : \E i \in 1 .. Len(s) : s[i] = x
<1>1. DOMAIN s = 1 .. Len(s) /\ Len(s) \in Nat
  BY LenProperties
<1> QED
  BY <1>1 DEF ToSet

-----------------------------------------------------------------------------
(* The log and the program that follows it.                                *)

Fates == {"unread", "passed over", "sent", "skipped", "given up"}
Tails ==
  [state : {"off", "read", "post", "wait", "dead"}, file : Nat, at : Nat,
   line : {0} \cup Lines, attempt : Nat, draining : BOOLEAN,
   opened : SUBSET Nat, before : SUBSET Lines]

LogTypes ==
  /\ scenario \in Scenarios
  /\ logs \in Seq(Seq(Lines)) /\ logs # <<>>
  /\ path \in {0, Len(logs)} /\ writer \in DOMAIN logs
  /\ tail \in Tails /\ fate \in [Lines -> Fates] /\ failures \in [Lines -> Nat]

(* A line is in one place.                                                 *)
Apart ==
  /\ IsFiniteSet(Written) /\ Written = 1 .. Cardinality(Written)
  /\ \A i1, i2 \in DOMAIN logs : \A j1 \in DOMAIN logs[i1], j2 \in DOMAIN logs[i2] :
       logs[i1][j1] = logs[i2][j2] => i1 = i2 /\ j1 = j2

(* It opens newer and newer files, and leaves one only when there is a     *)
(* newer one.                                                              *)
Opens ==
  /\ tail.state = "off" => tail.file = 0 /\ tail.at = 0 /\ tail.opened = {} /\ ~ tail.draining
  /\ tail.state # "off" =>
       /\ Runs("syslog") \/ Runs("auth")
       /\ tail.file \in tail.opened /\ tail.opened \subseteq 1 .. tail.file
       /\ tail.file \in DOMAIN logs /\ tail.at <= Len(logs[tail.file])
       /\ tail.draining => tail.file < Len(logs)

(* What it has read of its file, and what it has come by in all.           *)
ReadOf(file, at, files) == {files[file][j] : j \in 1 .. at}
Read == ReadOf(tail.file, tail.at, logs)
Passed == Read \cup UNION {ToSet(logs[i]) : i \in tail.opened \ {tail.file}}

Posting(l) == tail.state \in {"post", "wait"} /\ l = tail.line

(* What it has read is settled, was there before it, or is being sent.     *)
ReadIsSettled ==
  \A l \in Read : fate[l] # "unread" \/ l \in tail.before \/ Posting(l)

(* Attempts are counted for lines that were read; so a line that is read   *)
(* has none.                                                               *)
AttemptsCounted ==
  /\ tail.state \in {"post", "wait"} =>
       /\ tail.line \in Lines \cap Passed /\ fate[tail.line] = "unread"
       /\ tail.attempt \in 1 .. Attempts /\ failures[tail.line] = tail.attempt - 1
  /\ \A l \in Lines :
       /\ fate[l] # "unread" => l \in Passed
       /\ fate[l] = "unread" => failures[l] = 0 \/ Posting(l)
       /\ fate[l] = "given up" => failures[l] = Attempts

TailInv ==
  /\ LogTypes /\ Apart /\ Opens /\ ReadIsSettled /\ OpenedAreRead /\ AttemptsCounted

LEMMA WriteLogDoes ==
  ASSUME TailInv, WriteLog
  PROVE  /\ NextLine \in Lines /\ NextLine \notin Written
         /\ logs' \in Seq(Seq(Lines)) /\ Len(logs') = Len(logs) /\ DOMAIN logs' = DOMAIN logs
         /\ \A i \in DOMAIN logs :
              /\ logs[i] \in Seq(Lines) /\ logs'[i] \in Seq(Lines)
              /\ Len(logs[i]) <= Len(logs'[i]) /\ DOMAIN logs[i] \subseteq DOMAIN logs'[i]
              /\ \A j \in DOMAIN logs[i] : logs'[i][j] = logs[i][j]
              /\ \A j \in DOMAIN logs'[i] : j \in DOMAIN logs[i] \/ (i = writer /\ j = Len(logs[i]) + 1)
         /\ \A i \in DOMAIN logs \ {writer} : logs'[i] = logs[i]
         /\ logs'[writer][Len(logs[writer]) + 1] = NextLine
         /\ ToSet(logs'[writer]) = ToSet(logs[writer]) \cup {NextLine}
<1> DEFINE n == NextLine
<1>1. n \in Nat \ {0} /\ n \notin Written
  <2>1. Cardinality(Written) \in Nat /\ Written = 1 .. Cardinality(Written)
    BY FS_CardinalityType DEF TailInv, Apart
  <2> QED
    BY <2>1 DEF NextLine
<1>2. n \in Lines
  <2>1. n <= scenario.written /\ scenario \in Scenarios
    BY DEF WriteLog, TailInv, LogTypes
  <2>2. scenario.written \in Nat /\ 1 .. scenario.written \subseteq Lines
    BY <2>1, IngestAssumption, TailerAssumption DEF Scenario
  <2> HIDE DEF n
  <2> QED
    BY <1>1, <2>1, <2>2 DEF n
<1>3. logs \in Seq(Seq(Lines)) /\ writer \in DOMAIN logs
  BY DEF TailInv, LogTypes
<1>4. logs' = [logs EXCEPT ![writer] = Append(logs[writer], n)]
  BY DEF WriteLog
<1> HIDE DEF n
<1>5. /\ DOMAIN logs = 1 .. Len(logs) /\ Len(logs) \in Nat
      /\ \A i \in DOMAIN logs : logs[i] \in Seq(Lines)
  BY <1>3, LenProperties
<1> DEFINE s == logs[writer]
           t == Append(s, n)
<1>6. /\ t \in Seq(Lines) /\ Len(s) \in Nat /\ Len(t) = Len(s) + 1
      /\ DOMAIN s = 1 .. Len(s) /\ DOMAIN t = 1 .. Len(s) + 1
      /\ \A i \in 1 .. Len(s) : t[i] = s[i]
      /\ t[Len(s) + 1] = n
      /\ ToSet(t) = ToSet(s) \cup {n}
  BY <1>2, <1>3, <1>5, AppendDoes
<1> HIDE DEF t
<1>7. /\ logs' \in Seq(Seq(Lines)) /\ Len(logs') = Len(logs) /\ DOMAIN logs' = DOMAIN logs
      /\ logs'[writer] = t
      /\ \A i \in DOMAIN logs \ {writer} : logs'[i] = logs[i]
  BY <1>3, <1>4, <1>6, ExceptSeq DEF t
<1>8. ASSUME NEW i \in DOMAIN logs
      PROVE  /\ logs[i] \in Seq(Lines) /\ logs'[i] \in Seq(Lines)
             /\ Len(logs[i]) <= Len(logs'[i]) /\ DOMAIN logs[i] \subseteq DOMAIN logs'[i]
             /\ \A j \in DOMAIN logs[i] : logs'[i][j] = logs[i][j]
             /\ \A j \in DOMAIN logs'[i] : j \in DOMAIN logs[i] \/ (i = writer /\ j = Len(logs[i]) + 1)
  <2>1. CASE i = writer
    <3>1. \A j \in 1 .. Len(s) + 1 : j \in 1 .. Len(s) \/ j = Len(s) + 1
      BY <1>6
    <3>2. 1 .. Len(s) \subseteq 1 .. Len(s) + 1 /\ Len(s) <= Len(s) + 1
      BY <1>6
    <3> QED
      BY <1>3, <1>5, <1>6, <1>7, <2>1, <3>1, <3>2
  <2>2. CASE i # writer
    <3>1. logs'[i] = logs[i] /\ Len(logs[i]) \in Nat
      BY <1>5, <1>7, <2>2, LenProperties
    <3> QED
      BY <1>5, <3>1
  <2> QED
    BY <2>1, <2>2
<1> QED
  BY <1>1, <1>2, <1>6, <1>7, <1>8 DEF n

LEMMA WriteLogKeeps ==
  ASSUME TailInv, WriteLog, UNCHANGED scenario
  PROVE  TailInv'
<1> DEFINE n == NextLine
<1>1. /\ n \in Lines /\ n \notin Written
      /\ logs' \in Seq(Seq(Lines)) /\ Len(logs') = Len(logs) /\ DOMAIN logs' = DOMAIN logs
      /\ \A i \in DOMAIN logs :
           /\ logs[i] \in Seq(Lines) /\ logs'[i] \in Seq(Lines)
           /\ Len(logs[i]) <= Len(logs'[i]) /\ DOMAIN logs[i] \subseteq DOMAIN logs'[i]
           /\ \A j \in DOMAIN logs[i] : logs'[i][j] = logs[i][j]
           /\ \A j \in DOMAIN logs'[i] : j \in DOMAIN logs[i] \/ (i = writer /\ j = Len(logs[i]) + 1)
      /\ \A i \in DOMAIN logs \ {writer} : logs'[i] = logs[i]
      /\ logs'[writer][Len(logs[writer]) + 1] = n
      /\ ToSet(logs'[writer]) = ToSet(logs[writer]) \cup {n}
  BY WriteLogDoes
<1>2. n = 1 + Cardinality(Written)
  BY DEF NextLine
<1> HIDE DEF n
<1>3. /\ UNCHANGED <<scenario, path, writer, tail, fate, failures>>
      /\ late' = IF writer \in tail.opened /\ writer # tail.file THEN late \cup {n} ELSE late
  BY DEF WriteLog, Left, n
<1>4. /\ LogTypes /\ DOMAIN logs = 1 .. Len(logs) /\ Len(logs) \in Nat
      /\ writer \in DOMAIN logs
  BY LenProperties DEF TailInv, LogTypes
<1>5. LogTypes'
  <2>1. logs' # <<>>
    BY <1>1, <1>4, EmptySeq DEF LogTypes
  <2> QED
    BY <1>1, <1>3, <1>4, <2>1 DEF LogTypes
<1>6. Apart'
  <2>1. Written' = Written \cup {n}
    <3> DEFINE old(i) == ToSet(logs[i])
               new(i) == ToSet(logs'[i])
    <3>1. \A i \in DOMAIN logs \ {writer} : new(i) = old(i)
      BY <1>1
    <3>2. new(writer) = old(writer) \cup {n}
      BY <1>1
    <3>3. /\ Written = UNION {old(i) : i \in DOMAIN logs}
          /\ Written' = UNION {new(i) : i \in DOMAIN logs}
      BY <1>1 DEF Written
    <3> HIDE DEF old, new
    <3> QED
      BY <1>4, <3>1, <3>2, <3>3
  <2>2. /\ IsFiniteSet(Written) /\ Cardinality(Written) \in Nat
        /\ Written = 1 .. Cardinality(Written)
    BY FS_CardinalityType DEF TailInv, Apart
  <2>3. IsFiniteSet(Written') /\ Cardinality(Written') = n
    BY <1>1, <1>2, <2>1, <2>2, FS_AddElement
  <2>4. Written' = 1 .. n
    BY <1>2, <2>1, <2>2
  <2>5. ASSUME NEW i \in DOMAIN logs, NEW j \in DOMAIN logs[i] PROVE logs[i][j] \in Written
    BY DEF Written, ToSet
  <2>6. ASSUME NEW i1 \in DOMAIN logs, NEW i2 \in DOMAIN logs,
               NEW j1 \in DOMAIN logs'[i1], NEW j2 \in DOMAIN logs'[i2],
               logs'[i1][j1] = logs'[i2][j2]
        PROVE  i1 = i2 /\ j1 = j2
    <3>1. CASE j1 \in DOMAIN logs[i1] /\ j2 \in DOMAIN logs[i2]
      BY <1>1, <2>6, <3>1 DEF TailInv, Apart
    <3>2. CASE ~ (j1 \in DOMAIN logs[i1]) /\ ~ (j2 \in DOMAIN logs[i2])
      BY <1>1, <3>2
    <3>3. CASE j1 \in DOMAIN logs[i1] /\ ~ (j2 \in DOMAIN logs[i2])
      BY <1>1, <2>5, <2>6, <3>3
    <3>4. CASE ~ (j1 \in DOMAIN logs[i1]) /\ j2 \in DOMAIN logs[i2]
      BY <1>1, <2>5, <2>6, <3>4
    <3> QED
      BY <3>1, <3>2, <3>3, <3>4
  <2> QED
    BY <1>1, <2>3, <2>4, <2>6 DEF Apart
<1>7. Opens'
  <2>1. tail \in Tails
    BY <1>4 DEF LogTypes
  <2>2. ASSUME tail.state # "off" PROVE tail.at <= Len(logs'[tail.file])
    <3>1. tail.file \in DOMAIN logs /\ tail.at <= Len(logs[tail.file])
      BY <2>2 DEF TailInv, Opens
    <3>2. Len(logs[tail.file]) <= Len(logs'[tail.file]) /\ Len(logs[tail.file]) \in Nat
          /\ Len(logs'[tail.file]) \in Nat /\ tail.at \in Nat
      BY <1>1, <2>1, <3>1, LenProperties DEF Tails
    <3> QED
      BY <3>1, <3>2
  <2> QED
    BY <1>1, <1>3, <2>2 DEF TailInv, Opens, Runs
<1>8. Read' = Read
  <2>1. CASE tail.state = "off"
    <3>1. tail.at = 0 /\ 1 .. 0 = {}
      BY <2>1 DEF TailInv, Opens
    <3> QED
      BY <1>3, <3>1 DEF Read, ReadOf
  <2>2. CASE tail.state # "off"
    <3>1. tail.file \in DOMAIN logs /\ tail.at <= Len(logs[tail.file]) /\ tail.at \in Nat
      BY <1>4, <2>2 DEF TailInv, Opens, LogTypes, Tails
    <3>2. \A j \in 1 .. tail.at : j \in DOMAIN logs[tail.file]
      BY <1>1, <3>1, LenProperties
    <3>3. \A j \in 1 .. tail.at : logs'[tail.file][j] = logs[tail.file][j]
      BY <1>1, <3>1, <3>2
    <3> QED
      BY <1>3, <3>3 DEF Read, ReadOf
  <2> QED
    BY <2>1, <2>2
<1>9. ReadIsSettled'
  BY <1>3, <1>8 DEF TailInv, ReadIsSettled, Posting
<1>10. ASSUME NEW i \in tail.opened PROVE i \in DOMAIN logs
  <2>1. tail.state # "off"
    BY DEF TailInv, Opens
  <2>2. tail.file \in 1 .. Len(logs) /\ tail.opened \subseteq 1 .. tail.file
    BY <1>4, <2>1 DEF TailInv, Opens
  <2> QED
    BY <1>4, <2>2
<1>11. OpenedAreRead'
  <2>1. ASSUME NEW i \in tail.opened \ {tail.file}, NEW l \in ToSet(logs'[i]), fate[l] = "unread"
        PROVE  l \in late' \cup tail.before
    <3>1. l \in ToSet(logs[i]) \/ (i = writer /\ l = n)
      BY <1>1, <1>10
    <3> QED
      BY <1>3, <2>1, <3>1 DEF TailInv, OpenedAreRead
  <2> QED
    BY <1>3, <2>1 DEF OpenedAreRead
<1>12. Passed \subseteq Passed'
  <2>1. \A i \in tail.opened : ToSet(logs[i]) \subseteq ToSet(logs'[i])
    BY <1>1, <1>10
  <2> QED
    BY <1>3, <1>8, <2>1 DEF Passed
<1>13. AttemptsCounted'
  BY <1>3, <1>12 DEF TailInv, AttemptsCounted, Posting
<1> QED
  BY <1>5, <1>6, <1>7, <1>9, <1>11, <1>13 DEF TailInv

LEMMA CreateLogKeeps ==
  ASSUME TailInv, CreateLog, UNCHANGED scenario
  PROVE  TailInv'
<1>1. /\ logs \in Seq(Seq(Lines)) /\ LogTypes /\ <<>> \in Seq(Lines)
      /\ UNCHANGED <<scenario, writer, tail, fate, failures, late>>
      /\ logs' = Append(logs, <<>>) /\ path' = Len(logs')
  BY DEF TailInv, LogTypes, CreateLog
<1>2. /\ logs' \in Seq(Seq(Lines)) /\ Len(logs) \in Nat /\ Len(logs') = Len(logs) + 1
      /\ DOMAIN logs = 1 .. Len(logs) /\ DOMAIN logs' = 1 .. Len(logs) + 1
      /\ \A i \in 1 .. Len(logs) : logs'[i] = logs[i]
      /\ logs'[Len(logs) + 1] = <<>>
  BY <1>1, AppendDoes
<1>3. \A i \in DOMAIN logs' : i \in DOMAIN logs \/ i = Len(logs) + 1
  BY <1>2
<1>4. DOMAIN logs \subseteq DOMAIN logs'
  BY <1>2
<1>5. DOMAIN <<>> = {} /\ ToSet(<<>>) = {}
  BY DEF ToSet
<1>6. LogTypes'
  <2>1. logs' # <<>>
    BY <1>2, EmptySeq
  <2> QED
    BY <1>1, <1>2, <1>4, <2>1 DEF LogTypes
<1>7. Apart'
  <2>1. Written' = Written
    <3>1. \A i \in DOMAIN logs : ToSet(logs'[i]) = ToSet(logs[i])
      BY <1>2
    <3>2. ToSet(logs'[Len(logs) + 1]) = {}
      BY <1>2, <1>5
    <3> QED
      BY <1>3, <1>4, <3>1, <3>2 DEF Written
  <2>2. ASSUME NEW i1 \in DOMAIN logs', NEW i2 \in DOMAIN logs',
               NEW j1 \in DOMAIN logs'[i1], NEW j2 \in DOMAIN logs'[i2],
               logs'[i1][j1] = logs'[i2][j2]
        PROVE  i1 = i2 /\ j1 = j2
    <3>1. i1 \in DOMAIN logs /\ i2 \in DOMAIN logs
      BY <1>2, <1>3, <1>5
    <3>2. logs'[i1] = logs[i1] /\ logs'[i2] = logs[i2]
      BY <1>2, <3>1
    <3> QED
      BY <2>2, <3>1, <3>2 DEF TailInv, Apart
  <2> QED
    BY <2>1, <2>2 DEF TailInv, Apart
<1>8. ASSUME NEW i \in tail.opened \cup {tail.file}, tail.state # "off"
      PROVE  i \in DOMAIN logs /\ logs'[i] = logs[i]
  <2>1. tail.file \in 1 .. Len(logs) /\ tail.opened \subseteq 1 .. tail.file
    BY <1>2, <1>8 DEF TailInv, Opens
  <2> QED
    BY <1>2, <2>1
<1>9. Opens'
  <2>1. tail.state # "off" => /\ tail.file \in DOMAIN logs' /\ logs'[tail.file] = logs[tail.file]
    BY <1>4, <1>8
  <2>2. tail.file \in Nat
    BY <1>1 DEF LogTypes, Tails
  <2> QED
    BY <1>1, <1>2, <2>1, <2>2 DEF TailInv, Opens, Runs
<1>10. Read' = Read
  <2>1. CASE tail.state = "off"
    <3>1. tail.at = 0 /\ 1 .. 0 = {}
      BY <2>1 DEF TailInv, Opens
    <3> QED
      BY <1>1, <3>1 DEF Read, ReadOf
  <2>2. CASE tail.state # "off"
    BY <1>1, <1>8, <2>2 DEF Read, ReadOf
  <2> QED
    BY <2>1, <2>2
<1>11. \A i \in tail.opened : logs'[i] = logs[i]
  BY <1>8 DEF TailInv, Opens
<1>12. Passed' = Passed
  <2> DEFINE old(i) == ToSet(logs[i])
             new(i) == ToSet(logs'[i])
  <2>1. \A i \in tail.opened \ {tail.file} : new(i) = old(i)
    BY <1>11
  <2>2. /\ Passed = Read \cup UNION {old(i) : i \in tail.opened \ {tail.file}}
        /\ Passed' = Read \cup UNION {new(i) : i \in tail.opened \ {tail.file}}
    BY <1>1, <1>10 DEF Passed
  <2> HIDE DEF old, new
  <2> QED
    BY <2>1, <2>2
<1>13. ReadIsSettled' /\ OpenedAreRead' /\ AttemptsCounted'
  BY <1>1, <1>10, <1>11, <1>12 DEF TailInv, ReadIsSettled, OpenedAreRead, AttemptsCounted, Posting
<1> QED
  BY <1>6, <1>7, <1>9, <1>13 DEF TailInv

(* The path and the writer say nothing of what was read.                   *)
LEMMA PathKeeps ==
  ASSUME TailInv, UNCHANGED <<scenario, logs, tail, fate, failures, late>>,
         path' \in {0, Len(logs)}, writer' \in DOMAIN logs
  PROVE  TailInv'
<1>1. Written' = Written /\ Read' = Read /\ Passed' = Passed
  BY DEF Written, Read, ReadOf, Passed
<1>2. LogTypes' /\ Apart'
  BY <1>1 DEF TailInv, LogTypes, Apart
<1>3. Opens' /\ ReadIsSettled' /\ OpenedAreRead' /\ AttemptsCounted'
  BY <1>1 DEF TailInv, Opens, Runs, ReadIsSettled, OpenedAreRead, AttemptsCounted, Posting
<1> QED
  BY <1>2, <1>3 DEF TailInv

LEMMA LogKeeps ==
  ASSUME TailInv, Log
  PROVE  TailInv'
<1>1. UNCHANGED scenario
  BY DEF Log, LogStep, ingestVars
<1>2. CASE WriteLog
  BY <1>1, <1>2, WriteLogKeeps
<1>3. CASE CreateLog
  BY <1>1, <1>3, CreateLogKeeps
<1>4. CASE RenameLog
  BY <1>1, <1>4, PathKeeps DEF RenameLog, TailInv, LogTypes
<1>5. CASE ReopenLog
  <2>1. /\ path \in {0, Len(logs)} /\ path # 0 /\ logs \in Seq(Seq(Lines)) /\ logs # <<>>
        /\ writer' = path /\ UNCHANGED <<logs, path, tail, fate, failures, late>>
    BY <1>5 DEF ReopenLog, TailInv, LogTypes
  <2>2. writer' \in DOMAIN logs
    BY <2>1, LenProperties, EmptySeq
  <2> QED
    BY <1>1, <2>1, <2>2, PathKeeps
<1> QED
  BY <1>2, <1>3, <1>4, <1>5 DEF Log, LogStep

LEMMA FilesTyped ==
  ASSUME TailInv
  PROVE  /\ DOMAIN logs = 1 .. Len(logs) /\ Len(logs) \in Nat \ {0}
         /\ \A i \in DOMAIN logs :
              /\ logs[i] \in Seq(Lines) /\ Len(logs[i]) \in Nat
              /\ DOMAIN logs[i] = 1 .. Len(logs[i]) /\ ToSet(logs[i]) \subseteq Lines
              /\ \A j \in 1 .. Len(logs[i]) : logs[i][j] \in Lines
         /\ tail \in Tails /\ fate \in [Lines -> Fates] /\ failures \in [Lines -> Nat]
         /\ path \in {0, Len(logs)} /\ scenario \in Scenarios
<1>1. logs \in Seq(Seq(Lines)) /\ logs # <<>>
  BY DEF TailInv, LogTypes
<1>2. DOMAIN logs = 1 .. Len(logs) /\ Len(logs) \in Nat \ {0}
  BY <1>1, LenProperties, EmptySeq
<1>3. ASSUME NEW i \in DOMAIN logs PROVE logs[i] \in Seq(Lines)
  BY <1>1, <1>2
<1>4. ASSUME NEW i \in DOMAIN logs
      PROVE  /\ Len(logs[i]) \in Nat
             /\ DOMAIN logs[i] = 1 .. Len(logs[i]) /\ ToSet(logs[i]) \subseteq Lines
             /\ \A j \in 1 .. Len(logs[i]) : logs[i][j] \in Lines
  BY <1>3, ToSetTyped
<1> QED
  BY <1>2, <1>3, <1>4 DEF TailInv, LogTypes

LEMMA OpenedTyped ==
  ASSUME TailInv
  PROVE  /\ Read \subseteq Lines
         /\ \A i \in tail.opened : i \in DOMAIN logs /\ ToSet(logs[i]) \subseteq Lines
<1>1. CASE tail.state = "off"
  <2>1. tail.at = 0 /\ tail.opened = {} /\ 1 .. 0 = {}
    BY <1>1 DEF TailInv, Opens
  <2> QED
    BY <2>1 DEF Read, ReadOf
<1>2. CASE tail.state # "off"
  <2>1. /\ tail.file \in DOMAIN logs /\ tail.at <= Len(logs[tail.file]) /\ tail.at \in Nat
        /\ tail.opened \subseteq 1 .. tail.file
    BY <1>2, FilesTyped DEF TailInv, Opens, Tails
  <2>2. \A j \in 1 .. tail.at : logs[tail.file][j] \in Lines
    <3>1. \A j \in 1 .. tail.at : j \in 1 .. Len(logs[tail.file])
      BY <2>1, FilesTyped
    <3> QED
      BY <2>1, <3>1, FilesTyped
  <2>3. \A i \in tail.opened : i \in DOMAIN logs
    BY <2>1, FilesTyped
  <2> QED
    BY <2>2, <2>3, FilesTyped DEF Read, ReadOf
<1> QED
  BY <1>1, <1>2

(* Steps of the program leave the log as it is.                            *)
LEMMA LogStays ==
  ASSUME TailInv, UNCHANGED <<scenario, logs, path, writer>>,
         tail' \in Tails, fate' \in [Lines -> Fates], failures' \in [Lines -> Nat]
  PROVE  LogTypes' /\ Apart'
<1>1. Written' = Written
  BY DEF Written
<1> QED
  BY <1>1 DEF TailInv, LogTypes, Apart

LEMMA ReadStays ==
  ASSUME logs' = logs, tail'.file = tail.file, tail'.at = tail.at, tail'.opened = tail.opened
  PROVE  Read' = Read /\ Passed' = Passed
<1>1. Read' = Read
  BY DEF Read, ReadOf
<1> QED
  BY <1>1 DEF Passed

LEMMA PassedOff ==
  ASSUME TailInv, tail.state = "off"
  PROVE  Passed = {} /\ \A l \in Lines : fate[l] = "unread" /\ failures[l] = 0
<1>1. tail.file = 0 /\ tail.at = 0 /\ tail.opened = {} /\ 1 .. 0 = {}
  BY DEF TailInv, Opens
<1>2. Passed = {}
  BY <1>1 DEF Passed, Read, ReadOf
<1> QED
  BY <1>2 DEF TailInv, AttemptsCounted, Posting

LEMMA StartTailKeeps ==
  ASSUME TailInv, StartTail, UNCHANGED scenario
  PROVE  TailInv'
<1>1. /\ tail.state = "off" /\ path \in DOMAIN logs /\ path = Len(logs) /\ logs[path] \in Seq(Lines)
      /\ DOMAIN logs = 1 .. Len(logs) /\ Len(logs) \in Nat
      /\ tail \in Tails /\ fate \in [Lines -> Fates] /\ failures \in [Lines -> Nat]
      /\ Runs("syslog") \/ Runs("auth")
  <2>1. path # 0 /\ path \in {0, Len(logs)} /\ logs \in Seq(Seq(Lines)) /\ logs # <<>>
    BY DEF StartTail, TailInv, LogTypes
  <2> QED
    BY <2>1, LenProperties, EmptySeq DEF StartTail, TailAt, TailInv, LogTypes
<1>2. /\ DOMAIN logs[path] = 1 .. Len(logs[path]) /\ Len(logs[path]) \in Nat
      /\ ToSet(logs[path]) \subseteq Lines
  BY <1>1, ToSetTyped
<1>3. /\ UNCHANGED <<scenario, logs, path, writer, late, fate, failures>>
      /\ tail' = [tail EXCEPT !.state = "read", !.file = path, !.at = Len(logs[path]),
                              !.opened = {path}, !.before = ToSet(logs[path])]
  BY DEF StartTail, Keeps
<1> DEFINE found == ToSet(logs[path])
<1> HIDE DEF found
<1>4. /\ tail' \in Tails /\ tail'.state = "read" /\ tail'.file = path /\ tail'.opened = {path}
      /\ tail'.at = Len(logs[path]) /\ tail'.before = found /\ tail'.draining = tail.draining
  <2>1. /\ tail' = [tail EXCEPT !.state = "read", !.file = path, !.at = Len(logs[path]),
                              !.opened = {path}, !.before = found]
        /\ found \in SUBSET Lines /\ path \in Nat /\ {path} \in SUBSET Nat
    BY <1>1, <1>2, <1>3 DEF found
  <2> QED
    BY <1>1, <1>2, <2>1 DEF Tails
<1>5. LogTypes' /\ Apart'
  BY <1>1, <1>3, <1>4, LogStays
<1>6. ~ tail.draining
  BY <1>1 DEF TailInv, Opens
<1>7. Opens'
  <2>1. path \in 1 .. path
    BY <1>1
  <2> QED
    BY <1>1, <1>2, <1>3, <1>4, <1>6, <2>1 DEF Opens, Runs
<1>8. Read' = found
  BY <1>2, <1>3, <1>4 DEF Read, ReadOf, ToSet, found
<1>9. ReadIsSettled' /\ OpenedAreRead'
  BY <1>4, <1>8 DEF ReadIsSettled, OpenedAreRead
<1>10. AttemptsCounted'
  BY <1>1, <1>3, <1>4, PassedOff DEF AttemptsCounted
<1> QED
  BY <1>5, <1>7, <1>9, <1>10 DEF TailInv

LEMMA ReadLineIsNew ==
  ASSUME TailInv, ReadLine
  PROVE  LET line == logs[tail.file][tail.at + 1]
         IN  /\ line \in Lines /\ line \notin Passed
             /\ fate[line] = "unread" /\ failures[line] = 0
             /\ tail.at + 1 \in 1 .. Len(logs[tail.file])
             /\ tail.file \in DOMAIN logs
<1> DEFINE line == logs[tail.file][tail.at + 1]
<1>1. /\ tail.state = "read" /\ tail.at < Len(logs[tail.file])
  BY DEF ReadLine, TailAt, Reading
<1>2. /\ tail \in Tails /\ tail.at \in Nat /\ Apart /\ Opens
  BY DEF TailInv, LogTypes, Tails
<1>3. tail.file \in DOMAIN logs
  BY <1>1, <1>2 DEF Opens
<1>4. /\ logs[tail.file] \in Seq(Lines) /\ Len(logs[tail.file]) \in Nat
      /\ DOMAIN logs[tail.file] = 1 .. Len(logs[tail.file])
      /\ tail.at + 1 \in 1 .. Len(logs[tail.file]) /\ line \in Lines
  <2>1. /\ logs[tail.file] \in Seq(Lines) /\ Len(logs[tail.file]) \in Nat
        /\ DOMAIN logs[tail.file] = 1 .. Len(logs[tail.file])
    BY <1>3, FilesTyped
  <2>2. tail.at + 1 \in 1 .. Len(logs[tail.file])
    BY <1>1, <1>2, <2>1
  <2> QED
    BY <1>3, <2>1, <2>2, FilesTyped
<1>5. \A i \in tail.opened : i \in DOMAIN logs
  BY OpenedTyped
<1>6. line \notin Passed
  <2>1. ASSUME NEW j \in 1 .. tail.at PROVE logs[tail.file][j] # line
    <3>1. j \in DOMAIN logs[tail.file] /\ j # tail.at + 1
      BY <1>2, <1>4
    <3> QED
      BY <1>2, <1>3, <1>4, <3>1 DEF Apart
  <2>2. ASSUME NEW i \in tail.opened \ {tail.file}, NEW j \in DOMAIN logs[i]
        PROVE  logs[i][j] # line
    <3>1. i \in DOMAIN logs /\ i # tail.file
      BY <1>5
    <3> QED
      BY <1>2, <1>3, <1>4, <3>1 DEF Apart
  <2> HIDE DEF line
  <2> QED
    BY <2>1, <2>2 DEF Passed, Read, ReadOf, ToSet
<1>7. fate[line] = "unread" /\ failures[line] = 0
  BY <1>1, <1>4, <1>6 DEF TailInv, AttemptsCounted, Posting
<1> QED
  BY <1>3, <1>4, <1>6, <1>7

LEMMA ReadLineKeeps ==
  ASSUME TailInv, ReadLine, UNCHANGED scenario
  PROVE  TailInv'
<1> DEFINE line == logs[tail.file][tail.at + 1]
           next == tail.at + 1
           over == [tail EXCEPT !.at = next]
           posting == [tail EXCEPT !.at = next, !.line = line, !.attempt = 1,
                                   !.state = "post"]
<1>1. /\ tail.state = "read" /\ tail.at < Len(logs[tail.file])
      /\ UNCHANGED <<scenario, logs, path, writer, late, failures>>
  BY DEF ReadLine, TailAt, Reading, Keeps
<1>0. \/ tail' = over /\ fate' = [fate EXCEPT ![line] = "passed over"]
      \/ tail' = posting /\ fate' = fate
  BY DEF ReadLine
<1> HIDE DEF over, posting
<1>2. /\ tail \in Tails /\ fate \in [Lines -> Fates] /\ failures \in [Lines -> Nat]
      /\ tail.at \in Nat /\ Apart /\ Opens
  BY DEF TailInv, LogTypes, Tails
<1>3. /\ tail.file \in DOMAIN logs /\ tail.file \in tail.opened /\ tail.file \in Nat
      /\ tail.opened \subseteq 1 .. tail.file
      /\ tail.draining => tail.file < Len(logs)
      /\ Runs("syslog") \/ Runs("auth")
  BY <1>1, <1>2 DEF Opens, Tails
<1>4. /\ tail.at + 1 \in 1 .. Len(logs[tail.file]) /\ Len(logs[tail.file]) \in Nat
      /\ line \in Lines /\ line \notin Passed /\ fate[line] = "unread" /\ failures[line] = 0
  BY <1>3, ReadLineIsNew, FilesTyped
<1>8. Read \cup {line} = ReadOf(tail.file, tail.at + 1, logs)
  <2>1. 1 .. tail.at + 1 = (1 .. tail.at) \cup {tail.at + 1}
    BY <1>2
  <2> QED
    BY <2>1 DEF Read, ReadOf
<1> HIDE DEF line
<1>9. /\ tail' \in Tails /\ tail'.at = tail.at + 1
      /\ tail'.file = tail.file /\ tail'.opened = tail.opened /\ tail'.before = tail.before
      /\ tail'.draining = tail.draining
      /\ fate' \in [Lines -> Fates]
      /\ \A l \in Lines \ {line} : fate'[l] = fate[l]
      /\ \/ tail'.state = "read" /\ fate'[line] = "passed over"
         \/ /\ tail'.state = "post" /\ tail'.line = line /\ tail'.attempt = 1
            /\ fate' = fate
  <2>3. next \in Nat
    BY <1>2
  <2>1. CASE tail' = over /\ fate' = [fate EXCEPT ![line] = "passed over"]
    <3> HIDE DEF next
    <3>1. /\ tail' \in Tails /\ tail'.at = next /\ tail'.state = tail.state
          /\ tail'.file = tail.file /\ tail'.opened = tail.opened /\ tail'.before = tail.before
          /\ tail'.draining = tail.draining
      BY <1>2, <2>3, <2>1 DEF Tails, over
    <3>2. /\ fate' \in [Lines -> Fates] /\ fate'[line] = "passed over"
          /\ \A l \in Lines \ {line} : fate'[l] = fate[l]
      BY <1>2, <1>4, <2>1 DEF Fates
    <3> QED
      BY <1>1, <3>1, <3>2 DEF next
  <2>2. CASE tail' = posting /\ fate' = fate
    <3> HIDE DEF next
    <3>1. /\ tail' \in Tails /\ tail'.at = next /\ tail'.state = "post"
          /\ tail'.file = tail.file /\ tail'.opened = tail.opened /\ tail'.before = tail.before
          /\ tail'.draining = tail.draining /\ tail'.line = line /\ tail'.attempt = 1
      BY <1>2, <1>4, <2>2, <2>3 DEF Tails, posting
    <3> QED
      BY <1>2, <2>2, <3>1 DEF next
  <2> QED
    BY <1>0, <2>1, <2>2
<1>10. Read' = Read \cup {line} /\ Passed' = Passed \cup {line}
  <2>1. Read' = Read \cup {line}
    BY <1>1, <1>8, <1>9 DEF Read
  <2> QED
    BY <1>1, <1>9, <2>1 DEF Passed
<1>11. LogTypes' /\ Apart'
  BY <1>1, <1>2, <1>9, LogStays
<1>12. Opens'
  <2>1. tail.at + 1 <= Len(logs[tail.file])
    BY <1>4
  <2>2. tail'.state \in {"post", "read"}
    BY <1>9
  <2> QED
    BY <1>1, <1>3, <1>9, <2>1, <2>2 DEF Opens, Runs
<1>13. ReadIsSettled'
  <2>1. \A l \in Read : fate[l] # "unread" \/ l \in tail.before
    BY <1>1 DEF TailInv, ReadIsSettled, Posting
  <2>2. \A l \in Read : l \in Lines => l # line /\ fate'[l] = fate[l]
    BY <1>4, <1>9 DEF Passed
  <2>3. Read \subseteq Lines
    BY OpenedTyped
  <2>4. fate'[line] # "unread" \/ (tail'.state = "post" /\ tail'.line = line)
    BY <1>9
  <2> QED
    BY <1>9, <1>10, <2>1, <2>2, <2>3, <2>4 DEF ReadIsSettled, Posting
<1>14. OpenedAreRead'
  <2>1. ASSUME NEW i \in tail.opened \ {tail.file}, NEW l \in ToSet(logs[i])
        PROVE  fate'[l] = fate[l]
    <3>2. l \in Lines
      BY OpenedTyped
    <3>3. l # line
      BY <1>4 DEF Passed
    <3> QED
      BY <1>9, <3>2, <3>3
  <2> QED
    BY <1>1, <1>9, <2>1 DEF TailInv, OpenedAreRead
<1>15. AttemptsCounted'
  <2>1. \A l \in Lines : ~ Posting(l)
    BY <1>1 DEF Posting
  <2>2. Attempts = 3 /\ 1 \in 1 .. Attempts /\ 0 = 1 - 1
    BY DEF Attempts
  <2>3. CASE tail'.state = "read"
    BY <1>1, <1>4, <1>9, <1>10, <2>1, <2>3 DEF TailInv, AttemptsCounted
  <2>4. CASE tail'.state = "post"
    BY <1>1, <1>4, <1>9, <1>10, <2>1, <2>2, <2>4 DEF TailInv, AttemptsCounted
  <2> QED
    BY <1>9, <2>3, <2>4
<1> QED
  BY <1>11, <1>12, <1>13, <1>14, <1>15 DEF TailInv

LEMMA LookAtPathKeeps ==
  ASSUME TailInv, LookAtPath, UNCHANGED scenario
  PROVE  TailInv'
<1>1. /\ tail.state = "read" /\ path \notin {0, tail.file} /\ path \in {0, Len(logs)}
      /\ UNCHANGED <<scenario, logs, path, writer, late, fate, failures>>
      /\ tail' = [tail EXCEPT !.draining = TRUE]
      /\ tail \in Tails /\ fate \in [Lines -> Fates] /\ failures \in [Lines -> Nat]
      /\ logs \in Seq(Seq(Lines))
  BY DEF LookAtPath, TailAt, Rotated, Keeps, TailInv, LogTypes
<1>2. /\ tail' \in Tails /\ tail'.at = tail.at /\ tail'.state = tail.state /\ tail'.line = tail.line
      /\ tail'.file = tail.file /\ tail'.opened = tail.opened /\ tail'.before = tail.before
  BY <1>1 DEF Tails
<1>3. LogTypes' /\ Apart'
  BY <1>1, <1>2, LogStays
<1>4. Read' = Read /\ Passed' = Passed
  BY <1>1, <1>2 DEF Read, ReadOf, Passed
<1>5. Opens'
  <2>1. tail.file \in 1 .. Len(logs) /\ Len(logs) \in Nat
    BY <1>1, LenProperties DEF TailInv, Opens
  <2>2. tail.file < Len(logs)
    BY <1>1, <2>1
  <2> QED
    BY <1>1, <1>2, <2>2 DEF TailInv, Opens, Runs
<1>6. ReadIsSettled' /\ OpenedAreRead'
  BY <1>1, <1>2, <1>4 DEF TailInv, ReadIsSettled, OpenedAreRead, Posting
<1>7. AttemptsCounted'
  BY <1>1, <1>2, <1>4 DEF TailInv, AttemptsCounted, Posting
<1> QED
  BY <1>3, <1>5, <1>6, <1>7 DEF TailInv

LEMMA OpenNewKeeps ==
  ASSUME TailInv, OpenNew, UNCHANGED scenario
  PROVE  TailInv'
<1>1. /\ tail.state = "read" /\ tail.draining /\ ~ (tail.at < Len(logs[tail.file]))
      /\ path \in {0, Len(logs)}
      /\ UNCHANGED <<scenario, logs, path, writer, late, fate, failures>>
      /\ tail \in Tails /\ fate \in [Lines -> Fates] /\ failures \in [Lines -> Nat]
      /\ logs \in Seq(Seq(Lines)) /\ logs # <<>>
      /\ tail' = IF path = 0 THEN [tail EXCEPT !.state = "dead"]
                 ELSE [tail EXCEPT !.file = path, !.at = 0, !.draining = FALSE,
                                   !.opened = tail.opened \cup {path}]
  BY DEF OpenNew, Drained, Reading, TailAt, Keeps, TailInv, LogTypes
<1>2. CASE path = 0
  <2>1. /\ tail' \in Tails /\ tail'.at = tail.at /\ tail'.state = "dead"
        /\ tail'.file = tail.file /\ tail'.opened = tail.opened /\ tail'.before = tail.before
        /\ tail'.draining = tail.draining
    BY <1>1, <1>2 DEF Tails
  <2>2. LogTypes' /\ Apart'
    BY <1>1, <2>1, LogStays
  <2>3. Read' = Read /\ Passed' = Passed
    BY <1>1, <2>1 DEF Read, ReadOf, Passed
  <2>4. Opens' /\ OpenedAreRead'
    BY <1>1, <2>1 DEF TailInv, Opens, OpenedAreRead, Runs
  <2>5. ReadIsSettled' /\ AttemptsCounted'
    BY <1>1, <2>1, <2>3 DEF TailInv, ReadIsSettled, AttemptsCounted, Posting
  <2> QED
    BY <2>2, <2>4, <2>5 DEF TailInv
<1>3. CASE path # 0
  <2>1. /\ DOMAIN logs = 1 .. Len(logs) /\ Len(logs) \in Nat /\ path = Len(logs)
        /\ path \in DOMAIN logs /\ path \in Nat /\ path \in 1 .. path
    BY <1>1, <1>3, LenProperties, EmptySeq
  <2>2. /\ tail' \in Tails /\ tail'.at = 0 /\ tail'.state = "read"
        /\ tail'.file = path /\ tail'.opened = tail.opened \cup {path}
        /\ tail'.before = tail.before /\ tail'.draining = FALSE
    BY <1>1, <1>3, <2>1 DEF Tails
  <2>3. /\ tail.file \in tail.opened /\ tail.opened \subseteq 1 .. tail.file /\ tail.file < path
        /\ tail.file \in DOMAIN logs
        /\ Runs("syslog") \/ Runs("auth")
    BY <1>1, <2>1 DEF TailInv, Opens
  <2>4. tail.file \in Nat /\ tail.at \in Nat
    BY <1>1 DEF Tails
  <2>5. path \notin tail.opened
    BY <2>1, <2>3, <2>4
  <2>6. LogTypes' /\ Apart'
    BY <1>1, <2>2, LogStays
  <2>7. /\ logs[tail.file] \in Seq(Lines) /\ DOMAIN logs[tail.file] = 1 .. Len(logs[tail.file])
        /\ Len(logs[tail.file]) \in Nat /\ tail.at <= Len(logs[tail.file]) /\ logs[path] \in Seq(Lines)
    BY <1>1, <2>1, <2>3, LenProperties DEF TailInv, Opens
  <2>8. tail.at = Len(logs[tail.file])
    BY <1>1, <2>4, <2>7
  <2>9. Read = ToSet(logs[tail.file])
    BY <2>7, <2>8 DEF Read, ReadOf, ToSet
  <2>10. Read' = {}
    <3>1. 1 .. 0 = {}
      OBVIOUS
    <3> QED
      BY <2>2, <3>1 DEF Read, ReadOf
  <2>11. tail'.opened \ {tail'.file} = tail.opened
    BY <2>2, <2>5
  <2>12. Passed' = Passed
    <3>1. Passed = Read \cup UNION {ToSet(logs[i]) : i \in tail.opened \ {tail.file}}
      BY DEF Passed
    <3>2. Passed' = UNION {ToSet(logs[i]) : i \in tail.opened}
      BY <1>1, <2>10, <2>11 DEF Passed
    <3>3. tail.opened = (tail.opened \ {tail.file}) \cup {tail.file}
      BY <2>3
    <3> DEFINE lines(i) == ToSet(logs[i])
    <3>4. /\ Passed = lines(tail.file) \cup UNION {lines(i) : i \in tail.opened \ {tail.file}}
          /\ Passed' = UNION {lines(i) : i \in tail.opened}
      BY <2>9, <3>1, <3>2
    <3> HIDE DEF lines
    <3> QED
      BY <3>3, <3>4
  <2>13. Opens'
    <3>1. tail.opened \cup {path} \subseteq 1 .. path
      BY <2>1, <2>3, <2>4
    <3> QED
      BY <1>1, <2>1, <2>2, <2>3, <2>7, <3>1, LenProperties DEF Opens, Runs
  <2>14. ReadIsSettled'
    BY <2>10 DEF ReadIsSettled
  <2>15. OpenedAreRead'
    <3>1. \A l \in Read : fate[l] = "unread" => l \in tail.before
      BY <1>1 DEF TailInv, ReadIsSettled, Posting
    <3>2. ASSUME NEW i \in tail.opened, NEW l \in ToSet(logs[i]), fate[l] = "unread"
          PROVE  l \in late \cup tail.before
      <4>1. CASE i = tail.file
        BY <2>9, <3>1, <3>2, <4>1
      <4>2. CASE i # tail.file
        BY <3>2, <4>2 DEF TailInv, OpenedAreRead
      <4> QED
        BY <4>1, <4>2
    <3> QED
      BY <1>1, <2>2, <2>11, <3>2 DEF OpenedAreRead
  <2>16. AttemptsCounted'
    BY <1>1, <2>2, <2>12 DEF TailInv, AttemptsCounted, Posting
  <2> QED
    BY <2>6, <2>13, <2>14, <2>15, <2>16 DEF TailInv
<1> QED
  BY <1>2, <1>3

(* It stays where it is in the file.                                       *)
SamePlace ==
  /\ tail'.file = tail.file /\ tail'.at = tail.at /\ tail'.opened = tail.opened
  /\ tail'.before = tail.before /\ tail'.draining = tail.draining

(* What the program does with the line it sends: it goes on with it, or    *)
(* settles it.                                                             *)
LEMMA PostingKeeps ==
  ASSUME TailInv, UNCHANGED <<scenario, logs, path, writer, late>>,
         tail.state \in {"post", "wait"}, tail' \in Tails,
         SamePlace,
         failures' \in [Lines -> Nat], fate' \in [Lines -> Fates],
         \A l \in Lines \ {tail.line} : fate'[l] = fate[l] /\ failures'[l] = failures[l],
         \/ /\ tail'.state \in {"post", "wait"} /\ tail'.line = tail.line /\ fate' = fate
            /\ tail'.attempt \in 1 .. Attempts /\ failures'[tail.line] = tail'.attempt - 1
         \/ /\ tail'.state = "read" /\ fate'[tail.line] # "unread"
            /\ fate'[tail.line] = "given up" => failures'[tail.line] = Attempts
  PROVE  TailInv'
<1>1. LogTypes' /\ Apart'
  BY LogStays
<1>2. Read' = Read /\ Passed' = Passed
  <2>1. logs' = logs /\ tail'.file = tail.file /\ tail'.at = tail.at /\ tail'.opened = tail.opened
    BY DEF SamePlace
  <2> QED
    BY <2>1, ReadStays
<1>3. Opens'
  BY DEF TailInv, Opens, Runs, SamePlace
<1>4. /\ tail.line \in Lines \cap Passed /\ fate[tail.line] = "unread"
      /\ \A l \in Lines : Posting(l) <=> l = tail.line
  BY DEF TailInv, AttemptsCounted, Posting
<1>5. \A l \in Lines : fate'[l] = "unread" => fate[l] = "unread"
  BY <1>4
<1>6. Read \subseteq Lines
  BY OpenedTyped
<1>7. ReadIsSettled'
  BY <1>2, <1>4, <1>6 DEF TailInv, ReadIsSettled, Posting, SamePlace
<1>8. OpenedAreRead'
  <2>1. ASSUME NEW i \in tail.opened \ {tail.file}, NEW l \in ToSet(logs[i]), fate'[l] = "unread"
        PROVE  fate[l] = "unread"
    <3>1. l \in Lines
      BY OpenedTyped
    <3> QED
      BY <1>5, <2>1, <3>1
  <2> QED
    BY <2>1 DEF TailInv, OpenedAreRead, SamePlace
<1>9. AttemptsCounted'
  <2>1. ASSUME NEW l \in Lines
        PROVE  /\ fate'[l] # "unread" => l \in Passed
               /\ fate'[l] = "unread" => failures'[l] = 0 \/ Posting(l)'
               /\ fate'[l] = "given up" => failures'[l] = Attempts
    <3>1. CASE l = tail.line
      BY <1>4, <3>1 DEF Posting
    <3>2. CASE l # tail.line
      BY <1>4, <3>2 DEF TailInv, AttemptsCounted
    <3> QED
      BY <3>1, <3>2
  <2> QED
    BY <1>2, <1>4, <2>1 DEF AttemptsCounted
<1> QED
  BY <1>1, <1>3, <1>7, <1>8, <1>9 DEF TailInv

LEMMA SettleDoes ==
  ASSUME TailInv, tail.state \in {"post", "wait"}, NEW how \in Fates \ {"unread"}, Settle(how)
  PROVE  /\ tail' \in Tails /\ tail'.state = "read"
         /\ SamePlace
         /\ fate' \in [Lines -> Fates] /\ fate'[tail.line] = how
         /\ \A l \in Lines \ {tail.line} : fate'[l] = fate[l]
<1>1. tail \in Tails /\ fate \in [Lines -> Fates] /\ tail.line \in Lines
  BY DEF TailInv, LogTypes, AttemptsCounted
<1> QED
  BY <1>1 DEF Settle, Tails, SamePlace

LEMMA PostsKeep ==
  ASSUME TailInv, TailPosts, UNCHANGED scenario
  PROVE  TailInv'
<1>1. /\ tail \in Tails /\ fate \in [Lines -> Fates] /\ failures \in [Lines -> Nat]
  BY DEF TailInv, LogTypes
<1>2. CASE Post
  <2>1. /\ tail.state = "post" /\ UNCHANGED <<logs, path, writer, late, fate, failures>>
        /\ tail' = [tail EXCEPT !.state = "wait"]
    BY <1>2 DEF Post, TailAt, Keeps
  <2>2. /\ tail' \in Tails /\ tail'.state = "wait" /\ tail'.line = tail.line
        /\ tail'.attempt = tail.attempt
        /\ SamePlace
    BY <1>1, <2>1 DEF Tails, SamePlace
  <2> QED
    BY <1>1, <2>1, <2>2, PostingKeeps DEF TailInv, AttemptsCounted
<1>3. CASE PostDone
  <2>1. /\ tail.state = "wait" /\ UNCHANGED <<logs, path, writer, late, failures>>
        /\ Settle("sent") \/ Settle("skipped")
    BY <1>3 DEF PostDone, TailAt, Keeps
  <2>2. ASSUME NEW how \in {"sent", "skipped"}, Settle(how)
        PROVE  TailInv'
    <3>1. how \in Fates \ {"unread"} /\ how # "given up"
      BY DEF Fates
    <3>2. /\ tail' \in Tails /\ tail'.state = "read"
          /\ SamePlace
          /\ fate' \in [Lines -> Fates] /\ fate'[tail.line] = how
          /\ \A l \in Lines \ {tail.line} : fate'[l] = fate[l]
      BY <2>1, <2>2, <3>1, SettleDoes
    <3> QED
      BY <1>1, <2>1, <3>1, <3>2, PostingKeeps
  <2> QED
    BY <2>1, <2>2
<1>4. CASE PostFails
  <2>1. /\ tail.state = "wait" /\ UNCHANGED <<logs, path, writer, late>>
        /\ failures' = [failures EXCEPT ![tail.line] = failures[tail.line] + 1]
    BY <1>4 DEF PostFails, TailAt, Keeps
  <2>2. /\ tail.line \in Lines /\ tail.attempt \in 1 .. 3 /\ Attempts = 3
        /\ failures[tail.line] = tail.attempt - 1
    BY <2>1 DEF TailInv, AttemptsCounted, Attempts
  <2>3. /\ failures' \in [Lines -> Nat] /\ failures'[tail.line] = tail.attempt
        /\ \A l \in Lines \ {tail.line} : failures'[l] = failures[l]
    BY <1>1, <2>1, <2>2
  <2>4. CASE tail.attempt = Attempts
    <3>1. Settle("given up") /\ "given up" \in Fates \ {"unread"}
      BY <1>4, <2>4 DEF PostFails, Fates
    <3>2. /\ tail' \in Tails /\ tail'.state = "read"
          /\ SamePlace
          /\ fate' \in [Lines -> Fates] /\ fate'[tail.line] = "given up"
          /\ \A l \in Lines \ {tail.line} : fate'[l] = fate[l]
      BY <2>1, <3>1, SettleDoes
    <3> QED
      BY <2>1, <2>3, <2>4, <3>2, PostingKeeps
  <2>5. CASE tail.attempt # Attempts
    <3>1. tail' = [tail EXCEPT !.state = "post", !.attempt = tail.attempt + 1] /\ fate' = fate
      BY <1>4, <2>5 DEF PostFails
    <3> DEFINE next == tail.attempt + 1
    <3>4. next \in Nat
      BY <2>2
    <3> HIDE DEF next
    <3>5. tail' = [tail EXCEPT !.state = "post", !.attempt = next]
      BY <3>1 DEF next
    <3>2. /\ tail' \in Tails /\ tail'.state = "post" /\ tail'.line = tail.line
          /\ tail'.attempt = next
          /\ SamePlace
      BY <1>1, <3>4, <3>5 DEF Tails, SamePlace
    <3>3. tail'.attempt \in 1 .. Attempts /\ failures'[tail.line] = tail'.attempt - 1
      BY <2>2, <2>3, <2>5, <3>2 DEF next
    <3> QED
      BY <1>1, <2>1, <2>3, <3>1, <3>2, <3>3, PostingKeeps
  <2> QED
    BY <2>4, <2>5
<1> QED
  BY <1>2, <1>3, <1>4 DEF TailPosts

-----------------------------------------------------------------------------
(* Calls for a single line, as the programs that follow a log make them.   *)

Steps == {"begin", "decode", "insert", "evaluate"}
CallRecord ==
  [kind : {"none", "raw", "syslog", "beats", "file"}, source : Sources \cup {"none"},
   lines : Seq(Lines), at : Nat, step : Steps \cup {"free", "answered"},
   csv : {NoFile} \cup Docs, errors : Seq(Nat), truncated : BOOLEAN,
   answer : {"none", "ok", "422", "500"}]

Followed == Runs("syslog") \/ Runs("auth")

Raw(c, l) ==
  c \in CallRecord /\ c.kind = "raw" /\ c.lines = <<l>> /\ c.at = 1 /\ c.csv = NoFile

CallTypes ==
  /\ calls \in [Slots -> CallRecord] /\ stored \in Seq(Lines)
  /\ \A k \in Slots :
       /\ calls[k].step # "free" => \E l \in Lines : Raw(calls[k], l)
       /\ calls[k].step = "answered" => k = 0

(* What is known of a line from where its call is; only the call for the   *)
(* line at hand is waited for.                                             *)
CallsTell ==
  /\ \A l \in Lines, k \in Slots : calls[k].lines = <<l>> =>
       /\ calls[k].step = "evaluate" => l \in ToSet(stored)
       /\ calls[k].step = "answered" /\ calls[k].answer = "ok" => l \in ToSet(stored)
       /\ calls[k].step = "answered" /\ calls[k].answer = "422" => l \in refused
  /\ calls[0].step # "free" => tail.state = "wait" /\ calls[0].lines = <<tail.line>>
  /\ \A l \in Lines :
       /\ fate[l] = "sent" => l \in ToSet(stored)
       /\ fate[l] = "skipped" => l \in refused

(* The calls that may still store a line.                                  *)
Pending(l, cs) == {k \in Slots : cs[k].step \in {"begin", "decode", "insert"} /\ cs[k].lines = <<l>>}
Out(l) == (tail.state = "wait" /\ l = tail.line) \/ fate[l] \in {"sent", "skipped"}

(* A line was posted once for each failure, and once more if it is waited  *)
(* for or had an answer; each post stored it once or still may.            *)
CopiesCounted ==
  \A l \in Lines :
    Copies(l) + Cardinality(Pending(l, calls)) <= failures[l] + (IF Out(l) THEN 1 ELSE 0)

SendInv == Followed => CallTypes /\ CallsTell /\ CopiesCounted

LEMMA CallTyped ==
  ASSUME NEW kind \in {"none", "raw", "syslog", "beats", "file"},
         NEW source \in Sources \cup {"none"}, NEW lines \in Seq(Lines)
  PROVE  /\ Call(kind, source, lines) \in CallRecord
         /\ Call(kind, source, lines).kind = kind
         /\ Call(kind, source, lines).source = source
         /\ Call(kind, source, lines).lines = lines /\ Call(kind, source, lines).at = 1
         /\ Call(kind, source, lines).step = "begin" /\ Call(kind, source, lines).csv = NoFile
<1> DEFINE c(b) ==
      [kind |-> kind, source |-> source, lines |-> lines, at |-> 1, step |-> "begin",
       csv |-> NoFile, errors |-> <<>>, truncated |-> b, answer |-> "none"]
<1>1. <<>> \in Seq(Nat) /\ FALSE \in BOOLEAN
  OBVIOUS
<1>2. ASSUME NEW b \in BOOLEAN
      PROVE  /\ c(b) \in CallRecord
             /\ c(b).kind = kind /\ c(b).source = source /\ c(b).lines = lines
             /\ c(b).at = 1 /\ c(b).step = "begin" /\ c(b).csv = NoFile
  BY <1>1 DEF CallRecord, Steps
<1>3. Call(kind, source, lines) = c(FALSE)
  BY DEF Call
<1> HIDE DEF c
<1> QED
  BY <1>1, <1>2, <1>3

LEMMA NoCallTyped ==
  NoCall \in CallRecord /\ NoCall.step = "free"
<1>1. Call("none", "none", <<>>) \in CallRecord
  <2>1. <<>> \in Seq(Lines) /\ "none" \in Sources \cup {"none"}
    OBVIOUS
  <2> QED
    BY <2>1, CallTyped
<1> DEFINE c == Call("none", "none", <<>>)
<1> HIDE DEF c
<1>2. [c EXCEPT !.step = "free"] \in CallRecord /\ [c EXCEPT !.step = "free"].step = "free"
  BY <1>1 DEF CallRecord, c
<1> QED
  BY <1>2 DEF NoCall, c

LEMMA SlotsFinite ==
  /\ IsFiniteSet(Slots) /\ 0 \in Slots
  /\ \A l, cs : /\ IsFiniteSet(Pending(l, cs)) /\ Cardinality(Pending(l, cs)) \in Nat
                /\ Pending(l, cs) \subseteq Slots
<1>1. MaxCalls \in Nat
  BY IngestAssumption
<1>2. IsFiniteSet(Slots) /\ 0 \in Slots
  BY <1>1, FS_Interval DEF Slots
<1> SUFFICES ASSUME NEW l, NEW cs
             PROVE  /\ IsFiniteSet(Pending(l, cs)) /\ Cardinality(Pending(l, cs)) \in Nat
                    /\ Pending(l, cs) \subseteq Slots
  BY <1>2
<1>3. Pending(l, cs) \subseteq Slots
  BY DEF Pending
<1>4. IsFiniteSet(Pending(l, cs))
  BY <1>2, <1>3, FS_Subset
<1> QED
  BY <1>3, <1>4, FS_CardinalityType

(* How the server's work on a call goes.                                   *)
Ended(k, c, l, answer) ==
  IF k = 0 THEN Raw(c, l) /\ c.step = "answered" /\ c.answer = answer
  ELSE c \in CallRecord /\ c.step = "free"
GoesOn(c, l, step) == Raw(c, l) /\ c.step = step
Serves(k, l, step) ==
  /\ Raw(calls[k], l) /\ calls[k].step = step
  /\ calls' \in [Slots -> CallRecord] /\ \A j \in Slots \ {k} : calls'[j] = calls[j]
  /\ refused \subseteq refused' /\ scenario' = scenario
  /\ \/ step = "begin" /\ GoesOn(calls'[k], l, "decode") /\ stored' = stored
     \/ step = "decode" /\ GoesOn(calls'[k], l, "insert") /\ stored' = stored
     \/ step = "decode" /\ Ended(k, calls'[k], l, "422") /\ l \in refused' /\ stored' = stored
     \/ step = "insert" /\ GoesOn(calls'[k], l, "evaluate") /\ stored' = Append(stored, l)
     \/ step = "insert" /\ Ended(k, calls'[k], l, "500") /\ stored' = stored
     \/ step = "evaluate" /\ Ended(k, calls'[k], l, "ok") /\ stored' = stored
     \/ step = "evaluate" /\ Ended(k, calls'[k], l, "500") /\ stored' = stored

LEMMA Changed ==
  ASSUME NEW c, NEW l, Raw(c, l), NEW k
  PROVE  /\ \A t \in Steps : GoesOn([c EXCEPT !.step = t], l, t)
         /\ \A answer \in {"ok", "422", "500"} : Ended(k, Answered(k, c, answer), l, answer)
         /\ Ended(k, Onward(k, c), l, "ok")
<1>1. c \in CallRecord /\ c.kind = "raw" /\ c.lines = <<l>> /\ c.at = 1 /\ c.csv = NoFile
  BY DEF Raw
<1>2. ASSUME NEW t \in Steps PROVE GoesOn([c EXCEPT !.step = t], l, t)
  BY <1>1 DEF CallRecord, GoesOn, Raw
<1>3. ASSUME NEW answer \in {"ok", "422", "500"} PROVE Ended(k, Answered(k, c, answer), l, answer)
  <2>1. CASE k = 0
    <3>1. Answered(k, c, answer) = [c EXCEPT !.step = "answered", !.answer = answer]
      BY <2>1 DEF Answered
    <3> QED
      BY <1>1, <2>1, <3>1 DEF CallRecord, Ended, Raw
  <2>2. CASE k # 0
    BY <2>2, NoCallTyped DEF Answered, Ended
  <2> QED
    BY <2>1, <2>2
<1>4. Onward(k, c) = Answered(k, c, "ok")
  <2>1. Len(<<l>>) = 1
    OBVIOUS
  <2> QED
    BY <1>1, <2>1 DEF Onward
<1> QED
  BY <1>2, <1>3, <1>4

LEMMA ServesRaw ==
  ASSUME CallTypes, NEW k \in Slots, Serve(k) \/ Fail(k)
  PROVE  \E l \in Lines, step \in Steps : Serves(k, l, step)
<1> DEFINE c == calls[k]
<1>1. ~ On(k, "free") /\ ~ On(k, "answered")
  BY DEF Serve, Fail, BeginCall, DecodeLine, InsertLine, EvaluateLine, InsertRaises,
         EvaluateRaises, On
<1>2. PICK l \in Lines : Raw(c, l)
  BY <1>1 DEF CallTypes, On
<1>3. PICK step \in Steps : c.step = step
  <2>1. c.step \in Steps \cup {"free", "answered"}
    BY <1>2 DEF Raw, CallRecord
  <2> QED
    BY <1>1, <2>1 DEF On
<1>4. c.kind = "raw" /\ c.csv = NoFile /\ Line(k) = l /\ \A s : On(k, s) <=> s = step
  <2>1. c.kind = "raw" /\ c.csv = NoFile /\ c.at = 1 /\ c.lines = <<l>>
    BY <1>2 DEF Raw
  <2>2. <<l>>[1] = l
    OBVIOUS
  <2> QED
    BY <1>3, <2>1, <2>2 DEF Line, On
<1>5. calls \in [Slots -> CallRecord]
  BY DEF CallTypes
<1>6. /\ \A t \in Steps : GoesOn([c EXCEPT !.step = t], l, t)
      /\ \A answer \in {"ok", "422", "500"} : Ended(k, Answered(k, c, answer), l, answer)
      /\ Ended(k, Onward(k, c), l, "ok")
  BY <1>2, Changed
<1> DEFINE Rest == calls' \in [Slots -> CallRecord] /\ \A j \in Slots \ {k} : calls'[j] = calls[j]
<1>7. ASSUME NEW t \in Steps, Then(k, t) PROVE Rest /\ GoesOn(calls'[k], l, t)
  <2>1. calls' = [calls EXCEPT ![k] = [c EXCEPT !.step = t]]
    BY <1>7 DEF Then
  <2>2. [c EXCEPT !.step = t] \in CallRecord
    BY <1>6 DEF GoesOn, Raw
  <2> QED
    BY <1>5, <1>6, <2>1, <2>2
<1>8. ASSUME NEW answer \in {"ok", "422", "500"}, LineFailed(k, answer)
      PROVE  Rest /\ Ended(k, calls'[k], l, answer)
  <2>1. calls' = [calls EXCEPT ![k] = Answered(k, c, answer)]
    BY <1>4, <1>8 DEF LineFailed
  <2>2. Answered(k, c, answer) \in CallRecord
    BY <1>6 DEF Ended, Raw
  <2> QED
    BY <1>5, <1>6, <2>1, <2>2
<1>9. ASSUME LineDone(k) PROVE Rest /\ Ended(k, calls'[k], l, "ok")
  <2>1. calls' = [calls EXCEPT ![k] = Onward(k, c)]
    BY <1>9 DEF LineDone
  <2>2. Onward(k, c) \in CallRecord
    BY <1>6 DEF Ended, Raw
  <2> QED
    BY <1>5, <1>6, <2>1, <2>2
<1>10. Serves(k, l, step)
  <2> HIDE DEF c
  <2>1. CASE BeginCall(k)
    <3>1. step = "begin" /\ UNCHANGED <<scenario, stored, refused>>
      BY <1>4, <2>1 DEF BeginCall
    <3>2. Then(k, "decode")
      BY <1>4, <2>1 DEF BeginCall, Then, c
    <3> QED
      BY <1>2, <1>3, <1>7, <3>1, <3>2 DEF Serves, c, Steps
  <2>2. CASE DecodeLine(k)
    <3>1. step = "decode" /\ UNCHANGED <<scenario, stored>> /\ ~ KeptAnyway(k) /\ ~ Raises(k)
      BY <1>4, <2>2 DEF DecodeLine, KeptAnyway, Raises, c
    <3>2. CASE Taken(k)
      <4>1. Then(k, "insert") /\ UNCHANGED refused
        BY <2>2, <3>1, <3>2 DEF DecodeLine
      <4> QED
        BY <1>2, <1>3, <1>7, <3>1, <4>1 DEF Serves, c, Steps
    <3>3. CASE ~ Taken(k)
      <4>1. LineFailed(k, "422") /\ refused' = refused \cup {l}
        BY <1>4, <2>2, <3>1, <3>3 DEF DecodeLine
      <4> QED
        BY <1>2, <1>3, <1>8, <3>1, <4>1 DEF Serves, c
    <3> QED
      BY <3>2, <3>3
  <2>3. CASE InsertLine(k)
    <3>1. /\ step = "insert" /\ UNCHANGED <<scenario, refused>> /\ Then(k, "evaluate")
          /\ stored' = Append(stored, l)
      BY <1>4, <2>3 DEF InsertLine
    <3> QED
      BY <1>2, <1>3, <1>7, <3>1 DEF Serves, c, Steps
  <2>4. CASE InsertRaises(k)
    <3>1. step = "insert" /\ UNCHANGED <<scenario, stored, refused>> /\ LineFailed(k, "500")
      BY <1>4, <2>4 DEF InsertRaises
    <3> QED
      BY <1>2, <1>3, <1>8, <3>1 DEF Serves, c
  <2>5. CASE EvaluateLine(k)
    <3>1. step = "evaluate" /\ UNCHANGED <<scenario, stored, refused>> /\ LineDone(k)
      BY <1>4, <2>5 DEF EvaluateLine
    <3> QED
      BY <1>2, <1>3, <1>9, <3>1 DEF Serves, c
  <2>6. CASE EvaluateRaises(k)
    <3>1. step = "evaluate" /\ UNCHANGED <<scenario, stored, refused>> /\ LineFailed(k, "500")
      BY <1>4, <2>6 DEF EvaluateRaises
    <3> QED
      BY <1>2, <1>3, <1>8, <3>1 DEF Serves, c
  <2> QED
    BY <2>1, <2>2, <2>3, <2>4, <2>5, <2>6 DEF Serve, Fail
<1> QED
  BY <1>10
Places(m, s) == {i \in DOMAIN s : s[i] = m}

LEMMA PlacesCounted ==
  ASSUME NEW s \in Seq(Lines), NEW m
  PROVE  /\ Cardinality(Places(m, s)) \in Nat
         /\ \A l \in Lines : Cardinality(Places(m, Append(s, l)))
                               = IF m = l THEN Cardinality(Places(m, s)) + 1
                                 ELSE Cardinality(Places(m, s))
<1>1. DOMAIN s = 1 .. Len(s) /\ Len(s) \in Nat
  BY LenProperties
<1>2. IsFiniteSet(Places(m, s))
  <2>1. IsFiniteSet(1 .. Len(s)) /\ Places(m, s) \subseteq 1 .. Len(s)
    BY <1>1, FS_Interval DEF Places
  <2> QED
    BY <2>1, FS_Subset
<1>3. ASSUME NEW l \in Lines
      PROVE  Cardinality(Places(m, Append(s, l)))
               = IF m = l THEN Cardinality(Places(m, s)) + 1 ELSE Cardinality(Places(m, s))
  <2> DEFINE t == Append(s, l)
  <2>1. /\ DOMAIN t = 1 .. Len(s) + 1 /\ t[Len(s) + 1] = l
        /\ \A i \in 1 .. Len(s) : t[i] = s[i]
    BY AppendDoes
  <2> HIDE DEF t
  <2>2. 1 .. Len(s) + 1 = (1 .. Len(s)) \cup {Len(s) + 1} /\ Len(s) + 1 \notin 1 .. Len(s)
    BY <1>1
  <2>3. ASSUME m = l PROVE Cardinality(Places(m, t)) = Cardinality(Places(m, s)) + 1
    <3>1. Places(m, t) = Places(m, s) \cup {Len(s) + 1} /\ Len(s) + 1 \notin Places(m, s)
      BY <1>1, <2>1, <2>2, <2>3 DEF Places
    <3> QED
      BY <1>2, <3>1, FS_AddElement
  <2>4. ASSUME m # l PROVE Places(m, t) = Places(m, s)
    BY <1>1, <2>1, <2>2, <2>4 DEF Places
  <2> QED
    BY <2>3, <2>4 DEF t
<1> QED
  BY <1>2, <1>3, FS_CardinalityType

LEMMA ServesKeeps ==
  ASSUME TailInv, CallTypes, CallsTell, CopiesCounted,
         NEW k \in Slots, NEW l \in Lines, NEW step \in Steps, Serves(k, l, step),
         UNCHANGED tailVars
  PROVE  CallTypes' /\ CallsTell' /\ CopiesCounted'
<1>1. UNCHANGED <<tail, fate, failures>>
  BY DEF tailVars
<1>2. /\ calls[k] \in CallRecord /\ calls[k].lines = <<l>> /\ calls[k].step = step
      /\ calls \in [Slots -> CallRecord]
      /\ calls' \in [Slots -> CallRecord] /\ \A j \in Slots \ {k} : calls'[j] = calls[j]
      /\ refused \subseteq refused' /\ stored \in Seq(Lines)
  BY DEF Serves, Raw, CallTypes
<1>3. \A m : <<m>> = <<l>> => m = l
  OBVIOUS
<1>4. \/ stored' = stored
      \/ stored' = Append(stored, l) /\ step = "insert" /\ GoesOn(calls'[k], l, "evaluate")
  BY DEF Serves
<1>5. /\ stored' \in Seq(Lines) /\ ToSet(stored) \subseteq ToSet(stored')
      /\ calls'[k].step = "evaluate" => l \in ToSet(stored')
  <2>1. CASE stored' = stored
    BY <1>2, <2>1 DEF Serves, GoesOn, Ended
  <2>2. CASE stored' = Append(stored, l)
    BY <1>2, <2>2, AppendDoes
  <2> QED
    BY <1>4, <2>1, <2>2
<1>6. /\ calls'[k].step # "free" => Raw(calls'[k], l)
      /\ calls'[k].step = "answered" => k = 0
      /\ calls'[k].step = "answered" /\ calls'[k].answer = "ok" => step = "evaluate"
      /\ calls'[k].step = "answered" /\ calls'[k].answer = "422" => l \in refused'
  BY DEF Serves, GoesOn, Ended
<1>7. CallTypes'
  <2>1. ASSUME NEW j \in Slots
        PROVE  /\ calls'[j].step # "free" => \E m \in Lines : Raw(calls'[j], m)
               /\ calls'[j].step = "answered" => j = 0
    <3>1. CASE j = k
      BY <1>6, <3>1
    <3>2. CASE j # k
      BY <1>2, <3>2 DEF CallTypes
    <3> QED
      BY <3>1, <3>2
  <2> QED
    BY <1>2, <1>5, <2>1 DEF CallTypes
<1>8. CallsTell'
  <2>1. ASSUME NEW m \in Lines, NEW j \in Slots, calls'[j].lines = <<m>>
        PROVE  /\ calls'[j].step = "evaluate" => m \in ToSet(stored')
               /\ calls'[j].step = "answered" /\ calls'[j].answer = "ok" => m \in ToSet(stored')
               /\ calls'[j].step = "answered" /\ calls'[j].answer = "422" => m \in refused'
    <3>1. CASE j = k
      <4>1. calls'[j].step \in {"evaluate", "answered"} => m = l
        BY <1>3, <1>6, <2>1, <3>1 DEF Raw
      <4>2. step = "evaluate" => l \in ToSet(stored)
        BY <1>2 DEF CallsTell
      <4> QED
        BY <1>5, <1>6, <3>1, <4>1, <4>2
    <3>2. CASE j # k
      BY <1>2, <1>5, <2>1, <3>2 DEF CallsTell
    <3> QED
      BY <3>1, <3>2
  <2>2. calls'[0].step # "free" => tail'.state = "wait" /\ calls'[0].lines = <<tail'.line>>
    <3>1. CASE k = 0
      <4>1. tail.state = "wait" /\ tail.line = l
        BY <1>2, <1>3, <3>1 DEF CallsTell, Steps
      <4> QED
        BY <1>1, <1>6, <3>1, <4>1 DEF Raw
    <3>2. CASE k # 0
      BY <1>1, <1>2, <3>2, SlotsFinite DEF CallsTell
    <3> QED
      BY <3>1, <3>2
  <2> QED
    BY <1>1, <1>2, <1>5, <2>1, <2>2 DEF CallsTell
<1>9. CopiesCounted'
  <2> SUFFICES ASSUME NEW m \in Lines
               PROVE  Copies(m)' + Cardinality(Pending(m, calls'))
                        <= failures[m] + (IF Out(m) THEN 1 ELSE 0)
    BY <1>1 DEF CopiesCounted, Out
  <2> DEFINE old == Pending(m, calls)
             new == Pending(m, calls')
  <2>1. /\ IsFiniteSet(old) /\ Cardinality(old) \in Nat
        /\ IsFiniteSet(new) /\ Cardinality(new) \in Nat
    BY SlotsFinite
  <2>2. Copies(m) + Cardinality(old) <= failures[m] + (IF Out(m) THEN 1 ELSE 0)
    BY DEF CopiesCounted
  <2>3. /\ Copies(m) \in Nat
        /\ stored' = Append(stored, l) => Copies(m)' = IF m = l THEN Copies(m) + 1 ELSE Copies(m)
        /\ stored' = stored => Copies(m)' = Copies(m)
    <3>1. Copies(m) = Cardinality(Places(m, stored)) /\ Copies(m)' = Cardinality(Places(m, stored'))
      BY DEF Copies, Places
    <3>2. /\ Cardinality(Places(m, stored)) \in Nat
          /\ Cardinality(Places(m, Append(stored, l)))
               = IF m = l THEN Cardinality(Places(m, stored)) + 1 ELSE Cardinality(Places(m, stored))
      BY <1>2, PlacesCounted
    <3>3. ASSUME stored' = Append(stored, l)
          PROVE  Copies(m)' = IF m = l THEN Copies(m) + 1 ELSE Copies(m)
      BY <3>1, <3>2, <3>3
    <3>4. ASSUME stored' = stored PROVE Copies(m)' = Copies(m)
      BY <3>1, <3>4
    <3> QED
      BY <3>1, <3>2, <3>3, <3>4
  <2>4. \A j \in Slots \ {k} : j \in new <=> j \in old
    BY <1>2 DEF Pending
  <2>5. k \in new => m = l /\ calls'[k].step \in {"begin", "decode", "insert"}
    BY <1>3, <1>6 DEF Pending, Raw
  <2>6. k \in new => k \in old
    <3>1. ASSUME k \in new PROVE step \in {"begin", "decode", "insert"}
      BY <2>5, <3>1 DEF Serves, GoesOn, Ended
    <3> QED
      BY <1>2, <2>5, <3>1 DEF Pending
  <2>7. new \subseteq old
    BY <2>4, <2>6, SlotsFinite
  <2>8. Cardinality(new) <= Cardinality(old)
    BY <2>1, <2>7, FS_Subset
  <2> DEFINE n == failures[m] + (IF Out(m) THEN 1 ELSE 0)
  <2>11. n \in Nat
    BY DEF TailInv, LogTypes
  <2> HIDE DEF n
  <2>12. Copies(m) + Cardinality(old) <= n
    BY <2>2 DEF n
  <2>9. CASE stored' = stored
    <3> HIDE DEF old, new
    <3>1. Copies(m)' + Cardinality(new) <= n
      BY <2>1, <2>3, <2>8, <2>9, <2>11, <2>12
    <3> QED
      BY <3>1 DEF n, new
  <2>10. CASE stored' # stored
    <3>1. stored' = Append(stored, l) /\ step = "insert" /\ calls'[k].step = "evaluate"
      BY <1>4, <2>10 DEF GoesOn
    <3>2. CASE m = l
      <4>1. k \in old /\ k \notin new
        BY <1>2, <2>5, <3>1, <3>2 DEF Pending
      <4>2. new \subseteq old \ {k}
        BY <2>7, <4>1
      <4>3. IsFiniteSet(old \ {k}) /\ Cardinality(old \ {k}) = Cardinality(old) - 1
        BY <2>1, <4>1, FS_RemoveElement
      <4>4. Cardinality(new) <= Cardinality(old) - 1
        BY <4>2, <4>3, FS_Subset
      <4> HIDE DEF old, new
      <4>5. Copies(m)' + Cardinality(new) <= n
        BY <2>1, <2>3, <2>11, <2>12, <3>1, <3>2, <4>4
      <4> QED
        BY <4>5 DEF n, new
    <3>3. CASE m # l
      <4> HIDE DEF old, new
      <4>5. Copies(m)' + Cardinality(new) <= n
        BY <2>1, <2>3, <2>8, <2>11, <2>12, <3>1, <3>3
      <4> QED
        BY <4>5 DEF n, new
    <3> QED
      BY <3>2, <3>3
  <2> QED
    BY <2>9, <2>10
<1> QED
  BY <1>7, <1>8, <1>9

LEMMA CopiesTyped ==
  ASSUME CallTypes, NEW m
  PROVE  /\ Copies(m) \in Nat
         /\ stored' = stored => Copies(m)' = Copies(m)
<1>1. Copies(m) = Cardinality(Places(m, stored)) /\ Copies(m)' = Cardinality(Places(m, stored'))
  BY DEF Copies, Places
<1>2. stored \in Seq(Lines)
  BY DEF CallTypes
<1>3. Cardinality(Places(m, stored)) \in Nat
  BY <1>2, PlacesCounted
<1> QED
  BY <1>1, <1>3

(* A step that leaves the calls alone, and at most starts with a line.     *)
LEMMA CallsStay ==
  ASSUME CallTypes, CallsTell, CopiesCounted, UNCHANGED <<calls, stored, refused, failures>>,
         (tail' = tail) \/ (tail.state # "wait" /\ tail'.state # "wait"),
         \A l \in Lines : fate'[l] = fate[l] \/ (fate[l] = "unread" /\ fate'[l] = "passed over")
  PROVE  CallTypes' /\ CallsTell' /\ CopiesCounted'
<1>1. CallTypes'
  BY DEF CallTypes
<1>2. CallsTell'
  BY DEF CallsTell
<1>3. ASSUME NEW l \in Lines PROVE Out(l)' = Out(l)
  BY DEF Out
<1>4. CopiesCounted'
  <2> SUFFICES ASSUME NEW l \in Lines
               PROVE  (Copies(l) + Cardinality(Pending(l, calls)) <= failures[l] + (IF Out(l) THEN 1 ELSE 0))'
    BY DEF CopiesCounted
  <2>1. Copies(l)' = Copies(l)
    BY CopiesTyped
  <2>2. Copies(l) + Cardinality(Pending(l, calls)) <= failures[l] + (IF Out(l) THEN 1 ELSE 0)
    BY DEF CopiesCounted
  <2>3. calls' = calls /\ failures' = failures
    OBVIOUS
  <2> QED
    BY <1>3, <2>1, <2>2, <2>3
<1> QED
  BY <1>1, <1>2, <1>4

LEMMA FollowSends ==
  ASSUME TailInv, CallTypes, CallsTell, CopiesCounted, StartTail \/ Follow, UNCHANGED ingestVars
  PROVE  CallTypes' /\ CallsTell' /\ CopiesCounted'
<1>1. /\ UNCHANGED <<calls, stored, refused, failures>>
      /\ tail \in Tails /\ fate \in [Lines -> Fates]
  BY FilesTyped DEF ingestVars, StartTail, Follow, ReadLine, LookAtPath, OpenNew
<1>2. CASE StartTail
  <2>1. tail.state = "off" /\ tail'.state = "read" /\ fate' = fate
    BY <1>1, <1>2 DEF StartTail, TailAt, Tails
  <2> QED
    BY <1>1, <2>1, CallsStay
<1>3. CASE ReadLine
  <2> DEFINE line == logs[tail.file][tail.at + 1]
  <2>1. tail.state = "read"
    BY <1>3 DEF ReadLine, TailAt
  <2>2. line \notin Lines \/ fate[line] = "unread"
    BY <1>3, ReadLineIsNew
  <2>3. \/ tail' = [tail EXCEPT !.at = tail.at + 1] /\ fate' = [fate EXCEPT ![line] = "passed over"]
        \/ /\ tail' = [tail EXCEPT !.at = tail.at + 1, !.line = line, !.attempt = 1,
                                   !.state = "post"]
           /\ fate' = fate
    BY <1>3 DEF ReadLine
  <2> HIDE DEF line
  <2>4. tail'.state # "wait"
    BY <1>1, <2>1, <2>3 DEF Tails
  <2>5. \A l \in Lines : fate'[l] = fate[l] \/ (fate[l] = "unread" /\ fate'[l] = "passed over")
    BY <1>1, <2>2, <2>3
  <2> QED
    BY <1>1, <2>1, <2>4, <2>5, CallsStay
<1>4. CASE LookAtPath
  <2>1. tail.state = "read" /\ tail'.state = "read" /\ fate' = fate
    BY <1>1, <1>4 DEF LookAtPath, TailAt, Tails
  <2> QED
    BY <1>1, <2>1, CallsStay
<1>5. CASE OpenNew
  <2>1. tail.state = "read" /\ fate' = fate
    BY <1>5 DEF OpenNew, TailAt
  <2>2. tail'.state # "wait"
    <3>1. CASE path = 0
      BY <1>1, <1>5, <3>1 DEF OpenNew, Tails
    <3>2. CASE path # 0
      <4>1. tail' = [tail EXCEPT !.file = path, !.at = 0, !.draining = FALSE,
                                 !.opened = tail.opened \cup {path}]
        BY <1>5, <3>2 DEF OpenNew
      <4> QED
        BY <1>1, <2>1, <4>1 DEF Tails
    <3> QED
      BY <3>1, <3>2
  <2> QED
    BY <1>1, <2>1, <2>2, CallsStay
<1> QED
  BY <1>2, <1>3, <1>4, <1>5 DEF Follow

LEMMA PostSends ==
  ASSUME TailInv, CallTypes, CallsTell, CopiesCounted, Post
  PROVE  CallTypes' /\ CallsTell' /\ CopiesCounted'
<1> DEFINE l == tail.line
           new == Call("raw", TailSource, <<l>>)
<1>1. /\ tail.state = "post" /\ calls[0].step = "free" /\ calls' = [calls EXCEPT ![0] = new]
      /\ UNCHANGED <<scenario, stored, refused, fate, failures>>
      /\ tail' = [tail EXCEPT !.state = "wait"]
  BY DEF Post, TailAt, Submit, On, Keeps
<1>2. /\ l \in Lines /\ fate[l] = "unread" /\ tail \in Tails
  BY <1>1, FilesTyped DEF TailInv, AttemptsCounted
<1>3. new \in CallRecord /\ Raw(new, l) /\ new.step = "begin" /\ new.lines = <<l>>
  <2> DEFINE one == <<l>>
  <2>1. one \in Seq(Lines) /\ TailSource \in Sources \cup {"none"}
    BY <1>2, TailerAssumption
  <2> HIDE DEF one
  <2>2. /\ Call("raw", TailSource, one) \in CallRecord
        /\ Call("raw", TailSource, one).kind = "raw"
        /\ Call("raw", TailSource, one).lines = one /\ Call("raw", TailSource, one).at = 1
        /\ Call("raw", TailSource, one).step = "begin" /\ Call("raw", TailSource, one).csv = NoFile
    BY <2>1, CallTyped
  <2> QED
    BY <2>2 DEF Raw, one
<1> HIDE DEF new, l
<1>4. /\ calls \in [Slots -> CallRecord] /\ calls' \in [Slots -> CallRecord] /\ calls'[0] = new
      /\ \A j \in Slots \ {0} : calls'[j] = calls[j]
      /\ 0 \in Slots
  BY <1>1, <1>3, SlotsFinite DEF CallTypes
<1>5. tail'.state = "wait" /\ tail'.line = l
  BY <1>1, <1>2 DEF Tails, l
<1>6. CallTypes'
  <2>1. ASSUME NEW j \in Slots
        PROVE  /\ calls'[j].step # "free" => \E m \in Lines : Raw(calls'[j], m)
               /\ calls'[j].step = "answered" => j = 0
    BY <1>2, <1>3, <1>4 DEF CallTypes
  <2> QED
    BY <1>1, <1>4, <2>1 DEF CallTypes
<1>7. CallsTell'
  BY <1>1, <1>3, <1>4, <1>5 DEF CallsTell
<1>8. CopiesCounted'
  <2> SUFFICES ASSUME NEW m \in Lines
               PROVE  Copies(m)' + Cardinality(Pending(m, calls'))
                        <= failures[m] + (IF Out(m)' THEN 1 ELSE 0)
    BY <1>1 DEF CopiesCounted
  <2> DEFINE before == Pending(m, calls)
             after == Pending(m, calls')
  <2>1. /\ IsFiniteSet(before) /\ Cardinality(before) \in Nat /\ Copies(m) \in Nat
        /\ Copies(m)' = Copies(m) /\ failures[m] \in Nat
    BY <1>1, SlotsFinite, CopiesTyped, FilesTyped
  <2>2. Copies(m) + Cardinality(before) <= failures[m] + (IF Out(m) THEN 1 ELSE 0)
    BY DEF CopiesCounted
  <2>3. 0 \notin before /\ \A j \in Slots \ {0} : j \in after <=> j \in before
    BY <1>1, <1>4 DEF Pending
  <2>4. before \subseteq Slots /\ after \subseteq Slots
    BY DEF Pending
  <2>5. CASE m = l
    <3>1. 0 \in after
      BY <1>3, <1>4, <2>5 DEF Pending
    <3>2. after = before \cup {0}
      BY <2>3, <2>4, <3>1
    <3>3. Cardinality(after) = Cardinality(before) + 1
      <4> HIDE DEF before, after
      <4> QED
        BY <2>1, <2>3, <3>2, FS_AddElement
    <3>4. ~ Out(m) /\ Out(m)'
      BY <1>1, <1>2, <1>5, <2>5 DEF Out
    <3> HIDE DEF before, after
    <3>5. Copies(m)' + Cardinality(after) <= failures[m] + 1
      BY <2>1, <2>2, <3>3, <3>4
    <3> QED
      BY <3>4, <3>5 DEF after
  <2>6. CASE m # l
    <3>1. 0 \notin after
      <4>1. <<l>> # <<m>>
        BY <2>6
      <4> QED
        BY <1>3, <1>4, <4>1 DEF Pending
    <3>2. after = before
      BY <2>3, <2>4, <3>1
    <3>3. Out(m)' <=> Out(m)
      BY <1>1, <1>5, <2>6 DEF Out, l
    <3> HIDE DEF before
    <3> QED
      BY <2>1, <2>2, <3>2, <3>3 DEF after
  <2> QED
    BY <2>5, <2>6
<1> QED
  BY <1>6, <1>7, <1>8

(* What is known of the calls themselves.                                  *)
Tells(cs, kept, noted) ==
  \A l \in Lines, k \in Slots : cs[k].lines = <<l>> =>
    /\ cs[k].step = "evaluate" => l \in ToSet(kept)
    /\ cs[k].step = "answered" /\ cs[k].answer = "ok" => l \in ToSet(kept)
    /\ cs[k].step = "answered" /\ cs[k].answer = "422" => l \in noted

(* The client turns to the answer or gives the call up: no call comes of   *)
(* it that may store a line.                                               *)
LEMMA LetGo ==
  ASSUME CallTypes, CallsTell, NEW answers, Receive(answers) \/ Abandon \/ BrokenOff
  PROVE  /\ CallTypes' /\ Tells(calls', stored, refused) /\ calls'[0].step = "free"
         /\ UNCHANGED <<scenario, stored, refused>>
         /\ \A l : Cardinality(Pending(l, calls')) <= Cardinality(Pending(l, calls))
<1>1. /\ calls \in [Slots -> CallRecord] /\ stored \in Seq(Lines) /\ Tells(calls, stored, refused)
      /\ \A k \in Slots : /\ calls[k].step # "free" => \E l \in Lines : Raw(calls[k], l)
                          /\ calls[k].step = "answered" => k = 0
  BY DEF CallTypes, CallsTell, Tells
<1>2. UNCHANGED <<scenario, stored, refused>>
  BY DEF Receive, Abandon, BrokenOff, ingestVars
<1>3. /\ IsFiniteSet(Slots) /\ 0 \in Slots
      /\ \A l, cs : /\ IsFiniteSet(Pending(l, cs)) /\ Cardinality(Pending(l, cs)) \in Nat
                    /\ Pending(l, cs) \subseteq Slots
  BY SlotsFinite
<1>4. NoCall \in CallRecord /\ NoCall.step = "free"
  BY NoCallTyped
<1>5. CASE calls[0].step = "answered" /\ calls' = [calls EXCEPT ![0] = NoCall]
  <2>1. /\ calls' \in [Slots -> CallRecord] /\ calls'[0].step = "free"
        /\ \A k \in Slots \ {0} : calls'[k] = calls[k]
    BY <1>1, <1>3, <1>4, <1>5
  <2>2. CallTypes'
    <3>1. ASSUME NEW k \in Slots
          PROVE  /\ calls'[k].step # "free" => \E l \in Lines : Raw(calls'[k], l)
                 /\ calls'[k].step = "answered" => k = 0
      BY <1>1, <2>1
    <3> QED
      BY <1>1, <1>2, <2>1, <3>1 DEF CallTypes
  <2>3. Tells(calls', stored, refused)
    BY <1>1, <2>1 DEF Tells
  <2>4. ASSUME NEW l PROVE Pending(l, calls') = Pending(l, calls)
    BY <1>5, <2>1 DEF Pending
  <2> QED
    BY <1>2, <1>3, <2>1, <2>2, <2>3, <2>4
<1>6. ASSUME calls[0].step \notin {"free", "answered"},
             NEW k \in Slots \ {0}, calls[k].step = "free",
             calls' = [calls EXCEPT ![k] = calls[0], ![0] = NoCall]
      PROVE  /\ CallTypes' /\ Tells(calls', stored, refused) /\ calls'[0].step = "free"
             /\ \A l : Cardinality(Pending(l, calls')) <= Cardinality(Pending(l, calls))
  <2>1. /\ calls' \in [Slots -> CallRecord] /\ calls'[0].step = "free" /\ calls'[k] = calls[0]
        /\ \A j \in Slots \ {0, k} : calls'[j] = calls[j]
    BY <1>1, <1>3, <1>4, <1>6
  <2>2. CallTypes'
    <3>1. ASSUME NEW j \in Slots
          PROVE  /\ calls'[j].step # "free" => \E l \in Lines : Raw(calls'[j], l)
                 /\ calls'[j].step = "answered" => j = 0
      <4>1. CASE j = k
        BY <1>1, <1>3, <1>6, <2>1, <4>1
      <4>2. CASE j = 0
        BY <2>1, <4>2
      <4>3. CASE j \notin {0, k}
        BY <1>1, <2>1, <4>3
      <4> QED
        BY <4>1, <4>2, <4>3
    <3> QED
      BY <1>1, <1>2, <2>1, <3>1 DEF CallTypes
  <2>3. Tells(calls', stored, refused)
    <3> SUFFICES ASSUME NEW l \in Lines, NEW j \in Slots, calls'[j].lines = <<l>>
                 PROVE  /\ calls'[j].step = "evaluate" => l \in ToSet(stored)
                        /\ calls'[j].step = "answered" /\ calls'[j].answer = "ok" => l \in ToSet(stored)
                        /\ calls'[j].step = "answered" /\ calls'[j].answer = "422" => l \in refused
      BY DEF Tells
    <3>1. CASE j = k
      BY <1>1, <1>3, <2>1, <3>1 DEF Tells
    <3>2. CASE j = 0
      BY <2>1, <3>2
    <3>3. CASE j \notin {0, k}
      BY <1>1, <2>1, <3>3 DEF Tells
    <3> QED
      BY <3>1, <3>2, <3>3
  <2>4. ASSUME NEW l PROVE Cardinality(Pending(l, calls')) <= Cardinality(Pending(l, calls))
    <3> DEFINE old == Pending(l, calls)
               new == Pending(l, calls')
    <3>1. k \notin old /\ 0 \notin new /\ (k \in new <=> 0 \in old)
      BY <1>3, <1>6, <2>1 DEF Pending
    <3>2. \A j \in Slots \ {0, k} : j \in new <=> j \in old
      BY <2>1 DEF Pending
    <3>3. IsFiniteSet(old) /\ Cardinality(old) \in Nat /\ old \subseteq Slots /\ new \subseteq Slots
      BY <1>3
    <3> HIDE DEF old, new
    <3>4. CASE 0 \in old
      <4>1. new = (old \ {0}) \cup {k} /\ k \notin old \ {0}
        BY <1>6, <3>1, <3>2, <3>3, <3>4
      <4>2. IsFiniteSet(old \ {0}) /\ Cardinality(old \ {0}) = Cardinality(old) - 1
        BY <3>3, <3>4, FS_RemoveElement
      <4>3. Cardinality(new) = Cardinality(old \ {0}) + 1
        BY <4>1, <4>2, FS_AddElement
      <4> QED
        BY <3>3, <4>2, <4>3 DEF old, new
    <3>5. CASE 0 \notin old
      <4>1. new = old
        BY <3>1, <3>2, <3>3, <3>5
      <4> QED
        BY <3>3, <4>1 DEF old, new
    <3> QED
      BY <3>4, <3>5
  <2> QED
    BY <2>1, <2>2, <2>3, <2>4
<1>7. CASE Receive(answers)
  <2>1. calls[0].step = "answered" /\ calls' = [calls EXCEPT ![0] = NoCall]
    BY <1>7 DEF Receive, On
  <2> QED
    BY <1>5, <2>1
<1>8. CASE Abandon
  <2>1. CASE On(0, "answered")
    <3>1. calls[0].step = "answered" /\ calls' = [calls EXCEPT ![0] = NoCall]
      BY <1>8, <2>1 DEF Abandon, On
    <3> QED
      BY <1>5, <3>1
  <2>2. CASE ~ On(0, "answered")
    <3>1. /\ calls[0].step \notin {"free", "answered"}
          /\ \E k \in Slots \ {0} :
               calls[k].step = "free" /\ calls' = [calls EXCEPT ![k] = calls[0], ![0] = NoCall]
      BY <1>8, <2>2 DEF Abandon, On
    <3> QED
      BY <1>2, <1>6, <3>1
  <2> QED
    BY <2>1, <2>2
<1>9. CASE BrokenOff
  <2>1. calls[0].step = "free" /\ calls' = calls
    BY <1>9 DEF BrokenOff, On, ingestVars
  <2>2. CallTypes' /\ Tells(calls', stored, refused)
    BY <1>1, <1>2, <2>1 DEF CallTypes
  <2> QED
    BY <1>2, <1>3, <2>1, <2>2
<1> QED
  BY <1>7, <1>8, <1>9

LEMMA AnswerSends ==
  ASSUME TailInv, CallTypes, CallsTell, CopiesCounted, PostDone \/ PostFails
  PROVE  CallTypes' /\ CallsTell' /\ CopiesCounted'
<1> DEFINE l == tail.line
<1>1. /\ tail.state = "wait" /\ l \in Lines /\ fate[l] = "unread" /\ tail \in Tails
      /\ fate \in [Lines -> Fates] /\ failures \in [Lines -> Nat]
  <2>1. tail.state = "wait"
    BY DEF PostDone, PostFails, TailAt
  <2> QED
    BY <2>1, FilesTyped DEF TailInv, AttemptsCounted
<1>2. /\ CallTypes' /\ Tells(calls', stored, refused) /\ calls'[0].step = "free"
      /\ UNCHANGED <<scenario, stored, refused>>
      /\ \A m : Cardinality(Pending(m, calls')) <= Cardinality(Pending(m, calls))
  <2>1. \E answers : Receive(answers) \/ Abandon \/ BrokenOff
    BY DEF PostDone, PostFails
  <2>2. PICK answers : Receive(answers) \/ Abandon \/ BrokenOff
    BY <2>1
  <2> QED
    BY <2>2, LetGo
<1> HIDE DEF l
<1>3. ASSUME NEW how \in Fates \ {"unread"}, Settle(how)
      PROVE  /\ tail'.state = "read" /\ fate'[l] = how
             /\ \A m \in Lines \ {l} : fate'[m] = fate[m]
  BY <1>1, <1>3, SettleDoes DEF l
(* The line has its answer, or one more failure.                           *)
<1>4. /\ tail'.state # "wait" /\ \A m \in Lines \ {l} : fate'[m] = fate[m]
      /\ failures' \in [Lines -> Nat] /\ \A m \in Lines \ {l} : failures'[m] = failures[m]
      /\ \/ fate'[l] \in {"sent", "skipped"} /\ failures'[l] = failures[l]
         \/ fate'[l] \in {"unread", "given up"} /\ failures'[l] = failures[l] + 1
      /\ fate'[l] = "sent" => l \in ToSet(stored)
      /\ fate'[l] = "skipped" => l \in refused
  <2>1. CASE PostDone
    <3>1. failures' = failures
      BY <2>1 DEF PostDone
    <3>2. calls[0].step # "free" => calls[0].lines = <<l>>
      BY DEF CallsTell, l
    <3>3. CASE Receive({"ok"}) /\ Settle("sent")
      <4>1. tail'.state = "read" /\ fate'[l] = "sent" /\ \A m \in Lines \ {l} : fate'[m] = fate[m]
        BY <1>3, <3>3 DEF Fates
      <4>2. calls[0].step = "answered" /\ calls[0].answer = "ok"
        BY <3>3 DEF Receive, On
      <4>3. l \in ToSet(stored)
        BY <1>1, <3>2, <4>2, SlotsFinite DEF CallsTell
      <4> QED
        BY <1>1, <3>1, <4>1, <4>3
    <3>4. CASE Receive(Final) /\ Settle("skipped")
      <4>1. tail'.state = "read" /\ fate'[l] = "skipped" /\ \A m \in Lines \ {l} : fate'[m] = fate[m]
        BY <1>3, <3>4 DEF Fates
      <4>2. calls[0].step = "answered" /\ calls[0].answer = "422"
        BY <3>4 DEF Receive, On, Final
      <4>3. l \in refused
        BY <1>1, <3>2, <4>2, SlotsFinite DEF CallsTell
      <4> QED
        BY <1>1, <3>1, <4>1, <4>3
    <3> QED
      BY <2>1, <3>3, <3>4 DEF PostDone
  <2>2. CASE PostFails
    <3>1. /\ failures' = [failures EXCEPT ![l] = failures[l] + 1]
          /\ \/ Settle("given up")
             \/ tail' = [tail EXCEPT !.state = "post", !.attempt = tail.attempt + 1] /\ fate' = fate
      BY <2>2 DEF PostFails, l
    <3> DEFINE more == failures[l] + 1
    <3>5. more \in Nat
      BY <1>1
    <3>6. failures' = [failures EXCEPT ![l] = more]
      BY <3>1
    <3> HIDE DEF more
    <3>7. /\ failures' \in [Lines -> Nat] /\ failures'[l] = more
          /\ \A m \in Lines \ {l} : failures'[m] = failures[m]
      BY <1>1, <3>5, <3>6
    <3>2. /\ failures' \in [Lines -> Nat] /\ failures'[l] = failures[l] + 1
          /\ \A m \in Lines \ {l} : failures'[m] = failures[m]
      BY <3>7 DEF more
    <3>3. CASE Settle("given up")
      <4>1. tail'.state = "read" /\ fate'[l] = "given up" /\ \A m \in Lines \ {l} : fate'[m] = fate[m]
        BY <1>3, <3>3 DEF Fates
      <4> QED
        BY <3>2, <4>1
    <3>4. CASE tail' = [tail EXCEPT !.state = "post", !.attempt = tail.attempt + 1] /\ fate' = fate
      <4>1. tail'.state = "post"
        BY <1>1, <3>4 DEF Tails
      <4> QED
        BY <1>1, <3>2, <3>4, <4>1
    <3> QED
      BY <3>1, <3>3, <3>4
  <2> QED
    BY <2>1, <2>2
<1>5. CallsTell'
  <2>1. \A m \in Lines : /\ fate'[m] = "sent" => m \in ToSet(stored)
                         /\ fate'[m] = "skipped" => m \in refused
    BY <1>4 DEF CallsTell
  <2> QED
    BY <1>2, <2>1 DEF CallsTell, Tells
<1>6. CopiesCounted'
  <2> SUFFICES ASSUME NEW m \in Lines
               PROVE  Copies(m)' + Cardinality(Pending(m, calls'))
                        <= failures'[m] + (IF Out(m)' THEN 1 ELSE 0)
    BY DEF CopiesCounted
  <2> DEFINE before == Cardinality(Pending(m, calls))
             after == Cardinality(Pending(m, calls'))
  <2>1. /\ before \in Nat /\ after \in Nat /\ after <= before
        /\ Copies(m) \in Nat /\ Copies(m)' = Copies(m) /\ failures[m] \in Nat /\ failures'[m] \in Nat
    BY <1>1, <1>2, <1>4, SlotsFinite, CopiesTyped
  <2>2. Copies(m) + before <= failures[m] + (IF Out(m) THEN 1 ELSE 0)
    BY DEF CopiesCounted
  <2> HIDE DEF before, after
  <2>3. \/ Out(m) /\ Out(m)' /\ failures'[m] = failures[m]
        \/ Out(m) /\ ~ Out(m)' /\ failures'[m] = failures[m] + 1
        \/ (Out(m)' <=> Out(m)) /\ failures'[m] = failures[m]
    <3>1. CASE m = l
      <4>1. Out(m)
        BY <1>1, <3>1 DEF Out, l
      <4>2. CASE fate'[l] \in {"sent", "skipped"} /\ failures'[l] = failures[l]
        BY <3>1, <4>1, <4>2 DEF Out
      <4>3. CASE fate'[l] \in {"unread", "given up"} /\ failures'[l] = failures[l] + 1
        BY <1>4, <3>1, <4>1, <4>3 DEF Out
      <4> QED
        BY <1>4, <4>2, <4>3
    <3>2. CASE m # l
      BY <1>4, <3>2 DEF Out, l
    <3> QED
      BY <3>1, <3>2
  <2>4. CASE Out(m) /\ Out(m)' /\ failures'[m] = failures[m]
    <3>1. Copies(m)' + after <= failures'[m] + 1
      BY <2>1, <2>2, <2>4
    <3> QED
      BY <2>4, <3>1 DEF after
  <2>5. CASE Out(m) /\ ~ Out(m)' /\ failures'[m] = failures[m] + 1
    <3>1. Copies(m)' + after <= failures'[m]
      BY <2>1, <2>2, <2>5
    <3> QED
      BY <2>1, <2>5, <3>1 DEF after
  <2>6. CASE ~ Out(m) /\ ~ Out(m)' /\ failures'[m] = failures[m]
    <3>1. Copies(m)' + after <= failures'[m]
      BY <2>1, <2>2, <2>6
    <3> QED
      BY <2>1, <2>6, <3>1 DEF after
  <2> QED
    BY <2>3, <2>4, <2>5, <2>6
<1> QED
  BY <1>2, <1>5, <1>6

LEMMA RestartSends ==
  ASSUME TailInv, CallTypes, CallsTell, CopiesCounted, IngestRestart, UNCHANGED tailVars
  PROVE  CallTypes' /\ CallsTell' /\ CopiesCounted'
<1>1. /\ calls' = [k \in Slots |-> NoCall] /\ UNCHANGED <<stored, refused, tail, fate, failures>>
  BY DEF IngestRestart, tailVars
<1>2. NoCall \in CallRecord /\ NoCall.step = "free"
  BY NoCallTyped
<1>3. calls' \in [Slots -> CallRecord] /\ \A k \in Slots : calls'[k].step = "free"
  BY <1>1, <1>2
<1>4. CallTypes' /\ CallsTell'
  BY <1>1, <1>3, SlotsFinite DEF CallTypes, CallsTell
<1>5. CopiesCounted'
  <2> SUFFICES ASSUME NEW m \in Lines
               PROVE  Copies(m)' + Cardinality(Pending(m, calls'))
                        <= failures[m] + (IF Out(m) THEN 1 ELSE 0)
    BY <1>1 DEF CopiesCounted, Out
  <2>1. Pending(m, calls') = {}
    BY <1>3 DEF Pending
  <2>2. Cardinality(Pending(m, calls')) = 0
    BY <2>1, FS_EmptySet
  <2> DEFINE before == Cardinality(Pending(m, calls))
  <2>3. before \in Nat /\ Copies(m) \in Nat /\ Copies(m)' = Copies(m) /\ failures[m] \in Nat
    BY <1>1, SlotsFinite, CopiesTyped, FilesTyped
  <2>4. Copies(m) + before <= failures[m] + (IF Out(m) THEN 1 ELSE 0)
    BY DEF CopiesCounted
  <2> HIDE DEF before
  <2> QED
    BY <2>2, <2>3, <2>4
<1> QED
  BY <1>4, <1>5

LEMMA AllFree ==
  ASSUME IngestInit
  PROVE  /\ calls \in [Slots -> CallRecord] /\ \A k \in Slots : calls[k].step = "free"
         /\ stored = <<>> /\ scenario \in Scenarios
<1>1. calls = [k \in Slots |-> NoCall] /\ NoCall \in CallRecord /\ NoCall.step = "free"
  BY NoCallTyped DEF IngestInit
<1> QED
  BY <1>1 DEF IngestInit

LEMMA TailStarts ==
  ASSUME Init
  PROVE  TailInv /\ tail.state = "off"
<1>1. /\ logs = <<<<>>>> /\ path = 1 /\ writer = 1
      /\ tail = [state |-> "off", file |-> 0, at |-> 0, line |-> 0,
                 attempt |-> 0, draining |-> FALSE, opened |-> {}, before |-> {}]
      /\ fate = [l \in Lines |-> "unread"] /\ failures = [l \in Lines |-> 0]
      /\ scenario \in Scenarios
  BY DEF Init, TailerInit, IngestInit
<1>2. /\ logs \in Seq(Seq(Lines)) /\ Len(logs) = 1 /\ DOMAIN logs = {1} /\ logs[1] = <<>>
      /\ logs # <<>> /\ DOMAIN logs[1] = {} /\ ToSet(logs[1]) = {}
  <2>1. <<>> \in Seq(Lines) /\ 1 .. 1 = {1} /\ DOMAIN <<>> = {}
    OBVIOUS
  <2> QED
    BY <1>1, <2>1 DEF ToSet
<1>3. /\ tail \in Tails /\ tail.state = "off" /\ tail.file = 0 /\ tail.at = 0
      /\ tail.opened = {} /\ tail.draining = FALSE
  <2> DEFINE t(b) == [state |-> "off", file |-> 0, at |-> 0, line |-> 0,
                      attempt |-> 0, draining |-> b, opened |-> {}, before |-> {}]
  <2>1. ASSUME NEW b \in BOOLEAN
        PROVE  /\ t(b) \in Tails /\ t(b).state = "off" /\ t(b).file = 0 /\ t(b).at = 0
               /\ t(b).opened = {} /\ t(b).draining = b
    BY DEF Tails
  <2>2. tail = t(FALSE) /\ FALSE \in BOOLEAN
    BY <1>1
  <2> HIDE DEF t
  <2> QED
    BY <2>1, <2>2
<1>4. LogTypes
  <2>1. path \in {0, Len(logs)} /\ writer \in DOMAIN logs
    BY <1>1, <1>2
  <2>2. fate \in [Lines -> Fates] /\ failures \in [Lines -> Nat]
    BY <1>1 DEF Fates
  <2> QED
    BY <1>1, <1>2, <1>3, <2>1, <2>2 DEF LogTypes
<1>5. Apart
  <2>1. Written = {}
    BY <1>2 DEF Written
  <2>2. IsFiniteSet({}) /\ Cardinality({}) = 0 /\ 1 .. 0 = {}
    BY FS_EmptySet
  <2> QED
    BY <1>2, <2>1, <2>2 DEF Apart
<1>6. Opens
  BY <1>3 DEF Opens
<1>7. Read = {}
  <2>1. 1 .. 0 = {}
    OBVIOUS
  <2> QED
    BY <1>3, <2>1 DEF Read, ReadOf
<1>8. ReadIsSettled /\ OpenedAreRead
  BY <1>3, <1>7 DEF ReadIsSettled, OpenedAreRead
<1>9. AttemptsCounted
  BY <1>1, <1>3 DEF AttemptsCounted
<1> QED
  BY <1>3, <1>4, <1>5, <1>6, <1>8, <1>9 DEF TailInv

LEMMA SendStarts ==
  ASSUME Init
  PROVE  CallTypes /\ CallsTell /\ CopiesCounted
<1>1. /\ calls \in [Slots -> CallRecord] /\ \A k \in Slots : calls[k].step = "free"
      /\ stored = <<>> /\ fate = [l \in Lines |-> "unread"] /\ failures = [l \in Lines |-> 0]
  BY AllFree DEF Init, TailerInit
<1>2. CallTypes /\ CallsTell
  BY <1>1, SlotsFinite DEF CallTypes, CallsTell
<1>3. CopiesCounted
  <2> SUFFICES ASSUME NEW m \in Lines PROVE Copies(m) + Cardinality(Pending(m, calls)) <= 0
    BY <1>1, TailStarts DEF CopiesCounted, Out
  <2>1. Pending(m, calls) = {}
    BY <1>1 DEF Pending
  <2>2. {i \in DOMAIN stored : stored[i] = m} = {}
    BY <1>1
  <2> QED
    BY <2>1, <2>2, FS_EmptySet DEF Copies
<1> QED
  BY <1>2, <1>3

(* The program that sends files runs in its own scenario alone.            *)
UploadRuns == up.state # "off" => Runs("upload")

FollowInv == TailInv /\ SendInv /\ UploadRuns

(* What leaves the program and the calls alone.                            *)
LEMMA SendStays ==
  ASSUME FollowInv, UNCHANGED <<ingestVars, tailVars>>
  PROVE  TailInv' /\ SendInv'
<1>1. UNCHANGED <<scenario, calls, stored, refused, logs, path, writer, tail, fate, failures, late>>
  BY DEF ingestVars, tailVars
<1>2. TailInv'
  <2>1. path \in {0, Len(logs)} /\ writer \in DOMAIN logs
    BY DEF FollowInv, TailInv, LogTypes
  <2> QED
    BY <1>1, <2>1, PathKeeps DEF FollowInv
<1>3. SendInv'
  <2> SUFFICES ASSUME Followed' PROVE CallTypes' /\ CallsTell' /\ CopiesCounted'
    BY DEF SendInv
  <2>1. CallTypes /\ CallsTell /\ CopiesCounted
    BY <1>1 DEF FollowInv, SendInv, Followed, Runs
  <2> QED
    BY <1>1, <2>1, CallsStay
<1> QED
  BY <1>2, <1>3

LEMMA TailStays ==
  ASSUME TailInv, UNCHANGED <<scenario, tailVars>>
  PROVE  TailInv'
<1>1. UNCHANGED <<logs, path, writer, tail, fate, failures, late>>
  BY DEF tailVars
<1>2. path \in {0, Len(logs)} /\ writer \in DOMAIN logs
  BY DEF TailInv, LogTypes
<1> QED
  BY <1>1, <1>2, PathKeeps

LEMMA SendKeeps ==
  ASSUME SendInv, scenario' = scenario,
         Followed /\ CallTypes /\ CallsTell /\ CopiesCounted
           => CallTypes' /\ CallsTell' /\ CopiesCounted'
  PROVE  SendInv'
BY DEF SendInv, Followed, Runs

LEMMA FollowNext ==
  ASSUME FollowInv, [Next]_vars
  PROVE  FollowInv'
<1>1. TailInv /\ SendInv /\ UploadRuns
  BY DEF FollowInv
<1> USE <1>1
<1>2. CASE \E a \in Admins : Administer(a)
  <2>1. UNCHANGED <<ingestVars, tailVars, uploadVars>>
    BY <1>2 DEF Administer
  <2>2. UploadRuns'
    BY <2>1 DEF UploadRuns, uploadVars, ingestVars, Runs
  <2> QED
    BY <2>1, <2>2, SendStays DEF FollowInv
<1>3. ASSUME NEW k \in Slots, ServeCall(k) \/ FailCall(k)
      PROVE  FollowInv'
  <2>1. (Serve(k) \/ Fail(k)) /\ UNCHANGED <<tailVars, uploadVars>>
    BY <1>3 DEF ServeCall, FailCall
  <2>2. scenario' = scenario
    BY <2>1 DEF Serve, Fail, BeginCall, DecodeLine, InsertLine, EvaluateLine, InsertRaises,
                EvaluateRaises
  <2>3. TailInv'
    BY <2>1, <2>2, TailStays
  <2>4. ASSUME CallTypes, CallsTell, CopiesCounted
        PROVE  CallTypes' /\ CallsTell' /\ CopiesCounted'
    <3>1. PICK l \in Lines, step \in Steps : Serves(k, l, step)
      BY <2>1, <2>4, ServesRaw
    <3> QED
      BY <2>1, <2>4, <3>1, ServesKeeps
  <2>5. SendInv'
    BY <2>2, <2>4, SendKeeps
  <2>6. UploadRuns'
    BY <2>1, <2>2 DEF UploadRuns, uploadVars, Runs
  <2> QED
    BY <2>3, <2>5, <2>6 DEF FollowInv
<1>4. CASE Log
  <2>1. /\ UNCHANGED <<ingestVars, uploadVars>> /\ Followed
        /\ WriteLog \/ RenameLog \/ CreateLog \/ ReopenLog
    BY <1>4 DEF Log, LogStep, Followed
  <2>2. UNCHANGED <<scenario, calls, stored, refused, tail, fate, failures>>
    BY <2>1 DEF ingestVars, WriteLog, RenameLog, CreateLog, ReopenLog
  <2>3. TailInv'
    BY <1>4, LogKeeps
  <2>4. ASSUME CallTypes, CallsTell, CopiesCounted
        PROVE  CallTypes' /\ CallsTell' /\ CopiesCounted'
    BY <2>2, <2>4, CallsStay
  <2>5. SendInv'
    BY <2>2, <2>4, SendKeeps
  <2>6. UploadRuns'
    BY <2>1, <2>2 DEF UploadRuns, uploadVars, Runs
  <2> QED
    BY <2>3, <2>5, <2>6 DEF FollowInv
<1>5. CASE TailSteps
  <2>1. CASE (StartTail \/ Follow) /\ UNCHANGED ingestVars
    <3>1. scenario' = scenario
      BY <2>1 DEF ingestVars
    <3>2. TailInv'
      BY <2>1, <3>1, StartTailKeeps, ReadLineKeeps, LookAtPathKeeps, OpenNewKeeps DEF Follow
    <3>3. ASSUME CallTypes, CallsTell, CopiesCounted
          PROVE  CallTypes' /\ CallsTell' /\ CopiesCounted'
      BY <2>1, <3>3, FollowSends
    <3>4. SendInv'
      BY <3>1, <3>3, SendKeeps
    <3> QED
      BY <1>5, <3>1, <3>2, <3>4 DEF FollowInv, TailSteps, UploadRuns, uploadVars, Runs
  <2>2. CASE TailPosts
    <3>1. scenario' = scenario
      BY <2>2 DEF TailPosts, Post, PostDone, PostFails, Submit, Receive, Abandon, BrokenOff, ingestVars
    <3>2. TailInv'
      BY <2>2, <3>1, PostsKeep
    <3>3. ASSUME CallTypes, CallsTell, CopiesCounted
          PROVE  CallTypes' /\ CallsTell' /\ CopiesCounted'
      BY <2>2, <3>3, PostSends, AnswerSends DEF TailPosts
    <3>4. SendInv'
      BY <3>1, <3>3, SendKeeps
    <3> QED
      BY <1>5, <3>1, <3>2, <3>4 DEF FollowInv, TailSteps, UploadRuns, uploadVars, Runs
  <2> QED
    BY <1>5, <2>1, <2>2 DEF TailSteps
<1>6. CASE UploadSteps
  <2>1. Uploads /\ UNCHANGED tailVars
    BY <1>6 DEF UploadSteps
  <2>2. scenario' = scenario
    BY <2>1 DEF Uploads, SendBatch, BatchDone, BatchFails, Unauthorized, Submit, Receive, Abandon,
                BrokenOff, ingestVars
  <2>3. Runs("upload")
    BY <2>1 DEF Uploads, StartUpload, SendBatch, BatchDone, BatchFails, Unauthorized, UpAt, UploadRuns
  <2>4. ~ Followed
    BY <2>3 DEF Followed, Runs
  <2>5. TailInv'
    BY <2>1, <2>2, TailStays
  <2> QED
    BY <2>2, <2>3, <2>4, <2>5 DEF FollowInv, SendInv, Followed, UploadRuns, Runs
<1>7. CASE ListenSteps
  <2>1. Listen /\ UNCHANGED <<tailVars, uploadVars>>
    BY <1>7 DEF ListenSteps
  <2>2. scenario' = scenario
    BY <2>1 DEF Listen, SendBulk, DropLong, DropForeign, Overrun, HandOver, Submit, ingestVars
  <2>3. Runs("socket") \/ Runs("beats")
    BY <2>1 DEF Listen, SendBulk, DropLong, DropForeign, Overrun, HandOver, Arrives
  <2>4. ~ Followed
    BY <2>3 DEF Followed, Runs
  <2>5. TailInv'
    BY <2>1, <2>2, TailStays
  <2> QED
    BY <2>1, <2>2, <2>4, <2>5 DEF FollowInv, SendInv, Followed, UploadRuns, Runs, uploadVars
<1>8. CASE Restart
  <2>1. IngestRestart /\ UNCHANGED <<tailVars, uploadVars>>
    BY <1>8 DEF Restart
  <2>2. scenario' = scenario
    BY <2>1 DEF IngestRestart
  <2>3. TailInv'
    BY <2>1, <2>2, TailStays
  <2>4. ASSUME CallTypes, CallsTell, CopiesCounted
        PROVE  CallTypes' /\ CallsTell' /\ CopiesCounted'
    BY <2>1, <2>4, RestartSends
  <2>5. SendInv'
    BY <2>2, <2>4, SendKeeps
  <2> QED
    BY <2>1, <2>2, <2>3, <2>5 DEF FollowInv, UploadRuns, uploadVars, Runs
<1>9. CASE UNCHANGED vars
  <2>1. UNCHANGED <<ingestVars, tailVars, uploadVars>>
    BY <1>9 DEF vars
  <2> QED
    BY <2>1, SendStays DEF FollowInv, UploadRuns, uploadVars, ingestVars, Runs
<1> QED
  BY <1>2, <1>3, <1>4, <1>5, <1>6, <1>7, <1>8, <1>9 DEF Next

(* However the log is rotated and whatever becomes of its requests, a      *)
(* program that follows it keeps this.                                     *)
THEOREM DeliveryFollows == Spec => []FollowInv
<1>1. Init => FollowInv
  <2> SUFFICES ASSUME Init PROVE FollowInv
    OBVIOUS
  <2>1. up.state = "off"
    BY DEF Init, UploadInit
  <2> QED
    BY <2>1, TailStarts, SendStarts DEF FollowInv, SendInv, UploadRuns
<1>2. FollowInv /\ [Next]_vars => FollowInv'
  BY FollowNext
<1> QED
  BY <1>1, <1>2, PTL DEF Spec

(* Rotation loses no line of a file that the program has opened, but those *)
(* written to it after it was left (scripts/ingest_syslog_tail.py, follow).*)
THEOREM DeliveryReadsOpened == Spec => []OpenedAreRead
<1>1. FollowInv => OpenedAreRead
  BY DEF FollowInv, TailInv
<1> QED
  BY <1>1, DeliveryFollows, PTL

(* What the program counts agrees with the store (post_line): sent lines   *)
(* are stored, skipped ones met no decoder, those given up failed three    *)
(* times.                                                                  *)
THEOREM DeliveryExplainsFates == Spec => []FatesExplained
<1>1. FollowInv => FatesExplained
  <2> SUFFICES ASSUME FollowInv, NEW l \in Lines
               PROVE  /\ fate[l] = "sent" => l \in ToSet(stored)
                      /\ fate[l] = "skipped" => l \in refused
                      /\ fate[l] = "given up" => failures[l] = Attempts
    BY DEF FatesExplained
  <2>1. CASE Followed
    BY <2>1 DEF FollowInv, SendInv, CallsTell, TailInv, AttemptsCounted
  <2>2. CASE ~ Followed
    <3>1. tail.state = "off"
      BY <2>2 DEF FollowInv, TailInv, Opens, Followed
    <3> QED
      BY <3>1, PassedOff DEF FollowInv
  <2> QED
    BY <2>1, <2>2
<1> QED
  BY <1>1, DeliveryFollows, PTL

(* A line is stored once, and once more at most for each attempt to send   *)
(* it that failed: a failed attempt may have stored it.                    *)
THEOREM DeliveryExplainsCopies == Spec => []CopiesExplained
<1>1. FollowInv => CopiesExplained
  <2> SUFFICES ASSUME FollowInv, Followed, NEW l \in Lines
               PROVE  Copies(l) <= 1 + failures[l]
    BY DEF CopiesExplained, Followed
  <2>1. CallTypes /\ CopiesCounted
    BY DEF FollowInv, SendInv
  <2> DEFINE pending == Cardinality(Pending(l, calls))
  <2>2. pending \in Nat /\ Copies(l) \in Nat /\ failures[l] \in Nat
    BY <2>1, SlotsFinite, CopiesTyped, FilesTyped DEF FollowInv
  <2>3. Copies(l) + pending <= failures[l] + (IF Out(l) THEN 1 ELSE 0)
    BY <2>1 DEF CopiesCounted
  <2> HIDE DEF pending
  <2>4. CASE Out(l)
    BY <2>2, <2>3, <2>4
  <2>5. CASE ~ Out(l)
    BY <2>2, <2>3, <2>5
  <2> QED
    BY <2>4, <2>5
<1> QED
  BY <1>1, DeliveryFollows, PTL

-----------------------------------------------------------------------------
(* Lines that come by socket or in a bulk request, whose calls nobody      *)
(* waits for.                                                              *)

Listening == Runs("socket") \/ Runs("beats")

Heard(c) ==
  c.step # "free" =>
    /\ c.step # "answered" /\ c.kind \in {"syslog", "beats"}
    /\ IsInjective(c.lines) /\ c.at \in DOMAIN c.lines

(* The lines of a call that are still to be stored.                        *)
PlacesAhead(c) ==
  {i \in DOMAIN c.lines : c.step # "free" /\ (c.at < i \/ (c.at = i /\ c.step # "evaluate"))}
Ahead(c) == {c.lines[i] : i \in PlacesAhead(c)}

AcceptedOf(n) == {Arrivals[i].line : i \in {j \in 1 .. n : Accepted(Arrivals[j])}}

ListenTypes ==
  /\ calls \in [Slots -> CallRecord] /\ stored \in Seq(Lines) /\ calls[0].step = "free"
  /\ \A k \in Slots : Heard(calls[k])
  /\ arrived \in 0 .. Len(Arrivals)
  /\ Runs("socket") => taken \subseteq AcceptedOf(arrived)

(* A line that was taken is in one place: it is stored, still ahead of its *)
(* call, or its insertion failed.                                          *)
OnePlace ==
  /\ IsInjective(stored) /\ ToSet(stored) \subseteq taken
  /\ \A k \in Slots : Ahead(calls[k]) \subseteq taken \ ToSet(stored)
  /\ \A j, k \in Slots : j # k => Ahead(calls[j]) \cap Ahead(calls[k]) = {}
  /\ \A l \in taken : l \in ToSet(stored) \cup broken \/ \E k \in Slots : l \in Ahead(calls[k])

ListenInv ==
  /\ ~ Listening => taken = {}
  /\ Listening => ListenTypes /\ OnePlace

(* The server's work on a call.                                            *)
Hears(k, l) ==
  /\ calls[k].step # "free"
  /\ calls' \in [Slots -> CallRecord] /\ Heard(calls'[k])
  /\ \A j \in Slots \ {k} : calls'[j] = calls[j]
  /\ \/ Ahead(calls'[k]) = Ahead(calls[k]) /\ UNCHANGED <<stored, broken>>
     \/ /\ l \in Ahead(calls[k]) /\ Ahead(calls'[k]) = Ahead(calls[k]) \ {l}
        /\ \/ stored' = Append(stored, l) /\ broken' = broken
           \/ stored' = stored /\ broken' = broken \cup {l}

LEMMA AheadFree ==
  \A c : c.step = "free" => Ahead(c) = {} /\ Heard(c)
BY DEF Ahead, PlacesAhead, Heard

LEMMA StepHeard ==
  ASSUME NEW c \in CallRecord, Heard(c), c.step \in Steps, NEW t \in Steps
  PROVE  LET d == [c EXCEPT !.step = t]
         IN  /\ d \in CallRecord /\ Heard(d) /\ d.lines = c.lines /\ d.at = c.at /\ d.step = t
             /\ (t = "evaluate" <=> c.step = "evaluate") => Ahead(d) = Ahead(c)
<1> DEFINE d == [c EXCEPT !.step = t]
<1>1. /\ d \in CallRecord /\ d.lines = c.lines /\ d.at = c.at /\ d.step = t /\ d.kind = c.kind
  BY DEF CallRecord
<1>2. t \notin {"free", "answered"} /\ c.step # "free"
  BY DEF Steps
<1> HIDE DEF d
<1>3. Heard(d)
  BY <1>1, <1>2 DEF Heard
<1>4. ASSUME t = "evaluate" <=> c.step = "evaluate" PROVE Ahead(d) = Ahead(c)
  <2>1. PlacesAhead(d) = PlacesAhead(c)
    BY <1>1, <1>2, <1>4 DEF PlacesAhead
  <2> QED
    BY <1>1, <2>1 DEF Ahead
<1> QED
  BY <1>1, <1>3, <1>4 DEF d

LEMMA LinesTyped ==
  ASSUME NEW c \in CallRecord
  PROVE  /\ c.lines \in Seq(Lines) /\ Len(c.lines) \in Nat /\ DOMAIN c.lines = 1 .. Len(c.lines)
         /\ \A i \in DOMAIN c.lines : c.lines[i] \in Lines
         /\ c.at \in Nat
<1>1. c.lines \in Seq(Lines) /\ c.at \in Nat
  BY DEF CallRecord
<1> QED
  BY <1>1, ToSetTyped

LEMMA OnwardHeard ==
  ASSUME NEW c \in CallRecord, Heard(c), c.step \in Steps, NEW k, k # 0
  PROVE  /\ Onward(k, c) \in CallRecord /\ Heard(Onward(k, c))
         /\ Ahead(Onward(k, c)) = {c.lines[i] : i \in {j \in DOMAIN c.lines : c.at < j}}
<1>1. /\ Len(c.lines) \in Nat /\ DOMAIN c.lines = 1 .. Len(c.lines) /\ c.at \in Nat
      /\ c.at \in DOMAIN c.lines /\ c.kind \in {"syslog", "beats"} /\ IsInjective(c.lines)
  BY LinesTyped DEF Heard, Steps
<1>2. CASE c.at < Len(c.lines)
  <2> DEFINE next == c.at + 1
             d == [c EXCEPT !.at = next, !.step = "decode"]
  <2>1. next \in Nat /\ next \in DOMAIN c.lines
    BY <1>1, <1>2
  <2>5. \A j \in DOMAIN c.lines : next <= j <=> c.at < j
    BY <1>1
  <2>2. Onward(k, c) = d
    BY <1>2 DEF Onward
  <2> HIDE DEF next
  <2>3. d \in CallRecord /\ d.lines = c.lines /\ d.at = next /\ d.step = "decode" /\ d.kind = c.kind
    BY <2>1 DEF CallRecord, Steps
  <2> HIDE DEF d
  <2>4. Heard(d)
    BY <1>1, <2>1, <2>3 DEF Heard
  <2>6. PlacesAhead(d) = {j \in DOMAIN c.lines : c.at < j}
    <3>1. \A j \in DOMAIN c.lines : (next < j \/ next = j) <=> c.at < j
      BY <1>1, <2>1, <2>5
    <3> QED
      BY <2>3, <3>1 DEF PlacesAhead
  <2> QED
    BY <2>2, <2>3, <2>4, <2>6 DEF Ahead
<1>3. CASE ~ (c.at < Len(c.lines))
  <2>1. Onward(k, c) = NoCall
    BY <1>3 DEF Onward, Answered
  <2>2. {j \in DOMAIN c.lines : c.at < j} = {}
    BY <1>1, <1>3
  <2>3. {c.lines[i] : i \in {j \in DOMAIN c.lines : c.at < j}} = {}
    BY <2>2
  <2> QED
    BY <2>1, <2>3, NoCallTyped, AheadFree
<1> QED
  BY <1>2, <1>3

LEMMA HearsCalls ==
  ASSUME ListenTypes, NEW k \in Slots, Serve(k) \/ Fail(k)
  PROVE  \E l \in Lines : Hears(k, l)
<1> DEFINE c == calls[k]
<1>1. c.step # "free"
  BY DEF Serve, Fail, BeginCall, DecodeLine, InsertLine, EvaluateLine, InsertRaises,
         EvaluateRaises, On
<1>2. /\ c \in CallRecord /\ Heard(c) /\ k # 0 /\ calls \in [Slots -> CallRecord]
  BY <1>1 DEF ListenTypes
<1>3. /\ c.step \in Steps /\ c.kind \in {"syslog", "beats"} /\ IsInjective(c.lines)
      /\ c.at \in DOMAIN c.lines
  BY <1>1, <1>2 DEF Heard, CallRecord
<1> DEFINE l == c.lines[c.at]
           rest == {c.lines[i] : i \in {j \in DOMAIN c.lines : c.at < j}}
<1>4. /\ l \in Lines /\ Line(k) = l /\ KeptAnyway(k)
      /\ DOMAIN c.lines = 1 .. Len(c.lines) /\ Len(c.lines) \in Nat /\ c.at \in Nat
  BY <1>2, <1>3, LinesTyped DEF Line, KeptAnyway
<1>5. /\ c.step = "evaluate" => Ahead(c) = rest
      /\ c.step # "evaluate" => l \in Ahead(c) /\ Ahead(c) \ {l} = rest
  <2>1. ASSUME c.step = "evaluate" PROVE Ahead(c) = rest
    <3>1. PlacesAhead(c) = {j \in DOMAIN c.lines : c.at < j}
      BY <1>1, <2>1 DEF PlacesAhead
    <3> QED
      BY <3>1 DEF Ahead
  <2>2. ASSUME c.step # "evaluate" PROVE l \in Ahead(c) /\ Ahead(c) \ {l} = rest
    <3>1. PlacesAhead(c) = {j \in DOMAIN c.lines : c.at < j} \cup {c.at}
      BY <1>1, <1>3, <2>2 DEF PlacesAhead
    <3>2. Ahead(c) = rest \cup {l}
      BY <3>1 DEF Ahead
    <3>3. l \notin rest
      <4>1. \A j \in DOMAIN c.lines : c.at < j => c.lines[j] # l
        <5>1. \A j \in DOMAIN c.lines : c.at < j => j # c.at
          BY <1>4
        <5> QED
          BY <1>3, <5>1 DEF IsInjective
      <4> QED
        BY <4>1
    <3> HIDE DEF rest, l
    <3> QED
      BY <3>2, <3>3
  <2> QED
    BY <2>1, <2>2
<1>6. /\ Onward(k, c) \in CallRecord /\ Heard(Onward(k, c)) /\ Ahead(Onward(k, c)) = rest
  BY <1>2, <1>3, OnwardHeard
<1>7. ASSUME NEW t \in Steps, Then(k, t)
      PROVE  /\ calls' \in [Slots -> CallRecord] /\ Heard(calls'[k])
             /\ \A j \in Slots \ {k} : calls'[j] = calls[j]
             /\ (t = "evaluate" <=> c.step = "evaluate") => Ahead(calls'[k]) = Ahead(c)
             /\ t = "evaluate" => Ahead(calls'[k]) = rest
  <2> DEFINE d == [c EXCEPT !.step = t]
  <2>1. /\ d \in CallRecord /\ Heard(d) /\ d.lines = c.lines /\ d.at = c.at /\ d.step = t
        /\ (t = "evaluate" <=> c.step = "evaluate") => Ahead(d) = Ahead(c)
    BY <1>2, <1>3, StepHeard
  <2>2. calls' = [calls EXCEPT ![k] = d]
    BY <1>7 DEF Then
  <2> HIDE DEF d
  <2>3. calls' \in [Slots -> CallRecord] /\ calls'[k] = d /\ \A j \in Slots \ {k} : calls'[j] = calls[j]
    BY <1>2, <2>1, <2>2
  <2>4. ASSUME t = "evaluate" PROVE Ahead(d) = rest
    <3>1. PlacesAhead(d) = {j \in DOMAIN c.lines : c.at < j}
      BY <2>1, <2>4 DEF PlacesAhead
    <3> QED
      BY <2>1, <3>1 DEF Ahead
  <2> QED
    BY <2>1, <2>3, <2>4
<1>8. ASSUME calls' = [calls EXCEPT ![k] = Onward(k, c)]
      PROVE  /\ calls' \in [Slots -> CallRecord] /\ Heard(calls'[k]) /\ Ahead(calls'[k]) = rest
             /\ \A j \in Slots \ {k} : calls'[j] = calls[j]
  BY <1>2, <1>6, <1>8
<1>9. \A answer : LineFailed(k, answer) => calls' = [calls EXCEPT ![k] = Onward(k, c)]
  BY <1>3 DEF LineFailed
<1> HIDE DEF c, l, rest
<1>10. Hears(k, l)
  <2>1. CASE BeginCall(k)
    <3>1. c.step = "begin" /\ UNCHANGED <<stored, broken>> /\ Then(k, "decode")
      BY <1>3, <2>1 DEF BeginCall, On, Then, c
    <3> QED
      BY <1>1, <1>7, <3>1 DEF Hears, c, Steps
  <2>2. CASE DecodeLine(k)
    <3>1. c.step = "decode" /\ UNCHANGED <<stored, broken>> /\ Then(k, "insert")
      BY <1>3, <1>4, <2>2 DEF DecodeLine, Raises, On, c
    <3> QED
      BY <1>1, <1>7, <3>1 DEF Hears, c, Steps
  <2>3. CASE InsertLine(k)
    <3>1. c.step = "insert" /\ stored' = Append(stored, l) /\ broken' = broken /\ Then(k, "evaluate")
      BY <1>4, <2>3 DEF InsertLine, On, c
    <3> QED
      BY <1>1, <1>5, <1>7, <3>1 DEF Hears, c, Steps
  <2>4. CASE InsertRaises(k)
    <3>1. c.step = "insert" /\ stored' = stored /\ broken' = broken \cup {l} /\ LineFailed(k, "500")
      BY <1>4, <2>4 DEF InsertRaises, On, c
    <3> QED
      BY <1>1, <1>5, <1>8, <1>9, <3>1 DEF Hears, c
  <2>5. CASE EvaluateLine(k)
    <3>1. c.step = "evaluate" /\ UNCHANGED <<stored, broken>>
          /\ calls' = [calls EXCEPT ![k] = Onward(k, c)]
      BY <2>5 DEF EvaluateLine, LineDone, On, c
    <3> QED
      BY <1>1, <1>5, <1>8, <3>1 DEF Hears, c
  <2>6. CASE EvaluateRaises(k)
    <3>1. c.step = "evaluate" /\ UNCHANGED <<stored, broken>> /\ LineFailed(k, "500")
      BY <2>6 DEF EvaluateRaises, On, c
    <3> QED
      BY <1>1, <1>5, <1>8, <1>9, <3>1 DEF Hears, c
  <2> QED
    BY <2>1, <2>2, <2>3, <2>4, <2>5, <2>6 DEF Serve, Fail
<1> QED
  BY <1>4, <1>10

LEMMA AppendNew ==
  ASSUME NEW s \in Seq(Lines), IsInjective(s), NEW l \in Lines, l \notin ToSet(s)
  PROVE  IsInjective(Append(s, l))
<1>1. /\ DOMAIN s = 1 .. Len(s) /\ Len(s) \in Nat /\ DOMAIN Append(s, l) = 1 .. Len(s) + 1
      /\ \A i \in 1 .. Len(s) : Append(s, l)[i] = s[i] /\ s[i] \in ToSet(s)
      /\ Append(s, l)[Len(s) + 1] = l
  BY AppendDoes, ToSetTyped
<1> DEFINE t == Append(s, l)
<1> HIDE DEF t
<1>2. \A i \in 1 .. Len(s) + 1 : i \in 1 .. Len(s) \/ i = Len(s) + 1
  BY <1>1
<1>3. ASSUME NEW i \in DOMAIN t, NEW j \in DOMAIN t, t[i] = t[j] PROVE i = j
  <2>1. CASE i \in 1 .. Len(s) /\ j \in 1 .. Len(s)
    BY <1>1, <1>3, <2>1 DEF IsInjective, t
  <2>2. CASE i \in 1 .. Len(s) /\ j = Len(s) + 1
    BY <1>1, <1>3, <2>2 DEF t
  <2>3. CASE i = Len(s) + 1 /\ j \in 1 .. Len(s)
    BY <1>1, <1>3, <2>3 DEF t
  <2> QED
    BY <1>1, <1>2, <2>1, <2>2, <2>3 DEF t
<1> QED
  BY <1>3 DEF IsInjective, t

LEMMA HearsKeeps ==
  ASSUME ListenTypes, OnePlace, NEW k \in Slots, NEW l \in Lines, Hears(k, l),
         UNCHANGED <<scenario, listenVars>>
  PROVE  ListenTypes' /\ OnePlace'
<1>1. /\ calls' \in [Slots -> CallRecord] /\ Heard(calls'[k])
      /\ \A j \in Slots \ {k} : calls'[j] = calls[j]
      /\ UNCHANGED <<scenario, arrived, taken>>
      /\ stored \in Seq(Lines)
  BY DEF Hears, listenVars, ListenTypes
<1> DEFINE old(j) == Ahead(calls[j])
           new(j) == Ahead(calls'[j])
<1>2. /\ \A j \in Slots \ {k} : new(j) = old(j)
      /\ \/ new(k) = old(k) /\ UNCHANGED <<stored, broken>>
         \/ /\ l \in old(k) /\ new(k) = old(k) \ {l}
            /\ \/ stored' = Append(stored, l) /\ broken' = broken
               \/ stored' = stored /\ broken' = broken \cup {l}
  BY <1>1 DEF Hears
<1>3. /\ IsInjective(stored) /\ ToSet(stored) \subseteq taken
      /\ \A j \in Slots : old(j) \subseteq taken \ ToSet(stored)
      /\ \A i, j \in Slots : i # j => old(i) \cap old(j) = {}
      /\ \A m \in taken : m \in ToSet(stored) \cup broken \/ \E j \in Slots : m \in old(j)
  BY DEF OnePlace
<1>4. /\ stored' \in Seq(Lines)
      /\ stored' = Append(stored, l) =>
           ToSet(stored') = ToSet(stored) \cup {l} /\ (l \notin ToSet(stored) => IsInjective(stored'))
  <2>1. CASE stored' = stored
    BY <1>1, <1>3, <2>1, AppendNew, AppendDoes
  <2>2. CASE stored' = Append(stored, l)
    BY <1>1, <1>3, <2>2, AppendNew, AppendDoes
  <2> QED
    BY <1>2, <2>1, <2>2
<1>5. calls'[0].step = "free"
  <2>1. k # 0
    BY DEF Hears, ListenTypes
  <2> QED
    BY <1>1, <2>1, SlotsFinite DEF ListenTypes
<1>6. ListenTypes'
  <2>1. \A j \in Slots : Heard(calls'[j])
    BY <1>1 DEF ListenTypes
  <2> QED
    BY <1>1, <1>4, <1>5, <2>1 DEF ListenTypes, Runs
<1> HIDE DEF old, new
<1>7. OnePlace'
  <2>1. CASE new(k) = old(k) /\ UNCHANGED <<stored, broken>>
    <3>1. \A j \in Slots : new(j) = old(j)
      BY <1>2, <2>1
    <3> QED
      BY <1>1, <1>3, <2>1, <3>1 DEF OnePlace, new
  <2>2. CASE l \in old(k) /\ new(k) = old(k) \ {l}
    <3>1. l \in taken /\ l \notin ToSet(stored)
      BY <1>3, <2>2
    <3>2. /\ IsInjective(stored')
          /\ \/ ToSet(stored') = ToSet(stored) \cup {l} /\ broken' = broken
             \/ ToSet(stored') = ToSet(stored) /\ broken' = broken \cup {l}
             \/ ToSet(stored') = ToSet(stored) /\ broken' = broken
      BY <1>2, <1>3, <1>4, <3>1
    <3>3. ToSet(stored') \cup broken' = ToSet(stored) \cup broken \cup {l} \/ new(k) = old(k)
      BY <1>2, <1>4, <3>1
    <3>4. \A j \in Slots : new(j) \subseteq old(j) \ {l}
      BY <1>2, <1>3, <2>2
    <3>5. ToSet(stored') \subseteq ToSet(stored) \cup {l}
      BY <3>2
    <3>6. \A j \in Slots : new(j) \subseteq taken \ ToSet(stored')
      BY <1>3, <3>4, <3>5
    <3>7. \A i, j \in Slots : i # j => new(i) \cap new(j) = {}
      BY <1>3, <3>4
    <3>8. ASSUME NEW m \in taken
          PROVE  m \in ToSet(stored') \cup broken' \/ \E j \in Slots : m \in new(j)
      <4>1. m \in ToSet(stored) \cup broken => m \in ToSet(stored') \cup broken'
        BY <3>2
      <4>2. CASE m = l
        BY <2>2, <3>3, <4>2
      <4>3. ASSUME m # l, NEW j \in Slots, m \in old(j) PROVE m \in new(j)
        BY <1>2, <2>2, <4>3
      <4> QED
        BY <1>3, <4>1, <4>2, <4>3
    <3> QED
      BY <1>1, <3>1, <3>2, <3>5, <3>6, <3>7, <3>8, <1>3 DEF OnePlace, new
  <2> QED
    BY <1>2, <2>1, <2>2
<1> QED
  BY <1>6, <1>7

(* A call with lines that were not taken before.                           *)
LEMMA JoinsKeeps ==
  ASSUME ListenTypes, OnePlace, NEW k \in Slots \ {0}, NEW c,
         c \in CallRecord, Heard(c),
         Ahead(c) \cap taken = {}, taken' = taken \cup Ahead(c),
         calls[k].step = "free", calls' = [calls EXCEPT ![k] = c],
         UNCHANGED <<stored, broken>>
  PROVE  /\ calls' \in [Slots -> CallRecord] /\ calls'[0].step = "free"
         /\ \A j \in Slots : Heard(calls'[j])
         /\ OnePlace'
<1>1. /\ calls' \in [Slots -> CallRecord] /\ calls'[k] = c
      /\ \A j \in Slots \ {k} : calls'[j] = calls[j]
  BY DEF ListenTypes
<1>2. calls'[0].step = "free" /\ \A j \in Slots : Heard(calls'[j])
  BY <1>1, SlotsFinite DEF ListenTypes
<1> DEFINE old(j) == Ahead(calls[j])
           new(j) == Ahead(calls'[j])
           fresh == Ahead(c)
<1>3. /\ new(k) = fresh /\ old(k) = {} /\ \A j \in Slots \ {k} : new(j) = old(j)
      /\ fresh \cap taken = {} /\ taken' = taken \cup fresh
  BY <1>1, AheadFree
<1>4. /\ IsInjective(stored) /\ ToSet(stored) \subseteq taken
      /\ \A j \in Slots : old(j) \subseteq taken \ ToSet(stored)
      /\ \A i, j \in Slots : i # j => old(i) \cap old(j) = {}
      /\ \A m \in taken : m \in ToSet(stored) \cup broken \/ \E j \in Slots : m \in old(j)
  BY DEF OnePlace
<1>5. stored' = stored /\ broken' = broken
  OBVIOUS
<1> HIDE DEF old, new, fresh
<1>6. \A j \in Slots : new(j) \subseteq taken' \ ToSet(stored)
  BY <1>3, <1>4
<1>7. \A i, j \in Slots : i # j => new(i) \cap new(j) = {}
  <2> SUFFICES ASSUME NEW i \in Slots, NEW j \in Slots, i # j PROVE new(i) \cap new(j) = {}
    OBVIOUS
  <2>1. CASE i = k
    <3>1. new(j) \subseteq taken
      BY <1>3, <1>4, <2>1
    <3> QED
      BY <1>3, <2>1, <3>1
  <2>2. CASE j = k
    <3>1. new(i) \subseteq taken
      BY <1>3, <1>4, <2>2
    <3> QED
      BY <1>3, <2>2, <3>1
  <2>3. CASE i # k /\ j # k
    BY <1>3, <1>4, <2>3
  <2> QED
    BY <2>1, <2>2, <2>3
<1>8. \A m \in taken' : m \in ToSet(stored) \cup broken \/ \E j \in Slots : m \in new(j)
  <2> SUFFICES ASSUME NEW m \in taken', m \notin ToSet(stored) \cup broken
               PROVE  \E j \in Slots : m \in new(j)
    OBVIOUS
  <2>1. CASE m \in fresh
    BY <1>3, <2>1
  <2>2. CASE m \in taken
    <3>1. PICK j \in Slots : m \in old(j)
      BY <1>4, <2>2
    <3> QED
      BY <1>3, <3>1
  <2> QED
    BY <1>3, <2>1, <2>2
<1>9. OnePlace'
  BY <1>3, <1>4, <1>5, <1>6, <1>7, <1>8 DEF OnePlace, new
<1> QED
  BY <1>1, <1>2, <1>9

(* A call as it begins.                                                    *)
LEMMA BeginHeard ==
  ASSUME NEW kind \in {"syslog", "beats"}, NEW source \in Sources,
         NEW lines \in Seq(Lines) \ {<<>>}, IsInjective(lines)
  PROVE  /\ Call(kind, source, lines) \in CallRecord /\ Heard(Call(kind, source, lines))
         /\ Ahead(Call(kind, source, lines)) = ToSet(lines)
<1> DEFINE c == Call(kind, source, lines)
<1>1. /\ c \in CallRecord /\ c.kind = kind /\ c.lines = lines /\ c.at = 1 /\ c.step = "begin"
  BY CallTyped
<1> HIDE DEF c
<1>2. DOMAIN lines = 1 .. Len(lines) /\ Len(lines) \in Nat /\ Len(lines) # 0
  BY LenProperties, EmptySeq
<1>3. PlacesAhead(c) = DOMAIN lines
  <2>1. \A i \in DOMAIN lines : 1 < i \/ 1 = i
    BY <1>2
  <2> QED
    BY <1>1, <2>1 DEF PlacesAhead
<1>4. 1 \in DOMAIN lines
  BY <1>2
<1> QED
  BY <1>1, <1>3, <1>4 DEF Heard, Ahead, ToSet, c

LEMMA ListenKeeps ==
  ASSUME ListenInv, Listen
  PROVE  ListenInv'
<1>1. scenario' = scenario /\ Listening
  BY DEF Listen, SendBulk, DropLong, DropForeign, Overrun, HandOver, Submit, ingestVars, Arrives, Listening
<1>2. ListenTypes /\ OnePlace
  BY <1>1 DEF ListenInv
<1>3. ListenTypes' /\ OnePlace'
  <2>1. CASE SendBulk
    <3>1. /\ Runs("beats") /\ taken = {} /\ arrived' = arrived /\ UNCHANGED <<stored, broken>>
          /\ calls[1].step = "free" /\ calls' = [calls EXCEPT ![1] = Call("beats", BulkSource, Bulk)]
          /\ taken' = ToSet(Bulk)
      BY <2>1 DEF SendBulk, Submit, On
    <3>2. 1 \in Slots \ {0}
      BY IngestAssumption DEF Slots
    <3> DEFINE c == Call("beats", BulkSource, Bulk)
    <3>3. c \in CallRecord /\ Heard(c) /\ Ahead(c) = ToSet(Bulk)
      BY BeginHeard, ListenersAssumption
    <3> HIDE DEF c
    <3>4. Ahead(c) \cap taken = {} /\ taken' = taken \cup Ahead(c)
      BY <3>1, <3>3
    <3>5. /\ calls' \in [Slots -> CallRecord] /\ calls'[0].step = "free"
          /\ \A j \in Slots : Heard(calls'[j])
          /\ OnePlace'
      BY <1>2, <3>1, <3>2, <3>3, <3>4, JoinsKeeps DEF c
    <3>6. ~ Runs("socket")'
      BY <1>1, <3>1 DEF Runs
    <3> QED
      BY <1>2, <3>1, <3>5, <3>6 DEF ListenTypes
  <2>2. ASSUME NEW by \in Ways, Arrives(by)
        PROVE  /\ Arrivals \in Seq(Arrival) /\ Len(Arrivals) \in Nat
               /\ DOMAIN Arrivals = 1 .. Len(Arrivals)
               /\ arrived \in Nat /\ arrived + 1 \in DOMAIN Arrivals
               /\ arrived' = arrived + 1 /\ arrived' \in 0 .. Len(Arrivals)
               /\ AcceptedOf(arrived) \subseteq AcceptedOf(arrived')
    <3>1. Arrivals \in Seq(Arrival) /\ Len(Arrivals) \in Nat /\ DOMAIN Arrivals = 1 .. Len(Arrivals)
      BY ListenersAssumption, LenProperties
    <3>2. arrived \in 0 .. Len(Arrivals) /\ arrived < Len(Arrivals) /\ arrived' = arrived + 1
      BY <1>2, <2>2 DEF Arrives, ListenTypes
    <3>3. 1 .. arrived \subseteq 1 .. arrived'
      BY <3>1, <3>2
    <3>4. AcceptedOf(arrived) \subseteq AcceptedOf(arrived')
      BY <3>3 DEF AcceptedOf
    <3> QED
      BY <3>1, <3>2, <3>4
  <2>3. ASSUME NEW by \in Ways, DropLong(by) \/ DropForeign(by) \/ Overrun(by)
        PROVE  ListenTypes' /\ OnePlace'
    <3>1. /\ Arrives(by) /\ taken' = taken /\ UNCHANGED <<calls, stored, broken>>
      BY <2>3 DEF DropLong, DropForeign, Overrun, ingestVars
    <3>2. arrived' \in 0 .. Len(Arrivals) /\ AcceptedOf(arrived) \subseteq AcceptedOf(arrived')
      BY <2>2, <3>1
    <3> QED
      BY <1>1, <1>2, <3>1, <3>2 DEF ListenTypes, OnePlace, Runs
  <2>4. ASSUME NEW by \in Ways, HandOver(by)
        PROVE  ListenTypes' /\ OnePlace'
    <3> DEFINE line == Arriving.line
               c == Call("syslog", Arriving.source, <<line>>)
    <3>1. /\ Arrives(by) /\ Runs("socket") /\ Accepted(Arrivals[arrived + 1])
          /\ taken' = taken \cup {line} /\ UNCHANGED <<stored, broken>>
          /\ \E k \in Slots \ {0} : calls[k].step = "free" /\ calls' = [calls EXCEPT ![k] = c]
      BY <2>4 DEF HandOver, Arrives, Submit, On, Arriving
    <3>2. /\ DOMAIN Arrivals = 1 .. Len(Arrivals) /\ Len(Arrivals) \in Nat /\ arrived \in Nat
          /\ arrived + 1 \in DOMAIN Arrivals /\ arrived' = arrived + 1
          /\ arrived' \in 0 .. Len(Arrivals) /\ AcceptedOf(arrived) \subseteq AcceptedOf(arrived')
      BY <2>2, <3>1
    <3>3. line = Arrivals[arrived + 1].line /\ line \in Lines /\ Arriving.source \in Sources
      <4>1. Arrivals \in Seq(Arrival)
        BY ListenersAssumption
      <4>2. Arrivals[arrived + 1] \in Arrival
        BY <3>2, <4>1, ToSetTyped
      <4> QED
        BY <4>2 DEF Arriving, Arrival
    <3>4. line \notin taken
      <4>1. taken \subseteq AcceptedOf(arrived)
        BY <1>2, <3>1 DEF ListenTypes
      <4>2. ASSUME NEW i \in 1 .. arrived, Accepted(Arrivals[i]) PROVE Arrivals[i].line # line
        <5>1. i \in DOMAIN Arrivals /\ i # arrived + 1
          BY <3>2
        <5> QED
          BY <3>1, <3>2, <3>3, <4>2, <5>1, ListenersAssumption
      <4> HIDE DEF line
      <4> QED
        BY <4>1, <4>2 DEF AcceptedOf
    <3>5. line \in AcceptedOf(arrived')
      <4>1. arrived + 1 \in 1 .. arrived'
        BY <3>2
      <4> QED
        BY <3>1, <3>3, <4>1 DEF AcceptedOf
    <3>6. c \in CallRecord /\ Heard(c) /\ Ahead(c) = {line}
      <4> DEFINE one == <<line>>
      <4>1. one \in Seq(Lines) \ {<<>>} /\ IsInjective(one) /\ ToSet(one) = {line}
        BY <3>3 DEF IsInjective, ToSet
      <4>2. c = Call("syslog", Arriving.source, one)
        OBVIOUS
      <4> HIDE DEF one, c
      <4> QED
        BY <3>3, <4>1, <4>2, BeginHeard
    <3> HIDE DEF c, line
    <3>7. PICK k \in Slots \ {0} : calls[k].step = "free" /\ calls' = [calls EXCEPT ![k] = c]
      BY <3>1
    <3>8. /\ calls' \in [Slots -> CallRecord] /\ calls'[0].step = "free"
          /\ \A j \in Slots : Heard(calls'[j])
          /\ OnePlace'
      BY <1>2, <3>1, <3>4, <3>6, <3>7, JoinsKeeps
    <3>9. taken' \subseteq AcceptedOf(arrived')
      BY <1>2, <3>1, <3>2, <3>5 DEF ListenTypes
    <3> QED
      BY <1>2, <3>1, <3>2, <3>8, <3>9 DEF ListenTypes
  <2> QED
    BY <2>1, <2>3, <2>4 DEF Listen
<1> QED
  BY <1>1, <1>3 DEF ListenInv, Listening, Runs

LEMMA RestartHeard ==
  ASSUME ListenTypes, OnePlace, IngestRestart, UNCHANGED <<arrived, taken>>
  PROVE  ListenTypes' /\ OnePlace'
<1>1. /\ calls' = [k \in Slots |-> NoCall] /\ UNCHANGED <<scenario, stored>>
      /\ broken' = broken \cup UNION {{calls[k].lines[i] : i \in calls[k].at .. Len(calls[k].lines)} :
                                  k \in {j \in Slots : calls[j].step \notin {"free", "answered"}}}
  BY DEF IngestRestart
<1>2. NoCall \in CallRecord /\ NoCall.step = "free"
  BY NoCallTyped
<1>3. /\ calls' \in [Slots -> CallRecord] /\ calls'[0].step = "free"
      /\ \A k \in Slots : Heard(calls'[k]) /\ Ahead(calls'[k]) = {}
  BY <1>1, <1>2, AheadFree, SlotsFinite
<1>4. ASSUME NEW k \in Slots PROVE Ahead(calls[k]) \subseteq broken'
  <2> DEFINE c == calls[k]
  <2>1. c \in CallRecord /\ Heard(c)
    BY DEF ListenTypes
  <2> HIDE DEF c
  <2>2. CASE c.step = "free"
    BY <2>2, AheadFree DEF c
  <2>3. CASE c.step # "free"
    <3>1. c.step \notin {"free", "answered"}
      BY <2>1, <2>3 DEF Heard
    <3>2. PlacesAhead(c) \subseteq c.at .. Len(c.lines)
      BY <2>1, LinesTyped DEF PlacesAhead
    <3>3. Ahead(c) \subseteq {c.lines[i] : i \in c.at .. Len(c.lines)}
      BY <3>2 DEF Ahead
    <3> QED
      BY <1>1, <3>1, <3>3 DEF c
  <2> QED
    BY <2>2, <2>3
<1>5. ListenTypes'
  BY <1>1, <1>3 DEF ListenTypes, Runs
<1>6. OnePlace'
  <2>1. \A l \in taken : l \in ToSet(stored) \cup broken'
    <3>1. broken \subseteq broken'
      BY <1>1
    <3> QED
      BY <1>4, <3>1 DEF OnePlace
  <2> QED
    BY <1>1, <1>3, <2>1 DEF OnePlace
<1> QED
  BY <1>5, <1>6

LEMMA ListenStays ==
  ASSUME ListenInv, UNCHANGED <<scenario, listenVars>>, Listening => UNCHANGED ingestVars
  PROVE  ListenInv'
<1>1. UNCHANGED <<scenario, arrived, taken>>
  BY DEF listenVars
<1>2. CASE Listening
  <2>1. UNCHANGED <<calls, stored, broken>>
    BY <1>2 DEF ingestVars
  <2>2. ListenTypes' /\ OnePlace'
    BY <1>1, <1>2, <2>1 DEF ListenInv, ListenTypes, OnePlace, Runs
  <2> QED
    BY <1>1, <1>2, <2>2 DEF ListenInv, Listening, Runs
<1>3. CASE ~ Listening
  BY <1>1, <1>3 DEF ListenInv, Listening, Runs
<1> QED
  BY <1>2, <1>3

LEMMA ListenNext ==
  ASSUME FollowInv, ListenInv, [Next]_vars
  PROVE  ListenInv'
<1>1. CASE \E a \in Admins : Administer(a)
  BY <1>1, ListenStays DEF Administer, ingestVars
<1>2. ASSUME NEW k \in Slots, ServeCall(k) \/ FailCall(k)
      PROVE  ListenInv'
  <2>1. (Serve(k) \/ Fail(k)) /\ UNCHANGED listenVars
    BY <1>2 DEF ServeCall, FailCall
  <2>2. scenario' = scenario
    BY <2>1 DEF Serve, Fail, BeginCall, DecodeLine, InsertLine, EvaluateLine, InsertRaises,
                EvaluateRaises
  <2>3. taken' = taken
    BY <2>1 DEF listenVars
  <2>4. CASE Listening
    <3>1. ListenTypes /\ OnePlace
      BY <2>4 DEF ListenInv
    <3>2. PICK l \in Lines : Hears(k, l)
      BY <2>1, <3>1, HearsCalls
    <3>3. ListenTypes' /\ OnePlace'
      BY <2>1, <2>2, <3>1, <3>2, HearsKeeps
    <3> QED
      BY <2>2, <2>4, <3>3 DEF ListenInv, Listening, Runs
  <2>5. CASE ~ Listening
    BY <2>2, <2>3, <2>5 DEF ListenInv, Listening, Runs
  <2> QED
    BY <2>4, <2>5
<1>3. CASE Log
  BY <1>3, ListenStays DEF Log, LogStep, ingestVars
<1>4. CASE TailSteps
  <2>1. UNCHANGED listenVars
    BY <1>4 DEF TailSteps
  <2>2. scenario' = scenario
    BY <1>4 DEF TailSteps, TailPosts, Post, PostDone, PostFails, Submit, Receive, Abandon, BrokenOff,
                ingestVars
  <2>3. Followed
    BY <1>4 DEF TailSteps, TailPosts, Post, PostDone, PostFails, StartTail, Follow, ReadLine,
                LookAtPath, OpenNew, TailAt, FollowInv, TailInv, Opens, Followed
  <2>4. ~ Listening
    BY <2>3 DEF Followed, Listening, Runs
  <2> QED
    BY <2>1, <2>2, <2>4, ListenStays
<1>5. CASE UploadSteps
  <2>1. Uploads /\ UNCHANGED listenVars
    BY <1>5 DEF UploadSteps
  <2>2. scenario' = scenario
    BY <2>1 DEF Uploads, SendBatch, BatchDone, BatchFails, Unauthorized, Submit, Receive, Abandon,
                BrokenOff, ingestVars
  <2>3. Runs("upload")
    BY <2>1 DEF Uploads, StartUpload, SendBatch, BatchDone, BatchFails, Unauthorized, UpAt,
                FollowInv, UploadRuns
  <2>4. ~ Listening
    BY <2>3 DEF Listening, Runs
  <2> QED
    BY <2>1, <2>2, <2>4, ListenStays
<1>6. CASE ListenSteps
  BY <1>6, ListenKeeps DEF ListenSteps
<1>7. CASE Restart
  <2>1. IngestRestart /\ UNCHANGED <<arrived, taken>>
    BY <1>7 DEF Restart, ListenersRestart
  <2>2. scenario' = scenario
    BY <2>1 DEF IngestRestart
  <2>3. CASE Listening
    <3>1. ListenTypes' /\ OnePlace'
      BY <2>1, <2>3, RestartHeard DEF ListenInv
    <3> QED
      BY <2>2, <2>3, <3>1 DEF ListenInv, Listening, Runs
  <2>4. CASE ~ Listening
    BY <2>1, <2>2, <2>4 DEF ListenInv, Listening, Runs
  <2> QED
    BY <2>3, <2>4
<1>8. CASE UNCHANGED vars
  BY <1>8, ListenStays DEF vars, ingestVars
<1> QED
  BY <1>1, <1>2, <1>3, <1>4, <1>5, <1>6, <1>7, <1>8 DEF Next

LEMMA ListenStarts ==
  ASSUME Init
  PROVE  ListenInv
<1>1. /\ calls \in [Slots -> CallRecord] /\ \A k \in Slots : calls[k].step = "free"
      /\ stored = <<>> /\ arrived = 0 /\ taken = {}
  BY AllFree DEF Init, ListenersInit
<1>2. 0 \in 0 .. Len(Arrivals)
  BY ListenersAssumption, LenProperties
<1>3. ListenTypes
  BY <1>1, <1>2, AheadFree, SlotsFinite DEF ListenTypes
<1>4. OnePlace
  <2>1. IsInjective(stored) /\ ToSet(stored) = {}
    BY <1>1 DEF IsInjective, ToSet
  <2> QED
    BY <1>1, <2>1, AheadFree DEF OnePlace
<1> QED
  BY <1>1, <1>3, <1>4 DEF ListenInv

(* A line taken from a socket or a bulk request is in the store exactly    *)
(* once when its call is done, unless its insertion raised or a restart    *)
(* ended it (app/listeners/syslog.py, _ingest_line; /ingest/beats).        *)
THEOREM DeliveryStoresTaken == Spec => []TakenAreStored
<1>1. Init => FollowInv /\ ListenInv
  BY ListenStarts, TailStarts, SendStarts DEF FollowInv, SendInv, UploadRuns, Init, UploadInit
<1>2. FollowInv /\ ListenInv /\ [Next]_vars => (FollowInv /\ ListenInv)'
  BY FollowNext, ListenNext
<1>3. ListenInv => TakenAreStored
  <2> SUFFICES ASSUME ListenInv, \A k \in Slots : On(k, "free"), NEW l \in taken, l \notin broken
               PROVE  Cardinality({i \in DOMAIN stored : stored[i] = l}) = 1
    BY DEF TakenAreStored
  <2>1. OnePlace /\ stored \in Seq(Lines)
    BY DEF ListenInv, ListenTypes
  <2>2. \A k \in Slots : Ahead(calls[k]) = {}
    BY AheadFree DEF On
  <2>3. l \in ToSet(stored)
    BY <2>1, <2>2 DEF OnePlace
  <2>4. PICK i \in DOMAIN stored : stored[i] = l
    BY <2>1, <2>3, ToSetTyped
  <2>5. {j \in DOMAIN stored : stored[j] = l} = {i}
    BY <2>1, <2>4 DEF OnePlace, IsInjective
  <2> QED
    BY <2>5, FS_Singleton
<1> QED
  BY <1>1, <1>2, <1>3, PTL DEF Spec

-----------------------------------------------------------------------------
(* Decoders: whatever a file holds for a source, the source has a decoder, *)
(* or a load under way will put one; and while no two requests overlap the *)
(* one load has put what it has read so far.                               *)

DecoderLabels == {"idle", "open", "write", "unlink", "new", "builtin", "read", "put"}
Work ==
  [name : DecoderNames \cup {0}, doc : Docs \cup {NoFile}, builtin : Nat,
   todo : SUBSET DecoderNames, read : Docs \cup {NoFile}]

(* What a handler works on fits what it does next.                         *)
Fits(a) ==
  /\ pc[a] \in {"open", "write", "unlink"} => load[a].name \in DecoderNames
  /\ pc[a] = "open" => load[a].doc \in Docs
  /\ pc[a] = "new" => load[a].builtin = 0
  /\ pc[a] = "builtin" => load[a].builtin <= Len(BuiltinDecoders)
  /\ pc[a] \in {"read", "put"} => load[a].todo # {}
  /\ pc[a] = "put" => load[a].read \in Docs

DecoderTypes ==
  /\ pc \in [Admins -> DecoderLabels] /\ overlap \in BOOLEAN
  /\ decoderFiles \in [DecoderNames -> Docs \cup {NoFile, Blank}]
  /\ decoders \in [Sources -> Docs \cup {NoFile}]
  /\ \A s \in Sources : decoders[s] # NoFile => decoders[s].source = s
  /\ load \in [Admins -> Work]
  /\ \A a \in Admins : Fits(a)

BuiltinComing(a, i) == pc[a] = "new" \/ (pc[a] = "builtin" /\ load[a].builtin < i)
CustomComing(a, n) ==
  \/ pc[a] \in {"new", "builtin"}
  \/ pc[a] = "read" /\ n \in load[a].todo
  \/ pc[a] = "put" /\ (n \in Unread(a) \/ load[a].read.source = decoderFiles[n].source)

DecoderDue ==
  /\ \A i \in DOMAIN BuiltinDecoders :
       decoders[BuiltinDecoders[i].source] # NoFile \/ \E a \in Admins : BuiltinComing(a, i)
  /\ \A n \in DecoderNames : Loads(decoderFiles[n]) =>
       decoders[decoderFiles[n].source] # NoFile \/ \E a \in Admins : CustomComing(a, n)

(* What a load that nobody disturbs has put so far.                        *)
PutBuiltins(s, k) == Latest(BuiltinDecoders, BuiltinFor(s) \cap 1 .. k)
PutSoFar(s, todo) ==
  IF CustomFor(s) \ todo # {} THEN Latest(decoderFiles, CustomFor(s) \ todo)
  ELSE Latest(BuiltinDecoders, BuiltinFor(s))

AloneAt(a) ==
  /\ pc[a] = "unlink" => decoderFiles[load[a].name] # NoFile
  /\ pc[a] = "write" => load[a].doc # NoFile
  /\ pc[a] = "builtin" => \A s \in Sources : decoders[s] = PutBuiltins(s, load[a].builtin)
  /\ pc[a] \in {"read", "put"} =>
       /\ load[a].todo \subseteq Present
       /\ \A m \in Present \ load[a].todo, n \in load[a].todo : m < n
       /\ \A s \in Sources : decoders[s] = PutSoFar(s, load[a].todo)
  /\ pc[a] = "put" => load[a].read = decoderFiles[Current(a)] /\ Loads(load[a].read)

Alone ==
  /\ \A a, b \in Admins : pc[a] # "idle" /\ pc[b] # "idle" => a = b
  /\ \A a \in Admins : AloneAt(a)
  /\ Quiet /\ torn = {} => decoders = Expected

DecoderInv == DecoderTypes /\ DecoderDue /\ (~ overlap => Alone)

LEMMA LeastExists ==
  ASSUME NEW T \in SUBSET Nat, T # {}
  PROVE  Min(T) \in T /\ \A y \in T : Min(T) <= y
<1> DEFINE R == OpToRel(<, Nat)
<1>1. IsWellFoundedOn(R, Nat)
  BY NatLessThanWellFounded
<1>2. ASSUME NEW x \in Nat, NEW y \in Nat, x < y PROVE <<x, y>> \in R
  BY <1>2 DEF OpToRel
<1> HIDE DEF R
<1>3. PICK x \in T : \A y \in T : ~ (<<y, x>> \in R)
  BY <1>1, WFMin
<1>4. ASSUME NEW y \in T PROVE x <= y
  <2>1. x \in Nat /\ y \in Nat
    OBVIOUS
  <2>2. ~ (y < x)
    BY <1>2, <1>3, <2>1
  <2> QED
    BY <2>1, <2>2
<1> QED
  BY <1>4 DEF Min

LEMMA LatestIs ==
  ASSUME NEW docs, NEW P \in SUBSET Nat, NEW n \in Nat, \A p \in P : p < n
  PROVE  Latest(docs, P \cup {n}) = docs[n]
<1>1. n \in P \cup {n} /\ \A p \in P \cup {n} : n >= p
  OBVIOUS
<1>2. \A x \in P \cup {n} : (\A p \in P \cup {n} : x >= p) => x = n
  OBVIOUS
<1>3. Max(P \cup {n}) = n
  BY <1>1, <1>2 DEF Max
<1> QED
  BY <1>1, <1>3 DEF Latest

LEMMA DocsTyped ==
  /\ Docs \subseteq DecoderDoc
  /\ \A doc \in Docs : doc.kind = "decoder" /\ doc.source \in Sources /\ doc # NoFile
  /\ \A doc : Loads(doc) => doc # NoFile /\ doc # Blank
  /\ BuiltinDecoders \in Seq(DecoderDoc) /\ Len(BuiltinDecoders) \in Nat
  /\ DOMAIN BuiltinDecoders = 1 .. Len(BuiltinDecoders)
  /\ \A i \in DOMAIN BuiltinDecoders : BuiltinDecoders[i] \in Docs
<1>1. /\ BuiltinDecoders \in Seq(DecoderDoc) /\ Len(BuiltinDecoders) \in Nat
      /\ DOMAIN BuiltinDecoders = 1 .. Len(BuiltinDecoders)
      /\ ToSet(BuiltinDecoders) \subseteq DecoderDoc
      /\ \A i \in DOMAIN BuiltinDecoders : BuiltinDecoders[i] \in ToSet(BuiltinDecoders)
  BY DecodersAssumption, ToSetTyped
<1>2. Docs \subseteq DecoderDoc /\ \A i \in DOMAIN BuiltinDecoders : BuiltinDecoders[i] \in Docs
  <2>1. \A n \in DecoderNames : CustomDecoders[n] \in DecoderDoc \cup {NoFile}
    BY DecodersAssumption
  <2> QED
    BY <1>1, <2>1, DecodersAssumption DEF Docs
<1>3. NoFile.kind = "none" /\ Blank.kind = "blank"
  BY DEF NoFile, Blank
<1>4. \A doc \in DecoderDoc : doc.kind = "decoder" /\ doc.source \in Sources /\ doc # NoFile
  BY <1>3 DEF DecoderDoc
<1>5. \A doc : Loads(doc) => doc # NoFile /\ doc # Blank
  BY <1>3 DEF Loads
<1> QED
  BY <1>1, <1>2, <1>4, <1>5

LEMMA DecoderGotoDoes ==
  ASSUME pc \in [Admins -> DecoderLabels], NEW a \in Admins, NEW label \in DecoderLabels,
         Goto(a, label)
  PROVE  /\ pc' \in [Admins -> DecoderLabels] /\ pc'[a] = label
         /\ \A b \in Admins \ {a} : pc'[b] = pc[b]
         /\ overlap' = overlap
BY DEF Goto

LEMMA DecoderArriveDoes ==
  ASSUME pc \in [Admins -> DecoderLabels], overlap \in BOOLEAN,
         NEW a \in Admins, NEW label \in DecoderLabels, Arrive(a, label)
  PROVE  /\ pc' \in [Admins -> DecoderLabels] /\ pc[a] = "idle" /\ pc'[a] = label
         /\ \A b \in Admins \ {a} : pc'[b] = pc[b]
         /\ overlap' \in BOOLEAN
         /\ (~ overlap' => ~ overlap /\ Quiet)
BY DEF Arrive, Quiet

(* What each step of a handler comes to.                                   *)
StepTypes(a) ==
  /\ pc' \in [Admins -> DecoderLabels] /\ \A b \in Admins \ {a} : pc'[b] = pc[b]
  /\ overlap' \in BOOLEAN
  /\ decoderFiles' \in [DecoderNames -> Docs \cup {NoFile, Blank}]
  /\ decoders' \in [Sources -> Docs \cup {NoFile}]
  /\ \A s \in Sources : decoders'[s] # NoFile => decoders'[s].source = s
  /\ load' \in [Admins -> Work]
  /\ \A b \in Admins \ {a} :
       load'[b] = load[b] \/ (pc[b] = "write" /\ load'[b].name = load[b].name)
  /\ Fits(a)'

StepDue(a) ==
  /\ \/ pc'[a] = "builtin" /\ load'[a].builtin = 0
     \/ \A s \in Sources : decoders[s] # NoFile => decoders'[s] # NoFile
  /\ \A i \in DOMAIN BuiltinDecoders :
       BuiltinComing(a, i) => BuiltinComing(a, i)' \/ decoders'[BuiltinDecoders[i].source] # NoFile
  /\ \A n \in DecoderNames : Loads(decoderFiles'[n]) =>
       \/ pc'[a] = "new"
       \/ /\ decoderFiles'[n] = decoderFiles[n]
          /\ CustomComing(a, n) => CustomComing(a, n)' \/ decoders'[decoderFiles[n].source] # NoFile

StepAlone(a) ==
  ~ overlap' =>
    /\ ~ overlap /\ (pc[a] # "idle" \/ Quiet)
    /\ Alone => AloneAt(a)' /\ (pc'[a] = "idle" /\ torn' = {} => decoders' = Expected')

LEMMA DecoderStepKeeps ==
  ASSUME DecoderInv, NEW a \in Admins, StepTypes(a), StepDue(a), StepAlone(a)
  PROVE  DecoderInv'
<1>1. DecoderTypes /\ DecoderDue /\ (~ overlap => Alone)
  BY DEF DecoderInv
<1>2. DecoderTypes'
  <2>1. ASSUME NEW b \in Admins \ {a} PROVE Fits(b)'
    <3>1. pc'[b] = pc[b] /\ (load'[b] = load[b] \/ (pc[b] = "write" /\ load'[b].name = load[b].name))
      BY DEF StepTypes
    <3>2. Fits(b)
      BY <1>1 DEF DecoderTypes
    <3> QED
      BY <3>1, <3>2 DEF Fits
  <2> QED
    BY <2>1 DEF StepTypes, DecoderTypes
<1>3. ASSUME NEW b \in Admins \ {a}
      PROVE  /\ \A i \in DOMAIN BuiltinDecoders : BuiltinComing(b, i) => BuiltinComing(b, i)'
             /\ \A n \in DecoderNames : CustomComing(b, n) /\ decoderFiles'[n] = decoderFiles[n]
                                          => CustomComing(b, n)'
  <2>1. pc'[b] = pc[b] /\ (load'[b] = load[b] \/ pc[b] = "write")
    BY DEF StepTypes
  <2> QED
    BY <2>1 DEF BuiltinComing, CustomComing, Unread, Current
<1>4. DecoderDue'
  <2>1. ASSUME NEW i \in DOMAIN BuiltinDecoders
        PROVE  decoders'[BuiltinDecoders[i].source] # NoFile \/ \E b \in Admins : BuiltinComing(b, i)'
    <3>1. CASE pc'[a] = "builtin" /\ load'[a].builtin = 0
      <4>1. 0 < i
        BY DocsTyped
      <4> QED
        BY <3>1, <4>1 DEF BuiltinComing
    <3>2. CASE \A s \in Sources : decoders[s] # NoFile => decoders'[s] # NoFile
      <4>1. BuiltinDecoders[i].source \in Sources
        BY DocsTyped
      <4>2. CASE decoders[BuiltinDecoders[i].source] # NoFile
        BY <3>2, <4>1, <4>2
      <4>3. ASSUME NEW b \in Admins, BuiltinComing(b, i)
            PROVE  decoders'[BuiltinDecoders[i].source] # NoFile \/ \E c \in Admins : BuiltinComing(c, i)'
        <5>1. CASE b = a
          BY <4>3, <5>1 DEF StepDue
        <5>2. CASE b # a
          BY <1>3, <4>3, <5>2
        <5> QED
          BY <5>1, <5>2
      <4> QED
        BY <1>1, <4>2, <4>3 DEF DecoderDue
    <3> QED
      BY <3>1, <3>2 DEF StepDue
  <2>2. ASSUME NEW n \in DecoderNames, Loads(decoderFiles'[n])
        PROVE  decoders'[decoderFiles'[n].source] # NoFile \/ \E b \in Admins : CustomComing(b, n)'
    <3>1. CASE pc'[a] \in {"new", "builtin"}
      BY <3>1 DEF CustomComing
    <3>2. CASE pc'[a] \notin {"new", "builtin"}
      <4>1. /\ decoderFiles'[n] = decoderFiles[n]
            /\ CustomComing(a, n) => CustomComing(a, n)' \/ decoders'[decoderFiles[n].source] # NoFile
            /\ \A s \in Sources : decoders[s] # NoFile => decoders'[s] # NoFile
        BY <2>2, <3>2 DEF StepDue
      <4>2. decoderFiles[n].source \in Sources
        <5>1. decoderFiles[n] \in Docs
          BY <1>1, <2>2, <4>1, DocsTyped DEF DecoderTypes
        <5> QED
          BY <5>1, DocsTyped
      <4>3. CASE decoders[decoderFiles[n].source] # NoFile
        BY <4>1, <4>2, <4>3
      <4>4. ASSUME NEW b \in Admins, CustomComing(b, n)
            PROVE  decoders'[decoderFiles[n].source] # NoFile \/ \E c \in Admins : CustomComing(c, n)'
        <5>1. CASE b = a
          BY <4>1, <4>4, <5>1
        <5>2. CASE b # a
          BY <1>3, <4>1, <4>4, <5>2
        <5> QED
          BY <5>1, <5>2
      <4> QED
        BY <1>1, <2>2, <4>1, <4>3, <4>4 DEF DecoderDue
    <3> QED
      BY <3>1, <3>2
  <2> QED
    BY <2>1, <2>2 DEF DecoderDue
<1>5. ASSUME ~ overlap' PROVE Alone'
  <2>1. Alone /\ (pc[a] # "idle" \/ Quiet) /\ AloneAt(a)'
        /\ (pc'[a] = "idle" /\ torn' = {} => decoders' = Expected')
    BY <1>1, <1>5 DEF StepAlone
  <2>2. \A b \in Admins \ {a} : pc[b] = "idle" /\ pc'[b] = "idle"
    BY <2>1 DEF Alone, Quiet, StepTypes
  <2>3. \A b \in Admins : AloneAt(b)'
    BY <2>1, <2>2 DEF AloneAt
  <2> QED
    BY <2>1, <2>2, <2>3 DEF Alone, Quiet
<1> QED
  BY <1>2, <1>4, <1>5 DEF DecoderInv

LEMMA LoadTyped ==
  ASSUME NEW n \in DecoderNames \cup {0}, NEW doc \in Docs \cup {NoFile}
  PROVE  /\ Load(n, doc) \in Work /\ Load(n, doc).name = n /\ Load(n, doc).doc = doc
         /\ Load(n, doc).builtin = 0
<1>1. {} \in SUBSET DecoderNames /\ 0 \in Nat
  OBVIOUS
<1> QED
  BY <1>1 DEF Load, Work

LEMMA NoLoadTyped ==
  /\ NoLoad \in Work /\ NoLoad.builtin = 0
  /\ \A todo \in SUBSET DecoderNames : /\ [NoLoad EXCEPT !.todo = todo] \in Work
                                       /\ [NoLoad EXCEPT !.todo = todo].todo = todo
<1>1. NoLoad \in Work /\ NoLoad.builtin = 0
  BY LoadTyped DEF NoLoad
<1> QED
  BY <1>1 DEF Work

(* A request arrives.                                                      *)
LEMMA DecoderArrives ==
  ASSUME DecoderInv, NEW a \in Admins, NEW label \in {"open", "unlink"}, Arrive(a, label),
         NEW n \in DecoderNames, NEW doc \in Docs \cup {NoFile},
         load' = [load EXCEPT ![a] = Load(n, doc)],
         UNCHANGED <<decoderFiles, decoders, torn>>,
         label = "open" => doc \in Docs, label = "unlink" => decoderFiles[n] # NoFile
  PROVE  DecoderInv'
<1>1. DecoderTypes
  BY DEF DecoderInv
<1>2. /\ pc' \in [Admins -> DecoderLabels] /\ pc[a] = "idle" /\ pc'[a] = label
      /\ \A b \in Admins \ {a} : pc'[b] = pc[b]
      /\ overlap' \in BOOLEAN /\ (~ overlap' => ~ overlap /\ Quiet)
  BY <1>1, DecoderArriveDoes DEF DecoderTypes, DecoderLabels
<1>3. /\ load' \in [Admins -> Work] /\ load'[a].name = n /\ load'[a].doc = doc
      /\ \A b \in Admins \ {a} : load'[b] = load[b]
  BY <1>1, LoadTyped DEF DecoderTypes
<1>4. StepTypes(a)
  BY <1>1, <1>2, <1>3 DEF StepTypes, DecoderTypes, Fits
<1>5. StepDue(a)
  BY <1>2 DEF StepDue, BuiltinComing, CustomComing
<1>6. StepAlone(a)
  BY <1>2, <1>3 DEF StepAlone, AloneAt
<1> QED
  BY <1>4, <1>5, <1>6, DecoderStepKeeps

LEMMA OpenDecoderKeeps ==
  ASSUME DecoderInv, NEW a \in Admins, OpenDecoder(a)
  PROVE  DecoderInv'
<1>1. DecoderTypes /\ Fits(a) /\ pc[a] = "open"
  BY DEF DecoderInv, DecoderTypes, OpenDecoder, At
<1>2. /\ pc' \in [Admins -> DecoderLabels] /\ pc'[a] = "write"
      /\ \A b \in Admins \ {a} : pc'[b] = pc[b]
      /\ overlap' = overlap
  BY <1>1, DecoderGotoDoes DEF DecoderTypes, DecoderLabels, OpenDecoder
<1> DEFINE n == load[a].name
<1>3. /\ n \in DecoderNames /\ load[a].doc \in Docs
      /\ decoderFiles' = [decoderFiles EXCEPT ![n] = Blank]
      /\ UNCHANGED <<decoders, load, torn>>
  BY <1>1 DEF Fits, OpenDecoder
<1> HIDE DEF n
<1>4. /\ decoderFiles' \in [DecoderNames -> Docs \cup {NoFile, Blank}]
      /\ \A m \in DecoderNames : Loads(decoderFiles'[m]) => decoderFiles'[m] = decoderFiles[m]
  <2>1. ~ Loads(Blank)
    BY DocsTyped
  <2> QED
    BY <1>1, <1>3, <2>1 DEF DecoderTypes
<1>5. StepTypes(a)
  BY <1>1, <1>2, <1>3, <1>4 DEF StepTypes, DecoderTypes, Fits, n
<1>6. StepDue(a)
  BY <1>1, <1>2, <1>3, <1>4 DEF StepDue, BuiltinComing, CustomComing
<1>7. StepAlone(a)
  <2>1. load[a].doc # NoFile
    BY <1>3, DocsTyped
  <2> QED
    BY <1>1, <1>2, <1>3, <2>1 DEF StepAlone, AloneAt
<1> QED
  BY <1>5, <1>6, <1>7, DecoderStepKeeps

LEMMA WriteDecoderKeeps ==
  ASSUME DecoderInv, NEW a \in Admins, WriteDecoder(a) \/ WriteDecoderFails(a)
  PROVE  DecoderInv'
<1>1. DecoderTypes /\ Fits(a) /\ pc[a] = "write"
  BY DEF DecoderInv, DecoderTypes, WriteDecoder, WriteDecoderFails, At
<1>2. /\ pc' \in [Admins -> DecoderLabels] /\ pc'[a] \in {"new", "idle"}
      /\ \A b \in Admins \ {a} : pc'[b] = pc[b]
      /\ overlap' = overlap
      /\ WriteDecoder(a) => pc'[a] = "new"
      /\ WriteDecoderFails(a) => pc'[a] = "idle"
  BY <1>1, DecoderGotoDoes DEF DecoderTypes, DecoderLabels, WriteDecoder, WriteDecoderFails
<1> DEFINE n == load[a].name
<1>3. /\ n \in DecoderNames /\ load[a].doc \in Docs \cup {NoFile}
      /\ load' = [load EXCEPT ![a] = NoLoad] /\ decoders' = decoders
      /\ \/ decoderFiles' = decoderFiles
         \/ pc'[a] = "new" /\ load[a].doc # NoFile
            /\ decoderFiles' = [decoderFiles EXCEPT ![n] = load[a].doc]
      /\ pc'[a] = "idle" => /\ decoderFiles' = decoderFiles
                            /\ load[a].doc # NoFile => n \in torn'
  BY <1>1, <1>2 DEF Fits, WriteDecoder, WriteDecoderFails, Lost, DecoderTypes, Work
<1> HIDE DEF n
<1>4. /\ decoderFiles' \in [DecoderNames -> Docs \cup {NoFile, Blank}]
      /\ load' \in [Admins -> Work] /\ load'[a].builtin = 0
      /\ \A b \in Admins \ {a} : load'[b] = load[b]
  BY <1>1, <1>3, NoLoadTyped DEF DecoderTypes
<1>5. StepTypes(a)
  BY <1>1, <1>2, <1>3, <1>4 DEF StepTypes, DecoderTypes, Fits
<1>6. StepDue(a)
  BY <1>1, <1>2, <1>3 DEF StepDue, BuiltinComing, CustomComing
<1>7. StepAlone(a)
  <2>1. ASSUME Alone PROVE load[a].doc # NoFile
    BY <1>1, <2>1 DEF Alone, AloneAt
  <2> QED
    BY <1>1, <1>2, <1>3, <2>1 DEF StepAlone, AloneAt
<1> QED
  BY <1>5, <1>6, <1>7, DecoderStepKeeps

LEMMA UnlinkDecoderKeeps ==
  ASSUME DecoderInv, NEW a \in Admins, UnlinkDecoder(a)
  PROVE  DecoderInv'
<1>1. DecoderTypes /\ Fits(a) /\ pc[a] = "unlink"
  BY DEF DecoderInv, DecoderTypes, UnlinkDecoder, At
<1> DEFINE n == load[a].name
<1>2. /\ pc' \in [Admins -> DecoderLabels] /\ pc'[a] \in {"new", "idle"}
      /\ \A b \in Admins \ {a} : pc'[b] = pc[b]
      /\ overlap' = overlap
      /\ pc'[a] = "idle" => decoderFiles[n] = NoFile
  BY <1>1, DecoderGotoDoes DEF DecoderTypes, DecoderLabels, UnlinkDecoder
<1>3. /\ n \in DecoderNames /\ decoders' = decoders
      /\ decoderFiles' = [decoderFiles EXCEPT ![n] = NoFile]
      /\ load' = [b \in Admins |-> IF b = a THEN NoLoad
                               ELSE IF At(b, "write") /\ load[b].name = n THEN Load(n, NoFile)
                               ELSE load[b]]
  BY <1>1 DEF Fits, UnlinkDecoder
<1> HIDE DEF n
<1>4. /\ decoderFiles' \in [DecoderNames -> Docs \cup {NoFile, Blank}]
      /\ \A m \in DecoderNames : Loads(decoderFiles'[m]) => decoderFiles'[m] = decoderFiles[m]
  <2>1. ~ Loads(NoFile)
    BY DocsTyped
  <2> QED
    BY <1>1, <1>3, <2>1 DEF DecoderTypes
<1>5. /\ load' \in [Admins -> Work] /\ load'[a].builtin = 0
      /\ \A b \in Admins \ {a} :
           load'[b] = load[b] \/ (pc[b] = "write" /\ load'[b].name = load[b].name)
  <2>1. Load(n, NoFile) \in Work /\ Load(n, NoFile).name = n
    BY <1>3, LoadTyped
  <2>2. \A b \in Admins : load[b] \in Work
    BY <1>1 DEF DecoderTypes
  <2> QED
    BY <1>3, <2>1, <2>2, NoLoadTyped DEF At
<1>6. StepTypes(a)
  BY <1>1, <1>2, <1>3, <1>4, <1>5 DEF StepTypes, DecoderTypes, Fits
<1>7. StepDue(a)
  BY <1>1, <1>2, <1>3, <1>4 DEF StepDue, BuiltinComing, CustomComing
<1>8. StepAlone(a)
  <2>1. ASSUME Alone PROVE decoderFiles[n] # NoFile
    BY <1>1, <2>1 DEF Alone, AloneAt, n
  <2> QED
    BY <1>1, <1>2, <2>1 DEF StepAlone, AloneAt
<1> QED
  BY <1>6, <1>7, <1>8, DecoderStepKeeps

LEMMA NewDictionaryKeeps ==
  ASSUME DecoderInv, NEW a \in Admins, NewDictionary(a)
  PROVE  DecoderInv'
<1>1. DecoderTypes /\ Fits(a) /\ pc[a] = "new"
  BY DEF DecoderInv, DecoderTypes, NewDictionary, At
<1>2. /\ pc' \in [Admins -> DecoderLabels] /\ pc'[a] = "builtin"
      /\ \A b \in Admins \ {a} : pc'[b] = pc[b]
      /\ overlap' = overlap
  BY <1>1, DecoderGotoDoes DEF DecoderTypes, DecoderLabels, NewDictionary
<1>3. /\ load[a].builtin = 0 /\ UNCHANGED <<decoderFiles, load>>
      /\ decoders' = [s \in Sources |-> NoFile]
  BY <1>1 DEF Fits, NewDictionary
<1>4. StepTypes(a)
  BY <1>1, <1>2, <1>3, DocsTyped DEF StepTypes, DecoderTypes, Fits
<1>5. StepDue(a)
  BY <1>2, <1>3, DocsTyped DEF StepDue, BuiltinComing, CustomComing
<1>6. AloneAt(a)'
  <2>1. \A s : BuiltinFor(s) \cap 1 .. 0 = {}
    OBVIOUS
  <2> QED
    BY <1>2, <1>3, <2>1 DEF AloneAt, PutBuiltins, Latest
<1>7. StepAlone(a)
  BY <1>1, <1>2, <1>6 DEF StepAlone
<1> QED
  BY <1>4, <1>5, <1>7, DecoderStepKeeps

LEMMA PutBuiltinKeeps ==
  ASSUME DecoderInv, NEW a \in Admins, PutBuiltin(a)
  PROVE  DecoderInv'
<1>1. DecoderTypes /\ Fits(a) /\ pc[a] = "builtin"
  BY DEF DecoderInv, DecoderTypes, PutBuiltin, At
<1>2. /\ pc' \in [Admins -> DecoderLabels] /\ pc'[a] = "builtin"
      /\ \A b \in Admins \ {a} : pc'[b] = pc[b]
      /\ overlap' = overlap
  BY <1>1, DecoderGotoDoes DEF DecoderTypes, DecoderLabels, PutBuiltin
<1> DEFINE k == load[a].builtin
           next == k + 1
           doc == BuiltinDecoders[next]
<1>3. /\ k \in Nat /\ next \in Nat /\ next \in DOMAIN BuiltinDecoders /\ next <= Len(BuiltinDecoders)
      /\ 1 .. next = 1 .. k \cup {next} /\ \A i \in 1 .. k : i < next
  <2>1. k \in Nat /\ k < Len(BuiltinDecoders)
    BY <1>1 DEF PutBuiltin, DecoderTypes, Work
  <2> HIDE DEF k
  <2> QED
    BY <2>1, DocsTyped
<1>4. /\ doc \in Docs /\ doc.source \in Sources /\ doc # NoFile
      /\ decoders' = [decoders EXCEPT ![doc.source] = doc]
      /\ load' = [load EXCEPT ![a] = [load[a] EXCEPT !.builtin = next]]
      /\ decoderFiles' = decoderFiles
  BY <1>3, DocsTyped DEF PutBuiltin
<1> HIDE DEF next, doc
<1>5. /\ load' \in [Admins -> Work] /\ load'[a].builtin = next
      /\ \A b \in Admins \ {a} : load'[b] = load[b]
  <2>1. [load[a] EXCEPT !.builtin = next] \in Work /\ [load[a] EXCEPT !.builtin = next].builtin = next
    BY <1>1, <1>3 DEF DecoderTypes, Work
  <2> QED
    BY <1>1, <1>4, <2>1 DEF DecoderTypes
<1>6. /\ decoders' \in [Sources -> Docs \cup {NoFile}] /\ decoders'[doc.source] = doc
      /\ \A s \in Sources \ {doc.source} : decoders'[s] = decoders[s]
  BY <1>1, <1>4 DEF DecoderTypes
<1>7. StepTypes(a)
  BY <1>1, <1>2, <1>3, <1>4, <1>5, <1>6 DEF StepTypes, DecoderTypes, Fits
<1>8. StepDue(a)
  <2>1. ASSUME NEW i \in DOMAIN BuiltinDecoders, k < i
        PROVE  next < i \/ i = next
    BY <1>3, <2>1, DocsTyped DEF next
  <2> QED
    BY <1>1, <1>2, <1>4, <1>5, <1>6, <2>1 DEF StepDue, BuiltinComing, CustomComing, doc
<1>9. ASSUME Alone PROVE AloneAt(a)'
  <2>1. \A s \in Sources : decoders[s] = PutBuiltins(s, k)
    BY <1>1, <1>9 DEF Alone, AloneAt
  <2>2. ASSUME NEW s \in Sources PROVE decoders'[s] = PutBuiltins(s, next)
    <3>1. CASE s = doc.source
      <4>1. next \in BuiltinFor(s)
        BY <1>3, <3>1 DEF BuiltinFor, doc
      <4>2. BuiltinFor(s) \cap 1 .. next = (BuiltinFor(s) \cap 1 .. k) \cup {next}
        BY <1>3, <4>1
      <4>3. Latest(BuiltinDecoders, (BuiltinFor(s) \cap 1 .. k) \cup {next}) = BuiltinDecoders[next]
        <5> DEFINE P == BuiltinFor(s) \cap 1 .. k
        <5>1. P \in SUBSET Nat /\ \A p \in P : p < next
          BY <1>3
        <5> HIDE DEF P
        <5>2. Latest(BuiltinDecoders, P \cup {next}) = BuiltinDecoders[next]
          BY <1>3, <5>1, LatestIs
        <5> QED
          BY <5>2 DEF P
      <4> QED
        BY <1>6, <3>1, <4>2, <4>3 DEF PutBuiltins, doc
    <3>2. CASE s # doc.source
      <4>1. next \notin BuiltinFor(s)
        BY <3>2 DEF BuiltinFor, doc
      <4>2. BuiltinFor(s) \cap 1 .. next = BuiltinFor(s) \cap 1 .. k
        BY <1>3, <4>1
      <4> QED
        BY <1>6, <2>1, <3>2, <4>2 DEF PutBuiltins
    <3> QED
      BY <3>1, <3>2
  <2> QED
    BY <1>2, <1>5, <2>2 DEF AloneAt
<1>10. StepAlone(a)
  BY <1>1, <1>2, <1>9 DEF StepAlone
<1> QED
  BY <1>7, <1>8, <1>10, DecoderStepKeeps

(* When all the files are read, what was put is what they say.             *)
LEMMA CustomsArePresent ==
  \A s : CustomFor(s) \subseteq Present
BY DocsTyped DEF CustomFor, Present

LEMMA AllPut ==
  ASSUME NEW d \in [Sources -> Docs \cup {NoFile}], \A s \in Sources : d[s] = PutSoFar(s, {})
  PROVE  d = Expected
<1>1. \A s : CustomFor(s) \ {} = CustomFor(s)
  OBVIOUS
<1> QED
  BY <1>1 DEF PutSoFar, Expected

LEMMA GlobDecodersKeeps ==
  ASSUME DecoderInv, NEW a \in Admins, GlobDecoders(a)
  PROVE  DecoderInv'
<1>1. DecoderTypes /\ pc[a] = "builtin" /\ load[a].builtin = Len(BuiltinDecoders)
  BY DEF DecoderInv, DecoderTypes, GlobDecoders, At
<1>2. /\ pc' \in [Admins -> DecoderLabels] /\ pc'[a] \in {"read", "idle"}
      /\ \A b \in Admins \ {a} : pc'[b] = pc[b]
      /\ overlap' = overlap
      /\ pc'[a] = "read" <=> Present # {}
  BY <1>1, DecoderGotoDoes DEF DecoderTypes, DecoderLabels, GlobDecoders
<1>3. /\ load' = [load EXCEPT ![a] = [NoLoad EXCEPT !.todo = Present]]
      /\ UNCHANGED <<decoderFiles, decoders, torn>>
  BY DEF GlobDecoders
<1>4. /\ load' \in [Admins -> Work] /\ load'[a].todo = Present
      /\ \A b \in Admins \ {a} : load'[b] = load[b]
  <2>1. Present \in SUBSET DecoderNames
    BY DEF Present
  <2> QED
    BY <1>1, <1>3, <2>1, NoLoadTyped DEF DecoderTypes
<1>5. StepTypes(a)
  BY <1>1, <1>2, <1>3, <1>4 DEF StepTypes, DecoderTypes, Fits
<1>6. StepDue(a)
  <2>1. ASSUME NEW i \in DOMAIN BuiltinDecoders PROVE ~ BuiltinComing(a, i)
    BY <1>1, DocsTyped DEF BuiltinComing
  <2>2. ASSUME NEW n \in DecoderNames, Loads(decoderFiles[n]) PROVE n \in Present
    BY <2>2, DocsTyped DEF Present
  <2> QED
    BY <1>2, <1>3, <1>4, <2>1, <2>2 DEF StepDue, CustomComing
<1>7. ASSUME Alone PROVE \A s \in Sources : decoders[s] = PutSoFar(s, Present)
  <2>1. \A s : BuiltinFor(s) \cap 1 .. Len(BuiltinDecoders) = BuiltinFor(s)
    BY DocsTyped DEF BuiltinFor
  <2>2. \A s \in Sources : decoders[s] = Latest(BuiltinDecoders, BuiltinFor(s))
    BY <1>1, <1>7, <2>1 DEF Alone, AloneAt, PutBuiltins
  <2>3. \A s : CustomFor(s) \ Present = {}
    BY CustomsArePresent
  <2> QED
    BY <2>2, <2>3 DEF PutSoFar
<1>8. ASSUME Alone PROVE AloneAt(a)'
  <2>1. Present' = Present /\ \A s \in Sources : decoders'[s] = PutSoFar(s, Present)'
    BY <1>3, <1>7, <1>8 DEF Present, PutSoFar, CustomFor
  <2> QED
    BY <1>2, <1>4, <2>1 DEF AloneAt
<1>9. ASSUME Alone, Present = {} PROVE decoders' = Expected'
  <2>1. decoders = Expected
    BY <1>1, <1>7, <1>9, AllPut DEF DecoderTypes
  <2> QED
    BY <1>3, <2>1 DEF Expected, CustomFor
<1>10. StepAlone(a)
  BY <1>1, <1>2, <1>8, <1>9 DEF StepAlone
<1> QED
  BY <1>5, <1>6, <1>10, DecoderStepKeeps

(* The file that is read is the first one left; what is read of it is      *)
(* either skipped or put.                                                  *)
LEMMA CurrentIs ==
  ASSUME DecoderTypes, NEW a \in Admins, pc[a] \in {"read", "put"}
  PROVE  /\ load[a].todo \in SUBSET DecoderNames /\ Current(a) \in load[a].todo
         /\ Current(a) \in DecoderNames /\ Current(a) \in Nat
         /\ Unread(a) \in SUBSET DecoderNames
         /\ \A n \in Unread(a) : Current(a) < n
<1>1. load[a].todo \in SUBSET DecoderNames /\ load[a].todo # {}
  BY DEF DecoderTypes, Work, Fits
<1>2. DecoderNames \subseteq Nat
  BY DecodersAssumption
<1> DEFINE T == load[a].todo
           m == Min(T)
<1>3. T \in SUBSET Nat /\ T # {}
  BY <1>1, <1>2
<1> HIDE DEF T
<1>4. m \in T /\ \A y \in T : m <= y
  BY <1>3, LeastExists
<1> HIDE DEF m
<1>5. \A y \in T \ {m} : m < y
  BY <1>3, <1>4
<1> QED
  BY <1>1, <1>2, <1>4, <1>5 DEF Current, Unread, T, m

LEMMA FileDone ==
  ASSUME DecoderTypes, NEW a \in Admins, pc[a] \in {"read", "put"}, AloneAt(a),
         decoderFiles' = decoderFiles, load'[a].todo = Unread(a),
         pc'[a] = AfterFile(a), decoders' \in [Sources -> Docs \cup {NoFile}],
         \A s \in Sources : decoders'[s] = PutSoFar(s, Unread(a))
  PROVE  AloneAt(a)' /\ (pc'[a] = "idle" => decoders' = Expected')
<1>1. pc'[a] \in {"idle", "read"} /\ (pc'[a] = "idle" => Unread(a) = {})
  BY DEF AfterFile
<1>2. /\ load[a].todo \subseteq Present
      /\ \A m \in Present \ load[a].todo, n \in load[a].todo : m < n
  BY DEF AloneAt
<1>3. \A s \in Sources : decoders'[s] = PutSoFar(s, load[a].todo)'
  BY DEF PutSoFar, CustomFor
<1>4. /\ load'[a].todo \subseteq Present'
      /\ \A m \in Present' \ load'[a].todo, n \in load'[a].todo : m < n
  <2>1. Present' = Present
    BY DEF Present
  <2>2. Unread(a) = load[a].todo \ {Current(a)} /\ Current(a) \in load[a].todo
        /\ \A n \in Unread(a) : Current(a) < n
    BY CurrentIs DEF Unread
  <2> QED
    BY <1>2, <2>1, <2>2
<1>5. ASSUME pc'[a] = "idle" PROVE decoders' = Expected'
  <2>1. \A s \in Sources : decoders'[s] = PutSoFar(s, {})
    BY <1>1, <1>5
  <2>2. decoders' = Expected
    BY <2>1, AllPut
  <2> QED
    BY <2>2 DEF Expected, CustomFor
<1> QED
  BY <1>1, <1>3, <1>4, <1>5 DEF AloneAt

LEMMA ReadDecoderKeeps ==
  ASSUME DecoderInv, NEW a \in Admins, ReadDecoder(a)
  PROVE  DecoderInv'
<1>1. DecoderTypes /\ pc[a] = "read" /\ decoders' = decoders /\ decoderFiles' = decoderFiles
      /\ torn' = torn
  BY DEF DecoderInv, DecoderTypes, ReadDecoder, At
<1> DEFINE n == Current(a)
           rest == Unread(a)
<1>2. /\ load[a].todo \in SUBSET DecoderNames /\ n \in load[a].todo /\ n \in DecoderNames
      /\ rest \in SUBSET DecoderNames /\ rest = load[a].todo \ {n} /\ \A m \in rest : n < m
  BY <1>1, CurrentIs DEF Unread
<1>3. CASE Loads(decoderFiles[n])
  <2>1. /\ pc' \in [Admins -> DecoderLabels] /\ pc'[a] = "put"
        /\ \A b \in Admins \ {a} : pc'[b] = pc[b]
        /\ overlap' = overlap
    BY <1>1, <1>3, DecoderGotoDoes DEF DecoderTypes, DecoderLabels, ReadDecoder
  <2>2. load' = [load EXCEPT ![a] = [load[a] EXCEPT !.read = decoderFiles[n]]]
    BY <1>3 DEF ReadDecoder
  <2>3. decoderFiles[n] \in Docs
    BY <1>1, <1>2, <1>3, DocsTyped DEF DecoderTypes
  <2>4. /\ load' \in [Admins -> Work] /\ load'[a].todo = load[a].todo
        /\ load'[a].read = decoderFiles[n]
        /\ \A b \in Admins \ {a} : load'[b] = load[b]
    <3> DEFINE w == [load[a] EXCEPT !.read = decoderFiles[n]]
    <3>1. load[a] \in Work
      BY <1>1 DEF DecoderTypes
    <3>2. w \in Work /\ w.todo = load[a].todo /\ w.read = decoderFiles[n]
      BY <2>3, <3>1 DEF Work
    <3> HIDE DEF w
    <3>3. load' = [load EXCEPT ![a] = w]
      BY <2>2 DEF w
    <3> QED
      BY <1>1, <3>2, <3>3 DEF DecoderTypes
  <2>5. Current(a)' = n /\ Unread(a)' = rest
    BY <2>4 DEF Current, Unread
  <2>6. StepTypes(a)
    BY <1>1, <1>2, <2>1, <2>3, <2>4 DEF StepTypes, DecoderTypes, Fits
  <2>7. StepDue(a)
    BY <1>1, <1>2, <2>1, <2>4, <2>5 DEF StepDue, BuiltinComing, CustomComing
  <2>8. ASSUME Alone PROVE AloneAt(a)'
    <3>1. /\ load[a].todo \subseteq Present
          /\ \A m \in Present \ load[a].todo, k \in load[a].todo : m < k
          /\ \A s \in Sources : decoders[s] = PutSoFar(s, load[a].todo)
      BY <1>1, <2>8 DEF Alone, AloneAt
    <3>2. Present' = Present /\ \A s \in Sources : decoders'[s] = PutSoFar(s, load[a].todo)'
      BY <1>1, <2>4, <3>1 DEF Present, PutSoFar, CustomFor
    <3> QED
      BY <1>1, <1>3, <2>1, <2>4, <2>5, <3>1, <3>2 DEF AloneAt
  <2>9. StepAlone(a)
    BY <1>1, <2>1, <2>8 DEF StepAlone
  <2> QED
    BY <2>6, <2>7, <2>9, DecoderStepKeeps
<1>4. CASE ~ Loads(decoderFiles[n])
  <2>1. /\ pc' \in [Admins -> DecoderLabels] /\ pc'[a] = AfterFile(a)
        /\ \A b \in Admins \ {a} : pc'[b] = pc[b]
        /\ overlap' = overlap
    <3>1. AfterFile(a) \in DecoderLabels
      BY DEF AfterFile, DecoderLabels
    <3> QED
      BY <1>1, <1>4, <3>1, DecoderGotoDoes DEF DecoderTypes, ReadDecoder
  <2>2. load' = [load EXCEPT ![a] = [load[a] EXCEPT !.todo = rest]]
    BY <1>4 DEF ReadDecoder
  <2>3. /\ load' \in [Admins -> Work] /\ load'[a].todo = rest
        /\ \A b \in Admins \ {a} : load'[b] = load[b]
    <3> DEFINE w == [load[a] EXCEPT !.todo = rest]
    <3>1. load[a] \in Work
      BY <1>1 DEF DecoderTypes
    <3> HIDE DEF rest
    <3>2. w \in Work /\ w.todo = rest
      BY <1>2, <3>1 DEF Work
    <3> HIDE DEF w
    <3>3. load' = [load EXCEPT ![a] = w]
      BY <2>2 DEF w
    <3> QED
      BY <1>1, <3>2, <3>3 DEF DecoderTypes
  <2>4. pc'[a] \in {"idle", "read"} /\ (pc'[a] = "idle" <=> rest = {})
    BY <2>1 DEF AfterFile
  <2>5. StepTypes(a)
    BY <1>1, <2>1, <2>3, <2>4 DEF StepTypes, DecoderTypes, Fits
  <2>6. StepDue(a)
    BY <1>1, <1>2, <1>4, <2>3, <2>4 DEF StepDue, BuiltinComing, CustomComing
  <2>7. ASSUME Alone PROVE AloneAt(a)' /\ (pc'[a] = "idle" => decoders' = Expected')
    <3>1. AloneAt(a) /\ \A s \in Sources : decoders[s] = PutSoFar(s, load[a].todo)
      BY <1>1, <2>7 DEF Alone, AloneAt
    <3>2. \A s : CustomFor(s) \ rest = CustomFor(s) \ load[a].todo
      BY <1>2, <1>4 DEF CustomFor
    <3>3. \A s \in Sources : decoders'[s] = PutSoFar(s, rest)
      BY <1>1, <3>1, <3>2 DEF PutSoFar
    <3>4. decoders' \in [Sources -> Docs \cup {NoFile}]
      BY <1>1 DEF DecoderTypes
    <3> QED
      BY <1>1, <2>1, <2>3, <3>1, <3>3, <3>4, FileDone
  <2>8. StepAlone(a)
    BY <1>1, <2>1, <2>7 DEF StepAlone
  <2> QED
    BY <2>5, <2>6, <2>8, DecoderStepKeeps
<1> QED
  BY <1>3, <1>4

LEMMA PutDecoderKeeps ==
  ASSUME DecoderInv, NEW a \in Admins, PutDecoder(a)
  PROVE  DecoderInv'
<1>1. DecoderTypes /\ Fits(a) /\ pc[a] = "put" /\ decoderFiles' = decoderFiles /\ torn' = torn
  BY DEF DecoderInv, DecoderTypes, PutDecoder, At
<1> DEFINE n == Current(a)
           rest == Unread(a)
           doc == load[a].read
<1>2. /\ load[a].todo \in SUBSET DecoderNames /\ n \in load[a].todo /\ n \in DecoderNames
      /\ rest \in SUBSET DecoderNames /\ rest = load[a].todo \ {n} /\ \A m \in rest : n < m
  BY <1>1, CurrentIs DEF Unread
<1>3. /\ pc' \in [Admins -> DecoderLabels] /\ pc'[a] = AfterFile(a)
      /\ \A b \in Admins \ {a} : pc'[b] = pc[b]
      /\ overlap' = overlap
  <2>1. AfterFile(a) \in DecoderLabels
    BY DEF AfterFile, DecoderLabels
  <2> QED
    BY <1>1, <2>1, DecoderGotoDoes DEF DecoderTypes, PutDecoder
<1>4. pc'[a] \in {"idle", "read"} /\ (pc'[a] = "idle" <=> rest = {})
  BY <1>3 DEF AfterFile
<1>5. /\ doc \in Docs /\ doc.source \in Sources /\ doc # NoFile
      /\ decoders' = [decoders EXCEPT ![doc.source] = doc]
      /\ load' = [load EXCEPT ![a] = [NoLoad EXCEPT !.todo = rest]]
  BY <1>1, DocsTyped DEF Fits, PutDecoder
<1>6. /\ load' \in [Admins -> Work] /\ load'[a].todo = rest
      /\ \A b \in Admins \ {a} : load'[b] = load[b]
  BY <1>1, <1>2, <1>5, NoLoadTyped DEF DecoderTypes
<1>7. /\ decoders' \in [Sources -> Docs \cup {NoFile}] /\ decoders'[doc.source] = doc
      /\ \A s \in Sources \ {doc.source} : decoders'[s] = decoders[s]
  BY <1>1, <1>5 DEF DecoderTypes
<1>8. StepTypes(a)
  BY <1>1, <1>3, <1>4, <1>5, <1>6, <1>7 DEF StepTypes, DecoderTypes, Fits
<1>9. StepDue(a)
  BY <1>1, <1>2, <1>4, <1>5, <1>6, <1>7 DEF StepDue, BuiltinComing, CustomComing
<1>10. ASSUME Alone PROVE AloneAt(a)' /\ (pc'[a] = "idle" => decoders' = Expected')
  <2>1. /\ AloneAt(a) /\ \A s \in Sources : decoders[s] = PutSoFar(s, load[a].todo)
        /\ load[a].todo \subseteq Present
        /\ \A m \in Present \ load[a].todo, k \in load[a].todo : m < k
        /\ doc = decoderFiles[n] /\ Loads(doc)
    BY <1>1, <1>10 DEF Alone, AloneAt
  <2>2. ASSUME NEW s \in Sources PROVE decoders'[s] = PutSoFar(s, rest)
    <3>1. CASE s = doc.source
      <4> DEFINE P == CustomFor(s) \ load[a].todo
      <4>1. CustomFor(s) \ rest = P \cup {n}
        BY <1>2, <2>1, <3>1 DEF CustomFor
      <4>2. P \in SUBSET Nat /\ n \in Nat /\ \A p \in P : p < n
        BY <1>2, <2>1, CustomsArePresent, DecodersAssumption DEF CustomFor
      <4> HIDE DEF P
      <4>3. Latest(decoderFiles, P \cup {n}) = decoderFiles[n]
        BY <4>2, LatestIs
      <4>4. PutSoFar(s, rest) = Latest(decoderFiles, P \cup {n})
        BY <4>1 DEF PutSoFar
      <4> QED
        BY <1>7, <2>1, <3>1, <4>3, <4>4
    <3>2. CASE s # doc.source
      <4>1. CustomFor(s) \ rest = CustomFor(s) \ load[a].todo
        BY <1>2, <2>1, <3>2 DEF CustomFor
      <4> QED
        BY <1>7, <2>1, <3>2, <4>1 DEF PutSoFar
    <3> QED
      BY <3>1, <3>2
  <2> QED
    BY <1>1, <1>3, <1>6, <1>7, <2>1, <2>2, FileDone
<1>11. StepAlone(a)
  BY <1>1, <1>3, <1>10 DEF StepAlone
<1> QED
  BY <1>8, <1>9, <1>11, DecoderStepKeeps

LEMMA GreatestExists ==
  ASSUME NEW T \in SUBSET Nat, T # {}, IsFiniteSet(T)
  PROVE  Max(T) \in T
<1> DEFINE Bad == {U \in SUBSET T : U # {} /\ ~ \E x \in U : \A y \in U : x >= y}
<1>1. SUFFICES ASSUME Bad # {} PROVE FALSE
  BY DEF Max
<1>2. IsWellFoundedOn(StrictSubsetOrdering(T), FiniteSubsetsOf(T)) /\ FiniteSubsetsOf(T) = SUBSET T
  BY FS_StrictSubsetOrderingWellFounded, FS_FiniteSubsetsOfFinite
<1>3. PICK U \in Bad : \A V \in Bad : ~ (<<V, U>> \in StrictSubsetOrdering(T))
  <2>1. Bad \subseteq FiniteSubsetsOf(T)
    BY <1>2
  <2> HIDE DEF Bad
  <2> QED
    BY <1>1, <1>2, <2>1, WFMin
<1>4. PICK x \in U : TRUE
  OBVIOUS
<1> DEFINE V == U \ {x}
<1>5. <<V, U>> \in StrictSubsetOrdering(T)
  BY DEF StrictSubsetOrdering
<1>6. V \notin Bad
  BY <1>3, <1>5
<1>7. CASE V = {}
  <2>1. \A y \in U : x >= y
    BY <1>7
  <2> QED
    BY <2>1
<1>8. CASE V # {}
  <2>1. PICK m \in V : \A y \in V : m >= y
    BY <1>6, <1>8
  <2>2. x \in Nat /\ m \in Nat /\ U \subseteq Nat
    OBVIOUS
  <2>3. CASE m >= x
    BY <2>1, <2>2, <2>3
  <2>4. CASE x >= m
    <3>1. \A y \in U : x >= y
      BY <2>1, <2>2, <2>4
    <3> QED
      BY <3>1
  <2> QED
    BY <2>2, <2>3, <2>4
<1> QED
  BY <1>7, <1>8

(* What the files say is a decoder of its source.                          *)
LEMMA ExpectedTyped ==
  ASSUME decoderFiles \in [DecoderNames -> Docs \cup {NoFile, Blank}]
  PROVE  /\ Expected \in [Sources -> Docs \cup {NoFile}]
         /\ \A s \in Sources : Expected[s] # NoFile => Expected[s].source = s
         /\ \A i \in DOMAIN BuiltinDecoders : Expected[BuiltinDecoders[i].source] # NoFile
         /\ \A n \in DecoderNames :
              Loads(decoderFiles[n]) => Expected[decoderFiles[n].source] # NoFile
<1>1. ASSUME NEW s \in Sources, CustomFor(s) # {}
      PROVE  /\ Latest(decoderFiles, CustomFor(s)) \in Docs
             /\ Latest(decoderFiles, CustomFor(s)).source = s
  <2> DEFINE T == CustomFor(s)
  <2>1. T \in SUBSET Nat /\ IsFiniteSet(T)
    <3>1. CustomFor(s) \subseteq DecoderNames
      BY DEF CustomFor
    <3> QED
      BY <3>1, DecodersAssumption, FS_Subset
  <2>2. T # {}
    BY <1>1
  <2> HIDE DEF T
  <2>3. Max(T) \in T /\ Latest(decoderFiles, T) = decoderFiles[Max(T)]
    BY <2>1, <2>2, GreatestExists DEF Latest
  <2> QED
    BY <2>3, DocsTyped DEF T, CustomFor
<1>2. ASSUME NEW s \in Sources, BuiltinFor(s) # {}
      PROVE  /\ Latest(BuiltinDecoders, BuiltinFor(s)) \in Docs
             /\ Latest(BuiltinDecoders, BuiltinFor(s)).source = s
  <2> DEFINE T == BuiltinFor(s)
  <2>1. T \in SUBSET Nat /\ IsFiniteSet(T)
    <3>1. BuiltinFor(s) \subseteq 1 .. Len(BuiltinDecoders)
      BY DocsTyped DEF BuiltinFor
    <3>2. IsFiniteSet(1 .. Len(BuiltinDecoders))
      BY DocsTyped, FS_Interval
    <3> QED
      BY <3>1, <3>2, FS_Subset
  <2>2. T # {}
    BY <1>2
  <2> HIDE DEF T
  <2>3. Max(T) \in T /\ Latest(BuiltinDecoders, T) = BuiltinDecoders[Max(T)]
    BY <2>1, <2>2, GreatestExists DEF Latest
  <2> QED
    BY <2>3, DocsTyped DEF T, BuiltinFor
<1>3. \A s \in Sources :
        /\ Expected[s] \in Docs \cup {NoFile}
        /\ Expected[s] # NoFile => Expected[s].source = s
        /\ CustomFor(s) # {} \/ BuiltinFor(s) # {} => Expected[s] # NoFile
  BY <1>1, <1>2, DocsTyped DEF Expected, Latest
<1>4. ASSUME NEW i \in DOMAIN BuiltinDecoders
      PROVE  BuiltinDecoders[i].source \in Sources /\ i \in BuiltinFor(BuiltinDecoders[i].source)
  BY DocsTyped DEF BuiltinFor
<1>5. ASSUME NEW n \in DecoderNames, Loads(decoderFiles[n])
      PROVE  decoderFiles[n].source \in Sources /\ n \in CustomFor(decoderFiles[n].source)
  <2>1. decoderFiles[n] \in Docs
    BY <1>5, DocsTyped
  <2> QED
    BY <1>5, <2>1, DocsTyped DEF CustomFor
<1>6. Expected \in [Sources -> Docs \cup {NoFile}]
  BY <1>3 DEF Expected
<1> QED
  BY <1>3, <1>4, <1>5, <1>6

Resting ==
  /\ decoderFiles \in [DecoderNames -> Docs \cup {NoFile, Blank}]
  /\ decoders = Expected /\ load = [a \in Admins |-> NoLoad]
  /\ pc = [a \in Admins |-> "idle"] /\ overlap = FALSE

LEMMA AtRest == Resting => DecoderInv
<1> SUFFICES ASSUME Resting PROVE DecoderInv
  OBVIOUS
<1> USE DEF Resting
<1>1. DecoderTypes
  BY ExpectedTyped, NoLoadTyped DEF DecoderTypes, Fits, DecoderLabels
<1>2. DecoderDue
  BY ExpectedTyped DEF DecoderDue
<1>3. Alone
  BY DEF Alone, AloneAt
<1> QED
  BY <1>1, <1>2, <1>3 DEF DecoderInv

LEMMA DecodersStart ==
  ASSUME Init
  PROVE  DecoderInv
<1>1. decoderFiles \in [DecoderNames -> Docs \cup {NoFile, Blank}]
  <2>1. decoderFiles = CustomDecoders
    BY DEF Init, DecodersInit
  <2> QED
    BY <2>1, DecodersAssumption DEF Docs
<1> QED
  BY <1>1, AtRest DEF Resting, Init, DecodersInit, RequestsInit

LEMMA DecodersRestartKeeps ==
  ASSUME DecoderInv, RequestsRestart, DecodersRestart
  PROVE  DecoderInv'
<1>1. decoderFiles' \in [DecoderNames -> Docs \cup {NoFile, Blank}]
  BY DEF DecoderInv, DecoderTypes, DecodersRestart
<1>2. /\ decoders' = Expected' /\ load' = [a \in Admins |-> NoLoad]
      /\ pc' = [a \in Admins |-> "idle"] /\ overlap' = FALSE
  BY DEF RequestsRestart, DecodersRestart, Expected, CustomFor
<1>3. Resting'
  BY <1>1, <1>2 DEF Resting
<1> QED
  BY <1>3, AtRest, PTL

LEMMA DecodersStepKeeps ==
  ASSUME DecoderInv, NEW a \in Admins, DecodersStep(a)
  PROVE  DecoderInv'
<1>1. ASSUME NEW n \in DecoderNames, NEW doc \in DecoderDocs,
             CreateDecoder(a, n, doc) \/ UpdateDecoder(a, n, doc)
      PROVE  DecoderInv'
  <2>1. doc \in Docs
    BY DEF Docs
  <2>2. /\ Arrive(a, "open") /\ load' = [load EXCEPT ![a] = Load(n, doc)]
        /\ UNCHANGED <<decoderFiles, decoders, torn>>
    BY <1>1 DEF CreateDecoder, UpdateDecoder
  <2> QED
    BY <2>1, <2>2, DecoderArrives
<1>2. ASSUME NEW n \in DecoderNames, DeleteDecoder(a, n)
      PROVE  DecoderInv'
  BY <1>2, DecoderArrives DEF DeleteDecoder
<1> QED
  BY <1>1, <1>2, OpenDecoderKeeps, WriteDecoderKeeps, UnlinkDecoderKeeps, NewDictionaryKeeps,
     PutBuiltinKeeps, GlobDecodersKeeps, ReadDecoderKeeps, PutDecoderKeeps DEF DecodersStep

LEMMA DecodersNext ==
  ASSUME DecoderInv, [Next]_vars
  PROVE  DecoderInv'
<1>1. ASSUME NEW a \in Admins, Administer(a)
      PROVE  DecoderInv'
  BY <1>1, DecodersStepKeeps DEF Administer
<1>2. CASE Restart
  BY <1>2, DecodersRestartKeeps DEF Restart
<1>3. CASE UNCHANGED <<requestVars, decoderVars>>
  <2>1. /\ pc' = pc /\ overlap' = overlap /\ decoderFiles' = decoderFiles /\ decoders' = decoders
        /\ load' = load /\ torn' = torn
    BY <1>3 DEF requestVars, decoderVars
  <2>2. DecoderTypes' = DecoderTypes
    BY <2>1 DEF DecoderTypes, Fits
  <2>3. DecoderDue' = DecoderDue
    BY <2>1 DEF DecoderDue, BuiltinComing, CustomComing, Unread, Current
  <2>4. ASSUME NEW a \in Admins, AloneAt(a) PROVE AloneAt(a)'
    BY <2>1, <2>4 DEF AloneAt, Present, PutBuiltins, PutSoFar, CustomFor, Current
  <2>5. Expected' = Expected
    BY <2>1 DEF Expected, CustomFor
  <2>6. Alone => Alone'
    BY <2>1, <2>4, <2>5 DEF Alone, Quiet
  <2> QED
    BY <2>1, <2>2, <2>3, <2>6 DEF DecoderInv
<1>4. ASSUME \/ \E k \in Slots : ServeCall(k) \/ FailCall(k)
             \/ Log \/ TailSteps \/ UploadSteps \/ ListenSteps \/ UNCHANGED vars
      PROVE  UNCHANGED <<requestVars, decoderVars>>
  BY <1>4 DEF ServeCall, FailCall, Log, LogStep, TailSteps, UploadSteps, ListenSteps, vars
<1> QED
  BY <1>1, <1>2, <1>3, <1>4 DEF Next

(* However loads of the decoder files overlap, when all are done no source *)
(* lacks a decoder that the files have for it, and unless they overlapped  *)
(* it is the last that they have.                                          *)
THEOREM DeliveryKeepsDecoders == Spec => []DecodersSettle
<1>1. Init => DecoderInv
  BY DecodersStart
<1>2. DecoderInv /\ [Next]_vars => DecoderInv'
  BY DecodersNext
<1>3. DecoderInv => DecodersSettle
  <2> SUFFICES ASSUME DecoderInv, Quiet, torn = {} PROVE DecodersSettle
    BY DEF DecodersSettle
  <2>1. DecoderTypes /\ DecoderDue /\ (~ overlap => Alone)
    BY DEF DecoderInv
  <2>2. \A a \in Admins : /\ \A i \in DOMAIN BuiltinDecoders : ~ BuiltinComing(a, i)
                          /\ \A n \in DecoderNames : ~ CustomComing(a, n)
    BY DEF Quiet, BuiltinComing, CustomComing
  <2>3. ASSUME NEW s \in Sources, Expected[s] # NoFile PROVE decoders[s] # NoFile
    <3>1. CASE CustomFor(s) # {}
      <4>1. PICK n \in DecoderNames : Loads(decoderFiles[n]) /\ decoderFiles[n].source = s
        BY <3>1 DEF CustomFor
      <4> QED
        BY <2>1, <2>2, <4>1 DEF DecoderDue
    <3>2. CASE CustomFor(s) = {}
      <4>1. BuiltinFor(s) # {}
        BY <2>3, <3>2 DEF Expected, Latest
      <4>2. PICK i \in DOMAIN BuiltinDecoders : BuiltinDecoders[i].source = s
        BY <4>1 DEF BuiltinFor
      <4> QED
        BY <2>1, <2>2, <4>2 DEF DecoderDue
    <3> QED
      BY <3>1, <3>2
  <2>4. ~ overlap => decoders = Expected
    BY <2>1 DEF Alone
  <2> QED
    BY <2>3, <2>4 DEF DecodersSettle
<1> QED
  BY <1>1, <1>2, <1>3, PTL DEF Spec

-----------------------------------------------------------------------------
(* The upload program: what becomes of the lines of a batch is known from  *)
(* where its call is.                                                      *)

Ups ==
  [source : Sources, csv : BOOLEAN, state : {"off", "send", "wait", "done", "aborted"},
   first : Nat, attempt : Nat]

UpTypes ==
  /\ up \in Ups /\ calls = [k \in Slots |-> calls[k]] /\ stored \in Seq(ToSet(stored))
  /\ up.state = "off" => up.first = 1
  /\ up.state = "done" => up.first > Len(FileLines)
  /\ up.state \in {"off", "send", "wait"} =>
       /\ up.first \in DOMAIN FileLines
       /\ \E b \in 0 .. Len(FileLines) : up.first = b * BatchSize + 1
  /\ up.state \in {"send", "wait"} => (up.source \in RowSources => up.csv)

Settled(i) ==
  FileLines[i] \in ToSet(stored) \cup rejects \cup dropped \/ TogetherWithPieces(i)

(* The server takes the lines for what they are.                           *)
Whole == \A i \in DOMAIN Sent : ~ InPieces(Sent[i])

(* What the server has done with.                                          *)
Handled(c, j) ==
  \/ c.step \in Steps /\ j < c.at
  \/ c.step = "evaluate" /\ j = c.at
  \/ c.step = "answered" /\ c.answer = "ok"

(* The j-th line is stored, or the answer tells that it is not: but for    *)
(* the header.                                                             *)
Accounted(c, j, lines) ==
  \/ Sent[j] \in ToSet(lines) \/ j \in ToSet(c.errors) \/ c.truncated
  \/ up.csv /\ j = 1

Sends(c, lines) ==
  /\ c \in CallRecord /\ c.kind = "file" /\ c.source = up.source /\ c.lines = Sent
  /\ c.step \in Steps => c.at \in DOMAIN Sent
  /\ c.step = "begin" => c.at = 1
  /\ \A j \in DOMAIN Sent : Handled(c, j) => Accounted(c, j, lines)

UpCall ==
  calls[0].step # "free" => up.state = "wait" /\ (Whole => Sends(calls[0], stored))

UploadInv ==
  Runs("upload") =>
    /\ UpTypes /\ UpCall
    /\ \A i \in DOMAIN FileLines : i < up.first => Settled(i)


LEMMA LeastOfTwo ==
  ASSUME NEW a \in Nat, NEW b \in Nat
  PROVE  /\ Min({a, b}) \in Nat /\ Min({a, b}) <= a /\ Min({a, b}) <= b
         /\ Min({a, b}) = a \/ Min({a, b}) = b
<1>1. {a, b} \in SUBSET Nat /\ {a, b} # {}
  OBVIOUS
<1>2. Min({a, b}) \in {a, b} /\ \A y \in {a, b} : Min({a, b}) <= y
  BY <1>1, LeastExists
<1> QED
  BY <1>2

(* The batch at hand.                                                      *)
LEMMA FileTyped ==
  /\ FileLines \in Seq(Lines) /\ Len(FileLines) \in Nat /\ Len(FileLines) >= 1
  /\ DOMAIN FileLines = 1 .. Len(FileLines) /\ \A i \in DOMAIN FileLines : FileLines[i] \in Lines
  /\ Header \in Lines /\ BatchSize \in Nat /\ BatchSize >= 1
<1>1. FileLines \in Seq(Lines) /\ FileLines # <<>> /\ Header \in Lines /\ BatchSize \in Nat \ {0}
  BY UploadAssumption
<1>2. Len(FileLines) \in Nat \ {0}
  BY <1>1, EmptySeq
<1> QED
  BY <1>1, <1>2, ToSetTyped

LEMMA BatchIs ==
  ASSUME up.first \in DOMAIN FileLines
  PROVE  /\ Batch \in Seq(Lines) /\ Len(Batch) \in Nat /\ Len(Batch) \in 1 .. BatchSize
         /\ DOMAIN Batch = 1 .. Len(Batch)
         /\ up.first + Len(Batch) <= Len(FileLines) + 1
         /\ up.first + Len(Batch) <= Len(FileLines) => Len(Batch) = BatchSize
         /\ \A i \in 1 .. Len(Batch) : /\ up.first + i - 1 \in DOMAIN FileLines
                                       /\ Batch[i] = FileLines[up.first + i - 1]
<1> DEFINE f == up.first
           n == Len(FileLines)
           full == f + BatchSize - 1
           m == Min({full, n})
<1>1. f \in Nat /\ f >= 1 /\ f <= n /\ n \in Nat /\ BatchSize \in Nat /\ BatchSize >= 1
  BY FileTyped
<1>2. full \in Nat
  BY <1>1
<1> HIDE DEF full
<1>3. m \in Nat /\ m <= full /\ m <= n /\ (m = full \/ m = n)
  BY <1>1, <1>2, LeastOfTwo
<1>4. Batch = SubSeq(FileLines, f, m)
  BY DEF Batch, full
<1> HIDE DEF m, f, n
<1>5. m >= f
  BY <1>1, <1>3 DEF full
<1>6. \A i \in f .. m : FileLines[i] \in Lines
  <2>1. \A i \in f .. m : i \in 1 .. n
    BY <1>1, <1>3
  <2>2. \A i \in 1 .. n : FileLines[i] \in Lines
    BY FileTyped DEF n
  <2> QED
    BY <2>1, <2>2
<1>7. /\ Batch \in Seq(Lines) /\ Len(Batch) = m - f + 1
      /\ \A i \in 1 .. m - f + 1 : Batch[i] = FileLines[f + i - 1]
  BY <1>1, <1>3, <1>4, <1>5, <1>6, SubSeqProperties
<1>8. /\ m - f + 1 \in Nat /\ m - f + 1 \in 1 .. BatchSize /\ f + (m - f + 1) <= n + 1
      /\ f + (m - f + 1) <= n => m - f + 1 = BatchSize
      /\ \A i \in 1 .. m - f + 1 : f + i - 1 \in 1 .. n
  BY <1>1, <1>3, <1>5 DEF full
<1> QED
  BY <1>7, <1>8, FileTyped, ToSetTyped DEF f, n

(* With a header before it the numbers are one higher.                     *)
Shift == IF up.csv THEN 1 ELSE 0

LEMMA SentIs ==
  ASSUME up.first \in DOMAIN FileLines
  PROVE  /\ Sent \in Seq(Lines) /\ Shift \in {0, 1} /\ Len(Sent) = Len(Batch) + Shift
         /\ Len(Sent) \in Nat /\ DOMAIN Sent = 1 .. Len(Batch) + Shift
         /\ \A i \in 1 .. Len(Batch) : Sent[i + Shift] = Batch[i]
         /\ up.csv => Sent[1] = Header
<1>1. /\ Batch \in Seq(Lines) /\ Len(Batch) \in Nat /\ DOMAIN Batch = 1 .. Len(Batch)
      /\ Header \in Lines
  BY BatchIs, FileTyped
<1>2. CASE up.csv
  <2> DEFINE h == <<Header>>
             k == Len(Batch)
  <2>1. h \in Seq(Lines) /\ Len(h) = 1 /\ h[1] = Header
    BY <1>1
  <2>2. Sent = h \o Batch /\ Shift = 1
    BY <1>2 DEF Sent, Shift
  <2> HIDE DEF h
  <2>3. /\ Sent \in Seq(Lines) /\ Len(Sent) = 1 + k
        /\ \A i \in 1 .. 1 + k : Sent[i] = IF i <= 1 THEN h[i] ELSE Batch[i - 1]
    <3>1. /\ h \o Batch \in Seq(Lines) /\ Len(h \o Batch) = Len(h) + Len(Batch)
          /\ \A i \in 1 .. Len(h) + Len(Batch) :
               (h \o Batch)[i] = IF i <= Len(h) THEN h[i] ELSE Batch[i - Len(h)]
      BY <1>1, <2>1, ConcatProperties
    <3> QED
      BY <2>1, <2>2, <3>1
  <2>4. DOMAIN Sent = 1 .. Len(Sent)
    BY <2>3, LenProperties
  <2>5. k \in Nat
    BY <1>1
  <2> HIDE DEF k
  <2>6. ASSUME NEW i \in 1 .. k PROVE Sent[i + 1] = Batch[i]
    <3>1. i + 1 \in 1 .. 1 + k /\ ~ (i + 1 <= 1) /\ i + 1 - 1 = i
      BY <2>5
    <3> QED
      BY <2>3, <3>1
  <2>7. 1 \in 1 .. 1 + k /\ k + 1 = 1 + k /\ 1 + k \in Nat
    BY <2>5
  <2>8. Sent[1] = Header
    BY <2>1, <2>3, <2>7
  <2> QED
    BY <2>2, <2>3, <2>4, <2>6, <2>7, <2>8 DEF k
<1>3. CASE ~ up.csv
  <2>1. Sent = Batch /\ Shift = 0
    BY <1>3 DEF Sent, Shift
  <2>2. \A i \in 1 .. Len(Batch) : i + 0 = i
    BY <1>1
  <2> QED
    BY <1>1, <1>3, <2>1, <2>2
<1> QED
  BY <1>2, <1>3

(* The server's work on the call.                                          *)
Fresh(c, step, at) ==
  /\ c \in CallRecord /\ c.kind = "file" /\ c.source = up.source /\ c.lines = Sent
  /\ c.step = step /\ c.at = at

LEMMA AccountedStays ==
  ASSUME NEW c, NEW d, ToSet(c.errors) \subseteq ToSet(d.errors), c.truncated => d.truncated,
         NEW s, NEW t, ToSet(s) \subseteq ToSet(t), NEW j, Accounted(c, j, s)
  PROVE  Accounted(d, j, t)
BY DEF Accounted

LEMMA NotedIs ==
  ASSUME NEW c \in CallRecord
  PROVE  /\ Noted(c) \in CallRecord /\ Noted(c).kind = c.kind /\ Noted(c).source = c.source
         /\ Noted(c).lines = c.lines /\ Noted(c).step = c.step /\ Noted(c).at = c.at
         /\ ToSet(c.errors) \subseteq ToSet(Noted(c).errors)
         /\ c.truncated => Noted(c).truncated
         /\ c.at \in ToSet(Noted(c).errors) \/ Noted(c).truncated
<1>1. c.errors \in Seq(Nat) /\ c.at \in Nat
  BY DEF CallRecord
<1>2. CASE Len(c.errors) < ErrorCap
  <2> DEFINE more == Append(c.errors, c.at)
             d == [c EXCEPT !.errors = more]
  <2>1. more \in Seq(Nat) /\ ToSet(more) = ToSet(c.errors) \cup {c.at}
    BY <1>1, AppendDoes
  <2>2. Noted(c) = d
    BY <1>2 DEF Noted
  <2> HIDE DEF more
  <2>3. /\ d \in CallRecord /\ d.kind = c.kind /\ d.source = c.source /\ d.lines = c.lines
        /\ d.step = c.step /\ d.at = c.at /\ d.errors = more /\ d.truncated = c.truncated
    BY <2>1 DEF CallRecord
  <2> HIDE DEF d
  <2> QED
    BY <2>1, <2>2, <2>3
<1>3. CASE ~ (Len(c.errors) < ErrorCap)
  <2>1. ASSUME NEW b \in BOOLEAN
        PROVE  LET d == [c EXCEPT !.truncated = b]
               IN  /\ d \in CallRecord /\ d.kind = c.kind /\ d.source = c.source /\ d.lines = c.lines
                   /\ d.step = c.step /\ d.at = c.at /\ d.errors = c.errors /\ d.truncated = b
    BY DEF CallRecord
  <2> DEFINE d == [c EXCEPT !.truncated = TRUE]
  <2>2. Noted(c) = d
    BY <1>3 DEF Noted
  <2>3. /\ d \in CallRecord /\ d.kind = c.kind /\ d.source = c.source /\ d.lines = c.lines
        /\ d.step = c.step /\ d.at = c.at /\ d.errors = c.errors /\ d.truncated = TRUE
    BY <2>1
  <2> HIDE DEF d
  <2> QED
    BY <2>2, <2>3
<1> QED
  BY <1>2, <1>3

LEMMA AnsweredSends ==
  ASSUME NEW d, NEW step, NEW at, Fresh(d, step, at), NEW lines,
         \A j \in DOMAIN Sent : Accounted(d, j, lines)
  PROVE  Sends(Answered(0, d, "ok"), lines) /\ Answered(0, d, "ok").step = "answered"
<1> DEFINE e == [d EXCEPT !.step = "answered", !.answer = "ok"]
<1>1. Answered(0, d, "ok") = e
  BY DEF Answered
<1>2. /\ e \in CallRecord /\ e.kind = "file" /\ e.source = up.source /\ e.lines = Sent
      /\ e.step = "answered" /\ e.errors = d.errors /\ e.truncated = d.truncated
  BY DEF Fresh, CallRecord
<1> HIDE DEF e
<1>3. \A j \in DOMAIN Sent : Accounted(e, j, lines)
  BY <1>2 DEF Accounted
<1> QED
  BY <1>1, <1>2, <1>3 DEF Sends, Steps

LEMMA OnwardSends ==
  ASSUME up.first \in DOMAIN FileLines,
         NEW d, NEW step \in Steps, NEW at \in DOMAIN Sent, Fresh(d, step, at), NEW lines,
         \A j \in DOMAIN Sent : j <= at => Accounted(d, j, lines)
  PROVE  Sends(Onward(0, d), lines) /\ Onward(0, d).step # "free"
<1>1. Len(Sent) \in Nat /\ DOMAIN Sent = 1 .. Len(Sent) /\ d.at = at /\ d.lines = Sent /\ at \in Nat
  <2>1. Sent \in Seq(Lines)
    BY SentIs
  <2> QED
    BY <2>1, LenProperties DEF Fresh
<1>2. CASE at < Len(Sent)
  <2> DEFINE next == at + 1
             e == [d EXCEPT !.at = next, !.step = "decode"]
  <2>1. /\ next \in Nat /\ next \in DOMAIN Sent /\ \A j \in DOMAIN Sent : j < next => j <= at
    BY <1>1, <1>2
  <2>2. Onward(0, d) = e
    BY <1>1, <1>2 DEF Onward
  <2> HIDE DEF next
  <2>3. /\ e \in CallRecord /\ e.kind = "file" /\ e.source = up.source /\ e.lines = Sent
        /\ e.step = "decode" /\ e.at = next /\ e.errors = d.errors /\ e.truncated = d.truncated
    BY <2>1 DEF Fresh, CallRecord, Steps
  <2> HIDE DEF e
  <2>4. \A j \in DOMAIN Sent : Handled(e, j) => Accounted(e, j, lines)
    BY <2>1, <2>3 DEF Handled, Accounted
  <2> QED
    BY <2>1, <2>2, <2>3, <2>4 DEF Sends
<1>3. CASE ~ (at < Len(Sent))
  <2>1. Onward(0, d) = Answered(0, d, "ok")
    BY <1>1, <1>3 DEF Onward
  <2>2. \A j \in DOMAIN Sent : j <= at
    BY <1>1, <1>3
  <2> QED
    BY <2>1, <2>2, AnsweredSends
<1> QED
  BY <1>2, <1>3

LEMMA MoreStored ==
  ASSUME stored \in Seq(ToSet(stored)), stored' = stored \/ \E l : stored' = Append(stored, l)
  PROVE  stored' \in Seq(ToSet(stored')) /\ ToSet(stored) \subseteq ToSet(stored')
<1>1. CASE stored' = stored
  BY <1>1
<1>2. ASSUME NEW l, stored' = Append(stored, l)
      PROVE  stored' \in Seq(ToSet(stored')) /\ ToSet(stored) \subseteq ToSet(stored')
  <2> DEFINE S == ToSet(stored) \cup {l}
  <2>1. stored \in Seq(S)
    BY SeqMonotonic
  <2>2. Append(stored, l) \in Seq(S) /\ ToSet(Append(stored, l)) = S
    BY <2>1, AppendDoes
  <2> QED
    BY <1>2, <2>2
<1> QED
  BY <1>1, <1>2

LEMMA ServeSends ==
  ASSUME UpTypes, DecoderTypes, up.state = "wait", Sends(calls[0], stored), Serve(0) \/ Fail(0)
  PROVE  Sends(calls'[0], stored') /\ calls'[0].step # "free"
<1> DEFINE c == calls[0]
           at == c.at
<1>1. /\ c.step \in Steps /\ Fresh(c, c.step, at) /\ at \in DOMAIN Sent /\ Line(0) = Sent[at]
      /\ c \in CallRecord /\ c.kind = "file" /\ at \in Nat
      /\ \A j \in DOMAIN Sent : Handled(c, j) => Accounted(c, j, stored)
  <2>1. c.step \in Steps
    BY DEF Serve, Fail, BeginCall, DecodeLine, InsertLine, EvaluateLine, InsertRaises,
           EvaluateRaises, On, Steps
  <2> QED
    BY <2>1 DEF Sends, Fresh, Line, CallRecord
<1>2. /\ up.first \in DOMAIN FileLines /\ up.source \in Sources
      /\ up.source \in RowSources => up.csv
      /\ stored \in Seq(ToSet(stored)) /\ calls = [k \in Slots |-> calls[k]] /\ 0 \in Slots
  BY SlotsFinite DEF UpTypes, Ups
<1>3. Len(Sent) \in Nat /\ DOMAIN Sent = 1 .. Len(Sent) /\ Len(Sent) >= 1
  <2>1. Sent \in Seq(Lines) /\ Len(Batch) \in Nat /\ Len(Batch) >= 1 /\ Shift \in {0, 1}
        /\ Len(Sent) = Len(Batch) + Shift
    BY <1>2, SentIs, BatchIs, FileTyped
  <2>2. Len(Sent) \in Nat /\ DOMAIN Sent = 1 .. Len(Sent)
    BY <2>1, LenProperties
  <2> QED
    BY <2>1, <2>2
<1>4. ASSUME LineFailed(0, "422") \/ LineFailed(0, "500"), stored' = stored
      PROVE  Sends(calls'[0], stored') /\ calls'[0].step # "free"
  <2>1. calls'[0] = Onward(0, Noted(c))
    BY <1>1, <1>2, <1>4 DEF LineFailed
  <2> DEFINE d == Noted(c)
  <2>2. /\ Fresh(d, c.step, at) /\ ToSet(c.errors) \subseteq ToSet(d.errors)
        /\ c.truncated => d.truncated
        /\ at \in ToSet(d.errors) \/ d.truncated
    BY <1>1, NotedIs DEF Fresh
  <2> HIDE DEF d
  <2>3. ASSUME NEW j \in DOMAIN Sent, j <= at PROVE Accounted(d, j, stored)
    <3>1. CASE j = at
      BY <2>2, <3>1 DEF Accounted
    <3>2. CASE j < at
      <4>1. Accounted(c, j, stored)
        BY <1>1, <3>2 DEF Handled
      <4> QED
        BY <2>2, <4>1, AccountedStays
    <3> QED
      BY <1>1, <1>3, <2>3, <3>1, <3>2
  <2> HIDE DEF c, at
  <2> QED
    BY <1>1, <1>2, <1>4, <2>1, <2>2, <2>3, OnwardSends DEF d
<1>5. ASSUME NEW t \in Steps \ {"begin"}, Then(0, t), ToSet(stored) \subseteq ToSet(stored'),
             t = "evaluate" => Sent[at] \in ToSet(stored')
      PROVE  Sends(calls'[0], stored') /\ calls'[0].step # "free"
  <2> DEFINE d == [c EXCEPT !.step = t]
  <2>1. calls'[0] = d
    BY <1>2, <1>5 DEF Then
  <2>2. /\ Fresh(d, t, at) /\ d.errors = c.errors /\ d.truncated = c.truncated
    BY <1>1 DEF Fresh, CallRecord
  <2> HIDE DEF d
  <2>3. ASSUME NEW j \in DOMAIN Sent, Handled(d, j) PROVE Accounted(d, j, stored')
    <3>1. CASE j < at
      <4>1. Accounted(c, j, stored)
        BY <1>1, <3>1 DEF Handled
      <4> QED
        BY <1>5, <2>2, <4>1, AccountedStays
    <3>2. CASE ~ (j < at)
      BY <1>5, <2>2, <2>3, <3>2 DEF Handled, Fresh, Accounted, Steps
    <3> QED
      BY <3>1, <3>2
  <2>4. t \in Steps /\ t # "begin" /\ t # "free"
    BY <1>5 DEF Steps
  <2> HIDE DEF c, at
  <2> QED
    BY <1>1, <2>1, <2>2, <2>3, <2>4 DEF Sends, Fresh
<1>6. ASSUME LineDone(0), stored' = stored, c.step = "evaluate"
      PROVE  Sends(calls'[0], stored') /\ calls'[0].step # "free"
  <2>1. calls'[0] = Onward(0, c)
    BY <1>2, <1>6 DEF LineDone
  <2>2. \A j \in DOMAIN Sent : j <= at => Accounted(c, j, stored)
    <3>1. \A j \in DOMAIN Sent : j <= at => j < at \/ j = at
      BY <1>1, <1>3
    <3> QED
      BY <1>1, <1>6, <3>1 DEF Handled
  <2> HIDE DEF c, at
  <2> QED
    BY <1>1, <1>2, <1>6, <2>1, <2>2, OnwardSends
<1>7. CASE BeginCall(0)
  <2> DEFINE doc == decoders[c.source]
             csv == c.kind = "file" /\ doc.kind = "decoder" /\ doc.type = "csv"
  <2>1. /\ c.step = "begin" /\ at = 1 /\ stored' = stored
        /\ calls' = [calls EXCEPT ![0] =
             IF ~csv THEN [c EXCEPT !.step = "decode"]
             ELSE IF Len(c.lines) = 1 THEN Answered(0, c, "ok")
             ELSE [c EXCEPT !.step = "decode", !.at = 2, !.csv = doc]]
    BY <1>7 DEF BeginCall, On, Sends
  <2>2. CASE ~ csv
    <3>1. Then(0, "decode")
      BY <2>1, <2>2 DEF Then
    <3> QED
      BY <1>5, <2>1, <3>1 DEF Steps
  <2>3. CASE csv
    <3>1. doc \in Docs /\ doc.type = "csv" /\ doc.source = up.source
      <4>1. c.source = up.source /\ doc \in Docs \cup {NoFile} /\ NoFile.kind # "decoder"
        BY <1>1, <1>2 DEF Fresh, DecoderTypes, NoFile
      <4>2. doc \in Docs /\ doc # NoFile
        BY <2>3, <4>1
      <4> QED
        BY <1>2, <2>3, <4>1, <4>2 DEF DecoderTypes
    <3>2. up.csv
      BY <1>2, <3>1, UploadAssumption
    <3> HIDE DEF doc, csv
    <3>3. CASE Len(c.lines) = 1
      <4>1. calls'[0] = Answered(0, c, "ok")
        BY <1>2, <2>1, <2>3, <3>3
      <4>2. \A j \in DOMAIN Sent : Accounted(c, j, stored)
        <5>1. c.lines = Sent /\ \A j \in DOMAIN Sent : j = 1
          BY <1>1, <1>3, <3>3 DEF Fresh
        <5> QED
          BY <3>2, <5>1 DEF Accounted
      <4> HIDE DEF c
      <4> QED
        BY <1>1, <2>1, <4>1, <4>2, AnsweredSends
    <3>4. CASE Len(c.lines) # 1
      <4> DEFINE d == [c EXCEPT !.step = "decode", !.at = 2, !.csv = doc]
      <4>1. calls'[0] = d
        BY <1>2, <2>1, <2>3, <3>4
      <4>2. Fresh(d, "decode", 2)
        BY <1>1, <3>1 DEF Fresh, CallRecord, Steps
      <4> HIDE DEF d
      <4>3. 2 \in DOMAIN Sent /\ \A j \in DOMAIN Sent : j < 2 => j = 1
        <5>1. c.lines = Sent
          BY <1>1 DEF Fresh
        <5> QED
          BY <1>3, <3>4, <5>1
      <4>4. \A j \in DOMAIN Sent : Handled(d, j) => Accounted(d, j, stored')
        BY <3>2, <4>2, <4>3 DEF Handled, Accounted, Fresh
      <4> QED
        BY <4>1, <4>2, <4>3, <4>4 DEF Sends, Fresh
    <3> QED
      BY <3>3, <3>4
  <2> QED
    BY <2>2, <2>3
<1>8. CASE DecodeLine(0)
  <2>1. /\ stored' = stored
        /\ \/ Then(0, "insert") \/ LineFailed(0, "422")
           \/ calls' = [calls EXCEPT ![0] = Answered(0, c, "500")]
    BY <1>8 DEF DecodeLine
  <2>2. CASE calls' = [calls EXCEPT ![0] = Answered(0, c, "500")]
    <3> DEFINE d == [c EXCEPT !.step = "answered", !.answer = "500"]
    <3>1. calls'[0] = d
      BY <1>2, <2>2 DEF Answered
    <3>2. /\ d \in CallRecord /\ d.kind = "file" /\ d.source = up.source /\ d.lines = Sent
          /\ d.step = "answered" /\ d.answer = "500"
      BY <1>1 DEF Fresh, CallRecord
    <3> HIDE DEF d
    <3> QED
      BY <3>1, <3>2 DEF Sends, Handled, Steps
  <2> QED
    BY <1>4, <1>5, <2>1, <2>2 DEF Steps
<1>9. CASE InsertLine(0)
  <2>1. stored' = Append(stored, Sent[at]) /\ Then(0, "evaluate")
    BY <1>1, <1>9 DEF InsertLine
  <2>2. ToSet(stored) \subseteq ToSet(stored') /\ Sent[at] \in ToSet(stored')
    <3> DEFINE S == ToSet(stored) \cup {Sent[at]}
    <3>1. stored \in Seq(S)
      BY <1>2, SeqMonotonic
    <3>2. ToSet(Append(stored, Sent[at])) = S
      BY <3>1, AppendDoes
    <3> QED
      BY <2>1, <3>2
  <2> QED
    BY <1>5, <2>1, <2>2 DEF Steps
<1>10. CASE InsertRaises(0) \/ EvaluateRaises(0)
  BY <1>4, <1>10 DEF InsertRaises, EvaluateRaises
<1>11. CASE EvaluateLine(0)
  BY <1>6, <1>11 DEF EvaluateLine, On
<1> QED
  BY <1>7, <1>8, <1>9, <1>10, <1>11 DEF Serve, Fail

LEMMA SettledStays ==
  ASSUME ToSet(stored) \subseteq ToSet(stored'), rejects \subseteq rejects',
         dropped \subseteq dropped', up'.csv = up.csv, NEW i, Settled(i)
  PROVE  Settled(i)'
<1>1. TogetherWithPieces(i)' = TogetherWithPieces(i)
  BY DEF TogetherWithPieces
<1> QED
  BY <1>1 DEF Settled

LEMMA SentStays ==
  ASSUME up'.csv = up.csv, up'.first = up.first
  PROVE  Sent' = Sent /\ Whole' = Whole
<1>1. Sent' = Sent
  BY DEF Sent, Batch
<1> QED
  BY <1>1 DEF Whole

LEMMA SendsStays ==
  ASSUME up'.csv = up.csv, up'.first = up.first, up'.source = up.source,
         calls'[0].step # "free" => up'.state = "wait" /\ (Whole => Sends(calls'[0], stored'))
  PROVE  UpCall'
<1>1. Sent' = Sent /\ Whole' = Whole
  BY SentStays
<1>2. ASSUME Sends(calls'[0], stored') PROVE Sends(calls[0], stored)'
  BY <1>1, <1>2 DEF Sends, Handled, Accounted
<1> QED
  BY <1>1, <1>2 DEF UpCall

LEMMA ServesUp ==
  ASSUME Runs("upload"), UploadInv, DecoderTypes, NEW k \in Slots, Serve(k) \/ Fail(k),
         UNCHANGED uploadVars
  PROVE  UploadInv'
<1>1. /\ UpTypes /\ UpCall /\ \A i \in DOMAIN FileLines : i < up.first => Settled(i)
      /\ up' = up /\ rejects' = rejects /\ dropped' = dropped
  BY DEF UploadInv, uploadVars
<1>2. /\ scenario' = scenario /\ calls[k].step # "free"
      /\ calls' = [i \in Slots |-> calls'[i]] /\ \A j \in Slots \ {k} : calls'[j] = calls[j]
      /\ stored' = stored \/ \E l : stored' = Append(stored, l)
  <2>1. \E d : calls' = [calls EXCEPT ![k] = d]
    BY DEF Serve, Fail, BeginCall, DecodeLine, InsertLine, EvaluateLine, InsertRaises,
           EvaluateRaises, Then, LineDone, LineFailed
  <2>2. /\ scenario' = scenario /\ calls[k].step # "free"
        /\ stored' = stored \/ stored' = Append(stored, Line(k))
    BY DEF Serve, Fail, BeginCall, DecodeLine, InsertLine, EvaluateLine, InsertRaises,
           EvaluateRaises, On
  <2>3. calls = [i \in Slots |-> calls[i]]
    BY <1>1 DEF UpTypes
  <2> QED
    BY <2>1, <2>2, <2>3
<1>3. stored' \in Seq(ToSet(stored')) /\ ToSet(stored) \subseteq ToSet(stored')
  BY <1>1, <1>2, MoreStored DEF UpTypes
<1>4. UpTypes'
  BY <1>1, <1>2, <1>3 DEF UpTypes
<1>5. UpCall'
  <2>1. CASE k = 0
    <3>1. up.state = "wait" /\ (Whole => Sends(calls[0], stored))
      BY <1>1, <1>2, <2>1 DEF UpCall
    <3>2. Whole => Sends(calls'[0], stored')
      BY <1>1, <2>1, <3>1, ServeSends
    <3> QED
      BY <1>1, <3>1, <3>2, SendsStays
  <2>2. CASE k # 0
    <3>1. calls'[0] = calls[0]
      BY <1>2, <2>2, SlotsFinite
    <3>2. ASSUME Sends(calls[0], stored) PROVE Sends(calls'[0], stored')
      <4>1. \A j : Accounted(calls[0], j, stored) => Accounted(calls[0], j, stored')
        BY <1>3, AccountedStays
      <4> QED
        BY <3>1, <3>2, <4>1 DEF Sends
    <3>3. calls'[0].step # "free" => up'.state = "wait" /\ (Whole => Sends(calls'[0], stored'))
      BY <1>1, <3>1, <3>2 DEF UpCall
    <3> QED
      BY <1>1, <3>3, SendsStays
  <2> QED
    BY <2>1, <2>2
<1>6. \A i \in DOMAIN FileLines : i < up'.first => Settled(i)'
  BY <1>1, <1>3, SettledStays
<1> QED
  BY <1>4, <1>5, <1>6 DEF UploadInv

LEMMA Times ==
  ASSUME NEW b \in Nat
  PROVE  /\ b * BatchSize \in Nat /\ b <= b * BatchSize
         /\ (b + 1) * BatchSize = b * BatchSize + BatchSize
<1>1. BatchSize \in Nat /\ BatchSize >= 1
  BY FileTyped
<1> DEFINE r == BatchSize - 1
<1>2. r \in Nat /\ BatchSize = r + 1
  BY <1>1
<1> HIDE DEF r
<1>3. b * r \in Nat /\ b * (r + 1) = b * r + b
  BY <1>2
<1>4. (b + 1) * BatchSize = b * BatchSize + BatchSize
  BY <1>1
<1> QED
  BY <1>2, <1>3, <1>4

(* The next batch begins when all lines of this one are settled.           *)
LEMMA NextBatchKeeps ==
  ASSUME UpTypes, up.state = "wait", NextBatch, UNCHANGED stored,
         calls' = [k \in Slots |-> calls'[k]], calls'[0].step = "free",
         \A i \in DOMAIN FileLines : i < up.first + Len(Batch) => Settled(i)'
  PROVE  UploadInv'
<1> DEFINE n == Len(Batch)
           next == up.first + n
           state == IF next > Len(FileLines) THEN "done" ELSE "send"
<1>1. up' = [up EXCEPT !.first = next, !.attempt = 1, !.state = state]
  BY DEF NextBatch
<1>2. /\ up \in Ups /\ up.first \in DOMAIN FileLines
      /\ up.source \in RowSources => up.csv
  BY DEF UpTypes
<1>3. PICK b \in 0 .. Len(FileLines) : up.first = b * BatchSize + 1
  BY DEF UpTypes
<1>4. /\ n \in 1 .. BatchSize /\ n \in Nat /\ next <= Len(FileLines) + 1
      /\ next <= Len(FileLines) => n = BatchSize
  BY <1>2, BatchIs
<1>5. Len(FileLines) \in Nat /\ DOMAIN FileLines = 1 .. Len(FileLines) /\ BatchSize \in Nat
      /\ up.first \in Nat /\ up.first >= 1
  BY <1>2, FileTyped
<1>6. next \in Nat /\ next >= 1
  BY <1>4, <1>5
<1>7. /\ state \in {"done", "send"} /\ (state = "send" => next <= Len(FileLines))
      /\ state = "done" => next > Len(FileLines)
  BY <1>5, <1>6
<1> HIDE DEF state
<1>8. /\ up' \in Ups /\ up'.first = next /\ up'.state = state /\ up'.csv = up.csv
      /\ up'.source = up.source
  <2> HIDE DEF next
  <2> QED
    BY <1>1, <1>2, <1>6, <1>7 DEF Ups
<1>9. ASSUME state = "send" PROVE \E c \in 0 .. Len(FileLines) : next = c * BatchSize + 1
  <2>1. b \in Nat /\ b + 1 \in Nat
    BY <1>5
  <2> DEFINE t == b * BatchSize
             u == (b + 1) * BatchSize
  <2>2. t \in Nat /\ u \in Nat /\ b + 1 <= u /\ u = t + BatchSize
    BY <2>1, Times
  <2> HIDE DEF t, u
  <2>3. up.first = t + 1 /\ n = BatchSize /\ next <= Len(FileLines)
    BY <1>3, <1>4, <1>7, <1>9 DEF t
  <2> HIDE DEF n
  <2>4. next = u + 1 /\ b + 1 \in 0 .. Len(FileLines)
    BY <1>5, <2>1, <2>2, <2>3
  <2> QED
    BY <2>4 DEF u
<1>10. UpTypes'
  <2>1. stored' \in Seq(ToSet(stored'))
    BY DEF UpTypes
  <2>2. state = "send" => next \in DOMAIN FileLines
    BY <1>5, <1>6, <1>7
  <2> HIDE DEF next
  <2> QED
    BY <1>2, <1>7, <1>8, <1>9, <2>1, <2>2 DEF UpTypes
<1>11. UpCall'
  BY DEF UpCall
<1> QED
  BY <1>8, <1>10, <1>11 DEF UploadInv

(* A line of the batch at hand.                                            *)
LEMMA OfBatch ==
  ASSUME up.first \in DOMAIN FileLines, NEW i \in DOMAIN FileLines,
         up.first <= i, i < up.first + Len(Batch)
  PROVE  \E p \in 1 .. Len(Batch) : i = up.first + p - 1 /\ Batch[p] = FileLines[i]
<1> DEFINE n == Len(Batch)
           p == i - up.first + 1
<1>1. i \in Nat /\ up.first \in Nat /\ n \in Nat
  BY FileTyped, BatchIs
<1>2. p \in 1 .. n /\ i = up.first + p - 1
  <2> HIDE DEF n
  <2> QED
    BY <1>1 DEF n
<1>3. \A q \in 1 .. n : Batch[q] = FileLines[up.first + q - 1]
  BY BatchIs
<1> HIDE DEF p
<1> QED
  BY <1>2, <1>3

(* A line among those that the server takes for several settles its batch. *)
LEMMA PiecesSettle ==
  ASSUME UpTypes, up.state = "wait", ~ Whole, NEW i \in DOMAIN FileLines,
         up.first <= i, i < up.first + Len(Batch)
  PROVE  TogetherWithPieces(i)
<1>1. up.first \in DOMAIN FileLines
  BY DEF UpTypes
<1>2. PICK q \in DOMAIN Sent : InPieces(Sent[q])
  BY DEF Whole
<1> DEFINE n == Len(Batch)
           p == q - Shift
<1>3. /\ Shift \in {0, 1} /\ n \in Nat /\ q \in 1 .. n + Shift
      /\ \A r \in 1 .. n : Sent[r + Shift] = Batch[r]
      /\ up.csv => Sent[1] = Header
      /\ up.csv <=> Shift = 1
  BY <1>1, BatchIs, SentIs DEF Shift
<1>4. CASE q \in 1 .. Shift
  <2>1. Shift = 1 /\ q = 1
    BY <1>3, <1>4
  <2> QED
    BY <1>2, <1>3, <2>1 DEF TogetherWithPieces
<1>5. CASE q \notin 1 .. Shift
  <2>1. p \in 1 .. n /\ p + Shift = q
    <3> HIDE DEF n
    <3> QED
      BY <1>3, <1>5
  <2>2. InPieces(Batch[p])
    <3> HIDE DEF p
    <3> QED
      BY <1>2, <1>3, <2>1
  <2> DEFINE j == up.first + p - 1
  <2>3. j \in DOMAIN FileLines /\ InPieces(FileLines[j])
    <3> HIDE DEF p
    <3> QED
      BY <1>1, <2>1, <2>2, BatchIs
  <2>4. PICK b \in 0 .. Len(FileLines) : up.first = b * BatchSize + 1
    BY DEF UpTypes
  <2>5. n <= BatchSize /\ BatchSize \in Nat /\ b \in Nat /\ i \in Nat
    BY <1>1, BatchIs, FileTyped
  <2> DEFINE t == b * BatchSize
  <2>6. t \in Nat /\ up.first = t + 1
    BY <2>4, <2>5, Times
  <2> HIDE DEF t, n, p
  <2>7. {i, j} \subseteq t + 1 .. t + BatchSize
    BY <1>3, <2>1, <2>5, <2>6 DEF n
  <2> QED
    BY <2>3, <2>4, <2>7 DEF SameBatch, TogetherWithPieces, t
<1> QED
  BY <1>4, <1>5

(* With the answer every line is stored, named by an error or left out of  *)
(* the errors.                                                             *)
LEMMA AnswerSettles ==
  ASSUME UpTypes, UpCall, up.state = "wait", calls[0].step = "answered", calls[0].answer = "ok",
         UNCHANGED stored, up'.csv = up.csv,
         rejects' = rejects \cup {Named(m) : m \in ToSet(calls[0].errors)},
         dropped' = IF calls[0].truncated THEN dropped \cup ToSet(Batch) ELSE dropped,
         NEW i \in DOMAIN FileLines, up.first <= i, i < up.first + Len(Batch)
  PROVE  Settled(i)'
<1>1. up.first \in DOMAIN FileLines
  BY DEF UpTypes
<1>2. CASE ~ Whole
  <2>1. TogetherWithPieces(i)
    BY <1>2, PiecesSettle
  <2>2. TogetherWithPieces(i)'
    BY <2>1 DEF TogetherWithPieces
  <2> QED
    BY <2>2 DEF Settled
<1>3. CASE Whole
  <2>1. PICK p \in 1 .. Len(Batch) : i = up.first + p - 1 /\ Batch[p] = FileLines[i]
    BY <1>1, OfBatch
  <2> DEFINE q == p + Shift
             c == calls[0]
  <2>2. /\ q \in DOMAIN Sent /\ Sent[q] = FileLines[i] /\ p \in DOMAIN Batch
        /\ FileLines[i] \in ToSet(Batch) /\ q - Shift = p /\ ~ (up.csv /\ q = 1)
    <3>1. /\ Shift \in {0, 1} /\ Len(Batch) \in Nat /\ DOMAIN Batch = 1 .. Len(Batch)
          /\ Batch \in Seq(Lines) /\ DOMAIN Sent = 1 .. Len(Batch) + Shift
          /\ \A r \in 1 .. Len(Batch) : Sent[r + Shift] = Batch[r]
          /\ up.csv => Shift = 1
      BY <1>1, BatchIs, SentIs DEF Shift
    <3>2. q \in 1 .. Len(Batch) + Shift /\ q - Shift = p /\ ~ (up.csv /\ q = 1)
      BY <3>1
    <3>3. Batch[p] \in ToSet(Batch)
      BY <3>1 DEF ToSet
    <3>4. Sent[q] = Batch[p]
      BY <3>1
    <3> HIDE DEF q
    <3> QED
      BY <2>1, <3>1, <3>2, <3>3, <3>4
  <2>3. Sends(c, stored)
    BY <1>3 DEF UpCall
  <2> HIDE DEF q
  <2>4. Accounted(c, q, stored)
    BY <2>2, <2>3 DEF Sends, Handled
  <2>5. CASE Sent[q] \in ToSet(stored)
    BY <2>2, <2>5 DEF Settled
  <2>6. CASE q \in ToSet(c.errors)
    <3>1. Named(q) = Batch[p]
      BY <2>2 DEF Named, Shift
    <3>2. Named(q) \in rejects'
      BY <2>6
    <3> QED
      BY <2>1, <3>1, <3>2 DEF Settled
  <2>7. CASE c.truncated
    BY <2>2, <2>7 DEF Settled
  <2> QED
    BY <2>2, <2>4, <2>5, <2>6, <2>7 DEF Accounted
<1> QED
  BY <1>2, <1>3

LEMMA UploadStepKeeps ==
  ASSUME Runs("upload"), UploadInv, Uploads
  PROVE  UploadInv'
<1>1. /\ UpTypes /\ UpCall /\ up \in Ups /\ calls = [k \in Slots |-> calls[k]] /\ 0 \in Slots
      /\ \A i \in DOMAIN FileLines : i < up.first => Settled(i)
  BY SlotsFinite DEF UploadInv, UpTypes
<1>2. CASE \E s \in Sources, csv \in BOOLEAN : StartUpload(s, csv) /\ UNCHANGED ingestVars
  <2>1. PICK s \in Sources, csv \in BOOLEAN : StartUpload(s, csv) /\ UNCHANGED ingestVars
    BY <1>2
  <2>2. /\ up' = [up EXCEPT !.source = s, !.csv = csv, !.state = "send", !.attempt = 1]
        /\ up.state = "off" /\ up.first = 1 /\ (s \in RowSources => csv)
        /\ UNCHANGED <<calls, stored>>
    BY <1>1, <2>1 DEF StartUpload, UpAt, ingestVars, UpTypes
  <2>3. /\ up' \in Ups /\ up'.source = s /\ up'.csv = csv /\ up'.state = "send"
        /\ up'.first = 1
    BY <1>1, <2>2 DEF Ups
  <2>4. UpTypes'
    BY <1>1, <2>2, <2>3 DEF UpTypes
  <2>5. UpCall'
    BY <1>1, <2>2 DEF UpCall
  <2>6. \A i \in DOMAIN FileLines : ~ (i < 1)
    BY FileTyped
  <2> QED
    BY <2>3, <2>4, <2>5, <2>6 DEF UploadInv
<1>3. CASE SendBatch
  <2> DEFINE c == Call("file", up.source, Body)
  <2>1. /\ up.state = "send" /\ up' = [up EXCEPT !.state = "wait"]
        /\ calls' = [calls EXCEPT ![0] = c]
        /\ UNCHANGED <<stored, rejects, dropped>>
    BY <1>3 DEF SendBatch, UpAt, Submit
  <2>2. /\ up' \in Ups /\ up'.state = "wait" /\ up'.first = up.first /\ up'.csv = up.csv
        /\ up'.source = up.source
    BY <1>1, <2>1 DEF Ups
  <2>3. up.first \in DOMAIN FileLines /\ up.source \in Sources
    BY <1>1, <2>1 DEF UpTypes, Ups
  <2>4. ASSUME Whole PROVE Sends(c, stored)
    <3>1. Sent \in Seq(Lines) /\ 1 \in DOMAIN Sent /\ \A j \in DOMAIN Sent : ~ (j < 1)
      <4>1. /\ Sent \in Seq(Lines) /\ Len(Batch) \in Nat /\ Len(Batch) >= 1 /\ Shift \in {0, 1}
            /\ DOMAIN Sent = 1 .. Len(Batch) + Shift
        BY <2>3, SentIs, BatchIs, FileTyped
      <4> QED
        BY <4>1
    <3>2. Body = Sent
      BY <2>4 DEF Whole, Body
    <3>3. /\ c \in CallRecord /\ c.kind = "file" /\ c.source = up.source /\ c.lines = Sent
          /\ c.at = 1 /\ c.step = "begin"
      BY <2>3, <3>1, <3>2, CallTyped
    <3> HIDE DEF c
    <3> QED
      BY <3>1, <3>3 DEF Sends, Handled
  <2> HIDE DEF c
  <2>5. calls' = [k \in Slots |-> calls'[k]] /\ calls'[0] = c
    BY <1>1, <2>1
  <2>6. UpCall'
    BY <2>1, <2>2, <2>4, <2>5, SendsStays
  <2>7. UpTypes'
    BY <1>1, <2>1, <2>2, <2>5 DEF UpTypes
  <2>8. \A i \in DOMAIN FileLines : i < up'.first => Settled(i)'
    BY <1>1, <2>1, <2>2, SettledStays
  <2> QED
    BY <2>6, <2>7, <2>8 DEF UploadInv
<1>4. CASE BatchDone
  <2>1. /\ up.state = "wait" /\ calls[0].step = "answered" /\ calls[0].answer = "ok" /\ NextBatch
        /\ calls' = [calls EXCEPT ![0] = NoCall] /\ stored' = stored
        /\ rejects' = rejects \cup {Named(m) : m \in ToSet(calls[0].errors)}
        /\ dropped' = IF calls[0].truncated THEN dropped \cup ToSet(Batch) ELSE dropped
    BY <1>4 DEF BatchDone, UpAt, Receive, On
  <2>2. up'.csv = up.csv
    BY <1>1, <2>1 DEF NextBatch, Ups
  <2>3. calls' = [k \in Slots |-> calls'[k]] /\ calls'[0].step = "free"
    BY <1>1, <2>1, NoCallTyped
  <2>4. ASSUME NEW i \in DOMAIN FileLines, i < up.first + Len(Batch) PROVE Settled(i)'
    <3>1. CASE i < up.first
      <4>1. rejects \subseteq rejects' /\ dropped \subseteq dropped'
        BY <2>1
      <4> QED
        BY <1>1, <2>1, <2>2, <3>1, <4>1, SettledStays
    <3>2. CASE up.first <= i
      BY <1>1, <2>1, <2>2, <2>4, <3>2, AnswerSettles
    <3>3. i \in Nat /\ up.first \in Nat
      BY <1>1, FileTyped DEF Ups
    <3> QED
      BY <3>1, <3>2, <3>3
  <2> QED
    BY <1>1, <2>1, <2>3, <2>4, NextBatchKeeps
<1>5. CASE BatchFails
  <2>1. /\ up.state = "wait" /\ stored' = stored /\ dropped' = dropped
        /\ \/ NextBatch /\ rejects' = rejects \cup ToSet(Batch)
           \/ up' = [up EXCEPT !.state = "send", !.attempt = @ + 1] /\ rejects' = rejects
    BY <1>5 DEF BatchFails, UpAt, Abandon, BrokenOff, Receive, ingestVars, AllOfBatch
  <2>2. calls' = [k \in Slots |-> calls'[k]] /\ calls'[0].step = "free"
    <3>1. CASE BrokenOff
      BY <1>1, <3>1 DEF BrokenOff, On, ingestVars
    <3>2. CASE Abandon
      <4>1. \/ calls' = [calls EXCEPT ![0] = NoCall]
            \/ \E k \in Slots \ {0} : calls' = [calls EXCEPT ![k] = calls[0], ![0] = NoCall]
        BY <3>2 DEF Abandon
      <4> QED
        BY <1>1, <4>1, NoCallTyped
    <3>3. CASE Receive({"500"})
      BY <1>1, <3>3, NoCallTyped DEF Receive
    <3> QED
      BY <1>5, <3>1, <3>2, <3>3 DEF BatchFails
  <2>3. up'.csv = up.csv
    BY <1>1, <2>1 DEF NextBatch, Ups
  <2>4. \A i \in DOMAIN FileLines : i < up.first => Settled(i)'
    BY <1>1, <2>1, <2>3, SettledStays
  <2>5. CASE NextBatch /\ rejects' = rejects \cup ToSet(Batch)
    <3>1. ASSUME NEW i \in DOMAIN FileLines, i < up.first + Len(Batch), up.first <= i
          PROVE  Settled(i)'
      <4>1. up.first \in DOMAIN FileLines
        BY <1>1, <2>1 DEF UpTypes
      <4>2. PICK p \in 1 .. Len(Batch) : Batch[p] = FileLines[i]
        BY <3>1, <4>1, OfBatch
      <4>3. Batch[p] \in ToSet(Batch)
        BY <4>1, BatchIs DEF ToSet
      <4> QED
        BY <2>5, <4>2, <4>3 DEF Settled
    <3>2. \A i \in DOMAIN FileLines : i \in Nat /\ up.first \in Nat
      BY <1>1, FileTyped DEF Ups
    <3>3. \A i \in DOMAIN FileLines : i < up.first + Len(Batch) => Settled(i)'
      BY <2>4, <3>1, <3>2
    <3> QED
      BY <1>1, <2>1, <2>2, <2>5, <3>3, NextBatchKeeps
  <2>6. CASE up' = [up EXCEPT !.state = "send", !.attempt = @ + 1] /\ rejects' = rejects
    <3> DEFINE next == up.attempt + 1
    <3>1. next \in Nat
      BY <1>1 DEF Ups
    <3>2. up' = [up EXCEPT !.state = "send", !.attempt = next]
      BY <2>6
    <3> HIDE DEF next
    <3>3. /\ up' \in Ups /\ up'.state = "send" /\ up'.first = up.first /\ up'.csv = up.csv
          /\ up'.source = up.source
      BY <1>1, <3>1, <3>2 DEF Ups
    <3>4. UpTypes'
      BY <1>1, <2>1, <2>2, <3>3 DEF UpTypes
    <3>5. UpCall'
      BY <2>2 DEF UpCall
    <3> QED
      BY <2>4, <3>3, <3>4, <3>5 DEF UploadInv
  <2> QED
    BY <2>1, <2>5, <2>6
<1>6. CASE Unauthorized
  <2>1. /\ up.state = "send" /\ up' = [up EXCEPT !.state = "aborted"]
        /\ UNCHANGED <<calls, stored, rejects, dropped>>
    BY <1>6 DEF Unauthorized, UpAt
  <2>2. /\ up' \in Ups /\ up'.state = "aborted" /\ up'.first = up.first /\ up'.csv = up.csv
    BY <1>1, <2>1 DEF Ups
  <2>3. UpTypes'
    BY <1>1, <2>1, <2>2 DEF UpTypes
  <2>4. UpCall'
    BY <1>1, <2>1 DEF UpCall
  <2>5. \A i \in DOMAIN FileLines : i < up'.first => Settled(i)'
    BY <1>1, <2>1, <2>2, SettledStays
  <2> QED
    BY <2>3, <2>4, <2>5 DEF UploadInv
<1> QED
  BY <1>2, <1>3, <1>4, <1>5, <1>6 DEF Uploads

LEMMA UploadStays ==
  ASSUME UploadInv, UNCHANGED <<scenario, uploadVars>>,
         Runs("upload") => UNCHANGED <<calls, stored>>
  PROVE  UploadInv'
<1>1. CASE Runs("upload")
  <2>1. /\ UpTypes /\ UpCall /\ \A i \in DOMAIN FileLines : i < up.first => Settled(i)
        /\ UNCHANGED <<up, rejects, dropped, calls, stored>>
    BY <1>1 DEF UploadInv, uploadVars
  <2>2. UpTypes'
    BY <2>1 DEF UpTypes
  <2>3. UpCall'
    BY <2>1, SendsStays DEF UpCall
  <2>4. \A i \in DOMAIN FileLines : i < up'.first => Settled(i)'
    BY <2>1, SettledStays
  <2> QED
    BY <2>2, <2>3, <2>4 DEF UploadInv
<1>2. CASE ~ Runs("upload")
  BY <1>2 DEF UploadInv, Runs
<1> QED
  BY <1>1, <1>2

LEMMA UploadNext ==
  ASSUME FollowInv, DecoderInv, UploadInv, [Next]_vars
  PROVE  UploadInv'
<1>1. CASE \E a \in Admins : Administer(a)
  BY <1>1, UploadStays DEF Administer, ingestVars
<1>2. ASSUME NEW k \in Slots, ServeCall(k) \/ FailCall(k)
      PROVE  UploadInv'
  <2>1. (Serve(k) \/ Fail(k)) /\ UNCHANGED uploadVars
    BY <1>2 DEF ServeCall, FailCall
  <2>2. scenario' = scenario
    BY <2>1 DEF Serve, Fail, BeginCall, DecodeLine, InsertLine, EvaluateLine, InsertRaises,
                EvaluateRaises
  <2>3. CASE Runs("upload")
    BY <2>1, <2>3, ServesUp DEF DecoderInv
  <2>4. CASE ~ Runs("upload")
    BY <2>1, <2>2, <2>4, UploadStays
  <2> QED
    BY <2>3, <2>4
<1>3. CASE Log
  BY <1>3, UploadStays DEF Log, LogStep, ingestVars
<1>4. CASE TailSteps
  <2>1. UNCHANGED uploadVars
    BY <1>4 DEF TailSteps
  <2>2. scenario' = scenario
    BY <1>4 DEF TailSteps, TailPosts, Post, PostDone, PostFails, Submit, Receive, Abandon, BrokenOff,
                ingestVars
  <2>3. Followed
    BY <1>4 DEF TailSteps, TailPosts, Post, PostDone, PostFails, StartTail, Follow, ReadLine,
                LookAtPath, OpenNew, TailAt, FollowInv, TailInv, Opens, Followed
  <2>4. ~ Runs("upload")
    BY <2>3 DEF Followed, Runs
  <2> QED
    BY <2>1, <2>2, <2>4, UploadStays
<1>5. CASE UploadSteps
  <2>1. Uploads
    BY <1>5 DEF UploadSteps
  <2>2. Runs("upload")
    BY <2>1 DEF Uploads, StartUpload, SendBatch, BatchDone, BatchFails, Unauthorized, UpAt,
                FollowInv, UploadRuns
  <2> QED
    BY <2>1, <2>2, UploadStepKeeps
<1>6. CASE ListenSteps
  <2>1. Listen /\ UNCHANGED uploadVars
    BY <1>6 DEF ListenSteps
  <2>2. scenario' = scenario
    BY <2>1 DEF Listen, SendBulk, DropLong, DropForeign, Overrun, HandOver, Submit, ingestVars
  <2>3. Runs("socket") \/ Runs("beats")
    BY <2>1 DEF Listen, SendBulk, DropLong, DropForeign, Overrun, HandOver, Arrives
  <2>4. ~ Runs("upload")
    BY <2>3 DEF Runs
  <2> QED
    BY <2>1, <2>2, <2>4, UploadStays
<1>7. CASE Restart
  <2>1. /\ UNCHANGED <<scenario, uploadVars, stored>> /\ calls' = [k \in Slots |-> NoCall]
    BY <1>7 DEF Restart, IngestRestart
  <2>2. CASE Runs("upload")
    <3>1. /\ UpTypes /\ \A i \in DOMAIN FileLines : i < up.first => Settled(i)
          /\ UNCHANGED <<up, rejects, dropped>>
      BY <2>1, <2>2 DEF UploadInv, uploadVars
    <3>2. UpTypes'
      BY <2>1, <3>1 DEF UpTypes
    <3>3. UpCall'
      BY <2>1, NoCallTyped, SlotsFinite DEF UpCall
    <3>4. \A i \in DOMAIN FileLines : i < up'.first => Settled(i)'
      BY <2>1, <3>1, SettledStays
    <3> QED
      BY <3>2, <3>3, <3>4 DEF UploadInv
  <2>3. CASE ~ Runs("upload")
    BY <2>1, <2>3, UploadStays
  <2> QED
    BY <2>2, <2>3
<1>8. CASE UNCHANGED vars
  BY <1>8, UploadStays DEF vars, ingestVars
<1> QED
  BY <1>1, <1>2, <1>3, <1>4, <1>5, <1>6, <1>7, <1>8 DEF Next

LEMMA UploadStarts ==
  ASSUME Init
  PROVE  UploadInv
<1>1. /\ calls = [k \in Slots |-> NoCall] /\ stored = <<>>
  BY DEF Init, IngestInit
<1>2. PICK s \in Sources : up = [source |-> s, csv |-> FALSE, state |-> "off", first |-> 1, attempt |-> 0]
  BY ListenersAssumption DEF Init, UploadInit
<1>3. up \in Ups /\ up.state = "off" /\ up.first = 1
  <2>1. ASSUME NEW b \in BOOLEAN
        PROVE  LET u == [source |-> s, csv |-> b, state |-> "off", first |-> 1, attempt |-> 0]
               IN  u \in Ups /\ u.state = "off" /\ u.first = 1
    BY DEF Ups
  <2> QED
    BY <1>2, <2>1
<1>4. /\ 1 \in DOMAIN FileLines /\ \A i \in DOMAIN FileLines : ~ (i < 1)
      /\ 0 \in 0 .. Len(FileLines) /\ 1 = 0 * BatchSize + 1
  BY FileTyped
<1>5. UpTypes
  <2>1. stored \in Seq(ToSet(stored))
    BY <1>1, EmptySeq
  <2>2. calls = [k \in Slots |-> calls[k]]
    BY <1>1
  <2>3. \E b \in 0 .. Len(FileLines) : up.first = b * BatchSize + 1
    BY <1>3, <1>4
  <2> QED
    BY <1>3, <1>4, <2>1, <2>2, <2>3 DEF UpTypes
<1>6. UpCall
  BY <1>1, NoCallTyped, SlotsFinite DEF UpCall
<1> QED
  BY <1>3, <1>4, <1>5, <1>6 DEF UploadInv

(* When the upload program is done every line of its file is stored or     *)
(* among the rejects, whatever became of its calls, but in batches that    *)
(* the server splits otherwise or that had more errors than an answer      *)
(* holds (scripts/ingest_file.py, upload_batch and main).                  *)
THEOREM DeliveryAccountsForFile == Spec => []RejectsComplete
<1>1. Init => FollowInv /\ DecoderInv /\ UploadInv
  BY UploadStarts, DecodersStart, TailStarts, SendStarts
     DEF FollowInv, SendInv, UploadRuns, Init, UploadInit
<1>2. FollowInv /\ DecoderInv /\ UploadInv /\ [Next]_vars
        => FollowInv' /\ DecoderInv' /\ UploadInv'
  BY FollowNext, DecodersNext, UploadNext
<1>3. FollowInv /\ UploadInv => RejectsComplete
  <2> SUFFICES ASSUME FollowInv, UploadInv, up.state = "done", NEW i \in DOMAIN FileLines
               PROVE  \/ FileLines[i] \in ToSet(stored) \cup rejects \cup dropped
                      \/ TogetherWithPieces(i)
    BY DEF RejectsComplete, UpAt
  <2>1. Runs("upload")
    BY DEF FollowInv, UploadRuns
  <2>2. i < up.first
    <3>1. up.first > Len(FileLines) /\ up.first \in Nat
      BY <2>1 DEF UploadInv, UpTypes, Ups
    <3> QED
      BY <3>1, FileTyped
  <2> QED
    BY <2>1, <2>2 DEF UploadInv, Settled
<1> QED
  BY <1>1, <1>2, <1>3, PTL DEF Spec

=============================================================================
