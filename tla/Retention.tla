----------------------------- MODULE Retention -----------------------------
(***************************************************************************)
(* Moving old events from the store to archive files:                      *)
(* app/retention/archiver.py, run by a daemon thread every six hours and   *)
(* by POST /retention/run, with nothing to keep the two apart.             *)
(*                                                                         *)
(* Events are numbered by ingested_at.  A file's name carries the day of   *)
(* the run's cutoff and one more than the number of files there are.       *)
(* Opening it for writing empties it if it exists; when two threads have   *)
(* opened one file, what the second to close it wrote is what it holds     *)
(* (its bytes replace the other's from the start of the file).             *)
(***************************************************************************)
EXTENDS Integers, FiniteSets

CONSTANTS
  Threads,     (* the daemon thread and request threads                    *)
  BatchSize,   (* batch_size                                               *)
  MaxRows,     (* bound: events ingested                                   *)
  MaxDay,      (* bound: days explored                                     *)
  MaxFailures  (* bound: crashes and failed writes explored                *)

ASSUME RetentionAssumption ==
  BatchSize \in Nat \ {0} /\ MaxRows \in Nat /\ MaxDay \in Nat /\ MaxFailures \in Nat

VARIABLES
  day,       (* days so far; the cutoff moves with it                      *)
  last,      (* number of the latest event                                 *)
  old,       (* events up to this one are past the retention time          *)
  store,     (* the events table                                           *)
  content,   (* the archive directory: the events in each file             *)
  pc,        (* where each archiver is                                     *)
  locals,    (* its local variables                                        *)
  failures,
  \* History, read by no action.
  overlap    (* two archivers have run at one time                         *)

world         == <<day, last, old>>
retentionVars == <<world, store, content, pc, locals, failures, overlap>>

-----------------------------------------------------------------------------

Events == 1 .. MaxRows
Name   == [day : 0 .. MaxDay, seq : Nat]
NoName == [day |-> 0, seq |-> 0]
Idle   == [day |-> 0, cutoff |-> 0, rows |-> {}, name |-> NoName, full |-> FALSE]

Running  == {t \in Threads : pc[t] # "idle"}
Names    == DOMAIN content
Archived == UNION {content[n] : n \in Names}

(* The k oldest events of a set: ORDER BY ingested_at LIMIT k.             *)
Oldest(k, events) == {e \in events : Cardinality({f \in events : f < e}) < k}

-----------------------------------------------------------------------------

RetentionInit ==
  /\ day = 0 /\ last = 0 /\ old = 0
  /\ store = {} /\ content = [n \in {} |-> {}]
  /\ pc = [t \in Threads |-> "idle"] /\ locals = [t \in Threads |-> Idle]
  /\ failures = 0 /\ overlap = FALSE

Insert ==
  /\ last < MaxRows
  /\ last' = last + 1 /\ store' = store \cup {last + 1}
  /\ UNCHANGED <<day, old, content, pc, locals, failures, overlap>>

(* A day passes: all events there are by now may have become old.          *)
NextDay ==
  /\ day < MaxDay
  /\ day' = day + 1 /\ old' \in old .. last
  /\ UNCHANGED <<last, store, content, pc, locals, failures, overlap>>

Begin(t) ==
  /\ pc[t] = "idle"
  /\ pc' = [pc EXCEPT ![t] = "query"]
  /\ locals' = [locals EXCEPT ![t] = [Idle EXCEPT !.day = day, !.cutoff = old]]
  /\ overlap' = (overlap \/ Running # {})
  /\ UNCHANGED <<world, store, content, failures>>

Return(t) == pc' = [pc EXCEPT ![t] = "idle"] /\ locals' = [locals EXCEPT ![t] = Idle]

(* query_events_for_archive                                                *)
Query(t) ==
  LET rows == Oldest(BatchSize, {e \in store : e <= locals[t].cutoff}) IN
  /\ pc[t] = "query"
  /\ IF rows = {} THEN Return(t)
     ELSE /\ pc' = [pc EXCEPT ![t] = "name"]
          /\ locals' = [locals EXCEPT ![t].rows = rows]
  /\ UNCHANGED <<world, store, content, failures, overlap>>

(* glob, count, add one                                                    *)
PickName(t) ==
  /\ pc[t] = "name"
  /\ locals' = [locals EXCEPT ![t].name = [day |-> locals[t].day, seq |-> Cardinality(Names) + 1]]
  /\ pc' = [pc EXCEPT ![t] = "open"]
  /\ UNCHANGED <<world, store, content, failures, overlap>>

(* gzip.open(path, "wt")                                                   *)
Open(t) ==
  /\ pc[t] = "open"
  /\ content' = [n \in Names \cup {locals[t].name} |->
                   IF n = locals[t].name THEN {} ELSE content[n]]
  /\ pc' = [pc EXCEPT ![t] = "write"]
  /\ UNCHANGED <<world, store, locals, failures, overlap>>

(* Mutated form of WriteFile: the rows after the chunk size are deleted,   *)
(* too.                                                                    *)
WriteFileKeepsRows(t) ==
  /\ pc[t] = "write"
  /\ \E k \in 1 .. Cardinality(locals[t].rows) :
       content' = [content EXCEPT ![locals[t].name] = Oldest(k, locals[t].rows)]
  /\ pc' = [pc EXCEPT ![t] = "delete"]
  /\ UNCHANGED <<world, store, locals, failures, overlap>>

(* The rows are written, up to the one that reaches the chunk size, and    *)
(* the file is closed.                                                     *)
WriteFile(t) ==
  /\ pc[t] = "write"
  /\ \E k \in 1 .. Cardinality(locals[t].rows), full \in BOOLEAN :
       LET part == Oldest(k, locals[t].rows) IN
       /\ k < Cardinality(locals[t].rows) => full
       /\ content' = [content EXCEPT ![locals[t].name] = part]
       /\ locals' = [locals EXCEPT ![t].rows = part, ![t].full = full]
  /\ pc' = [pc EXCEPT ![t] = "delete"]
  /\ UNCHANGED <<world, store, failures, overlap>>

(* Writing fails: the exception ends the run, the file stays, with some of *)
(* the rows.                                                               *)
WriteFails(t) ==
  /\ pc[t] = "write" /\ failures < MaxFailures
  /\ failures' = failures + 1
  /\ \E k \in 0 .. Cardinality(locals[t].rows) :
       content' = [content EXCEPT ![locals[t].name] = Oldest(k, locals[t].rows)]
  /\ Return(t)
  /\ UNCHANGED <<world, store, overlap>>

(* Mutated form of DeleteRows: a full batch is the last.                   *)
DeleteRowsOnce(t) ==
  /\ pc[t] = "delete"
  /\ store' = store \ locals[t].rows
  /\ Return(t)
  /\ UNCHANGED <<world, content, failures, overlap>>

(* delete_events_by_ids; a full batch asks for another round.              *)
DeleteRows(t) ==
  /\ pc[t] = "delete"
  /\ store' = store \ locals[t].rows
  /\ IF Cardinality(locals[t].rows) < BatchSize THEN Return(t)
     ELSE /\ pc' = [pc EXCEPT ![t] = "query"]
          /\ locals' = [locals EXCEPT ![t].rows = {}, ![t].name = NoName, ![t].full = FALSE]
  /\ UNCHANGED <<world, content, failures, overlap>>

(* The process dies; files and store are on disk.                          *)
ProcessDies ==
  /\ failures < MaxFailures /\ Running # {}
  /\ failures' = failures + 1
  /\ pc' = [t \in Threads |-> "idle"] /\ locals' = [t \in Threads |-> Idle]
  /\ UNCHANGED <<world, store, content, overlap>>

Step(t) ==
  \/ Begin(t) \/ Query(t) \/ PickName(t) \/ Open(t)
  \/ WriteFile(t) \/ WriteFails(t) \/ DeleteRows(t)

RetentionNext == Insert \/ NextDay \/ ProcessDies \/ \E t \in Threads : Step(t)

RetentionSpec == RetentionInit /\ [][RetentionNext]_retentionVars

-----------------------------------------------------------------------------
(* Types of the state.                                                     *)
TypeOK ==
  /\ day \in 0 .. MaxDay /\ last \in 0 .. MaxRows /\ old \in 0 .. last
  /\ store \subseteq Events
  /\ Names \subseteq Name /\ IsFiniteSet(Names) /\ content \in [Names -> SUBSET Events]
  /\ pc \in [Threads -> {"idle", "query", "name", "open", "write", "delete"}]
  /\ locals \in [Threads -> [day : 0 .. MaxDay, cutoff : 0 .. MaxRows, rows : SUBSET Events,
                          name : Name, full : BOOLEAN]]
  /\ failures \in 0 .. MaxFailures /\ overlap \in BOOLEAN

(* Every event is in the store or in an archive file, at every moment and  *)
(* through crashes and failed writes, as long as archivers have run one at *)
(* a time (archive_old_events writes the file before it deletes the rows,  *)
(* and never reuses the name of a file).                                   *)
KeptUnlessOverlap == overlap \/ \A e \in 1 .. last : e \in store \cup Archived

(* A run that ends after a deletion leaves no event before its cutoff in   *)
(* the store, unless its last file reached the chunk size: then the rest   *)
(* waits for the next run (line 51 takes a short file for the last batch). *)
RunDrains ==
  [][\A t \in Threads :
       (pc[t] = "delete" /\ pc'[t] = "idle" /\ ~ locals[t].full /\ failures' = failures)
         => \A e \in store' : e > locals[t].cutoff]_retentionVars

=============================================================================
