----------------------------- MODULE JobsProofs -----------------------------
(***************************************************************************)
(* Proofs about the jobs that run beside the requests: pulls of            *)
(* integrations (Integrations) and the archiver (Retention), for any       *)
(* integrations, sources, pages, threads, numbers of events, batches,      *)
(* restarts and crashes.                                                   *)
(*                                                                         *)
(* No event that a pull fetched and that the cursor has passed was left    *)
(* without evaluation; what the cursor passes otherwise was missing from   *)
(* the page of a pull that succeeded.  The argument: the cursor of an integration moves only at the end of a run   *)
(* whose row is there, one run is in progress at a time, and a deletion,   *)
(* which forgets the cursor, takes the row away.  So the cursor that a run *)
(* found is still there when it ends: what is between it and the new one   *)
(* was on the page and is evaluated by then, or is older than the newest   *)
(* of the page, and an error returns to a cursor below which all was       *)
(* accounted for before.                                                   *)
(*                                                                         *)
(* No event is lost as long as archivers run one at a time.  The argument: *)
(* files are never removed, and every new one gets a number beyond the     *)
(* count of files there were; so no number exceeds the count, the next     *)
(* name is free, and opening it empties nothing.  What a run deletes is    *)
(* what its own file holds.                                                *)
(*                                                                         *)
(* A run leaves nothing before its cutoff.  The argument: a query that     *)
(* finds fewer rows than it may has found them all; what comes in later is *)
(* after the cutoff, and others only take away.                            *)
(***************************************************************************)
EXTENDS Integrations, Retention, FiniteSetTheorems, WellFoundedInduction, TLAPS


Fields == {"at", "id", "by", "row", "old", "since", "next", "page", "rest"}

(* The table and the store, as far as the cursors go.  Ids that the run    *)
(* may carry are not restricted: nothing depends on them.                  *)
BooksTypes ==
  /\ cursor \in [Ids -> Nat] /\ first \in [Ids -> Nat] 
  /\ source \in [Ids -> SUBSET Nat]
  /\ evaluated \in [Ids -> SUBSET Nat] /\ left \in [Ids -> SUBSET Nat]
  /\ DOMAIN run = Fields /\ run.row \in BOOLEAN

(* The cursor is set with the first successful pull, and what lies between *)
(* the two was evaluated or passed over.                                   *)
Books ==
  \A i \in Ids :
    /\ cursor[i] = 0 <=> first[i] = 0
    /\ first[i] <= cursor[i]
    /\ \A e \in Nat : first[i] <= e /\ e < cursor[i] => e \in evaluated[i] \cup left[i]

(* A run that ingests has evaluated what is not left of its page, and its   *)
(* new cursor is the newest of the page or where the pull was to begin,     *)
(* which is the cursor if there is one: nobody else has moved it since the  *)
(* run looked, or the run's row is gone.                                    *)
Ingesting ==
  At("ingest") /\ run.id \in Ids =>
    /\ run.old \in Nat /\ run.since \in Nat \ {0}
    /\ run.page \in SUBSET Nat /\ run.rest \in SUBSET Nat
    /\ run.page \ run.rest \subseteq evaluated[run.id]
    /\ run.next \in run.page \cup {run.since}
    /\ \A e \in run.page \cup {run.since} : e <= run.next
    /\ run.row => /\ run.old = cursor[run.id]
                  /\ run.old # 0 => run.since = run.old

(* The cursor that a run falls back to when it ends in an error lies        *)
(* between the two.                                                        *)
FallsBack ==
  run.at \in {"status", "error"} /\ run.id \in Ids =>
    /\ run.old \in Nat
    /\ run.row => \/ run.old = 0
                  \/ first[run.id] # 0 /\ first[run.id] <= run.old /\ run.old <= cursor[run.id]

CursorInv == BooksTypes /\ Books /\ Ingesting /\ FallsBack

-----------------------------------------------------------------------------

LEMMA InitCursorInv == Init => CursorInv
<1> SUFFICES ASSUME Init PROVE CursorInv
  OBVIOUS
<1>1. DOMAIN NoRun = Fields /\ NoRun.row = FALSE /\ NoRun.at = "none"
  BY DEF NoRun, Fields
<1>2. BooksTypes
  BY <1>1 DEF Init, BooksTypes
<1>3. Books
  BY DEF Init, Books
<1>4. Ingesting /\ FallsBack
  BY <1>1 DEF Init, Ingesting, FallsBack, At
<1> QED
  BY <1>2, <1>3, <1>4 DEF CursorInv

(* A run that goes away, or is not yet where it reads the cursor, has      *)
(* nothing to do with the books.                                           *)
LEMMA OutsideKeeps ==
  ASSUME CursorInv, UNCHANGED <<cursor, first, left, evaluated>>, source' \in [Ids -> SUBSET Nat],
         DOMAIN run' = Fields, run'.row \in BOOLEAN,
         run'.at \in {"none", "get", "insert", "pull", "errorstatus"}
  PROVE  CursorInv'
BY DEF CursorInv, BooksTypes, Books, Ingesting, FallsBack, At

LEMMA SameRunKeeps ==
  ASSUME CursorInv, UNCHANGED <<cursor, first, left, evaluated, run>>, source' \in [Ids -> SUBSET Nat]
  PROVE  CursorInv'
BY DEF CursorInv, BooksTypes, Books, Ingesting, FallsBack, At

(* A run that fails falls back to the cursor it found.                     *)
LEMMA FailKeeps ==
  ASSUME CursorInv, run.at \in {"ingest", "status"}, Fail, UNCHANGED data, UNCHANGED source
  PROVE  CursorInv'
<1>1. DOMAIN run = Fields /\ run.row \in BOOLEAN
  BY DEF CursorInv, BooksTypes
<1>2. /\ DOMAIN run' = Fields /\ run'.at = "error"
      /\ run'.id = run.id /\ run'.row = run.row /\ run'.old = run.old
  BY <1>1 DEF Fail, Pulled, Fields
<1>3. FallsBack'
  BY <1>2 DEF CursorInv, BooksTypes, Books, Ingesting, FallsBack, At, data
<1> QED
  BY <1>1, <1>2, <1>3 DEF CursorInv, BooksTypes, Books, Ingesting, At, data

LEMMA DeleteKeeps ==
  ASSUME CursorInv, NEW i \in Ids, Delete(i)
  PROVE  CursorInv'
<1>1. DOMAIN run = Fields /\ run.row \in BOOLEAN
  BY DEF CursorInv, BooksTypes
<1>2. /\ DOMAIN run' = Fields /\ run'.at = run.at /\ run'.id = run.id /\ run'.old = run.old
      /\ run'.since = run.since /\ run'.next = run.next
      /\ run'.page = run.page /\ run'.rest = run.rest
      /\ run'.row = IF run.id = i THEN FALSE ELSE run.row
  BY <1>1 DEF Delete, Fields
<1>3. /\ cursor' \in [Ids -> Nat] /\ first' \in [Ids -> Nat]
      /\ left' \in [Ids -> SUBSET Nat]
      /\ cursor'[i] = 0 /\ first'[i] = 0
      /\ \A j \in Ids : j # i => /\ cursor'[j] = cursor[j] /\ first'[j] = first[j]
                                /\ left'[j] = left[j]
      /\ evaluated' = evaluated /\ source' = source
  BY DEF CursorInv, BooksTypes, Delete
<1>4. BooksTypes'
  BY <1>1, <1>2, <1>3 DEF CursorInv, BooksTypes
<1>5. Books'
  BY <1>3 DEF CursorInv, Books
<1>6. Ingesting' /\ FallsBack'
  BY <1>2, <1>3 DEF CursorInv, Ingesting, FallsBack, At
<1> QED
  BY <1>4, <1>5, <1>6 DEF CursorInv

(* A driver that had a cursor moves on from there.                         *)
LEMMA PullKeeps ==
  ASSUME CursorInv, Pull
  PROVE  CursorInv'
<1> DEFINE i == run.id
           Starts == IF cursor[i] = 0 THEN Times(i) \cup {1} ELSE {cursor[i]}
           Got(since, page, next) ==
             run' = [run EXCEPT !.at = "ingest", !.old = cursor[i], !.since = since,
                                !.next = next, !.page = page, !.rest = page]
<1>1. DOMAIN run = Fields /\ run.row \in BOOLEAN
  BY DEF CursorInv, BooksTypes
<1>2. PICK since \in Starts, page \in SUBSET source[i] :
        \E next \in NewCursor(page, since) : Got(since, page, next)
  BY DEF Pull
<1>3. PICK next \in NewCursor(page, since) : Got(since, page, next)
  BY <1>2
<1>4. /\ DOMAIN run' = Fields /\ run'.at = "ingest" /\ run'.id = i /\ run'.row = run.row
      /\ run'.old = cursor[i] /\ run'.since = since /\ run'.next = next
      /\ run'.page = page /\ run'.rest = page
  BY <1>1, <1>3 DEF Fields
<1>5. cursor' = cursor /\ first' = first /\ left' = left /\ evaluated' = evaluated
      /\ source' = source
  BY DEF Pull, data
<1>6. ASSUME i \in Ids
      PROVE  /\ cursor[i] \in Nat /\ page \in SUBSET Nat /\ since \in Nat \ {0}
             /\ cursor[i] # 0 => since = cursor[i]
  <2>1. cursor[i] \in Nat /\ source[i] \in SUBSET Nat
    BY <1>6 DEF CursorInv, BooksTypes
  <2>2. Times(i) \subseteq Nat \ {0}
    BY DEF Times
  <2> QED
    BY <1>2, <2>1, <2>2
<1>7. next \in page \cup {since} /\ \A e \in page \cup {since} : e <= next
  BY <1>3 DEF NewCursor
<1>8. Ingesting'
  BY <1>4, <1>5, <1>6, <1>7 DEF Ingesting
<1>9. BooksTypes' /\ Books'
  BY <1>1, <1>4, <1>5 DEF CursorInv, BooksTypes, Books
<1> QED
  BY <1>4, <1>8, <1>9 DEF CursorInv, FallsBack

LEMMA PullFailsKeeps ==
  ASSUME CursorInv, PullFails
  PROVE  CursorInv'
<1>1. DOMAIN run = Fields /\ run.row \in BOOLEAN
  BY DEF CursorInv, BooksTypes
<1>2. /\ DOMAIN run' = Fields /\ run'.at = "error" /\ run'.id = run.id /\ run'.row = run.row
      /\ run'.old = cursor[run.id]
  BY <1>1 DEF PullFails, Fields
<1>3. /\ cursor' = cursor /\ first' = first /\ left' = left
      /\ evaluated' = evaluated /\ source' = source
  BY DEF PullFails, data
<1>4. FallsBack'
  BY <1>2, <1>3 DEF CursorInv, BooksTypes, Books, FallsBack
<1> QED
  BY <1>1, <1>2, <1>3, <1>4 DEF CursorInv, BooksTypes, Books, Ingesting, At

LEMMA IngestKeeps ==
  ASSUME CursorInv, Ingest
  PROVE  CursorInv'
<1>1. DOMAIN run = Fields /\ run.row \in BOOLEAN /\ run.at = "ingest"
  BY DEF CursorInv, BooksTypes, Ingest, At
<1>2. PICK e \in run.rest :
        /\ evaluated' = [evaluated EXCEPT ![run.id] = evaluated[run.id] \cup {e}]
        /\ run' = [run EXCEPT !.rest = run.rest \ {e}]
  BY DEF Ingest
<1>3. /\ DOMAIN run' = Fields /\ run'.at = "ingest" /\ run'.id = run.id /\ run'.row = run.row
      /\ run'.old = run.old /\ run'.since = run.since /\ run'.next = run.next
      /\ run'.page = run.page /\ run'.rest = run.rest \ {e}
  BY <1>1, <1>2 DEF Fields
<1>4. cursor' = cursor /\ first' = first /\ left' = left /\ source' = source
  BY DEF Ingest
<1>5. CASE run.id \in Ids /\ e \in Nat
  <2>1. /\ evaluated' \in [Ids -> SUBSET Nat]
        /\ \A j \in Ids : evaluated[j] \subseteq evaluated'[j]
        /\ evaluated'[run.id] = evaluated[run.id] \cup {e}
    BY <1>2, <1>5 DEF CursorInv, BooksTypes
  <2>2. Ingesting'
    BY <1>1, <1>3, <1>4, <1>5, <2>1 DEF CursorInv, Ingesting, At
  <2>3. Books'
    BY <1>4, <2>1 DEF CursorInv, Books
  <2> QED
    BY <1>1, <1>3, <1>4, <2>1, <2>2, <2>3 DEF CursorInv, BooksTypes, FallsBack
<1>6. CASE run.id \notin Ids
  <2>1. evaluated' = evaluated
    BY <1>2, <1>6 DEF CursorInv, BooksTypes
  <2> QED
    BY <1>1, <1>3, <1>4, <1>6, <2>1 DEF CursorInv, BooksTypes, Books, Ingesting, FallsBack
<1>7. run.id \in Ids => e \in Nat
  BY <1>1, <1>2 DEF CursorInv, Ingesting, At
<1> QED
  BY <1>5, <1>6, <1>7

(* The cursor moves to the newest of the page, all of which was evaluated. *)
LEMMA FinishOkKeeps ==
  ASSUME CursorInv, FinishOk
  PROVE  CursorInv'
<1> DEFINE i == run.id
           over == PassedOver(run.page, run.since)
<1>1. DOMAIN run = Fields /\ run.row \in BOOLEAN /\ run.at = "ingest" /\ run.rest = {}
  BY DEF CursorInv, BooksTypes, FinishOk, At
<1>2. /\ DOMAIN run' = Fields /\ run'.at = "status" /\ run'.id = i /\ run'.row = run.row
      /\ run'.old = run.old
  BY <1>1 DEF FinishOk, Pulled, Fields
<1>3. evaluated' = evaluated /\ source' = source
  BY DEF FinishOk
<1>4. CASE ~ run.row \/ i \notin Ids
  <2>1. cursor' = cursor /\ first' = first /\ left' = left
    BY <1>4 DEF CursorInv, BooksTypes, FinishOk
  <2> QED
    BY <1>1, <1>2, <1>3, <1>4, <2>1
    DEF CursorInv, BooksTypes, Books, Ingesting, FallsBack, At
<1>5. CASE run.row /\ i \in Ids
  <2>1. /\ run.old \in Nat /\ run.since \in Nat \ {0} /\ run.page \in SUBSET Nat
        /\ run.page \subseteq evaluated[i]
        /\ run.next \in run.page \cup {run.since}
        /\ run.next \in Nat /\ run.next >= run.since
        /\ run.old = cursor[i] /\ (run.old # 0 => run.since = run.old)
    BY <1>1, <1>5 DEF CursorInv, Ingesting, At
  <2>2. over \in SUBSET Nat
    BY <2>1 DEF PassedOver
  <2>3. ASSUME NEW e \in Nat, run.since <= e, e < run.next
        PROVE  e \in run.page \cup over
    <3>1. run.next \in run.page /\ e \in run.since .. run.next
      BY <2>1, <2>3
    <3> DEFINE reach == UNION {run.since .. f : f \in run.page}
    <3>2. e \in reach
      BY <3>1
    <3>3. over = reach \ run.page
      BY DEF PassedOver
    <3> HIDE DEF reach, over
    <3> QED
      BY <3>2, <3>3
  <2>4. /\ cursor' = [cursor EXCEPT ![i] = run.next]
        /\ first' = [first EXCEPT ![i] = IF first[i] = 0 THEN run.since ELSE first[i]]
        /\ left' = [left EXCEPT ![i] = left[i] \cup over]
    BY <1>5 DEF FinishOk
  <2> HIDE DEF over
  <2>5. /\ cursor' \in [Ids -> Nat] /\ first' \in [Ids -> Nat] /\ left' \in [Ids -> SUBSET Nat]
        /\ cursor'[i] = run.next
        /\ first'[i] = IF first[i] = 0 THEN run.since ELSE first[i]
        /\ left'[i] = left[i] \cup over
        /\ \A j \in Ids : j # i => /\ cursor'[j] = cursor[j] /\ first'[j] = first[j]
                                  /\ left'[j] = left[j]
    BY <1>5, <2>1, <2>2, <2>4 DEF CursorInv, BooksTypes
  <2>6. /\ first[i] \in Nat /\ cursor[i] \in Nat /\ first[i] <= cursor[i]
        /\ (cursor[i] = 0 <=> first[i] = 0)
        /\ \A e \in Nat : first[i] <= e /\ e < cursor[i] => e \in evaluated[i] \cup left[i]
    BY <1>5 DEF CursorInv, BooksTypes, Books
  <2>7. /\ cursor'[i] = 0 <=> first'[i] = 0
        /\ first'[i] <= cursor'[i]
    BY <2>1, <2>5, <2>6
  <2>8. ASSUME NEW e \in Nat, first'[i] <= e, e < cursor'[i]
        PROVE  e \in evaluated[i] \cup left'[i]
    <3>1. CASE e >= run.since
      BY <2>1, <2>3, <2>5, <2>8, <3>1
    <3>2. CASE e < run.since
      <4>1. first[i] # 0 /\ run.since = cursor[i]
        BY <2>1, <2>5, <2>6, <2>8, <3>2
      <4> QED
        BY <2>5, <2>6, <2>8, <3>2, <4>1
    <3> QED
      BY <2>1, <3>1, <3>2
  <2>9. Books'
    BY <1>3, <2>5, <2>7, <2>8 DEF CursorInv, Books
  <2>10. FallsBack'
    BY <1>2, <2>1, <2>5, <2>6 DEF FallsBack
  <2> QED
    BY <1>1, <1>2, <1>3, <2>5, <2>9, <2>10 DEF CursorInv, BooksTypes, Ingesting, At
<1> QED
  BY <1>4, <1>5

(* The cursor falls back, but not before the first pull.                   *)
LEMMA FinishErrorKeeps ==
  ASSUME CursorInv, FinishError
  PROVE  CursorInv'
<1> DEFINE i == run.id
<1>1. DOMAIN run = Fields /\ run.row \in BOOLEAN /\ run.at = "error"
  BY DEF CursorInv, BooksTypes, FinishError, At
<1>2. DOMAIN run' = Fields /\ run'.at = "errorstatus" /\ run'.row = run.row
  BY <1>1 DEF FinishError, Fields
<1>3. evaluated' = evaluated /\ source' = source
  BY DEF FinishError
<1>4. CASE ~ run.row \/ i \notin Ids
  <2>1. cursor' = cursor /\ first' = first /\ left' = left
    BY <1>4 DEF CursorInv, BooksTypes, FinishError
  <2> QED
    BY <1>1, <1>2, <1>3, <2>1, OutsideKeeps DEF CursorInv, BooksTypes
<1>5. CASE run.row /\ i \in Ids
  <2>1. /\ run.old \in Nat
        /\ run.old = 0 \/ (first[i] # 0 /\ first[i] <= run.old /\ run.old <= cursor[i])
    BY <1>1, <1>5 DEF CursorInv, FallsBack
  <2>2. /\ cursor' = [cursor EXCEPT ![i] = run.old]
        /\ first' = [first EXCEPT ![i] = IF run.old = 0 THEN 0 ELSE first[i]]
        /\ left' = [left EXCEPT ![i] = {e \in left[i] : e < run.old}]
    BY <1>5 DEF FinishError
  <2>3. /\ cursor' \in [Ids -> Nat] /\ first' \in [Ids -> Nat]
        /\ left' \in [Ids -> SUBSET Nat]
        /\ cursor'[i] = run.old /\ first'[i] = IF run.old = 0 THEN 0 ELSE first[i]
        /\ left'[i] = {e \in left[i] : e < run.old}
        /\ \A j \in Ids : j # i => /\ cursor'[j] = cursor[j] /\ first'[j] = first[j]
                                  /\ left'[j] = left[j]
    BY <1>5, <2>1, <2>2 DEF CursorInv, BooksTypes
  <2>4. Books'
    BY <1>3, <2>1, <2>3 DEF CursorInv, BooksTypes, Books
  <2> QED
    BY <1>1, <1>2, <1>3, <2>3, <2>4 DEF CursorInv, BooksTypes, Ingesting, FallsBack, At
<1> QED
  BY <1>4, <1>5

LEMMA BegunRun ==
  ASSUME NEW i, NEW by
  PROVE  LET r == Begun(i, by) IN DOMAIN r = Fields /\ r.row = FALSE /\ r.at = "get"
BY DEF Begun, NoRun, Fields

LEMMA NoRunRun == DOMAIN NoRun = Fields /\ NoRun.row = FALSE /\ NoRun.at = "none"
BY DEF NoRun, Fields

(* The invariant of the cursors: what they have passed was evaluated, or    *)
(* passed over by a page.                                                   *)
THEOREM CursorsKept == Spec => []CursorInv
<1>1. CursorInv /\ [Next]_vars => CursorInv'
  <2> SUFFICES ASSUME CursorInv, [Next]_vars PROVE CursorInv'
    OBVIOUS
  <2>0. DOMAIN run = Fields /\ run.row \in BOOLEAN /\ source \in [Ids -> SUBSET Nat]
    BY DEF CursorInv, BooksTypes
  <2>1. ASSUME NEW i \in Ids, Produce(i) PROVE CursorInv'
    <3>1. PICK e \in Times(i) : source' = [source EXCEPT ![i] = source[i] \cup {e}]
      BY <2>1 DEF Produce
    <3>2. e \in Nat
      BY DEF Times
    <3>3. source' \in [Ids -> SUBSET Nat]
      BY <2>0, <3>1, <3>2
    <3> QED
      BY <2>1, <3>3, SameRunKeeps DEF Produce, data
  <2>2. ASSUME NEW i \in Ids, Create(i) \/ Patch(i) \/ Trigger(i) PROVE CursorInv'
    BY <2>0, <2>2, SameRunKeeps DEF Create, Patch, Trigger, data
  <2>3. ASSUME StartManual PROVE CursorInv'
    <3>1. run' = Begun(Head(queue), "manual") /\ UNCHANGED <<data, source>>
      BY <2>3 DEF StartManual
    <3> QED
      BY <2>0, <3>1, BegunRun, OutsideKeeps DEF data
  <2>4. ASSUME List \/ Sleep \/ Elapse PROVE CursorInv'
    BY <2>0, <2>4, SameRunKeeps DEF List, Sleep, Elapse, data
  <2>5. ASSUME Check PROVE CursorInv'
    <3>1. /\ UNCHANGED <<data, source>>
          /\ run' = run \/ run' = Begun(Head(todo).id, "scheduler")
      BY <2>5 DEF Check
    <3>2. CASE run' = run
      BY <2>0, <3>1, <3>2, SameRunKeeps DEF data
    <3>3. CASE run' = Begun(Head(todo).id, "scheduler")
      BY <2>0, <3>1, <3>3, BegunRun, OutsideKeeps DEF data
    <3> QED
      BY <3>1, <3>2, <3>3
  <2>6. ASSUME Get PROVE CursorInv'
    <3>1. DOMAIN run' = Fields /\ run'.row \in BOOLEAN /\ run'.at \in {"none", "insert"}
      BY <2>0, <2>6, NoRunRun DEF Get, Fields
    <3> QED
      BY <2>0, <2>6, <3>1, OutsideKeeps DEF Get, data
  <2>7. ASSUME InsertRun PROVE CursorInv'
    <3>1. DOMAIN run' = Fields /\ run'.row \in BOOLEAN /\ run'.at = "pull"
      BY <2>0, <2>7 DEF InsertRun, Fields
    <3> QED
      BY <2>0, <2>7, <3>1, OutsideKeeps DEF InsertRun, data
  <2>8. ASSUME IngestFails \/ StatusFails PROVE CursorInv'
    BY <2>8, FailKeeps DEF IngestFails, StatusFails, At
  <2>9. ASSUME Status \/ Crash PROVE CursorInv'
    BY <2>0, <2>9, NoRunRun, OutsideKeeps DEF Status, Crash, data
  <2>10. CASE UNCHANGED vars
    BY <2>0, <2>10, SameRunKeeps DEF vars, data
  <2>11. ASSUME RunStep PROVE CursorInv'
    BY <2>6, <2>7, <2>8, <2>9, <2>11, PullKeeps, PullFailsKeeps, IngestKeeps, FinishOkKeeps,
       FinishErrorKeeps DEF RunStep
  <2> QED
    BY <2>1, <2>2, <2>3, <2>4, <2>5, <2>9, <2>10, <2>11, DeleteKeeps DEF Next, DueStep
<1> QED
  BY <1>1, InitCursorInv, PTL DEF Spec

(* Every event between the first successful pull and the cursor was        *)
(* evaluated, unless a pull that succeeded had a newer one and not it.     *)
THEOREM NoneSkipped == Spec => []NothingSkipped
<1>1. CursorInv => NothingSkipped
  BY DEF CursorInv, BooksTypes, Books, NothingSkipped
<1> QED
  BY <1>1, CursorsKept, PTL

-----------------------------------------------------------------------------
(* The archiver.                                                           *)


Runs == [day : 0 .. MaxDay, cutoff : 0 .. MaxRows, rows : SUBSET Events,
         name : Name, full : BOOLEAN]

(* Numbers of files do not exceed their count.                             *)
Numbered ==
  /\ \A n \in Names : n.seq <= Cardinality(Names)
  /\ \A t \in Threads : pc[t] = "open" => locals[t].name.seq <= Cardinality(Names) + 1

OneAtATime == \A t, u \in Threads : pc[t] # "idle" /\ pc[u] # "idle" => t = u

(* What the run in progress has prepared.                                  *)
Prepared(t) ==
  /\ pc[t] = "open" => locals[t].name \notin Names
  /\ pc[t] = "write" => locals[t].name \in Names /\ content[locals[t].name] = {}
  /\ pc[t] = "delete" => locals[t].name \in Names /\ locals[t].rows \subseteq content[locals[t].name]

RInv ==
  /\ TypeOK /\ Numbered
  /\ ~overlap => OneAtATime /\ \A t \in Threads : Prepared(t)
  /\ KeptUnlessOverlap

-----------------------------------------------------------------------------

LEMMA OldestWithin ==
  ASSUME NEW k, NEW S
  PROVE  Oldest(k, S) \subseteq S
BY DEF Oldest

LEMMA IdleTyped == Idle \in Runs
BY RetentionAssumption DEF Idle, Runs, NoName, Name

LEMMA RowsReplaced ==
  ASSUME NEW r \in Runs, NEW rows \in SUBSET Events
  PROVE  /\ [r EXCEPT !.rows = rows] \in Runs
         /\ [r EXCEPT !.rows = rows].rows = rows
         /\ [r EXCEPT !.rows = rows].name = r.name
BY DEF Runs

LEMMA NameReplaced ==
  ASSUME NEW r \in Runs, NEW name \in Name
  PROVE  [r EXCEPT !.name = name] \in Runs /\ [r EXCEPT !.name = name].name = name
BY DEF Runs

LEMMA FullReplaced ==
  ASSUME NEW r \in Runs, NEW full \in BOOLEAN
  PROVE  /\ [r EXCEPT !.full = full] \in Runs
         /\ [r EXCEPT !.full = full].rows = r.rows
         /\ [r EXCEPT !.full = full].name = r.name
BY DEF Runs

LEMMA BegunTyped ==
  ASSUME NEW d \in 0 .. MaxDay, NEW c \in 0 .. MaxRows
  PROVE  [Idle EXCEPT !.day = d, !.cutoff = c] \in Runs
<1>1. [Idle EXCEPT !.day = d] \in Runs
  BY IdleTyped DEF Runs
<1>2. [[Idle EXCEPT !.day = d] EXCEPT !.cutoff = c] \in Runs
  BY <1>1 DEF Runs
<1> QED
  BY <1>2

LEMMA InitKeeps == RetentionInit => RInv
<1> SUFFICES ASSUME RetentionInit PROVE RInv
  OBVIOUS
<1>1. Names = {} /\ IsFiniteSet({}) /\ content \in [Names -> SUBSET Events]
  BY FS_EmptySet DEF RetentionInit, Names
<1>2. TypeOK
  <2>1. /\ day \in 0 .. MaxDay /\ last \in 0 .. MaxRows /\ old \in 0 .. last
        /\ store \subseteq Events /\ failures \in 0 .. MaxFailures
    BY RetentionAssumption DEF RetentionInit
  <2>5. overlap \in BOOLEAN
    BY Zenon DEF RetentionInit
  <2>2. pc \in [Threads -> {"idle", "query", "name", "open", "write", "delete"}]
    BY DEF RetentionInit
  <2>3. locals \in [Threads -> Runs]
    BY IdleTyped DEF RetentionInit
  <2>4. Names \subseteq Name /\ IsFiniteSet(Names)
    BY <1>1
  <2> QED
    BY <1>1, <2>1, <2>2, <2>3, <2>4, <2>5 DEF TypeOK, Runs
<1> QED
  BY <1>1, <1>2 DEF RetentionInit, RInv, Numbered, OneAtATime, Prepared, KeptUnlessOverlap

(* A file that is opened: numbers stay within the count.                   *)
LEMMA OpenedNumbered ==
  ASSUME RInv, NEW n \in Name, n.seq <= Cardinality(Names) + 1
  PROVE  /\ IsFiniteSet(Names \cup {n}) /\ Names \cup {n} \subseteq Name
         /\ Cardinality(Names \cup {n}) >= Cardinality(Names)
         /\ \A m \in Names \cup {n} : m.seq <= Cardinality(Names \cup {n})
<1>1. IsFiniteSet(Names) /\ Names \subseteq Name
  BY DEF RInv, TypeOK
<1>2. Cardinality(Names) \in Nat
  BY <1>1, FS_CardinalityType
<1>3. \A m \in Names : m.seq \in Nat /\ m.seq <= Cardinality(Names)
  BY <1>1 DEF RInv, Numbered, Name
<1>4. n.seq \in Nat
  BY DEF Name
<1>5. CASE n \in Names
  <2>1. Names \cup {n} = Names
    BY <1>5
  <2> QED
    BY <1>1, <1>2, <1>3, <2>1
<1>6. CASE n \notin Names
  <2>1. IsFiniteSet(Names \cup {n}) /\ Cardinality(Names \cup {n}) = Cardinality(Names) + 1
    BY <1>1, <1>6, FS_AddElement
  <2> QED
    BY <1>1, <1>2, <1>3, <1>4, <2>1
<1> QED
  BY <1>5, <1>6

Labels == {"idle", "query", "name", "open", "write", "delete"}

(* The frame of the steps of a running archiver t.                         *)
LEMMA StepFrame ==
  ASSUME RInv, NEW t \in Threads, pc[t] # "idle",
         NEW l \in Labels, pc' = [pc EXCEPT ![t] = l],
         NEW r \in Runs, locals' = [locals EXCEPT ![t] = r],
         UNCHANGED <<world, overlap>>, failures' \in 0 .. MaxFailures, store' \subseteq store,
         content' \in [Names' -> SUBSET Events], IsFiniteSet(Names'), Names' \subseteq Name,
         Cardinality(Names') >= Cardinality(Names),
         \A n \in Names' : n.seq <= Cardinality(Names'),
         l = "open" => r.name.seq <= Cardinality(Names') + 1,
         ~overlap => Prepared(t)',
         KeptUnlessOverlap'
  PROVE  RInv'
<1>1. /\ pc' \in [Threads -> Labels] /\ pc'[t] = l
      /\ locals' \in [Threads -> Runs] /\ locals'[t] = r
      /\ \A u \in Threads \ {t} : pc'[u] = pc[u] /\ locals'[u] = locals[u]
  BY DEF RInv, TypeOK, Labels, Runs
<1>2. TypeOK'
  <2>1. /\ (day \in 0 .. MaxDay)' /\ (last \in 0 .. MaxRows)' /\ (old \in 0 .. last)'
        /\ (store \subseteq Events)' /\ (overlap \in BOOLEAN)'
    BY DEF RInv, TypeOK, world
  <2> QED
    BY <1>1, <2>1 DEF TypeOK, Labels, Runs
<1>3. Numbered'
  <2>1. Cardinality(Names) \in Nat /\ Cardinality(Names') \in Nat
    BY FS_CardinalityType DEF RInv, TypeOK
  <2>2. ASSUME NEW u \in Threads, pc'[u] = "open"
        PROVE  locals'[u].name.seq <= Cardinality(Names') + 1
    <3>1. CASE u = t
      BY <1>1, <2>2, <3>1
    <3>2. CASE u # t
      <4>1. locals'[u].name.seq <= Cardinality(Names) + 1 /\ locals'[u].name.seq \in Nat
        BY <1>1, <2>2, <3>2 DEF RInv, Numbered, Runs, Name
      <4> QED
        BY <2>1, <4>1
    <3> QED
      BY <3>1, <3>2
  <2> QED
    BY <2>2 DEF Numbered
<1>4. ASSUME ~overlap' PROVE OneAtATime' /\ \A u \in Threads : Prepared(u)'
  <2>1. ~overlap /\ OneAtATime
    BY <1>4 DEF RInv
  <2>2. \A u \in Threads \ {t} : pc'[u] = "idle"
    BY <1>1, <2>1 DEF OneAtATime
  <2>3. OneAtATime'
    BY <2>2 DEF OneAtATime
  <2>4. \A u \in Threads \ {t} : Prepared(u)'
    BY <2>2 DEF Prepared
  <2> QED
    BY <2>1, <2>3, <2>4
<1> QED
  BY <1>2, <1>3, <1>4 DEF RInv

(* Steps that leave store and files as they are.                           *)
LEMMA LocalStep ==
  ASSUME RInv, NEW t \in Threads, pc[t] # "idle",
         NEW l \in Labels, pc' = [pc EXCEPT ![t] = l],
         NEW r \in Runs, locals' = [locals EXCEPT ![t] = r],
         UNCHANGED <<world, store, content, failures, overlap>>,
         l = "open" => r.name.seq = Cardinality(Names) + 1,
         l \notin {"write", "delete"}
  PROVE  RInv'
<1>1. Names' = Names /\ Archived' = Archived
  BY DEF Names, Archived
<1>2. Cardinality(Names) \in Nat /\ \A n \in Names : n.seq <= Cardinality(Names)
  BY FS_CardinalityType DEF RInv, TypeOK, Numbered
<1>3. pc'[t] = l /\ locals'[t] = r
  BY DEF RInv, TypeOK
<1>4. Prepared(t)'
  <2>1. ASSUME l = "open" PROVE r.name \notin Names
    BY <1>2, <2>1
  <2> QED
    BY <1>1, <1>3, <2>1 DEF Prepared
<1>5. KeptUnlessOverlap'
  BY <1>1 DEF RInv, KeptUnlessOverlap, world
<1>6. failures' \in 0 .. MaxFailures /\ content' \in [Names' -> SUBSET Events]
  BY <1>1 DEF RInv, TypeOK
<1>7. IsFiniteSet(Names') /\ Names' \subseteq Name /\ Cardinality(Names') >= Cardinality(Names)
  BY <1>1, <1>2 DEF RInv, TypeOK
<1>8. \A n \in Names' : n.seq <= Cardinality(Names')
  BY <1>1, <1>2
<1>9. l = "open" => r.name.seq <= Cardinality(Names') + 1
  BY <1>1, <1>2
<1> QED
  BY <1>4, <1>5, <1>6, <1>7, <1>8, <1>9, StepFrame

(* Steps that write to the file of a run; it was empty.                    *)
LEMMA WritingStep ==
  ASSUME RInv, NEW t \in Threads, pc[t] = "write",
         NEW l \in {"idle", "delete"}, pc' = [pc EXCEPT ![t] = l],
         NEW r \in Runs, locals' = [locals EXCEPT ![t] = r],
         UNCHANGED <<world, store, overlap>>, failures' \in 0 .. MaxFailures,
         NEW part \in SUBSET Events, content' = [content EXCEPT ![locals[t].name] = part],
         l = "delete" => r.rows = part /\ r.name = locals[t].name
  PROVE  RInv'
<1>1. content \in [Names -> SUBSET Events] /\ Names' = Names
  BY DEF RInv, TypeOK, Names
<1>2. content' \in [Names' -> SUBSET Events]
  BY <1>1
<1>3. pc'[t] = l /\ locals'[t] = r
  BY DEF RInv, TypeOK
<1>4. ASSUME ~overlap PROVE Prepared(t)' /\ Archived \subseteq Archived'
  <2>1. locals[t].name \in Names /\ content[locals[t].name] = {}
    BY <1>4 DEF RInv, Prepared
  <2>2. content'[locals[t].name] = part
    BY <1>1, <2>1
  <2>3. Prepared(t)'
    BY <1>1, <1>3, <2>1, <2>2 DEF Prepared
  <2>4. \A n \in Names : content[n] \subseteq content'[n]
    BY <1>1, <2>1
  <2>5. Archived \subseteq Archived'
    BY <1>1, <2>4 DEF Archived
  <2> QED
    BY <2>3, <2>5
<1>5. KeptUnlessOverlap'
  BY <1>4 DEF RInv, KeptUnlessOverlap, world
<1>6. Cardinality(Names) \in Nat /\ \A n \in Names : n.seq <= Cardinality(Names)
  BY FS_CardinalityType DEF RInv, TypeOK, Numbered
<1>7. IsFiniteSet(Names') /\ Names' \subseteq Name /\ Cardinality(Names') >= Cardinality(Names)
  BY <1>1, <1>6 DEF RInv, TypeOK
<1>8. l \in Labels /\ store' \subseteq store
  BY DEF Labels
<1> QED
  BY <1>1, <1>2, <1>4, <1>5, <1>6, <1>7, <1>8, StepFrame


-----------------------------------------------------------------------------

LEMMA InsertKeeps == ASSUME RInv, Insert PROVE RInv'
<1>1. Names' = Names /\ Archived' = Archived
  BY DEF Insert, Names, Archived
<1>2. TypeOK'
  BY <1>1, RetentionAssumption DEF Insert, RInv, TypeOK, Events
<1>3. Numbered' /\ (~overlap' => OneAtATime' /\ \A t \in Threads : Prepared(t)')
  BY <1>1 DEF Insert, RInv, Numbered, OneAtATime, Prepared
<1>4. KeptUnlessOverlap'
  <2>1. last \in Nat /\ last' = last + 1 /\ store' = store \cup {last + 1}
    BY RetentionAssumption DEF Insert, RInv, TypeOK
  <2>2. overlap' = overlap
    BY DEF Insert
  <2>3. ASSUME ~overlap, NEW e \in 1 .. last' PROVE e \in store' \cup Archived'
    BY <1>1, <2>1, <2>3 DEF RInv, KeptUnlessOverlap
  <2> QED
    BY <2>2, <2>3 DEF KeptUnlessOverlap
<1> QED
  BY <1>2, <1>3, <1>4 DEF RInv

LEMMA NextDayKeeps == ASSUME RInv, NextDay PROVE RInv'
<1>1. Names' = Names /\ Archived' = Archived
  BY DEF NextDay, Names, Archived
<1>2. TypeOK'
  BY <1>1, RetentionAssumption DEF NextDay, RInv, TypeOK
<1> QED
  BY <1>1, <1>2
  DEF NextDay, RInv, Numbered, OneAtATime, Prepared, KeptUnlessOverlap

LEMMA BeginKeeps == ASSUME RInv, NEW t \in Threads, Begin(t) PROVE RInv'
<1> DEFINE r == [Idle EXCEPT !.day = day, !.cutoff = old]
<1>1. r \in Runs
  <2>1. day \in 0 .. MaxDay /\ old \in 0 .. MaxRows
    BY RetentionAssumption DEF RInv, TypeOK
  <2> QED
    BY <2>1, BegunTyped
<1>2. Names' = Names /\ Archived' = Archived
  BY DEF Begin, Names, Archived
<1>3. pc[t] = "idle" /\ pc' = [pc EXCEPT ![t] = "query"] /\ locals' = [locals EXCEPT ![t] = r]
      /\ UNCHANGED <<world, store, content, failures>>
  BY DEF Begin
<1> HIDE DEF r
<1>4. /\ pc' \in [Threads -> Labels] /\ pc'[t] = "query"
      /\ locals' \in [Threads -> Runs]
      /\ \A u \in Threads \ {t} : pc'[u] = pc[u] /\ locals'[u] = locals[u]
  BY <1>1, <1>3 DEF RInv, TypeOK, Labels, Runs
<1>5. overlap' \in BOOLEAN /\ (overlap => overlap') /\ (~overlap' => ~overlap /\ Running = {})
  BY Zenon DEF Begin, RInv, TypeOK
<1>6. TypeOK'
  BY <1>2, <1>3, <1>4, <1>5 DEF RInv, TypeOK, world, Labels, Runs
<1>7. Numbered'
  BY <1>2, <1>4 DEF RInv, Numbered
<1>8. ASSUME ~overlap' PROVE OneAtATime' /\ \A u \in Threads : Prepared(u)'
  <2>1. \A u \in Threads : pc[u] = "idle"
    BY <1>5, <1>8 DEF Running
  <2> QED
    BY <1>4, <2>1 DEF OneAtATime, Prepared
<1>9. KeptUnlessOverlap'
  BY <1>2, <1>3, <1>5 DEF RInv, KeptUnlessOverlap, world
<1> QED
  BY <1>6, <1>7, <1>8, <1>9 DEF RInv

LEMMA QueryKeeps == ASSUME RInv, NEW t \in Threads, Query(t) PROVE RInv'
<1> DEFINE rows == Oldest(BatchSize, {e \in store : e <= locals[t].cutoff})
<1>1. rows \in SUBSET Events
  BY OldestWithin DEF RInv, TypeOK
<1>2. locals[t] \in Runs
  BY DEF RInv, TypeOK, Runs
<1>3. CASE rows = {}
  <2>1. pc[t] = "query" /\ Return(t) /\ UNCHANGED <<world, store, content, failures, overlap>>
    BY <1>3 DEF Query
  <2> QED
    BY <2>1, IdleTyped, LocalStep DEF Return, Labels
<1>4. CASE rows # {}
  <2>1. /\ pc[t] = "query" /\ UNCHANGED <<world, store, content, failures, overlap>>
        /\ pc' = [pc EXCEPT ![t] = "name"]
        /\ locals' = [locals EXCEPT ![t] = [locals[t] EXCEPT !.rows = rows]]
    BY <1>4 DEF Query
  <2>2. [locals[t] EXCEPT !.rows = rows] \in Runs
    BY <1>1, <1>2, RowsReplaced
  <2> QED
    BY <2>1, <2>2, LocalStep DEF Labels
<1> QED
  BY <1>3, <1>4

LEMMA PickNameKeeps == ASSUME RInv, NEW t \in Threads, PickName(t) PROVE RInv'
<1> DEFINE name == [day |-> locals[t].day, seq |-> Cardinality(Names) + 1]
<1>1. locals[t] \in Runs
  BY DEF RInv, TypeOK, Runs
<1>2. Cardinality(Names) \in Nat
  BY FS_CardinalityType DEF RInv, TypeOK
<1>3. name \in Name /\ name.seq = Cardinality(Names) + 1
  BY <1>1, <1>2 DEF Runs, Name
<1>4. locals' = [locals EXCEPT ![t] = [locals[t] EXCEPT !.name = name]]
  BY DEF PickName
<1> HIDE DEF name
<1>5. [locals[t] EXCEPT !.name = name] \in Runs /\ [locals[t] EXCEPT !.name = name].name = name
  BY <1>1, <1>3, NameReplaced
<1>6. /\ pc[t] = "name" /\ pc' = [pc EXCEPT ![t] = "open"]
      /\ UNCHANGED <<world, store, content, failures, overlap>>
  BY DEF PickName
<1> QED
  BY <1>3, <1>4, <1>5, <1>6, LocalStep DEF Labels

LEMMA OpenKeeps == ASSUME RInv, NEW t \in Threads, Open(t) PROVE RInv'
<1> DEFINE n == locals[t].name
<1>1. /\ pc[t] = "open" /\ pc' = [pc EXCEPT ![t] = "write"] /\ pc'[t] = "write"
      /\ UNCHANGED <<world, store, locals, failures, overlap>>
      /\ content' = [m \in Names \cup {n} |-> IF m = n THEN {} ELSE content[m]]
  BY DEF Open, RInv, TypeOK
<1>2. locals[t] \in Runs /\ locals' = [locals EXCEPT ![t] = locals[t]]
  BY <1>1 DEF RInv, TypeOK, Runs
<1>3. n \in Name /\ n.seq <= Cardinality(Names) + 1
  BY <1>1, <1>2 DEF Runs, RInv, Numbered
<1>4. Names' = Names \cup {n}
  BY <1>1 DEF Names
<1>5. /\ IsFiniteSet(Names') /\ Names' \subseteq Name
      /\ Cardinality(Names') >= Cardinality(Names)
      /\ \A m \in Names' : m.seq <= Cardinality(Names')
  BY <1>3, <1>4, OpenedNumbered
<1>6. content' \in [Names' -> SUBSET Events]
  BY <1>1, <1>4 DEF RInv, TypeOK
<1>7. Prepared(t)'
  BY <1>1, <1>4 DEF Prepared
<1>8. KeptUnlessOverlap'
  <2>1. ASSUME ~overlap PROVE Archived \subseteq Archived'
    <3>1. n \notin Names
      BY <1>1, <2>1 DEF RInv, Prepared
    <3>2. \A m \in Names : m \in Names' /\ content'[m] = content[m]
      BY <1>1, <1>4, <3>1
    <3> QED
      BY <3>2 DEF Archived
  <2> QED
    BY <1>1, <2>1 DEF RInv, KeptUnlessOverlap, world
<1>9. "write" \in Labels /\ store' \subseteq store /\ failures' \in 0 .. MaxFailures
  BY <1>1 DEF Labels, RInv, TypeOK
<1> HIDE DEF n
<1> QED
  BY <1>1, <1>2, <1>5, <1>6, <1>7, <1>8, <1>9, StepFrame

LEMMA WriteFileKeeps == ASSUME RInv, NEW t \in Threads, WriteFile(t) PROVE RInv'
<1>1. PICK k \in 1 .. Cardinality(locals[t].rows), full \in BOOLEAN :
        /\ content' = [content EXCEPT ![locals[t].name] = Oldest(k, locals[t].rows)]
        /\ locals' = [locals EXCEPT ![t].rows = Oldest(k, locals[t].rows), ![t].full = full]
  BY DEF WriteFile
<1> DEFINE part == Oldest(k, locals[t].rows)
           r1   == [locals[t] EXCEPT !.rows = part]
           r2   == [r1 EXCEPT !.full = full]
<1>2. locals[t] \in Runs /\ locals \in [Threads -> Runs]
  BY DEF RInv, TypeOK, Runs
<1>3. part \in SUBSET Events
  BY <1>2, OldestWithin DEF Runs
<1>4. content' = [content EXCEPT ![locals[t].name] = part]
  BY <1>1
<1>5. locals' = [locals EXCEPT ![t] = r2]
  BY <1>1, <1>2
<1> HIDE DEF part
<1>6. r1 \in Runs /\ r1.rows = part /\ r1.name = locals[t].name
  BY <1>2, <1>3, RowsReplaced
<1> HIDE DEF r1
<1>7. r2 \in Runs /\ r2.rows = part /\ r2.name = locals[t].name
  BY <1>6, FullReplaced
<1> HIDE DEF r2
<1>8. /\ pc[t] = "write" /\ pc' = [pc EXCEPT ![t] = "delete"]
      /\ UNCHANGED <<world, store, overlap>> /\ failures' \in 0 .. MaxFailures
  BY DEF WriteFile, RInv, TypeOK
<1> QED
  BY <1>3, <1>4, <1>5, <1>7, <1>8, WritingStep

LEMMA WriteFailsKeeps == ASSUME RInv, NEW t \in Threads, WriteFails(t) PROVE RInv'
<1>1. PICK k \in 0 .. Cardinality(locals[t].rows) :
        content' = [content EXCEPT ![locals[t].name] = Oldest(k, locals[t].rows)]
  BY DEF WriteFails
<1> DEFINE part == Oldest(k, locals[t].rows)
<1>2. part \in SUBSET Events
  BY OldestWithin DEF RInv, TypeOK
<1>3. content' = [content EXCEPT ![locals[t].name] = part]
  BY <1>1
<1> HIDE DEF part
<1>4. /\ pc[t] = "write" /\ pc' = [pc EXCEPT ![t] = "idle"] /\ locals' = [locals EXCEPT ![t] = Idle]
      /\ UNCHANGED <<world, store, overlap>>
  BY DEF WriteFails, Return
<1>5. failures' \in 0 .. MaxFailures
  BY RetentionAssumption DEF WriteFails, RInv, TypeOK
<1> QED
  BY <1>2, <1>3, <1>4, <1>5, IdleTyped, WritingStep

LEMMA DeleteRowsKeeps == ASSUME RInv, NEW t \in Threads, DeleteRows(t) PROVE RInv'
<1>1. /\ pc[t] = "delete" /\ store' = store \ locals[t].rows
      /\ UNCHANGED <<world, content, failures, overlap>>
  BY DEF DeleteRows
<1>2. Names' = Names /\ Archived' = Archived
  BY <1>1 DEF Names, Archived
<1>3. locals[t] \in Runs /\ locals \in [Threads -> Runs]
  BY DEF RInv, TypeOK, Runs
<1>4. KeptUnlessOverlap'
  <2>1. ASSUME ~overlap PROVE locals[t].rows \subseteq Archived
    BY <1>1, <2>1 DEF RInv, Prepared, Archived
  <2> QED
    BY <1>1, <1>2, <2>1 DEF RInv, KeptUnlessOverlap, world
<1>5. Cardinality(Names) \in Nat /\ \A n \in Names : n.seq <= Cardinality(Names)
  BY FS_CardinalityType DEF RInv, TypeOK, Numbered
<1>6. /\ IsFiniteSet(Names') /\ Names' \subseteq Name
      /\ Cardinality(Names') >= Cardinality(Names)
      /\ \A m \in Names' : m.seq <= Cardinality(Names')
      /\ content' \in [Names' -> SUBSET Events]
      /\ store' \subseteq store /\ failures' \in 0 .. MaxFailures
  BY <1>1, <1>2, <1>5 DEF RInv, TypeOK
<1>7. CASE Return(t)
  <2>1. pc'[t] = "idle"
    BY <1>7 DEF Return, RInv, TypeOK
  <2>2. Prepared(t)'
    BY <2>1 DEF Prepared
  <2>3. "idle" \in Labels
    BY DEF Labels
  <2> QED
    BY <1>1, <1>4, <1>6, <1>7, <2>2, <2>3, IdleTyped, StepFrame DEF Return
<1>8. CASE /\ pc' = [pc EXCEPT ![t] = "query"]
           /\ locals' = [locals EXCEPT ![t].rows = {}, ![t].name = NoName, ![t].full = FALSE]
  <2> DEFINE r1 == [locals[t] EXCEPT !.rows = {}]
             r2 == [r1 EXCEPT !.name = NoName]
             r3 == [r2 EXCEPT !.full = FALSE]
  <2>1. locals' = [locals EXCEPT ![t] = r3]
    BY <1>3, <1>8
  <2>2. r1 \in Runs
    BY <1>3, RowsReplaced
  <2> HIDE DEF r1
  <2>3. NoName \in Name
    BY RetentionAssumption DEF NoName, Name
  <2>4. r2 \in Runs
    BY <2>2, <2>3, NameReplaced
  <2> HIDE DEF r2
  <2>5. r3 \in Runs
    BY <2>4, FullReplaced
  <2> HIDE DEF r3
  <2>6. pc'[t] = "query"
    BY <1>8 DEF RInv, TypeOK
  <2>7. Prepared(t)'
    BY <2>6 DEF Prepared
  <2>8. "query" \in Labels
    BY DEF Labels
  <2> QED
    BY <1>1, <1>4, <1>6, <1>8, <2>1, <2>5, <2>7, <2>8, StepFrame
<1> QED
  BY <1>7, <1>8 DEF DeleteRows

LEMMA CrashKeeps == ASSUME RInv, ProcessDies PROVE RInv'
<1>1. Names' = Names /\ Archived' = Archived
  BY DEF ProcessDies, Names, Archived
<1>2. /\ \A t \in Threads : pc'[t] = "idle"
      /\ pc' \in [Threads -> Labels] /\ locals' \in [Threads -> Runs]
  BY IdleTyped DEF ProcessDies, Labels
<1>3. failures' \in 0 .. MaxFailures
  BY RetentionAssumption DEF ProcessDies, RInv, TypeOK
<1>4. UNCHANGED <<world, store, content, overlap>>
  BY DEF ProcessDies
<1>5. TypeOK'
  BY <1>1, <1>2, <1>3, <1>4 DEF RInv, TypeOK, world, Labels, Runs
<1>6. Numbered' /\ OneAtATime' /\ \A t \in Threads : Prepared(t)'
  BY <1>1, <1>2 DEF RInv, Numbered, OneAtATime, Prepared
<1>7. KeptUnlessOverlap'
  BY <1>1, <1>4 DEF RInv, KeptUnlessOverlap, world
<1> QED
  BY <1>5, <1>6, <1>7 DEF RInv

(* The inductive invariant: numbers of files do not exceed their count,    *)
(* and the run in progress has a file of its own for what it will delete.  *)
THEOREM ArchivesKept == RetentionSpec => []RInv
<1>1. RInv /\ UNCHANGED retentionVars => RInv'
  BY DEF retentionVars, world, RInv, TypeOK, Numbered, OneAtATime, Prepared, KeptUnlessOverlap,
         Names, Archived
<1>2. RInv /\ [RetentionNext]_retentionVars => RInv'
  BY <1>1, InsertKeeps, NextDayKeeps, CrashKeeps, BeginKeeps, QueryKeeps, PickNameKeeps,
     OpenKeeps, WriteFileKeeps, WriteFailsKeeps, DeleteRowsKeeps DEF RetentionNext, Step
<1> QED
  BY InitKeeps, <1>2, PTL DEF RetentionSpec

(* Every event is in the store or in an archive file, through crashes and  *)
(* failed writes, unless two archivers have run at one time.               *)
THEOREM NothingIsLost == RetentionSpec => []KeptUnlessOverlap
<1>1. RInv => KeptUnlessOverlap
  BY DEF RInv
<1> QED
  BY <1>1, ArchivesKept, PTL

-----------------------------------------------------------------------------
(* A run drains the store.                                                 *)

(* A run that has fewer rows than a batch, and was not cut short by the    *)
(* size of its file, has every row there is before its cutoff.             *)
LastBatch(t) ==
  /\ pc[t] # "idle" => locals[t].cutoff <= last
  /\ (pc[t] \in {"name", "open", "write"} \/ (pc[t] = "delete" /\ ~locals[t].full))
        /\ Cardinality(locals[t].rows) < BatchSize
       => \A e \in store : e <= locals[t].cutoff => e \in locals[t].rows

DrainInv == \A t \in Threads : LastBatch(t)

(* Events are finitely many, and so are those of a set of them.            *)
LEMMA SomeEvents ==
  ASSUME NEW S \in SUBSET Events
  PROVE  S \subseteq Nat /\ IsFiniteSet(S) /\ Cardinality(S) \in Nat
<1>1. IsFiniteSet(Events) /\ Events \subseteq Nat
  BY RetentionAssumption, FS_Interval DEF Events
<1> QED
  BY <1>1, FS_Subset, FS_CardinalityType

(* A query that finds fewer rows than it may has found them all: the first *)
(* it left out would have fewer before it than it found.                   *)
LEMMA FewAreAll ==
  ASSUME NEW S \in SUBSET Events, NEW k \in Nat, Cardinality(Oldest(k, S)) < k
  PROVE  Oldest(k, S) = S
<1> DEFINE Out == S \ Oldest(k, S)
           R   == OpToRel(<, Nat)
<1>1. IsWellFoundedOn(R, Nat)
  BY NatLessThanWellFounded
<1>2. ASSUME NEW x \in Nat, NEW y \in Nat, x < y PROVE <<x, y>> \in R
  BY <1>2 DEF OpToRel
<1> HIDE DEF R
<1>3. ASSUME Out # {} PROVE FALSE
  <2>1. Out \in SUBSET Nat
    BY SomeEvents
  <2>2. PICK e \in Out : \A y \in Out : ~ (<<y, e>> \in R)
    BY <1>1, <1>3, <2>1, WFMin
  <2>3. {f \in S : f < e} \subseteq Oldest(k, S)
    BY <1>2, <2>1, <2>2, SomeEvents
  <2>4. Oldest(k, S) \in SUBSET Events /\ {f \in S : f < e} \in SUBSET Events
    BY DEF Oldest
  <2>5. Cardinality({f \in S : f < e}) <= Cardinality(Oldest(k, S))
    BY <2>3, <2>4, SomeEvents, FS_Subset
  <2>6. Cardinality({f \in S : f < e}) < k
    BY <2>4, <2>5, SomeEvents
  <2> QED
    BY <2>2, <2>6 DEF Oldest
<1> QED
  BY <1>3, OldestWithin

(* As many of the oldest as there are rows are all of them.                *)
LEMMA OldestOfAll ==
  ASSUME NEW S \in SUBSET Events
  PROVE  Oldest(Cardinality(S), S) = S
<1>1. ASSUME NEW e \in S PROVE Cardinality({f \in S : f < e}) < Cardinality(S)
  <2>1. {f \in S : f < e} \in SUBSET S /\ {f \in S : f < e} # S
    BY SomeEvents
  <2> QED
    BY <2>1, SomeEvents, FS_Subset
<1> QED
  BY <1>1 DEF Oldest

(* The frame of the steps of an archiver t, begun or running.              *)
LEMMA DrainFrame ==
  ASSUME RInv, DrainInv, NEW t \in Threads,
         NEW l \in Labels, pc' = [pc EXCEPT ![t] = l],
         NEW r \in Runs, locals' = [locals EXCEPT ![t] = r],
         last' = last, store' \subseteq store,
         l # "idle" => r.cutoff <= last,
         (l \in {"name", "open", "write"} \/ (l = "delete" /\ ~r.full))
             /\ Cardinality(r.rows) < BatchSize
           => \A e \in store' : e <= r.cutoff => e \in r.rows
  PROVE  DrainInv'
<1>1. /\ pc'[t] = l /\ locals'[t] = r
      /\ \A u \in Threads \ {t} : pc'[u] = pc[u] /\ locals'[u] = locals[u]
  BY DEF RInv, TypeOK
<1>2. LastBatch(t)'
  BY <1>1 DEF LastBatch
<1>3. \A u \in Threads \ {t} : LastBatch(u)'
  BY <1>1 DEF DrainInv, LastBatch
<1> QED
  BY <1>2, <1>3 DEF DrainInv

(* What an archiver is about to do with the rows it has.                   *)
LEMMA RunTyped ==
  ASSUME RInv, NEW t \in Threads
  PROVE  /\ locals[t] \in Runs /\ locals[t].rows \in SUBSET Events
         /\ Cardinality(locals[t].rows) \in Nat
<1>1. locals[t] \in Runs
  BY DEF RInv, TypeOK, Runs
<1>2. locals[t].rows \in SUBSET Events
  BY <1>1 DEF Runs
<1> QED
  BY <1>1, <1>2, SomeEvents

LEMMA BeginDrains == ASSUME RInv, DrainInv, NEW t \in Threads, Begin(t) PROVE DrainInv'
<1> DEFINE r == [Idle EXCEPT !.day = day, !.cutoff = old]
<1>1. r.cutoff = old /\ old <= last
  BY DEF Idle, RInv, TypeOK
<1>2. /\ pc' = [pc EXCEPT ![t] = "query"] /\ locals' = [locals EXCEPT ![t] = r]
      /\ last' = last /\ store' \subseteq store
  BY DEF Begin, world
<1>3. r \in Runs
  <2>1. day \in 0 .. MaxDay /\ old \in 0 .. MaxRows
    BY RetentionAssumption DEF RInv, TypeOK
  <2> QED
    BY <2>1, BegunTyped
<1> HIDE DEF r
<1>4. r.cutoff <= last
  BY <1>1
<1> QED
  BY <1>2, <1>3, <1>4, DrainFrame DEF Labels

LEMMA QueryDrains == ASSUME RInv, DrainInv, NEW t \in Threads, Query(t) PROVE DrainInv'
<1> DEFINE due  == {e \in store : e <= locals[t].cutoff}
           rows == Oldest(BatchSize, due)
           r    == [locals[t] EXCEPT !.rows = rows]
<1>1. due \in SUBSET Events
  BY DEF RInv, TypeOK
<1>2. locals[t].cutoff <= last
  BY DEF Query, DrainInv, LastBatch
<1>3. last' = last /\ store' = store
  BY DEF Query, world
<1>4. CASE rows = {}
  <2>1. pc' = [pc EXCEPT ![t] = "idle"] /\ locals' = [locals EXCEPT ![t] = Idle]
    BY <1>4 DEF Query, Return
  <2> QED
    BY <1>3, <2>1, IdleTyped, DrainFrame DEF Labels
<1>5. CASE rows # {}
  <2>1. pc' = [pc EXCEPT ![t] = "name"] /\ locals' = [locals EXCEPT ![t] = r]
    BY <1>5 DEF Query
  <2>2. r \in Runs /\ r.rows = rows /\ r.cutoff = locals[t].cutoff
    BY <1>1, RunTyped, OldestWithin DEF Runs
  <2>3. ASSUME Cardinality(rows) < BatchSize PROVE rows = due
    <3>1. BatchSize \in Nat
      BY RetentionAssumption
    <3> QED
      BY <1>1, <2>3, <3>1, FewAreAll
  <2>4. ASSUME Cardinality(r.rows) < BatchSize
        PROVE  \A e \in store' : e <= r.cutoff => e \in r.rows
    BY <1>3, <2>2, <2>3, <2>4
  <2> HIDE DEF r, rows, due
  <2> QED
    BY <1>2, <1>3, <2>1, <2>2, <2>4, DrainFrame DEF Labels
<1> QED
  BY <1>4, <1>5

LEMMA PickNameDrains == ASSUME RInv, DrainInv, NEW t \in Threads, PickName(t) PROVE DrainInv'
<1> DEFINE name == [day |-> locals[t].day, seq |-> Cardinality(Names) + 1]
           r    == [locals[t] EXCEPT !.name = name]
<1>1. /\ pc[t] = "name" /\ pc' = [pc EXCEPT ![t] = "open"] /\ locals' = [locals EXCEPT ![t] = r]
      /\ last' = last /\ store' = store
  BY DEF PickName, world
<1>2. name \in Name
  BY RunTyped, FS_CardinalityType DEF Runs, Name, RInv, TypeOK
<1> HIDE DEF name
<1>3. r \in Runs /\ r.rows = locals[t].rows /\ r.cutoff = locals[t].cutoff
  BY <1>2, RunTyped DEF Runs
<1> HIDE DEF r
<1>4. /\ r.cutoff <= last
      /\ Cardinality(r.rows) < BatchSize => \A e \in store' : e <= r.cutoff => e \in r.rows
  BY <1>1, <1>3 DEF DrainInv, LastBatch
<1> QED
  BY <1>1, <1>3, <1>4, DrainFrame DEF Labels

LEMMA OpenDrains == ASSUME RInv, DrainInv, NEW t \in Threads, Open(t) PROVE DrainInv'
<1>1. /\ pc[t] = "open" /\ pc' = [pc EXCEPT ![t] = "write"]
      /\ locals' = locals /\ last' = last /\ store' = store
  BY DEF Open, world
<1>2. locals' = [locals EXCEPT ![t] = locals[t]]
  BY <1>1 DEF RInv, TypeOK
<1>3. /\ locals[t].cutoff <= last
      /\ Cardinality(locals[t].rows) < BatchSize
           => \A e \in store' : e <= locals[t].cutoff => e \in locals[t].rows
  BY <1>1 DEF DrainInv, LastBatch
<1> QED
  BY <1>1, <1>2, <1>3, RunTyped, DrainFrame DEF Labels

(* A file that is not cut short holds all the rows of its run.             *)
LEMMA WriteFileDrains == ASSUME RInv, DrainInv, NEW t \in Threads, WriteFile(t) PROVE DrainInv'
<1>1. PICK k \in 1 .. Cardinality(locals[t].rows), full \in BOOLEAN :
        /\ k < Cardinality(locals[t].rows) => full
        /\ locals' = [locals EXCEPT ![t].rows = Oldest(k, locals[t].rows), ![t].full = full]
  BY DEF WriteFile
<1> DEFINE part == Oldest(k, locals[t].rows)
           r    == [locals[t] EXCEPT !.rows = part, !.full = full]
<1>2. locals' = [locals EXCEPT ![t] = r]
  BY <1>1 DEF RInv, TypeOK
<1>3. r \in Runs /\ r.rows = part /\ r.full = full /\ r.cutoff = locals[t].cutoff
  BY RunTyped, OldestWithin DEF Runs
<1>4. ASSUME ~full PROVE part = locals[t].rows
  <2>1. k = Cardinality(locals[t].rows)
    BY <1>1, <1>4, RunTyped
  <2> QED
    BY <2>1, RunTyped, OldestOfAll
<1>5. /\ pc[t] = "write" /\ pc' = [pc EXCEPT ![t] = "delete"]
      /\ last' = last /\ store' = store
  BY DEF WriteFile, world
<1> HIDE DEF part, r
<1>6. r.cutoff <= last
  BY <1>3, <1>5 DEF DrainInv, LastBatch
<1>7. ASSUME ~r.full, Cardinality(r.rows) < BatchSize
      PROVE  \A e \in store' : e <= r.cutoff => e \in r.rows
  BY <1>3, <1>4, <1>5, <1>7 DEF DrainInv, LastBatch
<1> QED
  BY <1>2, <1>3, <1>5, <1>6, <1>7, DrainFrame DEF Labels

LEMMA WriteFailsDrains == ASSUME RInv, DrainInv, NEW t \in Threads, WriteFails(t) PROVE DrainInv'
<1>1. /\ pc' = [pc EXCEPT ![t] = "idle"] /\ locals' = [locals EXCEPT ![t] = Idle]
      /\ last' = last /\ store' = store
  BY DEF WriteFails, Return, world
<1> QED
  BY <1>1, IdleTyped, DrainFrame DEF Labels

LEMMA DeleteRowsDrains == ASSUME RInv, DrainInv, NEW t \in Threads, DeleteRows(t) PROVE DrainInv'
<1>1. pc[t] = "delete" /\ last' = last /\ store' \subseteq store
  BY DEF DeleteRows, world
<1>2. CASE Cardinality(locals[t].rows) < BatchSize
  <2>1. pc' = [pc EXCEPT ![t] = "idle"] /\ locals' = [locals EXCEPT ![t] = Idle]
    BY <1>2 DEF DeleteRows, Return
  <2> QED
    BY <1>1, <2>1, IdleTyped, DrainFrame DEF Labels
<1>3. CASE ~(Cardinality(locals[t].rows) < BatchSize)
  <2> DEFINE r == [locals[t] EXCEPT !.rows = {}, !.name = NoName, !.full = FALSE]
  <2>1. pc' = [pc EXCEPT ![t] = "query"] /\ locals' = [locals EXCEPT ![t] = r]
    BY <1>3 DEF DeleteRows, RInv, TypeOK
  <2>2. r \in Runs /\ r.cutoff = locals[t].cutoff
    BY RunTyped, IdleTyped DEF Runs, Idle
  <2>3. r.cutoff <= last
    BY <1>1, <2>2 DEF DrainInv, LastBatch
  <2> HIDE DEF r
  <2> QED
    BY <1>1, <2>1, <2>2, <2>3, DrainFrame DEF Labels
<1> QED
  BY <1>2, <1>3

(* Events that come in, days that pass and crashes add nothing that a run  *)
(* had to take: what comes in is after its cutoff.                         *)
LEMMA WorldDrains ==
  ASSUME RInv, DrainInv, Insert \/ NextDay \/ ProcessDies
  PROVE  DrainInv'
<1>1. CASE Insert
  <2>1. /\ last' = last + 1 /\ store' = store \cup {last + 1}
        /\ pc' = pc /\ locals' = locals /\ last \in Nat
    BY <1>1, RetentionAssumption DEF Insert, RInv, TypeOK
  <2>2. ASSUME NEW t \in Threads PROVE LastBatch(t)'
    <3>1. locals[t].cutoff \in Nat
      BY RunTyped, RetentionAssumption DEF Runs
    <3> QED
      BY <2>1, <3>1 DEF DrainInv, LastBatch
  <2> QED
    BY <2>2 DEF DrainInv
<1>2. CASE NextDay
  BY <1>2 DEF NextDay, DrainInv, LastBatch
<1>3. CASE ProcessDies
  BY <1>3 DEF ProcessDies, DrainInv, LastBatch
<1> QED
  BY <1>1, <1>2, <1>3

(* The inductive invariant: a short batch that was not cut short is all    *)
(* there is before the cutoff, and stays so while others insert or delete. *)
THEOREM BatchesKept == RetentionSpec => []DrainInv
<1>1. RetentionInit => DrainInv
  BY DEF RetentionInit, DrainInv, LastBatch
<1>2. DrainInv /\ UNCHANGED retentionVars => DrainInv'
  BY DEF retentionVars, world, DrainInv, LastBatch
<1>3. RInv /\ DrainInv /\ [RetentionNext]_retentionVars => DrainInv'
  BY <1>2, WorldDrains, BeginDrains, QueryDrains, PickNameDrains, OpenDrains, WriteFileDrains,
     WriteFailsDrains, DeleteRowsDrains DEF RetentionNext, Step
<1> QED
  BY <1>1, <1>3, ArchivesKept, PTL DEF RetentionSpec

(* A run that ends after a deletion leaves nothing before its cutoff, also *)
(* when others run beside it, unless the size of its file cut it short.    *)
THEOREM RunsDrain == RetentionSpec => RunDrains
<1> DEFINE Drained(t) ==
      (pc[t] = "delete" /\ pc'[t] = "idle" /\ ~ locals[t].full /\ failures' = failures)
        => \A e \in store' : e > locals[t].cutoff
<1>1. ASSUME RInv, DrainInv, [RetentionNext]_retentionVars, NEW t \in Threads PROVE Drained(t)
  <2> SUFFICES ASSUME pc[t] = "delete", pc'[t] = "idle", ~ locals[t].full, failures' = failures,
                      NEW e \in store'
               PROVE  e > locals[t].cutoff
    OBVIOUS
  <2>1. RetentionNext
    BY <1>1 DEF retentionVars
  <2>2. ~ProcessDies
    BY <1>1 DEF ProcessDies, RInv, TypeOK
  <2>3. PICK u \in Threads : Step(u)
    BY <2>1, <2>2 DEF RetentionNext, Insert, NextDay
  <2>4. u = t
    <3>1. \E l \in Labels : pc' = [pc EXCEPT ![u] = l]
      BY <2>3 DEF Step, Begin, Query, Return, PickName, Open, WriteFile, WriteFails, DeleteRows, Labels
    <3> QED
      BY <1>1, <3>1 DEF RInv, TypeOK
  <2>5. DeleteRows(t)
    BY <2>3, <2>4 DEF Step, Begin, Query, PickName, Open, WriteFile, WriteFails
  <2>6. Cardinality(locals[t].rows) < BatchSize
    BY <1>1, <2>5 DEF DeleteRows, RInv, TypeOK
  <2>7. e \in store /\ e \notin locals[t].rows
    BY <2>5 DEF DeleteRows
  <2>8. ~(e <= locals[t].cutoff)
    BY <1>1, <2>6, <2>7 DEF DrainInv, LastBatch
  <2>9. e \in Nat /\ locals[t].cutoff \in Nat
    <3>1. e \in Events
      BY <1>1, <2>7 DEF RInv, TypeOK
    <3> QED
      BY <1>1, <3>1, RunTyped, RetentionAssumption DEF Events, Runs
  <2> QED
    BY <2>8, <2>9
<1>2. RInv /\ DrainInv /\ [RetentionNext]_retentionVars => [\A t \in Threads : Drained(t)]_retentionVars
  BY <1>1
<1> QED
  BY <1>2, ArchivesKept, BatchesKept, PTL DEF RetentionSpec, RunDrains

=============================================================================
