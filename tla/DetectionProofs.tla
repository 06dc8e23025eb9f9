-------------------------- MODULE DetectionProofs --------------------------
(***************************************************************************)
(* The two stateful kinds of rule, for any threads, rules, windows and     *)
(* bounds.                                                                 *)
(*                                                                         *)
(* The threshold rule misses no burst of events that it counts.  Whatever  *)
(* was evaluated is in the store, under an id of its own, so the           *)
(* evaluation that comes last among those of a burst finds the whole burst *)
(* in its window.                                                          *)
(*                                                                         *)
(* The correlation rule fires for chains and for no others.  An entry of   *)
(* its table is at step k because some chain of k + 1 events, begun when   *)
(* the entry was opened and free of firings, is in what the rule was       *)
(* shown; and no chain from the same first event is longer, so the event   *)
(* that completes one finds the entry waiting for it.                      *)
(***************************************************************************)
EXTENDS Detection, TLAPS, FiniteSetTheorems

CallRecord == [id : Nat, entity : Entities, kind : Kinds, at : Nat, since : Int]

Labels == {"idle", "insert", "correlate", "since", "count"}

CallsTyped ==
  /\ clock \in Nat /\ last \in Nat
  /\ pc \in [Threads -> Labels]
  /\ call \in [Threads -> CallRecord \cup {Idle}]
  /\ \A t \in Threads : pc[t] # "idle" => call[t] \in CallRecord

(* Every running call has an event of its own, which nobody evaluated yet. *)
CallsApart ==
  /\ \A t \in Threads : pc[t] # "idle" =>
       call[t].id \in 1 .. last /\ \A j \in judged : j.id # call[t].id
  /\ \A t, u \in Threads :
       (t # u /\ pc[t] # "idle" /\ pc[u] # "idle") => call[t].id # call[u].id

(* Past the insert the event is stored.                                    *)
CallsStored ==
  \A t \in Threads : pc[t] \in {"correlate", "since", "count"} => Row(call[t]) \in store

(* The event of an evaluation is in the store.                             *)
Stored(j) == \E x \in store : x.id = j.id /\ x.at = j.at /\ x.kind = j.kind

JudgedStored ==
  /\ IsFiniteSet(store)
  /\ \A j \in judged : j.id \in 1 .. last /\ Stored(j)
  /\ \A i, j \in judged : i.id = j.id => i = j

DInv == CallsTyped /\ CallsApart /\ CallsStored /\ JudgedStored /\ ThresholdNotMissed

-----------------------------------------------------------------------------

(* Evaluations of distinct stored events of counted kinds, none older than *)
(* since, are not more than the count for since finds.                     *)
LEMMA BurstCounted ==
  ASSUME NEW burst, NEW since, IsFiniteSet(store),
         \A x \in burst : Stored(x) /\ x.kind \in Counted /\ x.at >= since,
         \A x, y \in burst : x.id = y.id => x = y
  PROVE  /\ IsFiniteSet(InWindow(since)) /\ Cardinality(InWindow(since)) \in Nat
         /\ IsFiniteSet(burst) /\ Cardinality(burst) \in Nat
         /\ Cardinality(burst) <= Cardinality(InWindow(since))
<1> DEFINE W == InWindow(since)
           f == [x \in burst |-> CHOOSE r \in store :
                                   r.id = x.id /\ r.at = x.at /\ r.kind = x.kind]
<1>1. IsFiniteSet(W)
  <2>1. W \in SUBSET store
    BY DEF InWindow
  <2> QED
    BY <2>1, FS_Subset
<1>2. ASSUME NEW x \in burst
      PROVE  f[x] \in W /\ f[x].id = x.id
  <2>1. Stored(x) /\ x.kind \in Counted /\ x.at >= since
    OBVIOUS
  <2>2. \E r \in store : r.id = x.id /\ r.at = x.at /\ r.kind = x.kind
    BY <2>1 DEF Stored
  <2>3. f[x] \in store /\ f[x].id = x.id /\ f[x].at = x.at /\ f[x].kind = x.kind
    BY <2>2
  <2> QED
    BY <2>1, <2>3 DEF InWindow
<1>3. f \in [burst -> W]
  BY <1>2
<1>4. \A x, y \in burst : f[x] = f[y] => x = y
  BY <1>2
<1>5. f \in Injection(burst, W)
  BY <1>3, <1>4 DEF Injection, IsInjective
<1>6. IsFiniteSet(burst) /\ Cardinality(burst) <= Cardinality(W)
  BY <1>1, <1>5, FS_Injection
<1> QED
  BY <1>1, <1>6, FS_CardinalityType

(* What is in the store stays there.                                       *)
LEMMA StoredStays ==
  ASSUME store \subseteq store'
  PROVE  \A j \in judged : Stored(j) => Stored(j)'
BY DEF Stored

-----------------------------------------------------------------------------

LEMMA InitDInv == Init => DInv
<1> SUFFICES ASSUME Init PROVE DInv
  OBVIOUS
<1>1. CallsTyped
  BY DEF Init, CallsTyped, Labels
<1>2. CallsApart /\ CallsStored
  BY DEF Init, CallsApart, CallsStored
<1>3. JudgedStored
  BY FS_EmptySet DEF Init, JudgedStored
<1>4. ThresholdNotMissed
  <2> SUFFICES ASSUME NEW burst \in SUBSET judged, Cardinality(burst) = ThresholdCount
               PROVE  FALSE
    BY DEF ThresholdNotMissed
  <2>1. burst = {}
    BY DEF Init
  <2> QED
    BY <2>1, FS_EmptySet, RulesAssumption
<1> QED
  BY <1>1, <1>2, <1>3, <1>4 DEF DInv

(* A step that evaluates nothing and takes nothing out of the store leaves *)
(* what was evaluated as it is.                                            *)
LEMMA JudgedStays ==
  ASSUME DInv, UNCHANGED judged, last' \in Nat, last <= last', store \subseteq store',
         IsFiniteSet(store')
  PROVE  JudgedStored' /\ ThresholdNotMissed'
<1>1. \A j \in judged : j.id \in 1 .. last'
  BY DEF DInv, JudgedStored, CallsTyped
<1>2. \A j \in judged : Stored(j)'
  BY StoredStays DEF DInv, JudgedStored
<1>3. JudgedStored'
  BY <1>1, <1>2 DEF DInv, JudgedStored
<1>4. ThresholdNotMissed'
  BY DEF DInv, ThresholdNotMissed
<1> QED
  BY <1>3, <1>4

LEMMA ReceiveKeeps ==
  ASSUME DInv, NEW t \in Threads, NEW e \in Entities, NEW k \in Kinds, Receive(t, e, k)
  PROVE  DInv'
<1> DEFINE c == [id |-> last + 1, entity |-> e, kind |-> k, at |-> clock, since |-> 0]
<1>1. /\ clock \in Nat /\ last \in Nat /\ last' = last + 1 /\ clock' = clock
      /\ pc' = [pc EXCEPT ![t] = "insert"] /\ call' = [call EXCEPT ![t] = c]
      /\ UNCHANGED <<store, judged>> /\ pc[t] = "idle"
  BY DEF DInv, CallsTyped, Receive, Goto
<1>2. c \in CallRecord
  BY <1>1 DEF CallRecord
<1>3. CallsTyped'
  BY <1>1, <1>2 DEF DInv, CallsTyped, Labels
<1>4. /\ call'[t] = c /\ pc'[t] = "insert"
      /\ \A u \in Threads \ {t} : call'[u] = call[u] /\ pc'[u] = pc[u]
  BY <1>1 DEF DInv, CallsTyped
<1>5. CallsApart'
  <2>1. \A u \in Threads : pc[u] # "idle" => call[u].id \in 1 .. last
    BY DEF DInv, CallsApart
  <2>2. \A j \in judged : j.id \in 1 .. last
    BY DEF DInv, JudgedStored
  <2>3. ASSUME NEW u \in Threads, pc'[u] # "idle"
        PROVE  call'[u].id \in 1 .. last' /\ \A j \in judged' : j.id # call'[u].id
    BY <1>1, <1>4, <2>1, <2>2, <2>3 DEF DInv, CallsApart
  <2>4. ASSUME NEW u \in Threads, NEW v \in Threads, u # v, pc'[u] # "idle", pc'[v] # "idle"
        PROVE  call'[u].id # call'[v].id
    BY <1>1, <1>4, <2>1, <2>4 DEF DInv, CallsApart
  <2> QED
    BY <2>3, <2>4 DEF CallsApart
<1>6. CallsStored'
  BY <1>1, <1>4 DEF DInv, CallsStored, Row
<1>7. JudgedStored' /\ ThresholdNotMissed'
  BY <1>1, JudgedStays DEF DInv, JudgedStored
<1> QED
  BY <1>3, <1>5, <1>6, <1>7 DEF DInv

LEMMA InsertKeeps ==
  ASSUME DInv, NEW t \in Threads, Insert(t)
  PROVE  DInv'
<1>1. /\ pc' = [pc EXCEPT ![t] = "correlate"] /\ store' = store \cup {Row(call[t])}
      /\ UNCHANGED <<clock, last, call, judged>> /\ pc[t] = "insert"
  BY DEF Insert, Goto
<1>2. /\ pc'[t] = "correlate" /\ \A u \in Threads \ {t} : pc'[u] = pc[u]
  BY <1>1 DEF DInv, CallsTyped
<1>3. CallsTyped'
  BY <1>1, <1>2 DEF DInv, CallsTyped, Labels
<1>4. CallsApart'
  BY <1>1, <1>2 DEF DInv, CallsApart
<1>5. CallsStored'
  BY <1>1, <1>2 DEF DInv, CallsStored, Row
<1>6. IsFiniteSet(store')
  BY <1>1, FS_AddElement DEF DInv, JudgedStored
<1>7. JudgedStored' /\ ThresholdNotMissed'
  BY <1>1, <1>6, JudgedStays DEF DInv, CallsTyped
<1> QED
  BY <1>3, <1>4, <1>5, <1>7 DEF DInv

(* A call ends, or moves on within its event, and no other call changes.   *)
LEMMA CallMoves ==
  ASSUME DInv, NEW t \in Threads, UNCHANGED <<last, store, judged>>, clock' \in Nat,
         pc[t] # "idle",
         \/ Return(t)
         \/ /\ pc' \in [Threads -> Labels] /\ call' \in [Threads -> CallRecord \cup {Idle}]
            /\ \A u \in Threads \ {t} : pc'[u] = pc[u] /\ call'[u] = call[u]
            /\ call'[t] \in CallRecord /\ call'[t].id = call[t].id /\ Row(call[t])' = Row(call[t])
            /\ pc'[t] \in {"since", "count"} /\ pc[t] \in {"correlate", "since"}
  PROVE  DInv'
<1>1. /\ pc' \in [Threads -> Labels] /\ call' \in [Threads -> CallRecord \cup {Idle}]
      /\ \A u \in Threads \ {t} : pc'[u] = pc[u] /\ call'[u] = call[u]
  BY DEF Return, Goto, DInv, CallsTyped, Labels
<1>2. \/ pc'[t] = "idle"
      \/ /\ call'[t] \in CallRecord /\ call'[t].id = call[t].id /\ Row(call[t])' = Row(call[t])
         /\ pc'[t] \in {"since", "count"} /\ pc[t] \in {"correlate", "since"}
  BY DEF Return, Goto, DInv, CallsTyped
<1>3. CallsTyped'
  BY <1>1, <1>2 DEF DInv, CallsTyped
<1>4. CallsApart'
  BY <1>1, <1>2 DEF DInv, CallsApart
<1>5. CallsStored'
  BY <1>1, <1>2 DEF DInv, CallsStored, Row
<1>6. JudgedStored' /\ ThresholdNotMissed'
  <2>1. IsFiniteSet(store') /\ last' \in Nat /\ last <= last'
    BY DEF DInv, JudgedStored, CallsTyped
  <2> QED
    BY <2>1, JudgedStays
<1> QED
  BY <1>3, <1>4, <1>5, <1>6 DEF DInv

LEMMA CorrelateKeeps ==
  ASSUME DInv, NEW t \in Threads, Correlate(t)
  PROVE  DInv'
<1>1. /\ UNCHANGED <<clock, last, store, judged>> /\ pc[t] = "correlate" /\ clock \in Nat
      /\ call[t] \in CallRecord
      /\ IF call[t].kind \in Triggers THEN Goto(t, "since") /\ UNCHANGED call ELSE Return(t)
  BY DEF Correlate, DInv, CallsTyped
<1>2. CASE call[t].kind \in Triggers
  <2>1. pc' = [pc EXCEPT ![t] = "since"] /\ call' = call
    BY <1>1, <1>2 DEF Goto
  <2>2. pc' \in [Threads -> Labels] /\ pc'[t] = "since" /\ \A u \in Threads \ {t} : pc'[u] = pc[u]
    BY <2>1 DEF DInv, CallsTyped, Labels
  <2> QED
    BY <1>1, <1>2, <2>1, <2>2, CallMoves DEF DInv, CallsTyped, Row
<1>3. CASE call[t].kind \notin Triggers
  BY <1>1, <1>3, CallMoves
<1> QED
  BY <1>2, <1>3

LEMMA SinceKeeps ==
  ASSUME DInv, NEW t \in Threads, Since(t)
  PROVE  DInv'
<1>1. /\ UNCHANGED <<clock, last, store, judged>> /\ pc[t] = "since" /\ clock \in Nat
      /\ call[t] \in CallRecord
      /\ call' = [call EXCEPT ![t].since = clock - CountWindow]
      /\ pc' = [pc EXCEPT ![t] = "count"]
  BY DEF Since, Goto, DInv, CallsTyped, CallsStored
<1>2. pc' \in [Threads -> Labels] /\ pc'[t] = "count" /\ \A u \in Threads \ {t} : pc'[u] = pc[u]
  BY <1>1 DEF DInv, CallsTyped, Labels
<1>3. /\ call'[t] = [call[t] EXCEPT !.since = clock - CountWindow]
      /\ \A u \in Threads \ {t} : call'[u] = call[u]
  BY <1>1 DEF DInv, CallsTyped
<1>4. clock - CountWindow \in Int
  BY <1>1, RulesAssumption
<1>5. /\ call'[t] \in CallRecord /\ call'[t].id = call[t].id /\ call'[t].kind = call[t].kind
      /\ call'[t].entity = call[t].entity /\ call'[t].at = call[t].at
  BY <1>1, <1>3, <1>4 DEF CallRecord
<1>6. call' \in [Threads -> CallRecord \cup {Idle}]
  BY <1>1, <1>3, <1>5 DEF DInv, CallsTyped
<1>7. Row(call[t])' = Row(call[t])
  BY <1>5 DEF Row
<1> QED
  BY <1>1, <1>2, <1>3, <1>5, <1>6, <1>7, CallMoves

(* The step that matters: the evaluation added is the last of its bursts.  *)
LEMMA CountKeeps ==
  ASSUME DInv, NEW t \in Threads, Count(t)
  PROVE  DInv'
<1> DEFINE c == call[t]
           j == [id |-> c.id, kind |-> c.kind, at |-> c.at, since |-> c.since,
                 fired |-> Reached(c)]
<1>1. /\ pc[t] = "count" /\ judged' = judged \cup {j} /\ UNCHANGED <<clock, last, store>>
      /\ pc' = [pc EXCEPT ![t] = "idle"] /\ call' = [call EXCEPT ![t] = Idle]
  BY DEF Count, Return, Goto
<1>2. /\ pc'[t] = "idle" /\ \A u \in Threads \ {t} : pc'[u] = pc[u] /\ call'[u] = call[u]
  BY <1>1 DEF DInv, CallsTyped
<1>3. c.id \in 1 .. last /\ \A i \in judged : i.id # c.id
  BY <1>1 DEF DInv, CallsApart
<1>4. Stored(j)
  <2>1. Row(c) \in store
    BY <1>1 DEF DInv, CallsStored
  <2> QED
    BY <2>1 DEF Stored, Row
<1>5. CallsTyped'
  BY <1>1, <1>2 DEF DInv, CallsTyped, Labels
<1>6. CallsApart'
  <2>1. ASSUME NEW u \in Threads, pc'[u] # "idle"
        PROVE  call'[u].id \in 1 .. last' /\ \A i \in judged' : i.id # call'[u].id
    <3>1. u # t /\ pc[u] # "idle" /\ call'[u] = call[u]
      BY <1>2, <2>1
    <3>2. call[u].id # c.id
      BY <1>1, <3>1 DEF DInv, CallsApart
    <3>3. call[u].id \in 1 .. last /\ \A i \in judged : i.id # call[u].id
      BY <3>1 DEF DInv, CallsApart
    <3> QED
      BY <1>1, <3>1, <3>2, <3>3
  <2>2. ASSUME NEW u \in Threads, NEW v \in Threads, u # v, pc'[u] # "idle", pc'[v] # "idle"
        PROVE  call'[u].id # call'[v].id
    BY <1>2, <2>2 DEF DInv, CallsApart
  <2> QED
    BY <2>1, <2>2 DEF CallsApart
<1>7. CallsStored'
  BY <1>1, <1>2 DEF DInv, CallsStored, Row
<1>8. /\ \A i \in judged' : i.id \in 1 .. last /\ Stored(i)
      /\ \A i, k \in judged' : i.id = k.id => i = k
  BY <1>1, <1>3, <1>4 DEF DInv, JudgedStored
<1>9. JudgedStored'
  <2>1. \A i \in judged' : Stored(i)'
    BY <1>1, <1>8 DEF Stored
  <2> QED
    BY <1>1, <1>8, <2>1 DEF DInv, JudgedStored
<1>10. ThresholdNotMissed'
  <2> SUFFICES ASSUME NEW burst \in SUBSET judged', Cardinality(burst) = ThresholdCount,
                      \A x \in burst : x.kind \in Counted,
                      \A x, y \in burst : x.at >= y.since
               PROVE  \E x \in burst : x.fired
    BY DEF ThresholdNotMissed
  <2>1. CASE j \in burst
    <3>1. \A x \in burst : Stored(x) /\ x.kind \in Counted /\ x.at >= c.since
      BY <1>8, <2>1
    <3>2. \A x, y \in burst : x.id = y.id => x = y
      BY <1>8
    <3>3. IsFiniteSet(store)
      BY DEF DInv, JudgedStored
    <3>4. /\ Cardinality(InWindow(c.since)) \in Nat /\ Cardinality(burst) \in Nat
          /\ Cardinality(burst) <= Cardinality(InWindow(c.since))
      BY <3>1, <3>2, <3>3, BurstCounted
    <3>5. Reached(c)
      BY <3>4 DEF Reached
    <3> QED
      BY <2>1, <3>5
  <2>2. CASE j \notin burst
    <3>1. burst \in SUBSET judged
      BY <1>1, <2>2
    <3> QED
      BY <3>1 DEF DInv, ThresholdNotMissed
  <2> QED
    BY <2>1, <2>2
<1> QED
  BY <1>5, <1>6, <1>7, <1>9, <1>10 DEF DInv

LEMMA RestartKeeps ==
  ASSUME DInv, Restart
  PROVE  DInv'
<1>1. /\ UNCHANGED <<clock, last, store, judged>>
      /\ pc' = [t \in Threads |-> "idle"] /\ call' = [t \in Threads |-> Idle]
  BY DEF Restart
<1>2. CallsTyped' /\ CallsApart' /\ CallsStored'
  BY <1>1 DEF DInv, CallsTyped, CallsApart, CallsStored, Labels
<1>3. JudgedStored' /\ ThresholdNotMissed'
  BY <1>1, JudgedStays DEF DInv, JudgedStored, CallsTyped
<1> QED
  BY <1>2, <1>3 DEF DInv

(* Steps that touch no call: the clock, and stuttering.                    *)
LEMMA NothingMoves ==
  ASSUME DInv, UNCHANGED <<last, store, pc, call, judged>>, clock' \in Nat
  PROVE  DInv'
<1>1. CallsTyped' /\ CallsApart' /\ CallsStored'
  BY DEF DInv, CallsTyped, CallsApart, CallsStored, Row
<1>2. JudgedStored' /\ ThresholdNotMissed'
  BY JudgedStays DEF DInv, JudgedStored, CallsTyped
<1> QED
  BY <1>1, <1>2 DEF DInv

(* The invariant: evaluations are of stored events, one each, and no burst *)
(* among them went by without a firing (store_and_evaluate,                *)
(* count_events_in_window).                                                *)
THEOREM EvaluationsStored == Spec => []DInv
<1>1. Init => DInv
  BY InitDInv
<1>2. DInv /\ [Next]_vars => DInv'
  <2> SUFFICES ASSUME DInv, [Next]_vars PROVE DInv'
    OBVIOUS
  <2>1. clock \in Nat
    BY DEF DInv, CallsTyped
  <2>2. CASE Tick
    BY <2>1, <2>2, NothingMoves DEF Tick
  <2>3. CASE Restart
    BY <2>3, RestartKeeps
  <2>4. ASSUME NEW t \in Threads, NEW e \in Entities, NEW k \in Kinds, Receive(t, e, k)
        PROVE  DInv'
    BY <2>4, ReceiveKeeps
  <2>5. ASSUME NEW t \in Threads, Insert(t) PROVE DInv'
    BY <2>5, InsertKeeps
  <2>6. ASSUME NEW t \in Threads, InsertFails(t) PROVE DInv'
    BY <2>1, <2>6, CallMoves DEF InsertFails
  <2>7. ASSUME NEW t \in Threads, Correlate(t) PROVE DInv'
    BY <2>7, CorrelateKeeps
  <2>8. ASSUME NEW t \in Threads, Since(t) PROVE DInv'
    BY <2>8, SinceKeeps
  <2>9. ASSUME NEW t \in Threads, Count(t) PROVE DInv'
    BY <2>9, CountKeeps
  <2>10. CASE UNCHANGED vars
    BY <2>1, <2>10, NothingMoves DEF vars
  <2> QED
    BY <2>2, <2>3, <2>4, <2>5, <2>6, <2>7, <2>8, <2>9, <2>10 DEF Next, Step
<1> QED
  BY <1>1, <1>2, PTL DEF Spec

(* Of threshold_count evaluated events that are counted and each find all  *)
(* the others in their window, one fires, in whatever order they were stamped, stored    *)
(* and counted (count_events_in_window after insert_event).                *)
THEOREM BurstsFire == Spec => []ThresholdNotMissed
<1>1. DInv => ThresholdNotMissed
  BY DEF DInv
<1> QED
  BY <1>1, EvaluationsStored, PTL

-----------------------------------------------------------------------------
(* The correlation rule.  An entry stands for a chain begun in this        *)
(* process, and for every chain that its first event could begin: the      *)
(* table is exactly as far as the longest of them.                         *)

Entries == [step : 0 .. Steps - 2, at : Nat]
Sights == [kind : Kinds, at : Nat, boot : Nat, opened : BOOLEAN, raised : BOOLEAN]

(* The first k + 1 steps of a chain, in what the rule was shown.           *)
Begun(s, k) ==
  {q \in [0 .. k -> DOMAIN s] :
     /\ \A i \in 1 .. k : q[i - 1] < q[i]
     /\ \A i \in 0 .. k : i \in Hits[s[q[i]].kind]}

Raised(s, first, final) == \E i \in first .. final : s[i].raised

SightsTyped ==
  /\ clock \in Nat /\ boot \in Nat /\ DOMAIN corr \subseteq Entities
  /\ corr = [e \in DOMAIN corr |-> corr[e]]
  /\ \A e \in DOMAIN corr : corr[e] \in Entries /\ corr[e].at <= clock
  /\ seen \in [Entities -> Seq(Sights)]
  /\ \A e \in Entities : \A i \in DOMAIN seen[e] :
       seen[e][i].boot <= boot /\ seen[e][i].at <= clock

(* An entry has come to its step by events since the last firing.          *)
EntryExplained(e) ==
  e \in DOMAIN corr =>
    \E q \in Begun(seen[e], corr[e].step) :
      /\ seen[e][q[0]].at = corr[e].at /\ seen[e][q[0]].boot = boot
      /\ ~ Raised(seen[e], q[0], Len(seen[e]))

(* Position o of e opened an entry that neither fired nor ran out.         *)
Pending(e, o) ==
  /\ seen[e][o].opened /\ seen[e][o].boot = boot /\ clock - seen[e][o].at <= Window
  /\ ~ Raised(seen[e], o, Len(seen[e]))

(* Its entry is there, and no chain from it is further.                    *)
Kept(e, o) ==
  /\ e \in DOMAIN corr /\ corr[e].at = seen[e][o].at
  /\ \A k \in 0 .. Steps - 1 : \A q \in Begun(seen[e], k) : q[0] = o => corr[e].step >= k

PendingKept(e) == \A o \in DOMAIN seen[e] : Pending(e, o) => Kept(e, o)

FiringExplained(e) ==
  \A i \in DOMAIN seen[e] : seen[e][i].raised =>
    \E p \in Chains(e) : p[Steps - 1] = i /\ ~ Raised(seen[e], p[0], i - 1)

OpenedChainFires(e) ==
  \A p \in Chains(e) : seen[e][p[0]].opened => Raised(seen[e], p[0], p[Steps - 1])

Tracked(e) == EntryExplained(e) /\ PendingKept(e) /\ FiringExplained(e) /\ OpenedChainFires(e)

CInv == SightsTyped /\ \A e \in Entities : Tracked(e)

-----------------------------------------------------------------------------

LEMMA AppendedSights ==
  ASSUME NEW s \in Seq(Sights), NEW x \in Sights
  PROVE  /\ Append(s, x) \in Seq(Sights) /\ Len(Append(s, x)) = Len(s) + 1
         /\ Len(s) \in Nat /\ DOMAIN s = 1 .. Len(s)
         /\ DOMAIN Append(s, x) = 1 .. Len(s) + 1
         /\ Append(s, x)[Len(s) + 1] = x
         /\ \A i \in DOMAIN s : Append(s, x)[i] = s[i] /\ i \in DOMAIN Append(s, x)
OBVIOUS

(* What the rule is shown next ends a chain, or the chain was there.       *)
LEMMA BegunBefore ==
  ASSUME NEW s \in Seq(Sights), NEW x \in Sights, NEW k \in Nat,
         NEW q \in Begun(Append(s, x), k), q[k] # Len(s) + 1
  PROVE  q \in Begun(s, k)
<1> DEFINE n == Len(s)
           z == Append(s, x)
<1>1. /\ n \in Nat /\ DOMAIN s = 1 .. n /\ DOMAIN z = 1 .. n + 1
      /\ \A i \in DOMAIN s : z[i] = s[i]
  BY AppendedSights
<1>2. /\ q \in [0 .. k -> DOMAIN z] /\ \A i \in 1 .. k : q[i - 1] < q[i]
      /\ \A i \in 0 .. k : i \in Hits[z[q[i]].kind]
  BY DEF Begun
<1> HIDE DEF n, z
<1>3. ASSUME NEW i \in 0 .. k PROVE q[i] \in 1 .. n
  <2>1. q[i] \in 1 .. n + 1
    BY <1>1, <1>2
  <2>2. CASE i = k
    BY <2>1, <2>2, <1>1 DEF n
  <2>3. CASE i # k
    <3>1. i + 1 \in 1 .. k /\ i + 1 \in 0 .. k
      BY <2>3
    <3>2. q[(i + 1) - 1] < q[i + 1] /\ q[i + 1] \in 1 .. n + 1
      BY <1>1, <1>2, <3>1
    <3>3. (i + 1) - 1 = i
      OBVIOUS
    <3> QED
      BY <1>1, <2>1, <3>2, <3>3
  <2> QED
    BY <2>2, <2>3
<1>4. q \in [0 .. k -> DOMAIN s]
  BY <1>1, <1>2, <1>3
<1>5. \A i \in 0 .. k : i \in Hits[s[q[i]].kind]
  BY <1>1, <1>2, <1>3
<1> QED
  BY <1>2, <1>4, <1>5 DEF Begun

(* Without its last event it was there in any case.                        *)
LEMMA BegunButLast ==
  ASSUME NEW s \in Seq(Sights), NEW x \in Sights, NEW k \in Nat \ {0},
         NEW q \in Begun(Append(s, x), k)
  PROVE  [i \in 0 .. k - 1 |-> q[i]] \in Begun(s, k - 1)
<1> DEFINE n == Len(s)
           z == Append(s, x)
           r == [i \in 0 .. k - 1 |-> q[i]]
<1>1. /\ n \in Nat /\ DOMAIN s = 1 .. n /\ DOMAIN z = 1 .. n + 1
      /\ \A i \in DOMAIN s : z[i] = s[i]
  BY AppendedSights
<1>2. /\ q \in [0 .. k -> DOMAIN z] /\ \A i \in 1 .. k : q[i - 1] < q[i]
      /\ \A i \in 0 .. k : i \in Hits[z[q[i]].kind]
  BY DEF Begun
<1>3. \A i \in 0 .. k - 1 : r[i] = q[i] /\ i \in 0 .. k
  OBVIOUS
<1>4. r = [i \in 0 .. k - 1 |-> r[i]]
  OBVIOUS
<1> HIDE DEF n, z, r
<1>5. ASSUME NEW i \in 0 .. k - 1 PROVE q[i] \in 1 .. n
  <2>1. i + 1 \in 1 .. k /\ i + 1 \in 0 .. k /\ i \in 0 .. k
    OBVIOUS
  <2>2. q[(i + 1) - 1] < q[i + 1] /\ q[i + 1] \in 1 .. n + 1 /\ q[i] \in 1 .. n + 1
    BY <1>1, <1>2, <2>1
  <2>3. (i + 1) - 1 = i
    OBVIOUS
  <2> QED
    BY <1>1, <2>2, <2>3
<1>6. r \in [0 .. k - 1 -> DOMAIN s]
  BY <1>1, <1>3, <1>4, <1>5
<1>7. ASSUME NEW i \in 1 .. k - 1 PROVE r[i - 1] < r[i]
  <2>1. i \in 1 .. k /\ i - 1 \in 0 .. k - 1 /\ i \in 0 .. k - 1
    OBVIOUS
  <2> QED
    BY <1>2, <1>3, <2>1
<1>8. ASSUME NEW i \in 0 .. k - 1 PROVE i \in Hits[s[r[i]].kind]
  <2>1. i \in Hits[z[q[i]].kind]
    BY <1>2, <1>3
  <2> QED
    BY <1>1, <1>3, <1>5, <2>1
<1>9. r \in Begun(s, k - 1)
  BY <1>6, <1>7, <1>8 DEF Begun
<1> QED
  BY <1>9 DEF r

(* A chain stays, and goes on with an event that meets its next step.      *)
LEMMA BegunStays ==
  ASSUME NEW s \in Seq(Sights), NEW x \in Sights, NEW k \in Nat, NEW q \in Begun(s, k)
  PROVE  q \in Begun(Append(s, x), k)
<1>1. \A i \in DOMAIN s : Append(s, x)[i] = s[i] /\ i \in DOMAIN Append(s, x)
  BY AppendedSights
<1>2. q \in [0 .. k -> DOMAIN s] /\ \A i \in 0 .. k : i \in Hits[s[q[i]].kind]
  BY DEF Begun
<1>3. q \in [0 .. k -> DOMAIN Append(s, x)]
  BY <1>1, <1>2
<1>4. \A i \in 0 .. k : i \in Hits[Append(s, x)[q[i]].kind]
  BY <1>1, <1>2
<1> QED
  BY <1>3, <1>4 DEF Begun

LEMMA BegunExtends ==
  ASSUME NEW s \in Seq(Sights), NEW x \in Sights, NEW k \in Nat, NEW q \in Begun(s, k),
         k + 1 \in Hits[x.kind]
  PROVE  \E p \in Begun(Append(s, x), k + 1) : p[0] = q[0] /\ p[k + 1] = Len(s) + 1
<1> DEFINE n == Len(s)
           z == Append(s, x)
           p == [i \in 0 .. k + 1 |-> IF i = k + 1 THEN n + 1 ELSE q[i]]
<1>1. /\ n \in Nat /\ DOMAIN s = 1 .. n /\ DOMAIN z = 1 .. n + 1
      /\ z[n + 1] = x /\ \A i \in DOMAIN s : z[i] = s[i]
  BY AppendedSights
<1>2. /\ q \in [0 .. k -> DOMAIN s] /\ \A i \in 1 .. k : q[i - 1] < q[i]
      /\ \A i \in 0 .. k : i \in Hits[s[q[i]].kind]
  BY DEF Begun
<1>3. p[k + 1] = n + 1 /\ \A i \in 0 .. k : p[i] = q[i]
  OBVIOUS
<1>4. p = [i \in 0 .. k + 1 |-> p[i]]
  OBVIOUS
<1> HIDE DEF n, z, p
<1>5. \A i \in 0 .. k + 1 : i \in 0 .. k \/ i = k + 1
  OBVIOUS
<1>6. \A i \in 0 .. k : q[i] \in 1 .. n
  BY <1>1, <1>2
<1>7. p \in [0 .. k + 1 -> DOMAIN z]
  <2>1. \A i \in 0 .. k + 1 : p[i] \in 1 .. n + 1
    BY <1>1, <1>3, <1>5, <1>6
  <2> QED
    BY <1>1, <1>4, <2>1
<1>8. ASSUME NEW i \in 1 .. k + 1 PROVE p[i - 1] < p[i]
  <2>1. CASE i = k + 1
    <3>1. i - 1 = k /\ k \in 0 .. k
      BY <2>1
    <3> QED
      BY <1>1, <1>3, <1>6, <2>1, <3>1
  <2>2. CASE i # k + 1
    <3>1. i \in 1 .. k /\ i \in 0 .. k /\ i - 1 \in 0 .. k
      BY <2>2
    <3> QED
      BY <1>2, <1>3, <3>1
  <2> QED
    BY <2>1, <2>2
<1>9. ASSUME NEW i \in 0 .. k + 1 PROVE i \in Hits[z[p[i]].kind]
  <2>1. CASE i = k + 1
    BY <1>1, <1>3, <2>1
  <2>2. CASE i # k + 1
    <3>1. i \in 0 .. k
      BY <2>2
    <3>2. i \in Hits[s[q[i]].kind] /\ q[i] \in DOMAIN s
      BY <1>2, <3>1
    <3> QED
      BY <1>1, <1>3, <3>1, <3>2
  <2> QED
    BY <2>1, <2>2
<1>10. p \in Begun(z, k + 1)
  BY <1>7, <1>8, <1>9 DEF Begun
<1>11. 0 \in 0 .. k
  OBVIOUS
<1> QED
  BY <1>3, <1>10, <1>11 DEF n, z

LEMMA BegunTyped ==
  ASSUME NEW s \in Seq(Sights), NEW k \in Nat, NEW q \in Begun(s, k)
  PROVE  \A i \in 0 .. k : q[i] \in 1 .. Len(s)
BY DEF Begun

(* One event more raises what was raised, and what it raises itself.       *)
LEMMA RaisedAppended ==
  ASSUME NEW s \in Seq(Sights), NEW x \in Sights, NEW o \in 1 .. Len(s) + 1
  PROVE  /\ \A i \in 0 .. Len(s) : Raised(Append(s, x), o, i) <=> Raised(s, o, i)
         /\ Raised(Append(s, x), o, Len(s) + 1) <=> (Raised(s, o, Len(s)) \/ x.raised)
<1> DEFINE n == Len(s)
           z == Append(s, x)
<1>1. n \in Nat /\ z[n + 1] = x /\ \A i \in 1 .. n : z[i] = s[i]
  BY AppendedSights
<1> HIDE DEF n, z
<1>2. ASSUME NEW i \in 0 .. n PROVE Raised(z, o, i) <=> Raised(s, o, i)
  <2>1. \A j \in o .. i : z[j] = s[j]
    BY <1>1 DEF n
  <2> QED
    BY <2>1 DEF Raised
<1>3. Raised(z, o, n + 1) <=> (Raised(s, o, n) \/ x.raised)
  <2>1. o .. n + 1 = (o .. n) \cup {n + 1}
    BY <1>1 DEF n
  <2>2. \A j \in o .. n : z[j] = s[j]
    BY <1>1 DEF n
  <2> QED
    BY <1>1, <2>1, <2>2 DEF Raised
<1> QED
  BY <1>2, <1>3 DEF n, z

LEMMA ChainsAreBegun ==
  ASSUME NEW e
  PROVE  Chains(e) = {p \in Begun(seen[e], Steps - 1) :
                        /\ seen[e][p[0]].boot = seen[e][p[Steps - 1]].boot
                        /\ seen[e][p[Steps - 1]].at - seen[e][p[0]].at <= Window}
BY DEF Chains, Begun

-----------------------------------------------------------------------------

(* The rule is shown the sight x of e: what becomes of the entry of e.     *)
Alive(e) == e \in DOMAIN corr /\ clock - corr[e].at <= Window

Fires(e, x) ==
  /\ Alive(e) /\ corr[e].step + 1 = Steps - 1 /\ Steps - 1 \in Hits[x.kind]
  /\ x.raised /\ ~x.opened /\ e \notin DOMAIN corr'

Advances(e, x) ==
  /\ Alive(e) /\ corr[e].step + 1 # Steps - 1 /\ corr[e].step + 1 \in Hits[x.kind]
  /\ ~x.raised /\ ~x.opened
  /\ e \in DOMAIN corr' /\ corr'[e].step = corr[e].step + 1 /\ corr'[e].at = corr[e].at

Waits(e, x) ==
  /\ Alive(e) /\ corr[e].step + 1 \notin Hits[x.kind] /\ ~x.raised /\ ~x.opened
  /\ e \in DOMAIN corr' /\ corr'[e] = corr[e]

Opens(e, x) ==
  /\ ~Alive(e) /\ 0 \in Hits[x.kind] /\ ~x.raised /\ x.opened
  /\ e \in DOMAIN corr' /\ corr'[e].step = 0 /\ corr'[e].at = clock

Passes(e, x) == ~Alive(e) /\ ~x.raised /\ ~x.opened /\ e \notin DOMAIN corr'

Shown(e, x) ==
  /\ x \in Sights /\ x.at = clock /\ x.boot = boot
  /\ seen'[e] = Append(seen[e], x) /\ UNCHANGED <<clock, boot>>
  /\ Fires(e, x) \/ Advances(e, x) \/ Waits(e, x) \/ Opens(e, x) \/ Passes(e, x)

LEMMA ShownSights ==
  ASSUME SightsTyped, NEW e \in Entities, NEW x, Shown(e, x)
  PROVE  /\ seen[e] \in Seq(Sights) /\ x \in Sights /\ Len(seen[e]) \in Nat
         /\ seen'[e] = Append(seen[e], x) /\ Len(seen'[e]) = Len(seen[e]) + 1
         /\ DOMAIN seen[e] = 1 .. Len(seen[e]) /\ DOMAIN seen'[e] = 1 .. Len(seen[e]) + 1
         /\ seen'[e][Len(seen[e]) + 1] = x
         /\ \A i \in 1 .. Len(seen[e]) : seen'[e][i] = seen[e][i]
<1>1. seen[e] \in Seq(Sights) /\ x \in Sights /\ seen'[e] = Append(seen[e], x)
  BY DEF SightsTyped, Shown
<1> QED
  BY <1>1, AppendedSights

LEMMA EntryStaysExplained ==
  ASSUME SightsTyped, NEW e \in Entities, NEW x, Shown(e, x), EntryExplained(e)
  PROVE  EntryExplained(e)'
<1>1. PICK n :
      /\ n = Len(seen[e]) /\ n \in Nat /\ DOMAIN seen[e] = 1 .. n /\ seen'[e][n + 1] = x /\ x \in Sights
      /\ \A i \in 1 .. n : seen'[e][i] = seen[e][i]
      /\ boot' = boot
      /\ seen[e] \in Seq(Sights) /\ seen'[e] = Append(seen[e], x)
      /\ Len(seen'[e]) = n + 1 /\ DOMAIN seen'[e] = 1 .. n + 1
  BY ShownSights DEF Shown
<1>2. ASSUME e \in DOMAIN corr, ~x.raised
      PROVE  \E q \in Begun(seen[e], corr[e].step) :
               /\ q[0] \in 1 .. n
               /\ seen'[e][q[0]].at = corr[e].at /\ seen'[e][q[0]].boot = boot
               /\ ~ Raised(seen'[e], q[0], n + 1)
  <2>1. PICK q \in Begun(seen[e], corr[e].step) :
          /\ seen[e][q[0]].at = corr[e].at /\ seen[e][q[0]].boot = boot
          /\ ~ Raised(seen[e], q[0], n)
    BY <1>1, <1>2 DEF EntryExplained
  <2>2. corr[e].step \in Nat
    BY <1>2, RulesAssumption DEF SightsTyped, Entries
  <2>3. q[0] \in 1 .. n
    <3>1. 0 \in 0 .. corr[e].step
      BY <2>2
    <3> QED
      BY <1>1, <2>2, <3>1, BegunTyped
  <2>4. q[0] \in 1 .. n + 1
    BY <1>1, <2>3
  <2>5. ~ Raised(seen'[e], q[0], n + 1)
    BY <1>1, <1>2, <2>1, <2>4, RaisedAppended
  <2> QED
    BY <1>1, <2>1, <2>3, <2>5
<1>3. ASSUME e \in DOMAIN corr' =>
               \E q \in Begun(seen'[e], corr'[e].step) :
                 /\ seen'[e][q[0]].at = corr'[e].at /\ seen'[e][q[0]].boot = boot
                 /\ ~ Raised(seen'[e], q[0], n + 1)
      PROVE  EntryExplained(e)'
  BY <1>1, <1>3 DEF EntryExplained
<1>4. CASE Advances(e, x)
  <2>1. /\ e \in DOMAIN corr /\ corr[e].step + 1 \in Hits[x.kind] /\ ~x.raised
        /\ corr'[e].step = corr[e].step + 1 /\ corr'[e].at = corr[e].at
    BY <1>4 DEF Advances, Alive
  <2>2. PICK q \in Begun(seen[e], corr[e].step) :
          /\ seen'[e][q[0]].at = corr[e].at /\ seen'[e][q[0]].boot = boot
          /\ ~ Raised(seen'[e], q[0], n + 1)
    BY <1>2, <2>1
  <2>3. corr[e].step \in Nat
    BY <2>1, RulesAssumption DEF SightsTyped, Entries
  <2>4. PICK p \in Begun(seen'[e], corr[e].step + 1) : p[0] = q[0]
    BY <1>1, <2>1, <2>3, BegunExtends
  <2> QED
    BY <1>1, <2>1, <2>2, <2>4, <1>3
<1>5. CASE Waits(e, x)
  <2>1. e \in DOMAIN corr /\ ~x.raised /\ corr'[e] = corr[e]
    BY <1>5 DEF Waits, Alive
  <2>2. PICK q \in Begun(seen[e], corr[e].step) :
          /\ seen'[e][q[0]].at = corr[e].at /\ seen'[e][q[0]].boot = boot
          /\ ~ Raised(seen'[e], q[0], n + 1)
    BY <1>2, <2>1
  <2>3. corr[e].step \in Nat
    BY <2>1, RulesAssumption DEF SightsTyped, Entries
  <2>4. q \in Begun(seen'[e], corr[e].step)
    BY <1>1, <2>3, BegunStays
  <2> QED
    BY <1>1, <2>1, <2>2, <2>4, <1>3
<1>6. CASE Opens(e, x)
  <2> DEFINE q == [i \in 0 .. 0 |-> n + 1]
  <2>1. 0 \in Hits[x.kind] /\ ~x.raised /\ corr'[e].step = 0 /\ corr'[e].at = clock
    BY <1>6 DEF Opens
  <2>2. q[0] = n + 1 /\ \A i \in 0 .. 0 : i = 0
    OBVIOUS
  <2>3. q \in [0 .. 0 -> DOMAIN seen'[e]]
    BY <1>1
  <2> HIDE DEF q
  <2>4. q \in Begun(seen'[e], 0)
    <3>1. \A i \in 0 .. 0 : i \in Hits[seen'[e][q[i]].kind]
      BY <1>1, <2>1, <2>2
    <3>2. \A i \in 1 .. 0 : q[i - 1] < q[i]
      OBVIOUS
    <3> QED
      BY <2>3, <3>1, <3>2 DEF Begun
  <2>5. ~ Raised(seen'[e], n + 1, n + 1)
    <3>1. ~ Raised(seen[e], n + 1, n)
      BY <1>1 DEF Raised
    <3> QED
      BY <1>1, <2>1, <3>1, RaisedAppended
  <2>6. seen'[e][q[0]].at = corr'[e].at /\ seen'[e][q[0]].boot = boot
    BY <1>1, <2>1, <2>2 DEF Shown
  <2> QED
    BY <1>1, <2>1, <2>2, <2>4, <2>5, <2>6, <1>3
<1>7. CASE e \notin DOMAIN corr'
  BY <1>3, <1>7
<1> QED
  BY <1>4, <1>5, <1>6, <1>7 DEF Shown, Fires, Passes

LEMMA PendingStaysKept ==
  ASSUME SightsTyped, NEW e \in Entities, NEW x, Shown(e, x), PendingKept(e)
  PROVE  PendingKept(e)'
<1>1. PICK n :
      /\ n = Len(seen[e]) /\ n \in Nat /\ DOMAIN seen[e] = 1 .. n /\ seen'[e][n + 1] = x /\ x \in Sights
      /\ \A i \in 1 .. n : seen'[e][i] = seen[e][i]
      /\ boot' = boot /\ clock' = clock /\ clock \in Nat
      /\ seen[e] \in Seq(Sights) /\ seen'[e] = Append(seen[e], x)
      /\ Len(seen'[e]) = n + 1 /\ DOMAIN seen'[e] = 1 .. n + 1
  <2>1. clock \in Nat
    BY DEF Shown, Sights
  <2> QED
    BY <2>1, ShownSights DEF Shown
<1> SUFFICES ASSUME NEW o \in 1 .. n + 1, Pending(e, o)' PROVE Kept(e, o)'
  BY <1>1 DEF PendingKept
<1>2. CASE o = n + 1
  <2>1. x.opened
    BY <1>1, <1>2 DEF Pending
  <2>2. e \in DOMAIN corr' /\ corr'[e].step = 0 /\ corr'[e].at = clock
    BY <2>1 DEF Shown, Fires, Advances, Waits, Opens, Passes
  <2>3. corr'[e].at = seen'[e][o].at
    BY <1>1, <1>2, <2>2 DEF Shown
  <2>4. ASSUME NEW k \in 0 .. Steps - 1, NEW q \in Begun(seen'[e], k), q[0] = o
        PROVE  corr'[e].step >= k
    <3>1. CASE k = 0
      BY <2>2, <3>1
    <3>2. CASE k # 0
      <4>1. 1 \in 1 .. k /\ 1 \in 0 .. k
        BY <3>2, RulesAssumption
      <4>2. q[1 - 1] < q[1] /\ q[1] \in 1 .. n + 1
        BY <1>1, <4>1 DEF Begun
      <4> QED
        BY <1>1, <1>2, <2>4, <4>2
    <3> QED
      BY <3>1, <3>2
  <2> QED
    BY <2>2, <2>3, <2>4 DEF Kept
<1>3. CASE o # n + 1
  <2>1. o \in 1 .. n /\ seen'[e][o] = seen[e][o]
    BY <1>1, <1>3
  <2>2. ~ Raised(seen[e], o, n) /\ ~x.raised
    BY <1>1, RaisedAppended DEF Pending
  <2>3. Pending(e, o)
    BY <1>1, <2>1, <2>2 DEF Pending
  <2>4. Kept(e, o)
    BY <1>1, <2>1, <2>3 DEF PendingKept
  <2>5. Alive(e)
    BY <2>3, <2>4 DEF Pending, Kept, Alive
  <2>6. Advances(e, x) \/ Waits(e, x)
    BY <2>2, <2>5 DEF Shown, Fires, Opens, Passes
  <2>7. corr[e].step \in Nat /\ corr[e].step \in Int
    BY <2>5, RulesAssumption DEF SightsTyped, Entries, Alive
  <2>8. /\ e \in DOMAIN corr' /\ corr'[e].at = corr[e].at
        /\ corr'[e].step \in {corr[e].step, corr[e].step + 1}
        /\ corr[e].step + 1 \in Hits[x.kind] => corr'[e].step = corr[e].step + 1
    BY <2>6 DEF Advances, Waits
  <2>9. ASSUME NEW k \in 0 .. Steps - 1, NEW q \in Begun(seen'[e], k), q[0] = o
        PROVE  corr'[e].step >= k
    <3>1. k \in Nat /\ k \in 0 .. k
      BY RulesAssumption
    <3>2. CASE q[k] # n + 1
      <4>1. q \in Begun(seen[e], k)
        BY <1>1, <3>1, <3>2, BegunBefore
      <4>2. corr[e].step >= k
        BY <2>4, <2>9, <4>1 DEF Kept
      <4> QED
        BY <2>7, <2>8, <3>1, <4>2
    <3>3. CASE q[k] = n + 1
      <4> DEFINE r == [i \in 0 .. k - 1 |-> q[i]]
      <4>1. k # 0
        BY <1>3, <2>9, <3>3
      <4>2. k \in Nat \ {0} /\ k - 1 \in 0 .. Steps - 1
        BY <3>1, <4>1, RulesAssumption
      <4>3. r \in Begun(seen[e], k - 1)
        BY <1>1, <4>2, BegunButLast
      <4>4. r[0] = o
        BY <2>9, <4>2
      <4> HIDE DEF r
      <4>5. corr[e].step >= k - 1
        BY <2>4, <4>2, <4>3, <4>4 DEF Kept
      <4>6. k \in Hits[x.kind]
        BY <1>1, <3>1, <3>3 DEF Begun
      <4>7. CASE corr[e].step = k - 1
        <5>1. corr[e].step + 1 = k
          BY <4>2, <4>7
        <5> QED
          BY <2>8, <3>1, <4>6, <5>1
      <4>8. CASE corr[e].step # k - 1
        <5>1. corr[e].step >= k
          BY <2>7, <3>1, <4>5, <4>8
        <5> QED
          BY <2>7, <2>8, <3>1, <5>1
      <4> QED
        BY <4>7, <4>8
    <3> QED
      BY <3>2, <3>3
  <2>10. corr'[e].at = seen'[e][o].at
    BY <2>1, <2>4, <2>8 DEF Kept
  <2> QED
    BY <2>8, <2>9, <2>10 DEF Kept
<1> QED
  BY <1>2, <1>3

LEMMA FiringsStayExplained ==
  ASSUME SightsTyped, NEW e \in Entities, NEW x, Shown(e, x),
         EntryExplained(e), FiringExplained(e)
  PROVE  FiringExplained(e)'
<1>1. PICK n :
      /\ n = Len(seen[e]) /\ n \in Nat /\ DOMAIN seen[e] = 1 .. n /\ seen'[e][n + 1] = x
      /\ \A i \in 1 .. n : seen'[e][i] = seen[e][i]
      /\ x \in Sights /\ x.at = clock /\ x.boot = boot
      /\ seen[e] \in Seq(Sights) /\ seen'[e] = Append(seen[e], x)
      /\ DOMAIN seen'[e] = 1 .. n + 1
  BY ShownSights DEF Shown
<1>2. Steps - 1 \in Nat /\ 0 \in 0 .. Steps - 1 /\ Steps - 1 \in 0 .. Steps - 1
  BY RulesAssumption
<1> SUFFICES ASSUME NEW i \in 1 .. n + 1, seen'[e][i].raised
             PROVE  \E p \in Begun(seen'[e], Steps - 1) :
                      /\ seen'[e][p[0]].boot = seen'[e][p[Steps - 1]].boot
                      /\ seen'[e][p[Steps - 1]].at - seen'[e][p[0]].at <= Window
                      /\ p[Steps - 1] = i /\ ~ Raised(seen'[e], p[0], i - 1)
  BY <1>1, <1>2 DEF FiringExplained, Chains, Begun
<1>3. CASE i # n + 1
  <2>1. i \in 1 .. n /\ seen[e][i].raised /\ i - 1 \in 0 .. n
    BY <1>1, <1>3
  <2>2. PICK p \in Chains(e) : p[Steps - 1] = i /\ ~ Raised(seen[e], p[0], i - 1)
    BY <1>1, <2>1 DEF FiringExplained
  <2>3. /\ p \in Begun(seen[e], Steps - 1)
        /\ seen[e][p[0]].boot = seen[e][p[Steps - 1]].boot
        /\ seen[e][p[Steps - 1]].at - seen[e][p[0]].at <= Window
    BY ChainsAreBegun
  <2>4. p[0] \in 1 .. n /\ p[Steps - 1] \in 1 .. n /\ p[0] \in 1 .. n + 1
    BY <1>1, <1>2, <2>3, BegunTyped
  <2>5. ~ Raised(seen'[e], p[0], i - 1)
    BY <1>1, <2>1, <2>2, <2>4, RaisedAppended
  <2>6. p \in Begun(seen'[e], Steps - 1)
    BY <1>1, <1>2, <2>3, BegunStays
  <2> QED
    BY <1>1, <2>2, <2>3, <2>4, <2>5, <2>6
<1>4. CASE i = n + 1
  <2>1. x.raised
    BY <1>1, <1>4
  <2>2. /\ e \in DOMAIN corr /\ clock - corr[e].at <= Window
        /\ corr[e].step + 1 = Steps - 1 /\ Steps - 1 \in Hits[x.kind]
    BY <2>1 DEF Shown, Fires, Advances, Waits, Opens, Passes, Alive
  <2>3. PICK q \in Begun(seen[e], corr[e].step) :
          /\ seen[e][q[0]].at = corr[e].at /\ seen[e][q[0]].boot = boot
          /\ ~ Raised(seen[e], q[0], n)
    BY <1>1, <2>2 DEF EntryExplained
  <2>4. corr[e].step \in Nat /\ 0 \in 0 .. corr[e].step
    BY <2>2, RulesAssumption DEF SightsTyped, Entries
  <2>5. PICK p \in Begun(seen'[e], corr[e].step + 1) :
          p[0] = q[0] /\ p[corr[e].step + 1] = n + 1
    BY <1>1, <2>2, <2>4, BegunExtends
  <2>6. p \in Begun(seen'[e], Steps - 1) /\ p[Steps - 1] = n + 1
    BY <2>2, <2>5
  <2>7. q[0] \in 1 .. n /\ q[0] \in 1 .. n + 1
    BY <1>1, <2>4, BegunTyped
  <2>8. ~ Raised(seen'[e], q[0], n) /\ (n + 1) - 1 = n
    BY <1>1, <2>3, <2>7, RaisedAppended
  <2> QED
    BY <1>1, <1>4, <2>2, <2>3, <2>5, <2>6, <2>7, <2>8
<1> QED
  BY <1>3, <1>4

LEMMA OpenedChainsStillFire ==
  ASSUME SightsTyped, NEW e \in Entities, NEW x, Shown(e, x),
         PendingKept(e), OpenedChainFires(e)
  PROVE  OpenedChainFires(e)'
<1>1. PICK n :
      /\ n = Len(seen[e]) /\ n \in Nat /\ DOMAIN seen[e] = 1 .. n /\ seen'[e][n + 1] = x
      /\ \A i \in 1 .. n : seen'[e][i] = seen[e][i]
      /\ x \in Sights /\ x.at = clock /\ x.boot = boot
      /\ seen[e] \in Seq(Sights) /\ seen'[e] = Append(seen[e], x)
      /\ DOMAIN seen'[e] = 1 .. n + 1 /\ seen'[e] \in Seq(Sights) /\ Len(seen'[e]) = n + 1
  <2>1. seen'[e] \in Seq(Sights)
    BY ShownSights, AppendedSights, SMTT(30)
  <2> QED
    BY <2>1, ShownSights DEF Shown
<1>2. /\ Steps - 1 \in Nat \ {0} /\ 0 \in 0 .. Steps - 1 /\ Steps - 1 \in 0 .. Steps - 1
      /\ Steps - 2 \in 0 .. Steps - 1 /\ (Steps - 1) - 1 = Steps - 2
      /\ 1 \in 1 .. Steps - 1 /\ 1 \in 0 .. Steps - 1 /\ 0 \in 0 .. Steps - 2
  BY RulesAssumption
<1> SUFFICES ASSUME NEW p \in Begun(seen'[e], Steps - 1),
                    seen'[e][p[0]].boot = seen'[e][p[Steps - 1]].boot,
                    seen'[e][p[Steps - 1]].at - seen'[e][p[0]].at <= Window,
                    seen'[e][p[0]].opened
             PROVE  Raised(seen'[e], p[0], p[Steps - 1])
  BY DEF OpenedChainFires, Chains, Begun, Raised
<1>3. \A i \in 0 .. Steps - 1 : p[i] \in 1 .. n + 1
  BY <1>1, <1>2, BegunTyped
<1>4. CASE p[Steps - 1] # n + 1
  <2>1. p \in Begun(seen[e], Steps - 1)
    BY <1>1, <1>2, <1>4, BegunBefore
  <2>2. p[0] \in 1 .. n /\ p[Steps - 1] \in 1 .. n /\ p[Steps - 1] \in 0 .. n
    BY <1>1, <1>2, <2>1, BegunTyped
  <2>3. p \in Chains(e) /\ seen[e][p[0]].opened
    BY <1>1, <2>1, <2>2, ChainsAreBegun
  <2>4. Raised(seen[e], p[0], p[Steps - 1])
    BY <2>3 DEF OpenedChainFires
  <2> QED
    BY <1>1, <1>2, <1>3, <2>2, <2>4, RaisedAppended, SMTT(30)
<1>5. CASE p[Steps - 1] = n + 1
  <2> DEFINE r == [i \in 0 .. (Steps - 1) - 1 |-> p[i]]
  <2>1. r \in Begun(seen[e], (Steps - 1) - 1)
    BY <1>1, <1>2, BegunButLast
  <2>2. r[0] = p[0]
    BY <1>2
  <2> HIDE DEF r
  <2>3. r \in Begun(seen[e], Steps - 2) /\ Steps - 2 \in Nat
    BY <1>2, <2>1, RulesAssumption
  <2>4. p[0] \in 1 .. n /\ p[0] \in 1 .. n + 1
    BY <1>1, <1>2, <1>3, <2>2, <2>3, BegunTyped
  <2>5. CASE Raised(seen[e], p[0], n)
    BY <1>1, <1>5, <2>4, <2>5, RaisedAppended
  <2>6. CASE ~ Raised(seen[e], p[0], n)
    <3>1. Pending(e, p[0])
      BY <1>1, <1>5, <2>4, <2>6 DEF Pending
    <3>2. Kept(e, p[0])
      BY <1>1, <2>4, <3>1 DEF PendingKept
    <3>3. Alive(e)
      BY <3>1, <3>2 DEF Pending, Kept, Alive
    <3>4. corr[e].step >= Steps - 2
      BY <1>2, <2>2, <2>3, <3>2 DEF Kept
    <3>5. corr[e].step \in 0 .. Steps - 2
      BY <3>3 DEF SightsTyped, Entries, Alive
    <3>6. corr[e].step + 1 = Steps - 1
      BY <3>4, <3>5, RulesAssumption
    <3>7. Steps - 1 \in Hits[x.kind]
      BY <1>1, <1>2, <1>5 DEF Begun
    <3>8. x.raised
      BY <3>3, <3>6, <3>7 DEF Shown, Fires, Advances, Waits, Opens, Passes
    <3> QED
      BY <1>1, <1>5, <2>4, <3>8, RaisedAppended
  <2> QED
    BY <2>5, <2>6
<1> QED
  BY <1>4, <1>5

LEMMA ShownTracked ==
  ASSUME SightsTyped, NEW e \in Entities, NEW x, Shown(e, x), Tracked(e)
  PROVE  Tracked(e)'
BY EntryStaysExplained, PendingStaysKept, FiringsStayExplained, OpenedChainsStillFire DEF Tracked

(* A value that the rule was shown nothing of keeps its entry, or lost it  *)
(* because it is older than the window.                                    *)
LEMMA OthersTracked ==
  ASSUME SightsTyped, clock' \in Nat, clock' >= clock, NEW e \in Entities, Tracked(e),
         seen'[e] = seen[e], boot' = boot,
         e \in DOMAIN corr' => e \in DOMAIN corr /\ corr'[e] = corr[e],
         (e \in DOMAIN corr /\ e \notin DOMAIN corr') => clock' - corr[e].at > Window
  PROVE  Tracked(e)'
<1>1. EntryExplained(e)'
  BY DEF Tracked, EntryExplained
<1>2. PendingKept(e)'
  <2> SUFFICES ASSUME NEW o \in DOMAIN seen[e], Pending(e, o)'
               PROVE  Kept(e, o)'
    BY DEF PendingKept
  <2>1. clock \in Nat /\ seen[e][o].at \in Nat /\ Window \in Nat
    <3>1. seen[e] \in Seq(Sights)
      BY DEF SightsTyped
    <3>2. seen[e][o] \in Sights
      BY <3>1
    <3> QED
      BY <3>2, RulesAssumption DEF SightsTyped, Sights
  <2>2. Pending(e, o)
    BY <2>1 DEF Pending
  <2>3. Kept(e, o)
    BY <2>2 DEF Tracked, PendingKept
  <2>4. e \in DOMAIN corr' /\ corr'[e] = corr[e]
    BY <2>1, <2>3 DEF Kept, Pending
  <2> QED
    BY <2>3, <2>4 DEF Kept
<1>3. FiringExplained(e)' /\ OpenedChainFires(e)'
  BY DEF Tracked, FiringExplained, OpenedChainFires, Chains
<1> QED
  BY <1>1, <1>2, <1>3 DEF Tracked

(* The rule is shown an event of t, and of no other value.                 *)
LEMMA CorrelateShows ==
  ASSUME DInv, CInv, NEW t \in Threads, Correlate(t)
  PROVE  /\ call[t].entity \in Entities /\ \E x : Shown(call[t].entity, x)
         /\ SightsTyped'
         /\ \A e \in Entities \ {call[t].entity} :
              /\ seen'[e] = seen[e]
              /\ e \in DOMAIN corr' => e \in DOMAIN corr /\ corr'[e] = corr[e]
              /\ (e \in DOMAIN corr /\ e \notin DOMAIN corr') => clock' - corr[e].at > Window
<1> DEFINE c == call[t]
           v == call[t].entity
           live == Live(corr)
           opens == v \notin DOMAIN live /\ 0 \in Hits[c.kind]
           advances == v \in DOMAIN live /\ live[v].step + 1 \in Hits[c.kind]
           fires == advances /\ live[v].step + 1 = Steps - 1
           x == [kind |-> c.kind, at |-> clock, boot |-> boot, opened |-> opens, raised |-> fires]
<1>1. /\ c \in CallRecord /\ clock \in Nat /\ UNCHANGED <<clock, boot>>
      /\ corr' = CASE opens    -> With(live, v, [step |-> 0, at |-> clock])
                   [] advances -> Advanced(live, v)
                   [] OTHER    -> live
      /\ seen' = [seen EXCEPT ![v] = Append(@, x)]
  BY DEF Correlate, DInv, CallsTyped
<1>2. c.kind \in Kinds /\ v \in Entities
  BY <1>1 DEF CallRecord
<1>3. opens \in BOOLEAN /\ fires \in BOOLEAN /\ advances \in BOOLEAN
  BY Zenon
<1>4. /\ x \in Sights /\ x.at = clock /\ x.boot = boot /\ x.kind = c.kind
      /\ x.opened = opens /\ x.raised = fires
  <2> HIDE DEF opens, fires
  <2> QED
    BY <1>1, <1>2, <1>3 DEF Sights, CInv, SightsTyped
<1>5. /\ DOMAIN live = {e \in DOMAIN corr : clock - corr[e].at <= Window}
      /\ \A e \in DOMAIN live : live[e] = corr[e]
      /\ live = [e \in DOMAIN live |-> live[e]]
  BY DEF Live
<1> HIDE DEF live
<1>6. v \in DOMAIN live <=> Alive(v)
  BY <1>5 DEF Alive
<1>7. /\ seen'[v] = Append(seen[v], x) /\ \A e \in Entities \ {v} : seen'[e] = seen[e]
      /\ seen' \in [Entities -> Seq(Sights)]
  <2> HIDE DEF x, v
  <2>1. seen \in [Entities -> Seq(Sights)]
    BY DEF CInv, SightsTyped
  <2>2. Append(seen[v], x) \in Seq(Sights)
    BY <1>2, <1>4, <2>1, AppendedSights
  <2> QED
    BY <1>1, <1>2, <2>1, <2>2
<1> HIDE DEF x
<1>8. (x.opened <=> opens) /\ (x.raised <=> fires)
  BY <1>4, Zenon
<1> DEFINE Moved ==
             /\ corr' = [e \in DOMAIN corr' |-> corr'[e]]
             /\ \A e : e # v => (e \in DOMAIN corr' <=> e \in DOMAIN live)
             /\ \A e : (e # v /\ e \in DOMAIN corr') => corr'[e] = corr[e]
             /\ v \in DOMAIN corr' => corr'[v] \in Entries /\ corr'[v].at <= clock
             /\ \/ Fires(v, x) \/ Advances(v, x) \/ Waits(v, x) \/ Opens(v, x) \/ Passes(v, x)
<1>9. ASSUME opens PROVE Moved
  <2>1. corr' = With(live, v, [step |-> 0, at |-> clock])
    BY <1>1, <1>9
  <2>2. /\ DOMAIN corr' = DOMAIN live \cup {v} /\ corr'[v] = [step |-> 0, at |-> clock]
        /\ \A e \in DOMAIN live \ {v} : corr'[e] = live[e]
        /\ corr' = [e \in DOMAIN corr' |-> corr'[e]]
    BY <2>1 DEF With
  <2>3. x.opened /\ ~x.raised
    BY <1>8, <1>9
  <2>4. Opens(v, x)
    BY <1>4, <1>6, <1>9, <2>2, <2>3 DEF Opens
  <2>5. corr'[v] \in Entries /\ corr'[v].at <= clock
    <3>1. clock \in Nat /\ 0 \in 0 .. Steps - 2
      BY <1>1, RulesAssumption
    <3>2. [step |-> 0, at |-> clock] \in Entries
      BY <3>1 DEF Entries
    <3> QED
      BY <2>2, <3>1, <3>2
  <2> QED
    BY <1>5, <2>2, <2>4, <2>5
<1>10. ASSUME fires PROVE Moved
  <2>1. corr' = Advanced(live, v)
    BY <1>1, <1>10
  <2>2. corr' = Without(live, v)
    BY <1>10, <2>1 DEF Advanced
  <2>3. /\ DOMAIN corr' = DOMAIN live \ {v}
        /\ \A e \in DOMAIN live \ {v} : corr'[e] = live[e]
        /\ corr' = [e \in DOMAIN corr' |-> corr'[e]]
    BY <2>2 DEF Without
  <2>4. ~x.opened /\ x.raised
    BY <1>8, <1>10
  <2>5. Fires(v, x)
    BY <1>4, <1>5, <1>6, <1>10, <2>3, <2>4 DEF Fires
  <2> QED
    BY <1>5, <2>3, <2>5
<1>11. ASSUME advances /\ ~fires PROVE Moved
  <2>1. corr' = Advanced(live, v)
    BY <1>1, <1>11
  <2>2. corr' = [live EXCEPT ![v].step = @ + 1]
    BY <1>11, <2>1 DEF Advanced
  <2>3. corr[v] \in Entries /\ corr[v].at <= clock
    BY <1>5, <1>11 DEF CInv, SightsTyped
  <2>4. /\ DOMAIN corr' = DOMAIN live /\ corr'[v] = [live[v] EXCEPT !.step = @ + 1]
        /\ \A e \in DOMAIN live \ {v} : corr'[e] = live[e]
        /\ corr' = [e \in DOMAIN corr' |-> corr'[e]]
    BY <1>5, <1>11, <2>2
  <2>5. corr'[v].step = corr[v].step + 1 /\ corr'[v].at = corr[v].at
        /\ corr'[v] \in [step : Int, at : Nat]
    <3>1. corr[v] \in [step : Int, at : Nat]
      BY <2>3, RulesAssumption DEF Entries
    <3>2. corr'[v] = [corr[v] EXCEPT !.step = @ + 1]
      BY <1>5, <1>11, <2>4
    <3> QED
      BY <3>1, <3>2
  <2>6. ~x.opened /\ ~x.raised
    BY <1>8, <1>11
  <2>7. Advances(v, x)
    BY <1>4, <1>5, <1>6, <1>11, <2>4, <2>5, <2>6 DEF Advances
  <2>8. corr'[v].step \in 0 .. Steps - 2
    BY <1>5, <1>11, <2>3, <2>5, RulesAssumption DEF Entries
  <2>9. corr'[v] \in Entries /\ corr'[v].at <= clock
    BY <2>3, <2>5, <2>8 DEF Entries
  <2> QED
    BY <1>5, <2>4, <2>7, <2>9
<1>12. ASSUME ~opens /\ ~advances PROVE Moved
  <2>1. corr' = live
    BY <1>1, <1>12
  <2>2. ~x.opened /\ ~x.raised
    BY <1>8, <1>12
  <2>3. CASE v \in DOMAIN live
    <3>1. Waits(v, x)
      BY <1>4, <1>5, <1>6, <1>12, <2>1, <2>2, <2>3 DEF Waits
    <3>2. corr'[v] \in Entries /\ corr'[v].at <= clock
      BY <1>5, <2>1, <2>3 DEF CInv, SightsTyped
    <3> QED
      BY <1>5, <2>1, <3>1, <3>2
  <2>4. CASE v \notin DOMAIN live
    <3>1. Passes(v, x)
      BY <1>6, <2>1, <2>2, <2>4 DEF Passes
    <3> QED
      BY <1>5, <2>1, <2>4, <3>1
  <2> QED
    BY <2>3, <2>4
<1>13. Moved
  BY <1>9, <1>10, <1>11, <1>12
<1> HIDE DEF opens, advances, fires, v
<1>14. Shown(v, x)
  BY <1>1, <1>4, <1>7, <1>13 DEF Shown
<1>15. SightsTyped'
  <2>1. DOMAIN corr' \subseteq Entities /\ \A e \in DOMAIN corr' : corr'[e] \in Entries /\ corr'[e].at <= clock
    BY <1>2, <1>5, <1>13 DEF CInv, SightsTyped
  <2>2. ASSUME NEW e \in Entities, NEW i \in DOMAIN seen'[e]
        PROVE  seen'[e][i].boot <= boot /\ seen'[e][i].at <= clock
    <3>1. CASE e # v
      BY <1>7, <3>1 DEF CInv, SightsTyped
    <3>2. CASE e = v
      <4>1. /\ DOMAIN seen[v] = 1 .. Len(seen[v]) /\ DOMAIN seen'[v] = 1 .. Len(seen[v]) + 1
            /\ Len(seen[v]) \in Nat /\ seen'[v][Len(seen[v]) + 1] = x
            /\ \A j \in 1 .. Len(seen[v]) : seen'[v][j] = seen[v][j]
        BY <1>2, <1>14, ShownSights DEF CInv
      <4>2. boot \in Nat /\ \A j \in DOMAIN seen[v] : seen[v][j].boot <= boot /\ seen[v][j].at <= clock
        BY <1>2 DEF CInv, SightsTyped
      <4> QED
        BY <1>1, <1>4, <2>2, <3>2, <4>1, <4>2
    <3> QED
      BY <3>1, <3>2
  <2> QED
    BY <1>1, <1>7, <1>13, <2>1, <2>2 DEF CInv, SightsTyped
<1>16. ASSUME NEW e \in Entities \ {v}, e \in DOMAIN corr, e \notin DOMAIN corr'
       PROVE  clock - corr[e].at > Window
  <2>1. clock - corr[e].at \in Int
    BY <1>1, <1>16 DEF CInv, SightsTyped, Entries
  <2>2. ~ (clock - corr[e].at <= Window)
    BY <1>5, <1>13, <1>16
  <2> QED
    BY <2>1, <2>2, RulesAssumption
<1> QED
  BY <1>1, <1>2, <1>5, <1>7, <1>13, <1>14, <1>15, <1>16 DEF v

LEMMA InitCInv == Init => CInv
<1> SUFFICES ASSUME Init PROVE CInv
  OBVIOUS
<1>1. /\ clock = 0 /\ boot = 1 /\ corr = [e \in {} |-> 0]
      /\ \A e \in Entities : seen[e] = <<>>
  BY DEF Init
<1>2. SightsTyped
  BY <1>1 DEF Init, SightsTyped
<1>3. ASSUME NEW e \in Entities PROVE Tracked(e)
  <2>1. DOMAIN seen[e] = {} /\ e \notin DOMAIN corr
    BY <1>1
  <2>2. Chains(e) = {}
    <3>1. 0 \in 0 .. Steps - 1
      BY RulesAssumption
    <3> QED
      BY <2>1, <3>1 DEF Chains
  <2> QED
    BY <2>1, <2>2 DEF Tracked, EntryExplained, PendingKept, FiringExplained, OpenedChainFires
<1> QED
  BY <1>2, <1>3 DEF CInv

LEMMA CorrelateTracks ==
  ASSUME DInv, CInv, NEW t \in Threads, Correlate(t)
  PROVE  CInv'
<1>1. clock \in Nat /\ UNCHANGED <<clock, boot>>
  BY DEF Correlate, DInv, CallsTyped
<1>2. PICK v \in Entities : v = call[t].entity
  BY CorrelateShows
<1>3. PICK x : Shown(v, x)
  BY <1>2, CorrelateShows
<1>4. Tracked(v)'
  BY <1>3, ShownTracked DEF CInv
<1>5. ASSUME NEW e \in Entities, e # v PROVE Tracked(e)'
  <2>1. /\ seen'[e] = seen[e]
        /\ e \in DOMAIN corr' => e \in DOMAIN corr /\ corr'[e] = corr[e]
        /\ (e \in DOMAIN corr /\ e \notin DOMAIN corr') => clock' - corr[e].at > Window
    BY <1>2, <1>5, CorrelateShows
  <2>2. clock' \in Nat /\ clock' >= clock /\ boot' = boot
    BY <1>1
  <2> QED
    BY <2>1, <2>2, OthersTracked DEF CInv
<1>6. SightsTyped'
  BY CorrelateShows
<1> QED
  BY <1>4, <1>5, <1>6 DEF CInv

(* Steps that show the rule nothing: the clock goes on, or nothing moves.  *)
LEMMA NothingShown ==
  ASSUME CInv, clock' \in Nat, clock' >= clock, UNCHANGED <<corr, boot, seen>>
  PROVE  CInv'
<1>1. \A e \in Entities : Tracked(e)'
  BY OthersTracked DEF CInv
<1>2. SightsTyped'
  <2>1. \A e \in DOMAIN corr : corr[e].at <= clock'
    BY DEF CInv, SightsTyped, Entries
  <2>2. ASSUME NEW e \in Entities, NEW i \in DOMAIN seen[e] PROVE seen[e][i].at <= clock'
    <3>1. seen[e] \in Seq(Sights) /\ clock \in Nat /\ seen[e][i].at <= clock
      BY DEF CInv, SightsTyped
    <3>2. seen[e][i] \in Sights
      BY <3>1
    <3> QED
      BY <3>1, <3>2 DEF Sights
  <2> QED
    BY <2>1, <2>2 DEF CInv, SightsTyped
<1> QED
  BY <1>1, <1>2 DEF CInv

(* A restart empties the table, and no chain goes on across it.            *)
LEMMA RestartTracks ==
  ASSUME CInv, Restart
  PROVE  CInv'
<1>1. /\ boot' = boot + 1 /\ UNCHANGED <<clock, seen>> /\ boot \in Nat /\ clock \in Nat
      /\ corr' = [e \in {} |-> 0] /\ DOMAIN corr' = {}
  BY DEF Restart, CInv, SightsTyped
<1>2. ASSUME NEW e \in Entities, NEW i \in DOMAIN seen[e]
      PROVE  seen[e][i].boot \in Nat /\ seen[e][i].boot <= boot
  <2>1. seen[e] \in Seq(Sights) /\ seen[e][i].boot <= boot
    BY DEF CInv, SightsTyped
  <2>2. seen[e][i] \in Sights
    BY <2>1
  <2> QED
    BY <2>1, <2>2 DEF Sights
<1>3. SightsTyped'
  <2>1. \A e \in Entities : \A i \in DOMAIN seen[e] : seen[e][i].boot <= boot'
    BY <1>1, <1>2
  <2> QED
    BY <1>1, <2>1 DEF CInv, SightsTyped
<1>4. ASSUME NEW e \in Entities PROVE Tracked(e)'
  <2>1. EntryExplained(e)'
    BY <1>1 DEF EntryExplained
  <2>2. PendingKept(e)'
    BY <1>1, <1>2 DEF PendingKept, Pending
  <2>3. FiringExplained(e)' /\ OpenedChainFires(e)'
    BY <1>1 DEF CInv, Tracked, FiringExplained, OpenedChainFires, Chains
  <2> QED
    BY <2>1, <2>2, <2>3 DEF Tracked
<1> QED
  BY <1>3, <1>4 DEF CInv

(* The invariant of the correlation table: an entry is as far as the       *)
(* longest chain from the event that opened it, and a firing empties it    *)
(* (_evaluate_correlation, _cleanup_corr).                                 *)
THEOREM EntriesTracked == Spec => []CInv
<1>1. Init => CInv
  BY InitCInv
<1>2. DInv /\ CInv /\ [Next]_vars => CInv'
  <2> SUFFICES ASSUME DInv, CInv, [Next]_vars PROVE CInv'
    OBVIOUS
  <2>1. clock \in Nat
    BY DEF CInv, SightsTyped
  <2>2. CASE Tick
    BY <2>1, <2>2, NothingShown DEF Tick
  <2>3. CASE Restart
    BY <2>3, RestartTracks
  <2>4. ASSUME NEW t \in Threads, NEW e \in Entities, NEW k \in Kinds, Receive(t, e, k)
        PROVE  CInv'
    BY <2>1, <2>4, NothingShown DEF Receive
  <2>5. ASSUME NEW t \in Threads, Insert(t) \/ InsertFails(t) \/ Since(t) \/ Count(t)
        PROVE  CInv'
    BY <2>1, <2>5, NothingShown DEF Insert, InsertFails, Since, Count
  <2>6. ASSUME NEW t \in Threads, Correlate(t) PROVE CInv'
    BY <2>6, CorrelateTracks
  <2>7. CASE UNCHANGED vars
    BY <2>1, <2>7, NothingShown DEF vars
  <2> QED
    BY <2>2, <2>3, <2>4, <2>5, <2>6, <2>7 DEF Next, Step
<1> QED
  BY <1>1, <1>2, EvaluationsStored, PTL DEF Spec

(* A firing of the correlation rule is explained by a chain of its value   *)
(* that ends with its event, begins after the value's previous firing and  *)
(* lies in one process and within the window (_evaluate_correlation).      *)
THEOREM FiringsAreExplained == Spec => []FiringsExplained
<1>1. CInv => FiringsExplained
  BY DEF CInv, Tracked, FiringExplained, FiringsExplained, Raised, RaisedIn
<1> QED
  BY <1>1, EntriesTracked, PTL

(* A chain whose first event opened an entry fires at its last event or    *)
(* before: no event in between makes the rule lose its place               *)
(* (_evaluate_correlation).                                                *)
THEOREM OpenedChainsDoFire == Spec => []OpenedChainsFire
<1>1. CInv => OpenedChainsFire
  BY DEF CInv, Tracked, OpenedChainFires, OpenedChainsFire, Raised, RaisedIn
<1> QED
  BY <1>1, EntriesTracked, PTL

=============================================================================
