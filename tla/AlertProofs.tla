---------------------------- MODULE AlertProofs ----------------------------
(***************************************************************************)
(* Proofs about the firing gate (Suppression) and about the alert log on   *)
(* disk (AlertFile), for any threads, keys, values of suppress_seconds,    *)
(* sizes, rates and bounds.                                                *)
(*                                                                         *)
(* The gate: until[k] only moves on while a process lives, and it is past  *)
(* now + quiet of every call that went through the gate.  So a call that   *)
(* finds now >= until[k] is a full window after all of them, and the       *)
(* firings held back are all older than it, because they read a clock      *)
(* below until[k].                                                         *)
(*                                                                         *)
(* The log: an alert is in a line before its call goes on to notify, and   *)
(* lines only go with a file that another one replaces. A file made after  *)
(* a rotation of the same second holds lines of this second only, fewer    *)
(* than fill a file, so it is not measured full before the second is over: *)
(* a name that was made up is free as long as the file it was made up for  *)
(* is still alerts.log.                                                    *)
(***************************************************************************)
EXTENDS Suppression, AlertFile, TLAPS, FiniteSetTheorems

(* Firings are numbered in the order they read the clock.                  *)
FiringsOrdered ==
  /\ \A i \in 1 .. Len(firings) : firings[i].now \in 0 .. clock
  /\ \A i, j \in 1 .. Len(firings) : i <= j => firings[i].now <= firings[j].now

(* A call record agrees with the firing, one of those in fs, that it was   *)
(* made for.                                                               *)
Genuine(c, fs) ==
  /\ c \in Call
  /\ c.id \in 1 .. Len(fs)
  /\ fs[c.id].key = c.key
  /\ fs[c.id].now = c.now

CallsGenuine ==
  /\ \A t \in Threads : pc[t] # "idle" => Genuine(call[t], firings) /\ call[t].boot = boot
  /\ \A a \in Passed : Genuine(a, firings) /\ a.boot <= boot

(* Every window opened in this process has ended by until[k].              *)
WindowsBehind ==
  \A a \in Passed : (a.boot = boot /\ a.quiet > 0) => a.now + a.quiet <= until[a.key]

WindowsApart ==
  \A a, b \in Passed :
    (a # b /\ a.key = b.key /\ a.boot = b.boot /\ a.quiet > 0 /\ b.quiet > 0)
      => \/ a.now + a.quiet <= b.now
         \/ b.now + b.quiet <= a.now

(* What is held back of k fired inside a window of k, and is counted.      *)
HeldCounted ==
  \A k \in Keys :
    /\ IsFiniteSet(held[k]) /\ pending[k] = Cardinality(held[k])
    /\ \A i \in held[k] : /\ i \in 1 .. Len(firings)
                          /\ firings[i].key = k /\ firings[i].now < until[k]

CountsExact ==
  \A a \in Passed :
    /\ a.suppressed = Cardinality(a.covers)
    /\ \A i \in a.covers : i \in 1 .. a.id - 1 /\ firings[i].key = a.key

(* A running call's firing is claimed by nobody else.                      *)
RunningApart ==
  /\ \A t \in AtGate : /\ \A a \in Passed : call[t].id \notin Claims(a)
                       /\ \A k \in Keys : call[t].id \notin held[k]
  /\ \A t, u \in AtGate : t # u => call[t].id # call[u].id

IInv ==
  /\ TypeOK
  /\ FiringsOrdered
  /\ CallsGenuine
  /\ WindowsBehind
  /\ WindowsApart
  /\ HeldCounted
  /\ CountsExact
  /\ RunningApart
  /\ CountedOnce
  /\ NothingForgotten


-----------------------------------------------------------------------------
(* What each step does to the set of calls that passed the gate, and to    *)
(* the threads waiting at it.                                              *)

(* Entering the gate adds the thread to those waiting; going round it adds *)
(* the call to those that passed.                                          *)
LEMMA FireSets ==
  ASSUME TypeOK, NEW t \in Threads, NEW k \in Keys, NEW q \in Quiet, Fire(t, k, q)
  PROVE  /\ q = 0 => Passed' = Passed \cup {call'[t]} /\ AtGate' = AtGate
         /\ q # 0 => Passed' = Passed /\ AtGate' = AtGate \cup {t}
         /\ \A u \in Threads \ {t} : call'[u] = call[u] /\ pc'[u] = pc[u]
         /\ t \notin AtGate
<1>1. /\ \A u \in Threads \ {t} : call'[u] = call[u] /\ pc'[u] = pc[u]
      /\ pc[t] = "idle" /\ pc'[t] = IF q = 0 THEN "write" ELSE "gate"
      /\ alerts' = alerts /\ lost' = lost
  BY DEF Fire, TypeOK
<1>2. t \notin Writing /\ t \notin AtGate
  BY <1>1 DEF Writing, AtGate
<1>3. CASE q = 0
  <2>1. Writing' = Writing \cup {t} /\ AtGate' = AtGate
    BY <1>1, <1>3 DEF Writing, AtGate
  <2>2. {call'[u] : u \in Writing'} = {call[u] : u \in Writing} \cup {call'[t]}
    BY <1>1, <1>2, <2>1 DEF Writing
  <2> QED
    BY <1>1, <1>2, <1>3, <2>1, <2>2 DEF Passed
<1>4. CASE q # 0
  <2>1. Writing' = Writing /\ AtGate' = AtGate \cup {t}
    BY <1>1, <1>4 DEF Writing, AtGate
  <2> QED
    BY <1>1, <1>2, <1>4, <2>1 DEF Passed, Writing
<1> QED
  BY <1>3, <1>4

(* A suppressed call just leaves.                                          *)
LEMMA SuppressSets ==
  ASSUME TypeOK, NEW t \in Threads, Suppress(t)
  PROVE  /\ Passed' = Passed /\ AtGate' = AtGate \ {t} /\ t \in AtGate
         /\ \A u \in Threads \ {t} : call'[u] = call[u] /\ pc'[u] = pc[u]
<1>1. /\ \A u \in Threads \ {t} : call'[u] = call[u] /\ pc'[u] = pc[u]
      /\ pc[t] = "gate" /\ pc'[t] = "idle"
      /\ alerts' = alerts /\ lost' = lost
  BY DEF Suppress, Open, Return, TypeOK
<1>2. Writing' = Writing /\ AtGate' = AtGate \ {t} /\ t \in AtGate /\ t \notin Writing
  BY <1>1 DEF Writing, AtGate
<1> QED
  BY <1>1, <1>2 DEF Passed, Writing

(* A call that passes moves from those waiting to those that passed.       *)
LEMMA PassSets ==
  ASSUME TypeOK, NEW t \in Threads, Pass(t)
  PROVE  /\ Passed' = Passed \cup {call'[t]} /\ AtGate' = AtGate \ {t} /\ t \in AtGate
         /\ \A u \in Threads \ {t} : call'[u] = call[u] /\ pc'[u] = pc[u]
<1>1. /\ \A u \in Threads \ {t} : call'[u] = call[u] /\ pc'[u] = pc[u]
      /\ pc[t] = "gate" /\ pc'[t] = "write"
      /\ alerts' = alerts /\ lost' = lost
  BY DEF Pass, Open, Counted, WindowEnd, TypeOK
<1>2. Writing' = Writing \cup {t} /\ AtGate' = AtGate \ {t} /\ t \in AtGate /\ t \notin Writing
  BY <1>1 DEF Writing, AtGate
<1>3. {call'[u] : u \in Writing'} = {call[u] : u \in Writing} \cup {call'[t]}
  BY <1>1, <1>2 DEF Writing
<1> QED
  BY <1>1, <1>2, <1>3 DEF Passed

(* Whether the write succeeds or fails, the call stays one that passed.    *)
LEMMA WriteSets ==
  ASSUME TypeOK, NEW t \in Threads, Write(t) \/ WriteFails(t)
  PROVE  /\ Passed' = Passed /\ AtGate' = AtGate
         /\ \A u \in Threads \ {t} : call'[u] = call[u] /\ pc'[u] = pc[u]
<1>1. /\ \A u \in Threads \ {t} : call'[u] = call[u] /\ pc'[u] = pc[u]
      /\ pc[t] = "write" /\ pc'[t] = "idle"
      /\ alerts' \cup lost' = alerts \cup lost \cup {call[t]}
  BY DEF Write, WriteFails, Return, TypeOK, history
<1>2. Writing' = Writing \ {t} /\ AtGate' = AtGate /\ t \in Writing
  BY <1>1 DEF Writing, AtGate
<1>3. {call[u] : u \in Writing} = {call'[u] : u \in Writing'} \cup {call[t]}
  BY <1>1, <1>2 DEF Writing
<1> QED
  BY <1>1, <1>2, <1>3 DEF Passed

(* A crash leaves nobody running; what was being written is lost.          *)
LEMMA CrashSets ==
  ASSUME TypeOK, Crash
  PROVE  Passed' = Passed /\ AtGate' = {}
<1>1. /\ alerts' = alerts /\ lost' = lost \cup {call[t] : t \in Writing}
      /\ \A t \in Threads : pc'[t] = "idle"
  BY DEF Crash
<1>2. Writing' = {} /\ AtGate' = {}
  BY <1>1 DEF Writing, AtGate
<1> QED
  BY <1>1, <1>2 DEF Passed

-----------------------------------------------------------------------------
(* Type correctness. *)

LEMMA InitType == Init => TypeOK
BY DEF Init, TypeOK, PCs, Idle

LEMMA FireType ==
  ASSUME TypeOK, NEW t \in Threads, NEW k \in Keys, NEW q \in Quiet, Fire(t, k, q)
  PROVE  TypeOK' /\ call'[t] \in Call
<1>1. call'[t] = [id |-> Len(firings) + 1, key |-> k, quiet |-> q, now |-> clock,
                  boot |-> boot, suppressed |-> 0, covers |-> {}]
  BY DEF Fire, TypeOK
<1>2. call'[t] \in Call
  BY <1>1, QuietAssumption DEF Call, TypeOK
<1>3. /\ call' \in [Threads -> Call \cup {Idle}]
      /\ \A u \in Threads : pc'[u] # "idle" => call'[u] \in Call
      /\ pc' \in [Threads -> PCs]
  BY <1>2 DEF Fire, TypeOK, PCs
<1>4. firings' \in Seq([key : Keys, now : Nat])
  BY DEF Fire, TypeOK
<1> QED
  BY <1>2, <1>3, <1>4 DEF Fire, TypeOK, memory

LEMMA SuppressType ==
  ASSUME TypeOK, NEW t \in Threads, Suppress(t)
  PROVE  TypeOK'
<1>1. call[t] \in Call
  BY DEF Suppress, Open, TypeOK
<1>2. call[t].key \in Keys /\ call[t].id \in Nat
  BY <1>1 DEF Call
<1> QED
  BY <1>2 DEF Suppress, Open, Return, TypeOK, PCs

LEMMA PassType ==
  ASSUME TypeOK, NEW t \in Threads, Pass(t)
  PROVE  /\ TypeOK' /\ call[t] \in Call /\ call'[t] \in Call
         /\ call'[t] = [call[t] EXCEPT !.suppressed = pending[call[t].key],
                                       !.covers = held[call[t].key]]
<1>1. call[t] \in Call
  BY DEF Pass, Open, Counted, WindowEnd, TypeOK
<1>2. /\ call[t].key \in Keys /\ call[t].now \in Nat /\ call[t].quiet \in Nat
      /\ pending[call[t].key] \in Nat /\ held[call[t].key] \in SUBSET Nat
  BY <1>1 DEF Call, TypeOK
<1>3. call'[t] = [call[t] EXCEPT !.suppressed = pending[call[t].key],
                                 !.covers = held[call[t].key]]
  BY DEF Pass, Open, Counted, WindowEnd, TypeOK
<1>4. call'[t] \in Call
  BY <1>1, <1>2, <1>3 DEF Call
<1>5. /\ call' \in [Threads -> Call \cup {Idle}]
      /\ \A u \in Threads : pc'[u] # "idle" => call'[u] \in Call
      /\ pc' \in [Threads -> PCs]
  BY <1>4 DEF Pass, Open, Counted, WindowEnd, TypeOK, PCs
<1> QED
  BY <1>1, <1>2, <1>3, <1>4, <1>5 DEF Pass, Open, Counted, WindowEnd, TypeOK

LEMMA WriteType ==
  ASSUME TypeOK, NEW t \in Threads, Write(t) \/ WriteFails(t)
  PROVE  TypeOK'
<1>1. call[t] \in Call
  BY DEF Write, WriteFails, TypeOK
<1> QED
  BY <1>1 DEF Write, WriteFails, Return, TypeOK, PCs, memory, history

LEMMA CrashType ==
  ASSUME TypeOK, Crash
  PROVE  TypeOK'
<1>1. \A t \in Writing \cup AtGate : call[t] \in Call
  BY DEF Writing, AtGate, TypeOK
<1>2. {call[t] : t \in Writing} \subseteq Call
  BY <1>1
<1>3. {call[t].id : t \in AtGate} \subseteq Nat /\ UNION {held[k] : k \in Keys} \subseteq Nat
  BY <1>1 DEF Call, TypeOK
<1>4. \A t \in Threads : pc'[t] = "idle"
  BY DEF Crash
<1> QED
  BY <1>2, <1>3, <1>4 DEF Crash, TypeOK, PCs

(* Every state the gate and its threads reach is well typed.               *)
THEOREM TypeCorrect == Spec => []TypeOK
<1>1. TypeOK /\ [Next]_vars => TypeOK'
  <2> SUFFICES ASSUME TypeOK, [Next]_vars PROVE TypeOK'
    OBVIOUS
  <2>1. CASE Tick
    BY <2>1 DEF Tick, TypeOK, memory, history
  <2>2. CASE Crash
    BY <2>2, CrashType
  <2>3. ASSUME NEW t \in Threads, Step(t) PROVE TypeOK'
    BY <2>3, FireType, SuppressType, PassType, WriteType DEF Step
  <2>4. CASE UNCHANGED vars
    BY <2>4 DEF vars, TypeOK, memory, history
  <2> QED
    BY <2>1, <2>2, <2>3, <2>4 DEF Next
<1> QED
  BY <1>1, InitType, PTL DEF Spec


-----------------------------------------------------------------------------
(* The inductive invariant. *)

LEMMA InitInvariant == Init => IInv
<1> SUFFICES ASSUME Init PROVE IInv
  OBVIOUS
<1>1. Passed = {} /\ AtGate = {} /\ Len(firings) = 0
  BY DEF Init, Passed, AtGate, Writing
<1>2. \A k \in Keys : held[k] = {} /\ pending[k] = 0 /\ until[k] = 0
  BY DEF Init
<1>3. HeldCounted
  BY <1>2, FS_EmptySet DEF HeldCounted
<1>4. NothingForgotten
  BY <1>1, <1>2 DEF NothingForgotten, Init
<1>5. FiringsOrdered /\ CallsGenuine
  BY <1>1 DEF FiringsOrdered, CallsGenuine, Init
<1> QED
  BY <1>1, <1>2, <1>3, <1>4, <1>5, InitType
     DEF IInv, WindowsBehind, WindowsApart, CountsExact, RunningApart, CountedOnce

(* Every firing number in use is one of a firing that happened.            *)
LEMMA NumbersInRange ==
  ASSUME IInv
  PROVE  /\ \A a \in Passed : Claims(a) \subseteq 1 .. Len(firings)
         /\ \A k \in Keys : held[k] \subseteq 1 .. Len(firings)
         /\ \A t \in AtGate : call[t].id \in 1 .. Len(firings) /\ Genuine(call[t], firings)
                              /\ call[t].boot = boot
<1>1. \A a \in Passed : Claims(a) \subseteq 1 .. Len(firings)
  <2> SUFFICES ASSUME NEW a \in Passed PROVE Claims(a) \subseteq 1 .. Len(firings)
    OBVIOUS
  <2>1. a.id \in 1 .. Len(firings)
    BY DEF IInv, CallsGenuine, Genuine
  <2>2. a.covers \subseteq 1 .. a.id - 1
    BY DEF IInv, CountsExact
  <2>3. Len(firings) \in Nat
    BY DEF IInv, TypeOK
  <2> QED
    BY <2>1, <2>2, <2>3 DEF Claims
<1>2. \A k \in Keys : held[k] \subseteq 1 .. Len(firings)
  BY DEF IInv, HeldCounted
<1>3. \A t \in AtGate : Genuine(call[t], firings) /\ call[t].boot = boot
  BY DEF IInv, CallsGenuine, AtGate
<1> QED
  BY <1>1, <1>2, <1>3 DEF Genuine

(* A new firing gets a number nobody uses and a clock reading no earlier   *)
(* than anybody's.                                                         *)
LEMMA FireKeeps ==
  ASSUME IInv, NEW t \in Threads, NEW k \in Keys, NEW q \in Quiet, Fire(t, k, q)
  PROVE  IInv'
<1> DEFINE n == Len(firings)
           c == call'[t]
<1>1. TypeOK /\ TypeOK' /\ c \in Call
  BY FireType DEF IInv
<1>2. /\ n \in Nat /\ Len(firings') = n + 1
      /\ \A i \in 1 .. n : firings'[i] = firings[i]
      /\ firings'[n + 1] = [key |-> k, now |-> clock]
  BY <1>1 DEF Fire, TypeOK
<1>3. /\ c = [id |-> n + 1, key |-> k, quiet |-> q, now |-> clock,
              boot |-> boot, suppressed |-> 0, covers |-> {}]
      /\ clock' = clock /\ boot' = boot /\ until' = until /\ pending' = pending
      /\ held' = held /\ dropped' = dropped
  BY <1>1 DEF Fire, TypeOK, memory
<1>4. /\ q = 0 => Passed' = Passed \cup {c} /\ AtGate' = AtGate
      /\ q # 0 => Passed' = Passed /\ AtGate' = AtGate \cup {t}
      /\ \A u \in Threads \ {t} : call'[u] = call[u] /\ pc'[u] = pc[u]
      /\ t \notin AtGate
  BY <1>1, FireSets
<1>5. /\ \A a \in Passed : Claims(a) \subseteq 1 .. n
      /\ \A j \in Keys : held[j] \subseteq 1 .. n
      /\ \A u \in AtGate : call[u].id \in 1 .. n /\ Genuine(call[u], firings) /\ call[u].boot = boot
      /\ \A u \in AtGate : u \in Threads /\ u # t /\ call'[u] = call[u]
  BY <1>4, NumbersInRange DEF AtGate
<1>6. Claims(c) = {n + 1} /\ n + 1 \notin 1 .. n
  BY <1>2, <1>3 DEF Claims
<1>7. FiringsOrdered'
  <2>1. \A i \in 1 .. n + 1 : firings'[i].now = IF i = n + 1 THEN clock ELSE firings[i].now
    BY <1>2
  <2>2. clock \in Nat
    BY <1>1 DEF TypeOK
  <2>3. \A i \in 1 .. n : firings[i].now \in 0 .. clock
    BY DEF IInv, FiringsOrdered
  <2>4. \A i, j \in 1 .. n : i <= j => firings[i].now <= firings[j].now
    BY DEF IInv, FiringsOrdered
  <2>5. \A i \in 1 .. n + 1 : i = n + 1 \/ i \in 1 .. n
    BY <1>2
  <2>6. \A i \in 1 .. n + 1 : firings'[i].now \in 0 .. clock
    BY <2>1, <2>2, <2>3, <2>5
  <2>7. \A i, j \in 1 .. n + 1 : i <= j => firings'[i].now <= firings'[j].now
    BY <1>2, <2>1, <2>2, <2>3, <2>4, <2>5
  <2> QED
    BY <1>2, <1>3, <2>6, <2>7 DEF FiringsOrdered
<1>8. Genuine(c, firings')
  BY <1>1, <1>2, <1>3 DEF Genuine
<1>9. \A a : Genuine(a, firings) => Genuine(a, firings')
  BY <1>2 DEF Genuine
<1>10. CallsGenuine'
  <2>1. \A u \in Threads : pc'[u] # "idle" => Genuine(call'[u], firings') /\ call'[u].boot = boot'
    BY <1>3, <1>4, <1>8, <1>9 DEF IInv, CallsGenuine
  <2>2. c.boot <= boot'
    BY <1>1, <1>3 DEF TypeOK
  <2>3. \A a \in Passed' : Genuine(a, firings') /\ a.boot <= boot'
    <3> SUFFICES ASSUME NEW a \in Passed' PROVE Genuine(a, firings') /\ a.boot <= boot'
      OBVIOUS
    <3>1. a \in Passed \/ a = c
      BY <1>4
    <3>2. CASE a \in Passed
      BY <1>3, <1>9, <3>2 DEF IInv, CallsGenuine
    <3> QED
      BY <1>8, <2>2, <3>1, <3>2
  <2> QED
    BY <2>1, <2>3 DEF CallsGenuine
<1>11. WindowsBehind' /\ WindowsApart'
  BY <1>3, <1>4 DEF IInv, WindowsBehind, WindowsApart
<1>12. HeldCounted'
  BY <1>2, <1>3 DEF IInv, HeldCounted
<1>13. CountsExact'
  <2> SUFFICES ASSUME NEW a \in Passed'
               PROVE  /\ a.suppressed = Cardinality(a.covers)
                      /\ \A i \in a.covers : i \in 1 .. a.id - 1 /\ firings'[i].key = a.key
    BY DEF CountsExact
  <2>1. CASE a \in Passed
    <3>1. a.covers \subseteq 1 .. n
      BY <1>5, <2>1 DEF Claims
    <3>2. /\ a.suppressed = Cardinality(a.covers)
          /\ \A i \in a.covers : i \in 1 .. a.id - 1 /\ firings[i].key = a.key
      BY <2>1 DEF IInv, CountsExact
    <3> QED
      BY <1>2, <3>1, <3>2
  <2>2. CASE a = c
    BY <1>3, <2>2, FS_EmptySet
  <2> QED
    BY <1>4, <2>1, <2>2
<1>14. RunningApart'
  <2>1. ASSUME NEW u \in AtGate PROVE /\ \A a \in Passed' : call'[u].id \notin Claims(a)
                                      /\ \A j \in Keys : call'[u].id \notin held'[j]
    BY <1>3, <1>4, <1>5, <1>6 DEF IInv, RunningApart
  <2>2. ASSUME q # 0 PROVE /\ \A a \in Passed' : c.id \notin Claims(a)
                           /\ \A j \in Keys : c.id \notin held'[j]
    BY <1>3, <1>4, <1>5, <1>6, <2>2
  <2>3. \A u, v \in AtGate' : u # v => call'[u].id # call'[v].id
    BY <1>3, <1>4, <1>5, <1>6 DEF IInv, RunningApart
  <2> QED
    BY <1>4, <2>1, <2>2, <2>3 DEF RunningApart
<1>15. CountedOnce'
  <2>1. \A a \in Passed : Claims(a) \cap Claims(c) = {}
    BY <1>5, <1>6
  <2>2. \A a, b \in Passed' : a # b => Claims(a) \cap Claims(b) = {}
    BY <1>4, <2>1 DEF IInv, CountedOnce
  <2>3. \A j \in Keys : Claims(c) \cap held[j] = {}
    BY <1>5, <1>6
  <2>4. \A a \in Passed', j \in Keys : Claims(a) \cap held'[j] = {}
    BY <1>3, <1>4, <2>3 DEF IInv, CountedOnce
  <2>5. \A i, j \in Keys : i # j => held'[i] \cap held'[j] = {}
    BY <1>3 DEF IInv, CountedOnce
  <2> QED
    BY <2>2, <2>4, <2>5 DEF CountedOnce
<1>16. NothingForgotten'
  <2> SUFFICES ASSUME NEW i \in 1 .. n + 1
               PROVE  \/ \E a \in Passed' : i \in Claims(a)
                      \/ \E j \in Keys : i \in held'[j]
                      \/ \E u \in AtGate' : i = call'[u].id
                      \/ i \in dropped'
    BY <1>2 DEF NothingForgotten
  <2>1. CASE i \in 1 .. n
    BY <1>3, <1>4, <1>5, <2>1 DEF IInv, NothingForgotten
  <2>2. CASE i = n + 1
    BY <1>3, <1>4, <1>6, <2>2
  <2> QED
    BY <1>2, <2>1, <2>2
<1> QED
  BY <1>1, <1>7, <1>10, <1>11, <1>12, <1>13, <1>14, <1>15, <1>16 DEF IInv


(* The suppressed firing was waiting at the gate; now it is held.          *)
LEMMA SuppressKeeps ==
  ASSUME IInv, NEW t \in Threads, Suppress(t)
  PROVE  IInv'
<1> DEFINE c == call[t]
<1>1. TypeOK /\ TypeOK'
  BY SuppressType DEF IInv
<1>2. /\ Passed' = Passed /\ AtGate' = AtGate \ {t} /\ t \in AtGate
      /\ \A u \in Threads \ {t} : call'[u] = call[u] /\ pc'[u] = pc[u]
  BY <1>1, SuppressSets
<1>3. /\ Genuine(c, firings) /\ c.key \in Keys /\ c.id \in 1 .. Len(firings)
      /\ firings[c.id].key = c.key /\ firings[c.id].now = c.now
  BY <1>2, NumbersInRange DEF Genuine, Call
<1>4. /\ c.now < until[c.key] /\ pc'[t] = "idle"
      /\ clock' = clock /\ boot' = boot /\ until' = until /\ firings' = firings
      /\ dropped' = dropped
      /\ \A k \in Keys \ {c.key} : held'[k] = held[k] /\ pending'[k] = pending[k]
      /\ held'[c.key] = held[c.key] \cup {c.id}
      /\ pending'[c.key] = pending[c.key] + 1
  <2>1. c.now \in Nat /\ until[c.key] \in Nat
    BY <1>1, <1>2, <1>3 DEF TypeOK, AtGate, Call
  <2>2. ~ (c.now >= until[c.key])
    BY DEF Suppress, Open
  <2>3. c.now < until[c.key]
    BY <2>1, <2>2
  <2> QED
    BY <1>1, <1>3, <2>3 DEF Suppress, Return, TypeOK
<1>5. /\ \A a \in Passed : c.id \notin Claims(a)
      /\ \A k \in Keys : c.id \notin held[k]
      /\ \A u \in AtGate' : u \in AtGate /\ call'[u] = call[u] /\ call[u].id # c.id
  BY <1>2 DEF IInv, RunningApart, AtGate
<1>6. FiringsOrdered' /\ WindowsBehind' /\ WindowsApart' /\ CountsExact'
  BY <1>2, <1>4 DEF IInv, FiringsOrdered, WindowsBehind, WindowsApart, CountsExact
<1>7. CallsGenuine'
  BY <1>2, <1>4 DEF IInv, CallsGenuine
<1>8. HeldCounted'
  <2> SUFFICES ASSUME NEW k \in Keys
               PROVE  /\ IsFiniteSet(held'[k]) /\ pending'[k] = Cardinality(held'[k])
                      /\ \A i \in held'[k] : /\ i \in 1 .. Len(firings)
                                             /\ firings[i].key = k
                                             /\ firings[i].now < until[k]
    BY <1>4 DEF HeldCounted
  <2>1. /\ IsFiniteSet(held[k]) /\ pending[k] = Cardinality(held[k])
        /\ \A i \in held[k] : /\ i \in 1 .. Len(firings)
                              /\ firings[i].key = k /\ firings[i].now < until[k]
    BY DEF IInv, HeldCounted
  <2>2. CASE k # c.key
    BY <1>4, <2>1, <2>2
  <2>3. CASE k = c.key
    <3>1. c.id \notin held[k]
      BY <1>5
    <3>2. /\ IsFiniteSet(held[k] \cup {c.id})
          /\ Cardinality(held[k] \cup {c.id}) = Cardinality(held[k]) + 1
      BY <2>1, <3>1, FS_AddElement
    <3> QED
      BY <1>3, <1>4, <2>1, <2>3, <3>2
  <2> QED
    BY <2>2, <2>3
<1>9. RunningApart'
  BY <1>2, <1>3, <1>4, <1>5 DEF IInv, RunningApart
<1>10. CountedOnce'
  <2>1. \A a \in Passed', k \in Keys : Claims(a) \cap held'[k] = {}
    BY <1>2, <1>3, <1>4, <1>5 DEF IInv, CountedOnce
  <2>2. \A j, k \in Keys : j # k => held'[j] \cap held'[k] = {}
    BY <1>3, <1>4, <1>5 DEF IInv, CountedOnce
  <2> QED
    BY <1>2, <2>1, <2>2 DEF IInv, CountedOnce
<1>11. NothingForgotten'
  <2> SUFFICES ASSUME NEW i \in 1 .. Len(firings)
               PROVE  \/ \E a \in Passed : i \in Claims(a)
                      \/ \E k \in Keys : i \in held'[k]
                      \/ \E u \in AtGate' : i = call'[u].id
                      \/ i \in dropped
    BY <1>2, <1>4 DEF NothingForgotten
  <2>1. CASE i = c.id
    BY <1>3, <1>4, <2>1
  <2>2. CASE i # c.id
    BY <1>2, <1>4, <1>5, <2>2 DEF IInv, NothingForgotten, AtGate
  <2> QED
    BY <2>1, <2>2
<1> QED
  BY <1>1, <1>6, <1>7, <1>8, <1>9, <1>10, <1>11 DEF IInv

(* The call that passes read its clock past every earlier window of the    *)
(* key, and every firing it takes over read its clock inside one.          *)
LEMMA PassKeeps ==
  ASSUME IInv, NEW t \in Threads, Pass(t)
  PROVE  IInv'
<1> DEFINE o == call[t]
           c == call'[t]
           k == call[t].key
<1>1. /\ TypeOK /\ TypeOK' /\ o \in Call /\ c \in Call
      /\ c = [o EXCEPT !.suppressed = pending[k], !.covers = held[k]]
  BY PassType DEF IInv
<1>2. /\ Passed' = Passed \cup {c} /\ AtGate' = AtGate \ {t} /\ t \in AtGate
      /\ \A u \in Threads \ {t} : call'[u] = call[u] /\ pc'[u] = pc[u]
  BY <1>1, PassSets
<1>3. /\ k \in Keys /\ o.id \in 1 .. Len(firings) /\ o.boot = boot
      /\ firings[o.id].key = k /\ firings[o.id].now = o.now
      /\ o.now \in Nat /\ o.quiet \in Nat /\ Len(firings) \in Nat
  <2>1. Genuine(o, firings) /\ o.boot = boot
    BY <1>2, NumbersInRange
  <2>2. o.key \in Keys /\ o.now \in Nat /\ o.quiet \in Nat
    BY <1>1 DEF Call
  <2>3. Len(firings) \in Nat
    BY <1>1 DEF TypeOK
  <2> QED
    BY <2>1, <2>2, <2>3 DEF Genuine
<1>4. /\ c.id = o.id /\ c.key = k /\ c.quiet = o.quiet /\ c.now = o.now /\ c.boot = boot
      /\ c.suppressed = pending[k] /\ c.covers = held[k]
  BY <1>1, <1>3 DEF Call
<1>5. /\ o.now >= until[k]
      /\ clock' = clock /\ boot' = boot /\ firings' = firings /\ dropped' = dropped
      /\ \A j \in Keys \ {k} : /\ held'[j] = held[j] /\ pending'[j] = pending[j]
                               /\ until'[j] = until[j]
      /\ held'[k] = {} /\ pending'[k] = 0 /\ until'[k] = o.now + o.quiet
  BY <1>1, <1>3 DEF Pass, Open, Counted, WindowEnd, TypeOK
<1>6. \A j \in Keys : until[j] \in Nat /\ until'[j] \in Nat /\ until[j] <= until'[j]
  <2>1. \A j \in Keys : until[j] \in Nat /\ until'[j] \in Nat
    BY <1>1 DEF TypeOK
  <2>2. until[k] <= until'[k]
    BY <1>3, <1>5, <2>1
  <2>3. \A j \in Keys \ {k} : until[j] <= until'[j]
    BY <1>5, <2>1
  <2> QED
    BY <2>1, <2>2, <2>3
<1>7. Claims(c) = {o.id} \cup held[k]
  BY <1>4 DEF Claims
<1>8. /\ \A a \in Passed : o.id \notin Claims(a)
      /\ \A j \in Keys : o.id \notin held[j]
      /\ \A u \in AtGate' : u \in AtGate /\ call'[u] = call[u] /\ call[u].id # o.id
  BY <1>2 DEF IInv, RunningApart, AtGate
<1>9. FiringsOrdered'
  BY <1>5 DEF IInv, FiringsOrdered
<1>10. CallsGenuine'
  <2>1. Genuine(c, firings)
    BY <1>1, <1>3, <1>4 DEF Genuine
  <2>2. \A a \in Passed' : Genuine(a, firings) /\ a.boot <= boot
    <3>1. c.boot <= boot
      BY <1>1, <1>4 DEF TypeOK
    <3>2. \A a \in Passed : Genuine(a, firings) /\ a.boot <= boot
      BY DEF IInv, CallsGenuine
    <3> QED
      BY <1>2, <2>1, <3>1, <3>2
  <2>3. \A u \in Threads : pc'[u] # "idle" => Genuine(call'[u], firings) /\ call'[u].boot = boot
    BY <1>2, <1>4, <2>1 DEF IInv, CallsGenuine
  <2> QED
    BY <1>5, <2>2, <2>3 DEF CallsGenuine
<1>11. \A a \in Passed : a.key \in Keys /\ a.now \in Nat /\ a.quiet \in Nat
  BY DEF IInv, CallsGenuine, Genuine, Call
<1>12. WindowsBehind'
  <2> SUFFICES ASSUME NEW a \in Passed', a.boot = boot, a.quiet > 0
               PROVE  a.now + a.quiet <= until'[a.key]
    BY <1>5 DEF WindowsBehind
  <2>1. CASE a \in Passed
    <3>1. a.now + a.quiet <= until[a.key]
      BY <2>1 DEF IInv, WindowsBehind
    <3> QED
      BY <1>6, <1>11, <2>1, <3>1
  <2>2. CASE a = c
    BY <1>3, <1>4, <1>5, <2>2
  <2> QED
    BY <1>2, <2>1, <2>2
<1>13. WindowsApart'
  <2>1. ASSUME NEW a \in Passed, a.key = k, a.boot = boot, a.quiet > 0
        PROVE  a.now + a.quiet <= c.now
    <3>1. a.now + a.quiet <= until[k]
      BY <2>1 DEF IInv, WindowsBehind
    <3> QED
      BY <1>3, <1>4, <1>5, <1>6, <1>11, <2>1, <3>1
  <2> QED
    BY <1>2, <1>4, <2>1 DEF IInv, WindowsApart
<1>14. HeldCounted'
  <2> SUFFICES ASSUME NEW j \in Keys
               PROVE  /\ IsFiniteSet(held'[j]) /\ pending'[j] = Cardinality(held'[j])
                      /\ \A i \in held'[j] : /\ i \in 1 .. Len(firings)
                                             /\ firings[i].key = j
                                             /\ firings[i].now < until'[j]
    BY <1>5 DEF HeldCounted
  <2>1. CASE j # k
    BY <1>5, <2>1 DEF IInv, HeldCounted
  <2>2. CASE j = k
    BY <1>5, <2>2, FS_EmptySet
  <2> QED
    BY <2>1, <2>2
<1>15. CountsExact'
  <2>1. c.suppressed = Cardinality(c.covers)
    BY <1>3, <1>4 DEF IInv, HeldCounted
  <2>2. ASSUME NEW i \in held[k] PROVE i \in 1 .. o.id - 1 /\ firings[i].key = k
    <3>1. i \in 1 .. Len(firings) /\ firings[i].key = k /\ firings[i].now < until[k]
      BY <1>3, <2>2 DEF IInv, HeldCounted
    <3>2. firings[i].now \in Nat /\ firings[o.id].now \in Nat
      BY <1>3, <3>1 DEF IInv, FiringsOrdered
    <3>3. ~ (firings[o.id].now <= firings[i].now)
      BY <1>3, <1>5, <1>6, <3>1, <3>2
    <3>4. ~ (o.id <= i)
      BY <1>3, <3>1, <3>3 DEF IInv, FiringsOrdered
    <3> QED
      BY <1>3, <3>1, <3>4
  <2> QED
    BY <1>2, <1>4, <1>5, <2>1, <2>2 DEF IInv, CountsExact
<1>16. RunningApart'
  <2>1. \A u \in AtGate' : call'[u].id \notin Claims(c)
    BY <1>3, <1>7, <1>8 DEF IInv, RunningApart
  <2>2. \A j \in Keys : held'[j] \subseteq held[j]
    BY <1>3, <1>5
  <2> QED
    BY <1>2, <1>8, <2>1, <2>2 DEF IInv, RunningApart
<1>17. CountedOnce'
  <2>1. \A a \in Passed : Claims(a) \cap Claims(c) = {}
    BY <1>3, <1>7, <1>8 DEF IInv, CountedOnce
  <2>2. \A a, b \in Passed' : a # b => Claims(a) \cap Claims(b) = {}
    BY <1>2, <2>1 DEF IInv, CountedOnce
  <2>3. \A j \in Keys : Claims(c) \cap held'[j] = {}
    BY <1>3, <1>5, <1>7, <1>8 DEF IInv, CountedOnce
  <2>4. \A j \in Keys : held'[j] \subseteq held[j]
    BY <1>3, <1>5
  <2>5. \A a \in Passed', j \in Keys : Claims(a) \cap held'[j] = {}
    BY <1>2, <2>3, <2>4 DEF IInv, CountedOnce
  <2>6. \A i, j \in Keys : i # j => held'[i] \cap held'[j] = {}
    BY <2>4 DEF IInv, CountedOnce
  <2> QED
    BY <2>2, <2>5, <2>6 DEF CountedOnce
<1>18. NothingForgotten'
  <2> SUFFICES ASSUME NEW i \in 1 .. Len(firings)
               PROVE  \/ \E a \in Passed' : i \in Claims(a)
                      \/ \E j \in Keys : i \in held'[j]
                      \/ \E u \in AtGate' : i = call'[u].id
                      \/ i \in dropped
    BY <1>5 DEF NothingForgotten
  <2>1. CASE i = o.id \/ i \in held[k]
    BY <1>2, <1>7, <2>1
  <2>2. CASE i # o.id /\ i \notin held[k]
    BY <1>2, <1>5, <1>8, <2>2 DEF IInv, NothingForgotten, AtGate
  <2> QED
    BY <2>1, <2>2
<1> QED
  BY <1>1, <1>9, <1>10, <1>12, <1>13, <1>14, <1>15, <1>16, <1>17, <1>18 DEF IInv


(* Writing, or failing to, changes nothing the invariant speaks of.        *)
LEMMA WriteKeeps ==
  ASSUME IInv, NEW t \in Threads, Write(t) \/ WriteFails(t)
  PROVE  IInv'
<1>1. TypeOK /\ TypeOK'
  BY WriteType DEF IInv
<1>2. /\ Passed' = Passed /\ AtGate' = AtGate
      /\ \A u \in Threads \ {t} : call'[u] = call[u] /\ pc'[u] = pc[u]
  BY <1>1, WriteSets
<1>3. /\ clock' = clock /\ boot' = boot /\ until' = until /\ pending' = pending
      /\ firings' = firings /\ held' = held /\ dropped' = dropped
      /\ pc[t] = "write" /\ pc'[t] = "idle"
  BY <1>1 DEF Write, WriteFails, Return, TypeOK, memory, history
<1>4. \A u \in AtGate : u \in Threads /\ u # t /\ call'[u] = call[u]
  BY <1>2, <1>3 DEF AtGate
<1>5. FiringsOrdered' /\ WindowsBehind' /\ WindowsApart' /\ CountsExact' /\ HeldCounted'
  BY <1>2, <1>3
     DEF IInv, FiringsOrdered, WindowsBehind, WindowsApart, CountsExact, HeldCounted
<1>6. CallsGenuine'
  BY <1>2, <1>3 DEF IInv, CallsGenuine
<1>7. RunningApart' /\ CountedOnce'
  BY <1>2, <1>3, <1>4 DEF IInv, RunningApart, CountedOnce
<1>8. NothingForgotten'
  BY <1>2, <1>3, <1>4 DEF IInv, NothingForgotten
<1> QED
  BY <1>1, <1>5, <1>6, <1>7, <1>8 DEF IInv

(* A crash empties the tables; the windows it forgets belong to the old    *)
(* process.                                                                *)
LEMMA CrashKeeps ==
  ASSUME IInv, Crash
  PROVE  IInv'
<1>1. TypeOK /\ TypeOK'
  BY CrashType DEF IInv
<1>2. Passed' = Passed /\ AtGate' = {}
  BY <1>1, CrashSets
<1>3. /\ clock' = clock /\ boot' = boot + 1 /\ firings' = firings
      /\ \A t \in Threads : pc'[t] = "idle"
      /\ \A k \in Keys : held'[k] = {} /\ pending'[k] = 0
      /\ \A k \in Keys : held[k] \subseteq dropped'
      /\ \A t \in AtGate : call[t].id \in dropped'
      /\ dropped \subseteq dropped'
  BY DEF Crash
<1>4. \A a \in Passed : Genuine(a, firings) /\ a.boot \in Nat /\ a.boot <= boot
  BY DEF IInv, CallsGenuine, Genuine, Call
<1>5. boot \in Nat
  BY <1>1 DEF TypeOK
<1>6. FiringsOrdered' /\ WindowsApart' /\ CountsExact'
  BY <1>2, <1>3 DEF IInv, FiringsOrdered, WindowsApart, CountsExact
<1>7. CallsGenuine'
  BY <1>2, <1>3, <1>4, <1>5 DEF CallsGenuine
<1>8. WindowsBehind'
  BY <1>2, <1>3, <1>4, <1>5 DEF WindowsBehind
<1>9. HeldCounted'
  BY <1>3, FS_EmptySet DEF HeldCounted
<1>10. RunningApart'
  BY <1>2 DEF RunningApart
<1>11. CountedOnce'
  BY <1>2, <1>3 DEF IInv, CountedOnce
<1>12. NothingForgotten'
  BY <1>2, <1>3 DEF IInv, NothingForgotten
<1> QED
  BY <1>1, <1>6, <1>7, <1>8, <1>9, <1>10, <1>11, <1>12 DEF IInv

(* Time passing keeps every reading in the past.                           *)
LEMMA TickKeeps ==
  ASSUME IInv, Tick
  PROVE  IInv'
<1>1. TypeOK /\ TypeOK'
  BY DEF IInv, Tick, TypeOK, memory, history
<1>2. Passed' = Passed /\ AtGate' = AtGate
  BY DEF Tick, Passed, AtGate, Writing, history
<1>3. FiringsOrdered'
  <2>1. clock \in Nat /\ clock' = clock + 1 /\ firings' = firings
    BY <1>1 DEF Tick, TypeOK, history
  <2>2. \A i \in 1 .. Len(firings) : firings[i].now \in 0 .. clock'
    BY <2>1 DEF IInv, FiringsOrdered
  <2> QED
    BY <2>1, <2>2 DEF IInv, FiringsOrdered
<1> QED
  BY <1>1, <1>2, <1>3
     DEF IInv, Tick, memory, history, CallsGenuine, WindowsBehind, WindowsApart,
         HeldCounted, CountsExact, RunningApart, CountedOnce, NothingForgotten

LEMMA Stutter ==
  ASSUME IInv, UNCHANGED vars
  PROVE  IInv'
<1>1. Passed' = Passed /\ AtGate' = AtGate /\ TypeOK'
  BY DEF IInv, vars, memory, history, Passed, AtGate, Writing, TypeOK
<1> QED
  BY <1>1
     DEF IInv, vars, memory, history, FiringsOrdered, CallsGenuine, WindowsBehind,
         WindowsApart, HeldCounted, CountsExact, RunningApart, CountedOnce, NothingForgotten

(* The invariant holds throughout.                                         *)
THEOREM Invariant == Spec => []IInv
<1>1. IInv /\ [Next]_vars => IInv'
  <2> SUFFICES ASSUME IInv, [Next]_vars PROVE IInv'
    OBVIOUS
  <2>1. ASSUME NEW t \in Threads, Step(t) PROVE IInv'
    BY <2>1, FireKeeps, SuppressKeeps, PassKeeps, WriteKeeps DEF Step
  <2> QED
    BY <2>1, TickKeeps, CrashKeeps, Stutter DEF Next
<1> QED
  BY <1>1, InitInvariant, PTL DEF Spec

-----------------------------------------------------------------------------
(* The results. *)

(* Alerts of one key and process are a full window apart.                  *)
THEOREM WindowsRespected == Spec => []QuietWindows
<1>1. IInv => QuietWindows
  BY DEF IInv, WindowsApart, QuietWindows, Passed
<1> QED
  BY <1>1, Invariant, PTL

(* Every suppressed_count is the number of earlier firings of the same key *)
(* that the alert stands for.                                              *)
THEOREM CountsAreExact == Spec => []SuppressedCountExact
<1>1. IInv => SuppressedCountExact
  <2> SUFFICES ASSUME IInv, NEW a \in alerts
               PROVE  /\ a.suppressed = Cardinality(a.covers)
                      /\ \A i \in a.covers : i < a.id /\ firings[i].key = a.key
    BY DEF SuppressedCountExact
  <2>1. a \in Passed
    BY DEF Passed
  <2>2. a.id \in Nat
    BY <2>1 DEF IInv, CallsGenuine, Genuine, Call
  <2> QED
    BY <2>1, <2>2 DEF IInv, CountsExact
<1> QED
  BY <1>1, Invariant, PTL

(* Every firing is accounted for, and none twice.                          *)
THEOREM AccountsBalance == Spec => [](CountedOnce /\ NothingForgotten)
<1>1. IInv => CountedOnce /\ NothingForgotten
  BY DEF IInv
<1> QED
  BY <1>1, Invariant, PTL


(* A key is mute only because of one of its own firings.  At the gate a    *)
(* call asks for a window of some length.                                  *)
MuteInv ==
  /\ MutedByOwnFiring
  /\ \A t \in AtGate : call[t].quiet > 0

LEMMA PassMutes ==
  ASSUME IInv, MuteInv, NEW t \in Threads, Pass(t)
  PROVE  MuteInv'
<1> DEFINE o == call[t]
           c == call'[t]
<1>1. /\ TypeOK /\ TypeOK' /\ o \in Call
      /\ c = [o EXCEPT !.suppressed = pending[o.key], !.covers = held[o.key]]
  BY PassType DEF IInv
<1>2. /\ Passed' = Passed \cup {c} /\ AtGate' = AtGate \ {t} /\ t \in AtGate
      /\ \A u \in Threads \ {t} : call'[u] = call[u]
  BY <1>1, PassSets
<1>3. o.quiet > 0 /\ o.boot = boot /\ o.key \in Keys
  BY <1>1, <1>2, NumbersInRange DEF MuteInv, Call
<1>4. c.key = o.key /\ c.quiet = o.quiet /\ c.now = o.now /\ c.boot = boot
  BY <1>1, <1>3 DEF Call
<1>5. /\ boot' = boot /\ until'[o.key] = o.now + o.quiet
      /\ \A k \in Keys \ {o.key} : until'[k] = until[k]
  BY <1>1, <1>3 DEF Pass, Open, Counted, WindowEnd, TypeOK
<1>6. MutedByOwnFiring'
  BY <1>2, <1>3, <1>4, <1>5 DEF MuteInv, MutedByOwnFiring
<1>7. \A u \in AtGate' : call'[u].quiet > 0
  BY <1>2 DEF MuteInv, AtGate
<1> QED
  BY <1>6, <1>7 DEF MuteInv

LEMMA FireMutes ==
  ASSUME IInv, MuteInv, NEW t \in Threads, NEW k \in Keys, NEW q \in Quiet, Fire(t, k, q)
  PROVE  MuteInv'
<1>1. TypeOK
  BY DEF IInv
<1>2. /\ q = 0 => Passed' = Passed \cup {call'[t]} /\ AtGate' = AtGate
      /\ q # 0 => Passed' = Passed /\ AtGate' = AtGate \cup {t}
      /\ \A u \in Threads \ {t} : call'[u] = call[u]
      /\ t \notin AtGate
  BY <1>1, FireSets
<1>3. call'[t].quiet = q /\ boot' = boot /\ until' = until
  BY <1>1 DEF Fire, TypeOK, memory
<1>4. MutedByOwnFiring'
  BY <1>2, <1>3 DEF MuteInv, MutedByOwnFiring
<1>5. \A u \in AtGate' : call'[u].quiet > 0
  BY <1>2, <1>3, QuietAssumption DEF MuteInv, AtGate
<1> QED
  BY <1>4, <1>5 DEF MuteInv

(* A key is mute only because of one of its own firings in this process.   *)
THEOREM MutesAreOwn == Spec => []MutedByOwnFiring
<1>1. Init => MuteInv
  BY DEF Init, MuteInv, MutedByOwnFiring, AtGate
<1>2. IInv /\ MuteInv /\ [Next]_vars => MuteInv'
  <2> SUFFICES ASSUME IInv, MuteInv, [Next]_vars PROVE MuteInv'
    OBVIOUS
  <2> TypeOK
    BY DEF IInv
  <2>1. ASSUME NEW t \in Threads, Suppress(t) PROVE MuteInv'
    BY <2>1, SuppressSets DEF Suppress, Open, MuteInv, MutedByOwnFiring, AtGate
  <2>2. ASSUME NEW t \in Threads, Write(t) \/ WriteFails(t) PROVE MuteInv'
    <3>1. Passed' = Passed /\ AtGate' = AtGate /\ t \notin AtGate
          /\ \A u \in Threads \ {t} : call'[u] = call[u]
      BY <2>2, WriteSets DEF Write, WriteFails, AtGate
    <3>2. boot' = boot /\ until' = until
      BY <2>2 DEF Write, WriteFails, memory
    <3> QED
      BY <3>1, <3>2 DEF MuteInv, MutedByOwnFiring, AtGate
  <2>3. ASSUME NEW t \in Threads, Step(t) PROVE MuteInv'
    BY <2>1, <2>2, <2>3, PassMutes, FireMutes DEF Step
  <2>4. CASE Tick
    BY <2>4 DEF Tick, MuteInv, MutedByOwnFiring, memory, history, AtGate, Writing, Passed
  <2>5. CASE Crash
    BY <2>5, CrashSets DEF Crash, MuteInv, MutedByOwnFiring
  <2>6. CASE UNCHANGED vars
    BY <2>6 DEF vars, MuteInv, MutedByOwnFiring, memory, history, AtGate, Writing, Passed
  <2> QED
    BY <2>3, <2>4, <2>5, <2>6 DEF Next
<1>3. MuteInv => MutedByOwnFiring
  BY DEF MuteInv
<1> QED
  BY <1>1, <1>2, <1>3, Invariant, PTL DEF Spec

-----------------------------------------------------------------------------
(* The alert log. *)

(* A line: an alert that somebody raised.                                  *)
Line == [by : Writers, n : Nat]

Stages == {"idle", "exists", "stat", "rename", "open", "append", "notify"}

LogTypes ==
  /\ second \in Seconds /\ burst \in 0 .. MaxRate /\ made \in Nat
  /\ files \in Seq(Seq(Line))
  /\ current \in 0 .. Len(files)
  /\ rotated \in [Seconds -> 0 .. Len(files)]
  /\ stage \in [Writers -> Stages]
  /\ stamp \in [Writers -> 0 .. second]
  /\ handle \in [Writers -> 0 .. Len(files)]
  /\ alert \in [Writers -> Line \cup {NoAlert}]
  /\ measured \in [Writers -> 0 .. Len(files)]

(* What a call has in hand where it is.                                    *)
InHand ==
  \A t \in Writers :
    /\ stage[t] # "idle" => alert[t] \in Line
    /\ stage[t] \in {"append", "notify"} => handle[t] # NoFile
    /\ stage[t] = "rename" => measured[t] # NoFile

(* The places of lines in the files fs, and the line at one of them.       *)
PlacesOf(fs)  == {p \in Nat \X Nat : p[1] \in 1 .. Len(fs) /\ p[2] \in 1 .. Len(fs[p[1]])}
LineAt(fs, p) == fs[p[1]][p[2]]

(* File f with one more line a, which is at the next place.                *)
Appended(fs, f, a) == [fs EXCEPT ![f] = Append(@, a)]
NextPlace(fs, f)   == <<f, Len(fs[f]) + 1>>

Written(a) == \E p \in PlacesOf(files) : LineAt(files, p) = a

(* An alert that goes to notify() has its line.                            *)
LinesThere == \A t \in Writers : stage[t] = "notify" => Written(alert[t])

(* A file that was made after a rotation of the same second has no line    *)
(* from before this second, so it is not full; and the name that a call    *)
(* has made up is free as long as the file it measured is the current one. *)
NamesFree ==
  /\ \A s \in Seconds : rotated[s] # NoFile => s <= second
  /\ rotated[second] # NoFile /\ current # NoFile => Len(files[current]) <= burst
  /\ \A t \in Writers : stage[t] = "rename" /\ measured[t] = current =>
       rotated[stamp[t]] = NoFile

LogInv == LogTypes /\ InHand /\ LinesThere /\ NamesFree

-----------------------------------------------------------------------------
(* Lines of the files. *)

(* A new file has no lines.                                                *)
LEMMA NewFile ==
  ASSUME NEW fs \in Seq(Seq(Line)), NEW gs, gs = Append(fs, <<>>)
  PROVE  /\ gs \in Seq(Seq(Line)) /\ Len(gs) = Len(fs) + 1 /\ gs[Len(fs) + 1] = <<>>
         /\ \A f \in 1 .. Len(fs) : gs[f] = fs[f]
         /\ PlacesOf(gs) = PlacesOf(fs)
         /\ \A p \in PlacesOf(fs) : LineAt(gs, p) = LineAt(fs, p)
<1>1. <<>> \in Seq(Line) /\ Len(<<>>) = 0
  OBVIOUS
<1>2. /\ gs \in Seq(Seq(Line)) /\ Len(gs) = Len(fs) + 1 /\ gs[Len(fs) + 1] = <<>>
      /\ \A f \in 1 .. Len(fs) : gs[f] = fs[f]
  BY <1>1
<1>3. PlacesOf(gs) = PlacesOf(fs)
  BY <1>1, <1>2 DEF PlacesOf
<1>4. \A p \in PlacesOf(fs) : LineAt(gs, p) = LineAt(fs, p)
  BY <1>2 DEF PlacesOf, LineAt
<1> QED
  BY <1>2, <1>3, <1>4

(* One more line of one file is at one more place.                         *)
Grown(fs, gs, h, a) ==
  /\ gs \in Seq(Seq(Line)) /\ Len(gs) = Len(fs)
  /\ Len(gs[h]) = Len(fs[h]) + 1
  /\ \A f \in 1 .. Len(fs) : f # h => gs[f] = fs[f]
  /\ NextPlace(fs, h) \notin PlacesOf(fs)
  /\ PlacesOf(gs) = PlacesOf(fs) \cup {NextPlace(fs, h)}
  /\ LineAt(gs, NextPlace(fs, h)) = a
  /\ \A p \in PlacesOf(fs) : LineAt(gs, p) = LineAt(fs, p)

LEMMA NewLine ==
  ASSUME NEW fs \in Seq(Seq(Line)), NEW h \in 1 .. Len(fs), NEW a \in Line
  PROVE  Grown(fs, Appended(fs, h, a), h, a)
<1> DEFINE gs == Appended(fs, h, a)
           n == Len(fs[h])
           q == <<h, n + 1>>
<1>1. fs[h] \in Seq(Line) /\ n \in Nat /\ h \in Nat
  OBVIOUS
<1>2. /\ gs \in Seq(Seq(Line)) /\ Len(gs) = Len(fs)
      /\ gs[h] = Append(fs[h], a)
      /\ \A f \in 1 .. Len(fs) : f # h => gs[f] = fs[f]
  BY <1>1 DEF Appended
<1>3. /\ Len(gs[h]) = n + 1 /\ gs[h][n + 1] = a
      /\ \A i \in 1 .. n : gs[h][i] = fs[h][i]
  BY <1>1, <1>2
<1>4. q \in Nat \X Nat /\ q[1] = h /\ q[2] = n + 1
  BY <1>1
<1>5. q \notin PlacesOf(fs) /\ LineAt(gs, q) = a
  BY <1>1, <1>3, <1>4 DEF PlacesOf, LineAt
<1>6. ASSUME NEW p \in Nat \X Nat
      PROVE  p \in PlacesOf(gs) <=> (p \in PlacesOf(fs) \/ p = q)
  <2>1. CASE p[1] = h
    <3>1. p \in PlacesOf(gs) <=> p[2] \in 1 .. n + 1
      BY <1>2, <1>3, <2>1 DEF PlacesOf
    <3>2. p \in PlacesOf(fs) <=> p[2] \in 1 .. n
      BY <2>1 DEF PlacesOf
    <3>3. p = q <=> p[2] = n + 1
      BY <1>4, <2>1
    <3> QED
      BY <1>1, <3>1, <3>2, <3>3
  <2>2. CASE p[1] # h
    BY <1>2, <1>4, <2>2 DEF PlacesOf
  <2> QED
    BY <2>1, <2>2
<1>7. PlacesOf(gs) = PlacesOf(fs) \cup {q}
  BY <1>4, <1>6 DEF PlacesOf
<1>8. \A p \in PlacesOf(fs) : LineAt(gs, p) = LineAt(fs, p)
  BY <1>1, <1>2, <1>3 DEF PlacesOf, LineAt
<1> QED
  BY <1>2, <1>3, <1>4, <1>5, <1>7, <1>8 DEF NextPlace, Grown

-----------------------------------------------------------------------------

LEMMA InitLogInv == LogInit => LogInv
<1> SUFFICES ASSUME LogInit PROVE LogInv
  OBVIOUS
<1>1. Len(files) = 0 /\ files \in Seq(Seq(Line)) /\ PlacesOf(files) = {}
  BY DEF LogInit, PlacesOf
<1>2. LogTypes
  BY <1>1, RateAssumption, SecondsAssumption DEF LogInit, LogTypes, Seconds, Stages, NoFile
<1>3. InHand
  BY DEF LogInit, InHand
<1>4. LinesThere
  BY <1>1 DEF LogInit, LinesThere
<1>5. NamesFree
  BY SecondsAssumption DEF LogInit, NamesFree, Seconds
<1> QED
  BY <1>2, <1>3, <1>4, <1>5 DEF LogInv

LEMMA NextSecondKeeps ==
  ASSUME LogInv, NextSecond
  PROVE  LogInv'
<1> USE DEF LogInv, NextSecond, disk, locals
<1>1. LogTypes'
  <2>1. second' = second + 1 /\ second' \in Seconds /\ burst' = 0
    BY SecondsAssumption DEF LogTypes, Seconds
  <2>2. stamp' \in [Writers -> 0 .. second']
    BY <2>1 DEF LogTypes, Seconds
  <2> QED
    BY <2>1, <2>2, RateAssumption DEF LogTypes
<1>2. InHand'
  BY DEF InHand
<1>3. LinesThere'
  BY DEF LinesThere, Written
<1>4. NamesFree'
  BY SecondsAssumption DEF NamesFree, LogTypes, Seconds
<1> QED
  BY <1>1, <1>2, <1>3, <1>4

LEMMA BeginKeeps ==
  ASSUME LogInv, NEW t \in Writers, Begin(t)
  PROVE  LogInv'
<1> USE DEF LogInv
<1>1. /\ made' = made + 1 /\ alert'[t] = [by |-> t, n |-> made + 1]
      /\ stage'[t] \in {"exists", "open"} /\ stage[t] = "idle"
      /\ \A u \in Writers : u # t => alert'[u] = alert[u] /\ stage'[u] = stage[u]
      /\ files' = files /\ made \in Nat /\ made' \in Nat
  BY DEF LogTypes, Begin, Goto, NewAlert, disk
<1>2. alert'[t] \in Line
  BY <1>1 DEF Line
<1>3. LogTypes'
  BY <1>1, <1>2 DEF LogTypes, Begin, Goto, NewAlert, disk, Stages
<1>4. InHand'
  BY <1>1, <1>2 DEF InHand, Begin
<1>5. LinesThere'
  BY <1>1 DEF LinesThere, Written
<1>6. NamesFree'
  BY <1>1 DEF NamesFree, Begin, disk
<1> QED
  BY <1>3, <1>4, <1>5, <1>6

(* A call that ends without having written.                                *)
LEMMA EndCallKeeps ==
  ASSUME LogInv, NEW t \in Writers, EndCall(t), UNCHANGED <<second, burst, disk, made>>
  PROVE  LogInv'
<1> USE DEF LogInv, disk
<1>1. /\ stage'[t] = "idle"
      /\ \A u \in Writers : u # t => /\ alert'[u] = alert[u] /\ stage'[u] = stage[u]
                                     /\ handle'[u] = handle[u] /\ stamp'[u] = stamp[u]
                                     /\ measured'[u] = measured[u]
  BY DEF LogTypes, EndCall, Goto
<1>2. LogTypes'
  BY DEF LogTypes, EndCall, Goto, Stages, NoFile, Seconds
<1>3. InHand'
  BY <1>1 DEF InHand
<1>4. LinesThere'
  BY <1>1 DEF LinesThere, Written
<1>5. NamesFree'
  BY <1>1 DEF NamesFree
<1> QED
  BY <1>2, <1>3, <1>4, <1>5

LEMMA ExistsKeeps ==
  ASSUME LogInv, NEW t \in Writers, Exists(t)
  PROVE  LogInv'
<1> USE DEF LogInv, disk
<1>1. /\ stage[t] = "exists" /\ stage'[t] \in {"open", "stat"}
      /\ \A u \in Writers : u # t => stage'[u] = stage[u]
      /\ UNCHANGED <<second, burst, disk, stamp, handle, alert, measured, made>>
  BY DEF LogTypes, Exists, Goto
<1>2. LogTypes'
  BY DEF LogTypes, Exists, Goto, Stages
<1>3. InHand'
  BY <1>1 DEF InHand
<1>4. LinesThere'
  BY <1>1 DEF LinesThere, Written
<1>5. NamesFree'
  BY <1>1 DEF NamesFree
<1> QED
  BY <1>2, <1>3, <1>4, <1>5

(* A file that is full was not made after a rotation of this second, as no *)
(* second fills a file: the name made up is free.                          *)
LEMMA StatKeeps ==
  ASSUME LogInv, NEW t \in Writers, Stat(t)
  PROVE  LogInv'
<1> USE DEF LogInv, disk
<1>1. /\ stage[t] = "stat" /\ stage'[t] \in {"rename", "open"}
      /\ measured'[t] = current /\ current # NoFile
      /\ \A u \in Writers : u # t => /\ stage'[u] = stage[u] /\ measured'[u] = measured[u]
                                     /\ stamp'[u] = stamp[u]
      /\ UNCHANGED <<second, burst, disk, handle, alert, made>>
  BY DEF LogTypes, Stat, Goto
<1>2. stage'[t] = "rename" => Full(current) /\ stamp'[t] = second
  BY DEF LogTypes, Stat, Goto, Stamp
<1>3. LogTypes'
  <2>1. second \in 0 .. second
    BY DEF LogTypes, Seconds
  <2> QED
    BY <2>1 DEF LogTypes, Stat, Goto, Stages, Stamp
<1>4. InHand'
  BY <1>1 DEF InHand
<1>5. LinesThere'
  BY <1>1 DEF LinesThere, Written
<1>6. NamesFree'
  <2>1. Full(current) => rotated[second] = NoFile
    <3>1. Len(files[current]) \in Nat /\ burst \in Nat /\ burst <= MaxRate
      BY <1>1, RateAssumption DEF LogTypes, NoFile
    <3> QED
      BY <1>1, <3>1, RateAssumption DEF NamesFree, Full
  <2> QED
    BY <1>1, <1>2, <2>1 DEF NamesFree
<1> QED
  BY <1>3, <1>4, <1>5, <1>6

LEMMA RenameKeeps ==
  ASSUME LogInv, NEW t \in Writers, Rename(t)
  PROVE  LogInv'
<1> USE DEF LogInv
<1>1. /\ stage[t] = "rename" /\ stage'[t] = "open" /\ current' = NoFile
      /\ \A u \in Writers : u # t => stage'[u] = stage[u]
      /\ UNCHANGED <<second, burst, files, stamp, handle, alert, measured, made>>
  BY DEF LogTypes, Rename, Goto
<1>2. stamp[t] \in Seconds /\ stamp[t] <= second
  BY SecondsAssumption DEF LogTypes, Seconds
<1>3. \A s \in Seconds : rotated'[s] = IF s = stamp[t] THEN current ELSE rotated[s]
  BY DEF LogTypes, Rename
<1>4. LogTypes'
  BY <1>1, <1>2 DEF LogTypes, Rename, Goto, Stages, NoFile
<1>5. InHand'
  BY <1>1 DEF InHand
<1>6. LinesThere'
  BY <1>1 DEF LinesThere, Written
<1>7. NamesFree'
  BY <1>1, <1>2, <1>3 DEF NamesFree, InHand
<1> QED
  BY <1>4, <1>5, <1>6, <1>7

LEMMA OpenLogKeeps ==
  ASSUME LogInv, NEW t \in Writers, OpenLog(t)
  PROVE  LogInv'
<1> USE DEF LogInv
<1>1. /\ stage[t] = "open" /\ stage'[t] = "append" /\ handle'[t] = current'
      /\ \A u \in Writers : u # t => stage'[u] = stage[u] /\ handle'[u] = handle[u]
      /\ UNCHANGED <<second, burst, rotated, stamp, alert, measured, made>>
  BY DEF LogTypes, OpenLog, Goto
<1>2. \/ current # NoFile /\ files' = files /\ current' = current
      \/ current = NoFile /\ files' = Append(files, <<>>) /\ current' = Len(files) + 1
  BY DEF OpenLog
<1>3. /\ files' \in Seq(Seq(Line)) /\ Len(files') \in Nat /\ Len(files) \in Nat
      /\ Len(files') >= Len(files) /\ current' \in 1 .. Len(files')
      /\ PlacesOf(files') = PlacesOf(files)
      /\ \A p \in PlacesOf(files) : LineAt(files', p) = LineAt(files, p)
  BY <1>2, NewFile DEF LogTypes, NoFile
<1>4. LogTypes'
  <2>1. /\ rotated' \in [Seconds -> 0 .. Len(files')]
        /\ measured' \in [Writers -> 0 .. Len(files')]
    BY <1>1, <1>3 DEF LogTypes
  <2>2. handle' \in [Writers -> 0 .. Len(files')]
    BY <1>3, SMTT(30) DEF LogTypes, OpenLog
  <2>3. stage' \in [Writers -> Stages]
    BY DEF LogTypes, OpenLog, Goto, Stages
  <2> QED
    BY <1>1, <1>3, <2>1, <2>2, <2>3 DEF LogTypes
<1>5. InHand'
  <2>1. handle'[t] # NoFile
    BY <1>1, <1>3 DEF NoFile
  <2> QED
    BY <1>1, <2>1 DEF InHand
<1>6. LinesThere'
  BY <1>1, <1>3, ZenonT(30) DEF LinesThere, Written
<1>7. NamesFree'
  <2>1. CASE current # NoFile
    BY <1>1, <1>2, <2>1 DEF NamesFree
  <2>2. CASE current = NoFile
    <3>1. Len(files'[current']) = 0
      BY <1>2, <2>2, NewFile DEF LogTypes
    <3>2. \A u \in Writers : measured[u] # current'
      BY <1>2, <2>2 DEF LogTypes
    <3> QED
      BY <1>1, <3>1, <3>2, RateAssumption DEF NamesFree, LogTypes
  <2> QED
    BY <2>1, <2>2
<1> QED
  BY <1>4, <1>5, <1>6, <1>7

LEMMA AppendLineKeeps ==
  ASSUME LogInv, NEW t \in Writers, AppendLine(t)
  PROVE  LogInv'
<1> USE DEF LogInv
<1>1. /\ stage[t] = "append" /\ stage'[t] = "notify" /\ burst' = burst + 1
      /\ \A u \in Writers : u # t => stage'[u] = stage[u]
      /\ UNCHANGED <<second, current, rotated, stamp, handle, alert, measured, made>>
  BY DEF LogTypes, AppendLine, Goto
<1>2. handle[t] \in 1 .. Len(files) /\ alert[t] \in Line
  BY <1>1 DEF LogTypes, InHand, NoFile
<1> DEFINE q == NextPlace(files, handle[t])
<1>3. files' = Appended(files, handle[t], alert[t])
  BY DEF AppendLine, Appended
<1>4. /\ files' \in Seq(Seq(Line)) /\ Len(files') = Len(files)
      /\ Len(files'[handle[t]]) = Len(files[handle[t]]) + 1
      /\ \A f \in 1 .. Len(files) : f # handle[t] => files'[f] = files[f]
      /\ q \notin PlacesOf(files) /\ PlacesOf(files') = PlacesOf(files) \cup {q}
      /\ LineAt(files', q) = alert[t]
      /\ \A p \in PlacesOf(files) : LineAt(files', p) = LineAt(files, p)
  <2>1. files \in Seq(Seq(Line))
    BY DEF LogTypes
  <2>2. Grown(files, Appended(files, handle[t], alert[t]), handle[t], alert[t])
    <3> HIDE DEF LogInv
    <3> QED
      BY <1>2, <2>1, NewLine
  <2>3. Grown(files, files', handle[t], alert[t])
    BY <1>3, <2>2
  <2> QED
    BY <2>3 DEF Grown
<1> HIDE DEF q
<1>6. LogTypes'
  BY <1>1, <1>4, RateAssumption DEF LogTypes, AppendLine, Goto, Stages
<1>7. InHand'
  BY <1>1, <1>2 DEF InHand
<1>8. LinesThere'
  <2>1. ASSUME NEW u \in Writers, stage'[u] = "notify"
        PROVE  Written(alert[u])'
    BY <1>1, <1>4, <2>1, SMTT(30) DEF LinesThere, Written
  <2> QED
    BY <2>1 DEF LinesThere
<1>9. NamesFree'
  <2>1. current # NoFile => Len(files'[current]) <= Len(files[current]) + 1
    <3>1. CASE current = handle[t]
      BY <1>2, <1>4, <3>1 DEF LogTypes
    <3>2. CASE current # handle[t]
      BY <1>4, <3>2, SMTT(30) DEF LogTypes, NoFile
    <3> QED
      BY <3>1, <3>2
  <2>2. ASSUME current # NoFile
        PROVE  Len(files[current]) \in Nat /\ Len(files'[current]) \in Nat
    <3>1. current \in 1 .. Len(files) /\ files \in Seq(Seq(Line))
      BY <2>2 DEF LogTypes, NoFile
    <3>2. files[current] \in Seq(Line) /\ files'[current] \in Seq(Line)
      BY <1>4, <3>1
    <3> QED
      BY <3>2
  <2>3. burst \in Nat
    BY RateAssumption DEF LogTypes
  <2>4. rotated'[second'] # NoFile /\ current' # NoFile => Len(files'[current']) <= burst'
    BY <1>1, <2>1, <2>2, <2>3 DEF NamesFree
  <2> QED
    BY <1>1, <2>4 DEF NamesFree
<1> QED
  BY <1>6, <1>7, <1>8, <1>9

(* The invariant of the alert log: lines, calls and names fit together.    *)
THEOREM AlertLogKept == LogSpec => []LogInv
<1>1. LogInv /\ [LogNext]_logVars => LogInv'
  <2> SUFFICES ASSUME LogInv, [LogNext]_logVars PROVE LogInv'
    OBVIOUS
  <2>1. ASSUME NEW t \in Writers, LogStep(t) PROVE LogInv'
    <3>1. CASE Raise(t) \/ AppendFails(t) \/ Notify(t)
      BY <3>1, EndCallKeeps DEF Raise, AppendFails, Notify
    <3> QED
      BY <2>1, <3>1, BeginKeeps, ExistsKeeps, StatKeeps, RenameKeeps, OpenLogKeeps,
         AppendLineKeeps DEF LogStep
  <2>2. CASE UNCHANGED logVars
    BY <2>2 DEF logVars, disk, locals, LogInv, LogTypes, InHand, LinesThere, NamesFree, Written
  <2> QED
    BY <2>1, <2>2, NextSecondKeeps DEF LogNext
<1> QED
  BY <1>1, InitLogInv, PTL DEF LogSpec

(* Nobody is notified of an alert that is in no file.                      *)
THEOREM NotificationsAreWritten == LogSpec => []NotifiedAreWritten
<1>1. LogInv => NotifiedAreWritten
  BY DEF LogInv, LinesThere, NotifiedAreWritten, Written, PlacesOf, LineAt
<1> QED
  BY <1>1, AlertLogKept, PTL

(* A rotation destroys a rotated part only when it renames a file that it  *)
(* did not measure.                                                        *)
THEOREM OnlyStaleReplace == LogSpec => ReplacesOnlyStale
<1> DEFINE OnlyStale ==
      \A t \in Writers : (Rename(t) /\ rotated[stamp[t]] # NoFile) => measured[t] # current
<1>1. LogInv => [OnlyStale]_logVars
  BY DEF LogInv, NamesFree, Rename
<1> QED
  BY <1>1, AlertLogKept, PTL DEF ReplacesOnlyStale

=============================================================================
