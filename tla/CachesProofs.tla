---------------------------- MODULE CachesProofs ----------------------------
(***************************************************************************)
(* What events are tested against, for any number of administrators and    *)
(* ingest threads, and any rules, documents, indicators and batches.       *)
(*                                                                         *)
(* Exceptions and watchlist: whatever a writer has read and not yet        *)
(* swapped in is one of the tables that there were since its change; and   *)
(* the table as it is now is one of them for everybody who has changed it  *)
(* and has yet to read.  So a swap is a Refresh, a change is a Change, and *)
(* all other steps leave what Catalogue sees as it is.                     *)
(*                                                                         *)
(* Rules: every rule file is in the list, or a load under way will come to *)
(* it, or holds what it says, or a write of it is under way and a load     *)
(* follows.  So when nothing is under way it is in the list.  While no two *)
(* requests overlap more is true: what the one load has appended, what it  *)
(* holds and what it has yet to read are, in this order, the files.        *)
(***************************************************************************)
EXTENDS Caches, FiniteSetTheorems, WellFoundedInduction, SequenceTheorems, TLAPS

-----------------------------------------------------------------------------
(* Names in order, and sequences.                                          *)

(* By way of a least member of a set of naturals, which takes the place of *)
(* an induction.                                                           *)
LEMMA LeastExists ==
  ASSUME NEW T \in SUBSET Nat, T # {}
  PROVE  \E x \in T : \A y \in T : x <= y
<1> DEFINE R == OpToRel(<, Nat)
<1>1. IsWellFoundedOn(R, Nat)
  BY NatLessThanWellFounded
<1>2. ASSUME NEW x \in Nat, NEW y \in Nat, x < y PROVE <<x, y>> \in R
  BY <1>2 DEF OpToRel
<1> HIDE DEF R
<1>3. PICK x \in T : \A y \in T : ~ (<<y, x>> \in R)
  BY <1>1, WFMin
<1>4. ASSUME NEW y \in T PROVE x <= y
  <2>1. x \in Nat /\ y \in Nat
    OBVIOUS
  <2>2. ~ (y < x)
    BY <1>2, <1>3, <2>1
  <2> QED
    BY <2>1, <2>2
<1> QED
  BY <1>4

Increasing(S) ==
  {s \in [1 .. Cardinality(S) -> S] : \A i, j \in DOMAIN s : i < j => s[i] < s[j]}

(* A finite set of names can be put in order: else there is a smallest     *)
(* one that cannot, and it can without its least name.                     *)
LEMMA IncreasingExists ==
  \A S \in SUBSET Nat : IsFiniteSet(S) => Increasing(S) # {}
<1> DEFINE Bad == {n \in Nat : \E S \in SUBSET Nat :
                     IsFiniteSet(S) /\ Cardinality(S) = n /\ Increasing(S) = {}}
<1>1. ASSUME Bad # {} PROVE FALSE
  <2>1. PICK n \in Bad : \A m \in Bad : n <= m
    <3>1. Bad \in SUBSET Nat
      OBVIOUS
    <3> HIDE DEF Bad
    <3> QED
      BY <1>1, <3>1, LeastExists
  <2>2. PICK S \in SUBSET Nat : IsFiniteSet(S) /\ Cardinality(S) = n /\ Increasing(S) = {}
    OBVIOUS
  <2>3. n \in Nat
    OBVIOUS
  <2>4. CASE S = {}
    <3>1. n = 0
      BY <2>2, <2>4, FS_EmptySet
    <3>2. [i \in 1 .. 0 |-> 0] \in Increasing(S)
      BY <2>2, <2>4, <3>1 DEF Increasing
    <3> QED
      BY <2>2, <3>2
  <2>5. CASE S # {}
    <3>1. PICK x \in S : \A y \in S : x <= y
      BY <2>5, LeastExists
    <3> DEFINE U == S \ {x}
    <3>2. U \in SUBSET Nat /\ IsFiniteSet(U) /\ Cardinality(U) = n - 1 /\ n - 1 \in Nat
      <4>1. IsFiniteSet(U) /\ Cardinality(U) = Cardinality(S) - 1
        BY <2>2, FS_RemoveElement
      <4>2. Cardinality(U) \in Nat
        BY <4>1, FS_CardinalityType
      <4> QED
        BY <2>2, <4>1, <4>2
    <3> HIDE DEF U
    <3>3. Increasing(U) # {}
      <4>1. ASSUME Increasing(U) = {} PROVE FALSE
        <5>1. n - 1 \in Bad
          BY <3>2, <4>1
        <5> HIDE DEF Bad
        <5> QED
          BY <2>1, <2>3, <5>1
      <4> QED
        BY <4>1
    <3>4. PICK r : r \in Increasing(U)
      BY <3>3
    <3>5. r \in [1 .. n - 1 -> U] /\ \A i, j \in 1 .. n - 1 : i < j => r[i] < r[j]
      BY <3>2, <3>4 DEF Increasing
    <3> DEFINE s == [i \in 1 .. n |-> IF i = 1 THEN x ELSE r[i - 1]]
    <3>6. \A i \in 1 .. n : i = 1 \/ i - 1 \in 1 .. n - 1
      BY <2>3
    <3>7. \A u \in U : u \in S /\ x < u
      BY <3>1 DEF U
    <3>8. s \in [1 .. n -> S]
      BY <3>5, <3>6, <3>7
    <3>9. ASSUME NEW i \in 1 .. n, NEW j \in 1 .. n, i < j PROVE s[i] < s[j]
      <4>1. j # 1 /\ j - 1 \in 1 .. n - 1 /\ s[j] = r[j - 1] /\ r[j - 1] \in U
        BY <2>3, <3>5, <3>6, <3>9
      <4>2. CASE i = 1
        BY <3>7, <4>1, <4>2
      <4>3. CASE i # 1
        <5>1. i - 1 \in 1 .. n - 1 /\ s[i] = r[i - 1] /\ i - 1 < j - 1
          BY <2>3, <3>6, <3>9, <4>3
        <5> QED
          BY <3>5, <4>1, <5>1
      <4> QED
        BY <4>2, <4>3
    <3> HIDE DEF s
    <3>10. s \in Increasing(S)
      BY <2>2, <3>8, <3>9 DEF Increasing
    <3> QED
      BY <2>2, <3>10
  <2> QED
    BY <2>4, <2>5
<1> QED
  <2>1. Bad = {}
    BY <1>1
  <2> SUFFICES ASSUME NEW S \in SUBSET Nat, IsFiniteSet(S), Increasing(S) = {}
               PROVE  FALSE
    OBVIOUS
  <2>2. Cardinality(S) \in Nat
    BY FS_CardinalityType
  <2> QED
    BY <2>1, <2>2

LEMMA InOrderCovers ==
  ASSUME NEW S \in SUBSET Nat, IsFiniteSet(S)
  PROVE  InOrder(S) \in Seq(S) /\ ToSet(InOrder(S)) = S
<1> DEFINE n == Cardinality(S)
           s == InOrder(S)
<1>1. n \in Nat
  BY FS_CardinalityType
<1>2. PICK w : w \in Increasing(S)
  BY IncreasingExists
<1>3. s \in [1 .. n -> S] /\ \A i, j \in 1 .. n : i < j => s[i] < s[j]
  BY <1>2 DEF InOrder, Increasing
<1> HIDE DEF s, n
<1>4. ASSUME NEW i \in 1 .. n, NEW j \in 1 .. n, s[i] = s[j] PROVE i = j
  <2>1. s[i] \in S /\ s[j] \in S /\ i \in Nat /\ j \in Nat
    BY <1>1, <1>3
  <2>2. ASSUME i < j PROVE FALSE
    <3>1. s[i] < s[j]
      BY <1>3, <2>2
    <3>2. s[i] \in Nat
      BY <2>1
    <3> QED
      BY <1>4, <3>1, <3>2
  <2>3. ASSUME j < i PROVE FALSE
    <3>1. s[j] < s[i]
      BY <1>3, <2>3
    <3>2. s[i] \in Nat
      BY <2>1
    <3> QED
      BY <1>4, <3>1, <3>2
  <2> QED
    BY <2>1, <2>2, <2>3
<1>5. s \in Injection(1 .. n, S)
  BY <1>3, <1>4 DEF Injection, IsInjective
<1>6. IsFiniteSet(1 .. n) /\ Cardinality(1 .. n) = n
  BY <1>1, FS_Interval
<1>7. s \in Surjection(1 .. n, S)
  BY <1>5, <1>6, FS_Injection DEF n
<1>8. s \in Seq(S)
  BY <1>1, <1>3
<1>9. ToSet(s) = S
  BY <1>3, <1>7 DEF ToSet, Surjection
<1> QED
  BY <1>8, <1>9 DEF s

LEMMA ToSetOfNone == ToSet(<<>>) = {}
BY DEF ToSet

LEMMA ToSetOfOne ==
  ASSUME NEW x
  PROVE  ToSet(<<x>>) = {x}
<1>1. DOMAIN <<x>> = 1 .. 1 /\ <<x>>[1] = x
  OBVIOUS
<1> QED
  BY <1>1 DEF ToSet

LEMMA ToSetOfConcat ==
  ASSUME NEW S, NEW s \in Seq(S), NEW t \in Seq(S)
  PROVE  ToSet(s \o t) = ToSet(s) \cup ToSet(t)
<1>1. /\ Len(s) \in Nat /\ Len(t) \in Nat
      /\ DOMAIN s = 1 .. Len(s) /\ DOMAIN t = 1 .. Len(t)
  BY LenProperties
<1>2. /\ s \o t \in Seq(S) /\ Len(s \o t) = Len(s) + Len(t)
      /\ \A i \in 1 .. Len(s) + Len(t) : (s \o t)[i] = IF i <= Len(s) THEN s[i] ELSE t[i - Len(s)]
  BY ConcatProperties
<1>3. DOMAIN (s \o t) = 1 .. Len(s) + Len(t)
  BY <1>2, LenProperties
<1> DEFINE c == s \o t
<1> HIDE DEF c
<1>4. ASSUME NEW x \in ToSet(c) PROVE x \in ToSet(s) \cup ToSet(t)
  <2>1. PICK i \in 1 .. Len(s) + Len(t) : x = c[i]
    BY <1>3 DEF ToSet, c
  <2>2. CASE i <= Len(s)
    BY <1>1, <1>2, <2>1, <2>2 DEF ToSet, c
  <2>3. CASE ~ (i <= Len(s))
    <3>1. i - Len(s) \in 1 .. Len(t) /\ x = t[i - Len(s)]
      BY <1>1, <1>2, <2>1, <2>3 DEF c
    <3> QED
      BY <1>1, <3>1 DEF ToSet
  <2> QED
    BY <2>2, <2>3
<1>5. ASSUME NEW i \in 1 .. Len(s) PROVE s[i] \in ToSet(c)
  <2>1. i \in 1 .. Len(s) + Len(t) /\ c[i] = s[i]
    BY <1>1, <1>2 DEF c
  <2> QED
    BY <1>3, <2>1 DEF ToSet, c
<1>6. ASSUME NEW i \in 1 .. Len(t) PROVE t[i] \in ToSet(c)
  <2>1. /\ Len(s) + i \in 1 .. Len(s) + Len(t) /\ ~ (Len(s) + i <= Len(s))
        /\ Len(s) + i - Len(s) = i
    BY <1>1
  <2>2. c[Len(s) + i] = t[i]
    BY <1>2, <2>1 DEF c
  <2> QED
    BY <1>3, <2>1, <2>2 DEF ToSet, c
<1>7. ToSet(s) \subseteq ToSet(c) /\ ToSet(t) \subseteq ToSet(c)
  BY <1>1, <1>5, <1>6 DEF ToSet
<1> QED
  BY <1>4, <1>7 DEF c

LEMMA ToSetOfTail ==
  ASSUME NEW S, NEW s \in Seq(S), s # <<>>
  PROVE  /\ Head(s) \in S /\ Tail(s) \in Seq(S)
         /\ ToSet(s) = {Head(s)} \cup ToSet(Tail(s))
<1>1. /\ Head(s) \in S /\ Tail(s) \in Seq(S) /\ Len(Tail(s)) = Len(s) - 1
      /\ \A i \in 1 .. Len(Tail(s)) : Tail(s)[i] = s[i + 1]
  BY HeadTailProperties
<1>2. Len(s) \in Nat \ {0} /\ DOMAIN s = 1 .. Len(s)
  BY EmptySeq, LenProperties
<1>3. DOMAIN Tail(s) = 1 .. Len(s) - 1
  BY <1>1, LenProperties
<1>4. Head(s) = s[1]
  OBVIOUS
<1> DEFINE r == Tail(s)
<1> HIDE DEF r
<1>5. ASSUME NEW i \in 1 .. Len(s) PROVE s[i] \in {Head(s)} \cup ToSet(r)
  <2>1. i = 1 \/ (i - 1 \in 1 .. Len(s) - 1 /\ (i - 1) + 1 = i)
    BY <1>2
  <2> QED
    BY <1>1, <1>3, <1>4, <2>1 DEF ToSet, r
<1>6. ASSUME NEW i \in 1 .. Len(s) - 1 PROVE r[i] \in ToSet(s)
  <2>1. i + 1 \in 1 .. Len(s)
    BY <1>2
  <2> QED
    BY <1>1, <1>2, <2>1 DEF ToSet, r
<1>7. Head(s) \in ToSet(s)
  BY <1>2, <1>4 DEF ToSet
<1>8. ToSet(s) \subseteq {Head(s)} \cup ToSet(r) /\ ToSet(r) \subseteq ToSet(s)
  BY <1>2, <1>3, <1>5, <1>6 DEF ToSet, r
<1> QED
  BY <1>1, <1>7, <1>8 DEF r

-----------------------------------------------------------------------------
(* Where the threads are.                                                  *)

ExcLabels == {"idle", "excRead", "excSwap"}
WatchLabels == {"idle", "count", "insert", "reload", "swap"}
Loading == {"load", "append"}
RuleLabels == {"open", "write", "unlink", "clear"} \cup Loading
Labels == RuleLabels \cup ExcLabels \cup WatchLabels

LEMMA GotoDoes ==
  ASSUME pc \in [Admins -> Labels], NEW a \in Admins, NEW label \in Labels, Goto(a, label)
  PROVE  /\ pc' \in [Admins -> Labels] /\ pc'[a] = label
         /\ \A b \in Admins \ {a} : pc'[b] = pc[b]
         /\ overlap' = overlap
BY DEF Goto

LEMMA ArriveDoes ==
  ASSUME pc \in [Admins -> Labels], NEW a \in Admins, NEW label \in Labels, Arrive(a, label)
  PROVE  /\ pc' \in [Admins -> Labels] /\ pc[a] = "idle" /\ pc'[a] = label
         /\ \A b \in Admins \ {a} : pc'[b] = pc[b]
         /\ (overlap \in BOOLEAN => overlap' \in BOOLEAN)
         /\ (~ overlap' => ~ overlap /\ Quiet)
BY DEF Arrive

(* Where a step of each kind of request takes its thread.                  *)
LEMMA RulesStepGoes ==
  ASSUME NEW a \in Admins, RulesStep(a)
  PROVE  \E label \in RuleLabels \cup {"idle"} : Arrive(a, label) \/ Goto(a, label)
<1> USE DEF RuleLabels, Loading
<1>1. CASE \/ \E n \in RuleNames, doc \in Documents : CreateRule(a, n, doc) \/ UpdateRule(a, n, doc)
           \/ \E n \in RuleNames : DeleteRule(a, n)
  BY <1>1 DEF CreateRule, UpdateRule, DeleteRule
<1>2. CASE OpenFile(a) \/ WriteFile(a) \/ WriteFails(a) \/ Unlink(a)
  BY <1>2 DEF OpenFile, WriteFile, WriteFails, Unlink
<1>3. CASE Clear(a) \/ ReadFile(a) \/ AppendRule(a) \/ GlobCustom(a) \/ Loaded(a)
  BY <1>3 DEF Clear, ReadFile, AppendRule, GlobCustom, Loaded
<1> QED
  BY <1>1, <1>2, <1>3 DEF RulesStep

LEMMA ExcStepGoes ==
  ASSUME NEW a \in Admins, ExcStep(a)
  PROVE  \E label \in ExcLabels : Arrive(a, label) \/ Goto(a, label)
BY DEF ExcStep, AddException, DeleteException, ReadRows, SwapExceptions, ExcLabels

LEMMA WatchStepGoes ==
  ASSUME NEW a \in Admins, WatchStep(a)
  PROVE  \E label \in WatchLabels : Arrive(a, label) \/ Goto(a, label)
BY DEF WatchStep, AddEntries, AfterItem, Count, Refuse, Insert, Toggle, Delete,
       ReadEntries, Swap, WatchLabels

LEMMA GoesDoes ==
  ASSUME pc \in [Admins -> Labels], NEW a \in Admins, NEW S, S \subseteq Labels,
         \E label \in S : Arrive(a, label) \/ Goto(a, label)
  PROVE  /\ pc' \in [Admins -> Labels] /\ pc'[a] \in S
         /\ \A b \in Admins \ {a} : pc'[b] = pc[b]
BY ArriveDoes, GotoDoes

-----------------------------------------------------------------------------
(* Exceptions.                                                             *)

ExcTypes ==
  /\ excRows \subseteq ExcRow /\ excGiven \in Nat
  /\ pc \in [Admins -> Labels]
  /\ excRead \in [Admins -> SUBSET RuleNames]
  /\ excSince \in [Admins -> SUBSET SUBSET RuleNames]

ExcInv ==
  /\ ExcTypes
  /\ \A a \in Admins : pc[a] = "excRead" => Grouped(excRows) \in excSince[a]
  /\ \A a \in Admins : pc[a] = "excSwap" => excRead[a] \in excSince[a]

LEMMA GroupedTyped ==
  ASSUME NEW rows, rows \subseteq ExcRow
  PROVE  Grouped(rows) \in SUBSET RuleNames
BY DEF ExcRow, Grouped

LEMMA ExcInitInv == RequestsInit /\ ExcInit => ExcInv
BY DEF RequestsInit, ExcInit, ExcInv, ExcTypes, ExcLabels, Labels

(* A change of the table by a, which has to read it next.                  *)
LEMMA ExcChangeKeeps ==
  ASSUME ExcInv, NEW a \in Admins, Arrive(a, "excRead"),
         excRows' \subseteq ExcRow, excGiven' \in Nat,
         ExcChanged(a, excRows'), UNCHANGED <<exceptions, excRead>>
  PROVE  ExcInv' /\ ExcCatalogue!Change(a)
<1> DEFINE t == Grouped(excRows')
<1>1. t \in SUBSET RuleNames
  BY GroupedTyped
<1>2. excSince' = [b \in Admins |-> IF b = a THEN {t} ELSE IF excSince[b] = {} THEN {}
                                    ELSE excSince[b] \cup {t}]
  BY DEF ExcChanged
<1>3. pc' \in [Admins -> Labels] /\ pc'[a] = "excRead" /\ \A b \in Admins \ {a} : pc'[b] = pc[b]
  BY DEF ExcInv, ExcTypes, ExcLabels, Labels, Arrive
<1> HIDE DEF t
<1>4. excSince' \in [Admins -> SUBSET SUBSET RuleNames]
  BY <1>1, <1>2 DEF ExcInv, ExcTypes
<1>5. \A b \in Admins : excSince[b] # {} => t \in excSince'[b] /\ (b = a \/ excSince[b] \subseteq excSince'[b])
  BY <1>2
<1>6. t \in excSince'[a]
  BY <1>2
<1>7. Grouped(excRows)' = t
  BY DEF t, Grouped
<1>8. ASSUME NEW b \in Admins, pc'[b] = "excRead" PROVE Grouped(excRows)' \in excSince'[b]
  BY <1>3, <1>5, <1>6, <1>7, <1>8 DEF ExcInv
<1>9. ASSUME NEW b \in Admins, pc'[b] = "excSwap" PROVE excRead'[b] \in excSince'[b]
  BY <1>3, <1>5, <1>9 DEF ExcInv
<1>10. ExcInv'
  BY <1>3, <1>4, <1>8, <1>9 DEF ExcInv, ExcTypes
<1>11. ExcCatalogue!Change(a)
  BY <1>1, <1>2, <1>7 DEF ExcCatalogue!Change
<1> QED
  BY <1>10, <1>11

(* Every step keeps the invariant and is one of Catalogue, or none that it *)
(* can tell.                                                               *)
LEMMA ExcStepKeeps ==
  ASSUME ExcInv, NEW c \in Admins, ExcStep(c)
  PROVE  ExcInv' /\ [ExcCatalogue!Next]_(ExcCatalogue!vars)
<1>1. ASSUME NEW a \in Admins, NEW name \in RuleNames, AddException(a, name)
      PROVE  ExcInv' /\ ExcCatalogue!Change(a)
  <2>1. excRows' \subseteq ExcRow /\ excGiven' \in Nat
    BY <1>1 DEF AddException, ExcInv, ExcTypes, ExcRow
  <2> QED
    BY <1>1, <2>1, ExcChangeKeeps DEF AddException
<1>2. ASSUME NEW a \in Admins, NEW row \in excRows, DeleteException(a, row)
      PROVE  ExcInv' /\ ExcCatalogue!Change(a)
  <2>1. excRows' \subseteq ExcRow /\ excGiven' \in Nat
    BY <1>2 DEF DeleteException, ExcInv, ExcTypes
  <2> QED
    BY <1>2, <2>1, ExcChangeKeeps DEF DeleteException
<1>3. ASSUME NEW a \in Admins, ReadRows(a)
      PROVE  ExcInv' /\ UNCHANGED ExcCatalogue!vars
  <2>1. Grouped(excRows) \in SUBSET RuleNames
    BY GroupedTyped DEF ExcInv, ExcTypes
  <2>2. /\ pc' \in [Admins -> Labels] /\ pc'[a] = "excSwap"
        /\ \A b \in Admins \ {a} : pc'[b] = pc[b]
        /\ excRead' \in [Admins -> SUBSET RuleNames] /\ excRead'[a] = Grouped(excRows)
        /\ \A b \in Admins \ {a} : excRead'[b] = excRead[b]
        /\ pc[a] = "excRead"
        /\ UNCHANGED <<excRows, excGiven, exceptions, excSince>>
    BY <1>3, <2>1 DEF ReadRows, At, Goto, ExcInv, ExcTypes, ExcLabels, Labels
  <2>3. Grouped(excRows)' = Grouped(excRows)
    BY <2>2 DEF Grouped
  <2>4. UNCHANGED ExcCatalogue!vars
    BY <2>2, <2>3 DEF ExcCatalogue!vars
  <2>5. ExcInv'
    BY <2>2, <2>3 DEF ExcInv, ExcTypes
  <2> QED
    BY <2>4, <2>5
<1>4. ASSUME NEW a \in Admins, SwapExceptions(a)
      PROVE  ExcInv' /\ ExcCatalogue!Refresh(a)
  <2>1. /\ pc' \in [Admins -> Labels] /\ pc'[a] = "idle"
        /\ \A b \in Admins \ {a} : pc'[b] = pc[b] /\ excRead'[b] = excRead[b]
                                   /\ excSince'[b] = excSince[b]
        /\ excRead' \in [Admins -> SUBSET RuleNames]
        /\ excSince' \in [Admins -> SUBSET SUBSET RuleNames]
        /\ pc[a] = "excSwap" /\ UNCHANGED <<excRows, excGiven>>
    BY <1>4 DEF SwapExceptions, At, Goto, ExcInv, ExcTypes, ExcLabels, Labels
  <2>2. Grouped(excRows)' = Grouped(excRows)
    BY <2>1 DEF Grouped
  <2>3. ExcInv'
    BY <2>1, <2>2 DEF ExcInv, ExcTypes
  <2>4. exceptions' \in excSince[a]
    BY <1>4, <2>1 DEF SwapExceptions, ExcInv
  <2>5. ExcCatalogue!Refresh(a)
    BY <1>4, <2>2, <2>4 DEF SwapExceptions, ExcCatalogue!Refresh
  <2> QED
    BY <2>3, <2>5
<1> QED
  BY <1>1, <1>2, <1>3, <1>4 DEF ExcStep, ExcCatalogue!Next

LEMMA ExcRestartKeeps ==
  ASSUME ExcInv, RequestsRestart, ExcRestart
  PROVE  ExcInv' /\ ExcCatalogue!Restart
<1>1. Grouped(excRows)' = Grouped(excRows)
  BY DEF ExcRestart, Grouped
<1>2. ExcInv'
  BY <1>1 DEF RequestsRestart, ExcRestart, ExcInv, ExcTypes, ExcLabels, Labels
<1>3. ExcCatalogue!Restart
  BY <1>1 DEF ExcRestart, ExcCatalogue!Restart
<1> QED
  BY <1>2, <1>3

LEMMA ExcNextKeeps ==
  ASSUME ExcInv, ExcNext
  PROVE  ExcInv' /\ [ExcCatalogue!Next]_(ExcCatalogue!vars)
BY ExcStepKeeps, ExcRestartKeeps DEF ExcNext, ExcCatalogue!Next

(* However requests overlap, every change of the exceptions is followed by *)
(* a refresh of the cache with the table as it was then or later.          *)
THEOREM ExceptionsImplementCatalogue == ExcSpec => ExceptionsFresh
<1>1. RequestsInit /\ ExcInit => ExcCatalogue!Init
  BY DEF RequestsInit, ExcInit, ExcCatalogue!Init, Grouped
<1>2. ExcInv /\ UNCHANGED <<requestVars, excVars>> => ExcInv' /\ UNCHANGED ExcCatalogue!vars
  BY DEF requestVars, excVars, ExcInv, ExcTypes, ExcCatalogue!vars, Grouped
<1>3. ExcInv /\ [ExcNext]_<<requestVars, excVars>> => ExcInv' /\ [ExcCatalogue!Next]_(ExcCatalogue!vars)
  BY <1>2, ExcNextKeeps
<1> QED
  BY <1>1, <1>3, ExcInitInv, PTL DEF ExcSpec, ExceptionsFresh, ExcCatalogue!Spec

-----------------------------------------------------------------------------
(* Watchlists.                                                             *)

Tasks == [items : Seq(Indicators), bulk : BOOLEAN, read : SUBSET Entry]

WatchTypes ==
  /\ entries \subseteq Entry /\ entriesGiven \in Nat
  /\ pc \in [Admins -> Labels]
  /\ task \in [Admins -> Tasks]
  /\ watchSince \in [Admins -> SUBSET SUBSET Entry]

WatchInv ==
  /\ WatchTypes
  /\ \A a \in Admins : pc[a] \in {"count", "insert"} => task[a].items # <<>>
  /\ \A a \in Admins : watchSince[a] = {} \/ Active(entries) \in watchSince[a]
  /\ \A a \in Admins : pc[a] = "swap" => task[a].read \in watchSince[a]

LEMMA ActiveTyped ==
  ASSUME NEW rows, rows \subseteq Entry
  PROVE  Active(rows) \in SUBSET Entry
BY DEF Active

LEMMA TaskTyped ==
  ASSUME NEW items \in Seq(Indicators), NEW bulk \in BOOLEAN, NEW read \in SUBSET Entry
  PROVE  /\ Task(items, bulk, read) \in Tasks
         /\ Task(items, bulk, read).items = items /\ Task(items, bulk, read).read = read
BY DEF Task, Tasks

LEMMA NoTaskTyped == NoTask \in Tasks
<1>1. <<>> \in Seq(Indicators) /\ FALSE \in BOOLEAN /\ {} \in SUBSET Entry
  OBVIOUS
<1> QED
  BY <1>1, TaskTyped DEF NoTask

LEMMA WatchInitInv == RequestsInit /\ WatchInit => WatchInv
BY NoTaskTyped DEF RequestsInit, WatchInit, WatchInv, WatchTypes, WatchLabels, Labels

(* A change of the table by a (or none, before its first read), which has  *)
(* to read it, or did.                                                     *)
LEMMA WatchChangeKeeps ==
  ASSUME WatchInv, NEW a \in Admins,
         pc' \in [Admins -> Labels], \A b \in Admins \ {a} : pc'[b] = pc[b],
         task' \in [Admins -> Tasks], \A b \in Admins \ {a} : task'[b] = task[b],
         pc'[a] \in {"count", "insert"} => task'[a].items # <<>>,
         pc'[a] = "swap" => task'[a].read = Active(entries'),
         entries' \subseteq Entry, entriesGiven' \in Nat,
         WatchChanged(a, entries'), UNCHANGED matcher
  PROVE  WatchInv' /\ WatchCatalogue!Change(a)
<1> DEFINE t == Active(entries')
<1>1. t \in SUBSET Entry
  BY ActiveTyped
<1>2. watchSince' = [b \in Admins |-> IF b = a THEN {t} ELSE IF watchSince[b] = {} THEN {}
                                      ELSE watchSince[b] \cup {t}]
  BY DEF WatchChanged
<1>3. Active(entries)' = t /\ (pc'[a] = "swap" => task'[a].read = t)
  BY DEF t, Active
<1> HIDE DEF t
<1>4. watchSince' \in [Admins -> SUBSET SUBSET Entry]
  BY <1>1, <1>2 DEF WatchInv, WatchTypes
<1>5. /\ watchSince'[a] = {t}
      /\ \A b \in Admins \ {a} : \/ watchSince[b] = {} /\ watchSince'[b] = {}
                                 \/ watchSince'[b] = watchSince[b] \cup {t}
  BY <1>2
<1>6. \A b \in Admins : watchSince'[b] = {} \/ Active(entries)' \in watchSince'[b]
  BY <1>3, <1>5
<1>7. ASSUME NEW b \in Admins, pc'[b] = "swap" PROVE task'[b].read \in watchSince'[b]
  <2>1. CASE b = a
    BY <1>3, <1>5, <1>7, <2>1
  <2>2. CASE b # a
    BY <1>5, <1>7, <2>2 DEF WatchInv
  <2> QED
    BY <2>1, <2>2
<1>8. ASSUME NEW b \in Admins, pc'[b] \in {"count", "insert"} PROVE task'[b].items # <<>>
  BY <1>8 DEF WatchInv
<1>9. WatchInv'
  BY <1>4, <1>6, <1>7, <1>8 DEF WatchInv, WatchTypes
<1>10. WatchCatalogue!Change(a)
  BY <1>1, <1>2, <1>3 DEF WatchCatalogue!Change
<1> QED
  BY <1>9, <1>10

(* A step of a that leaves the table, the cache and the history as they    *)
(* are.                                                                    *)
LEMMA WatchStutterKeeps ==
  ASSUME WatchInv, NEW a \in Admins,
         pc' \in [Admins -> Labels], \A b \in Admins \ {a} : pc'[b] = pc[b],
         task' \in [Admins -> Tasks], \A b \in Admins \ {a} : task'[b] = task[b],
         pc'[a] \in {"count", "insert"} => task'[a].items # <<>>,
         pc'[a] = "swap" => task'[a].read \in watchSince[a],
         UNCHANGED <<entries, entriesGiven, matcher, watchSince>>
  PROVE  WatchInv' /\ UNCHANGED WatchCatalogue!vars
<1>1. Active(entries)' = Active(entries)
  BY DEF Active
<1>2. UNCHANGED WatchCatalogue!vars
  BY <1>1 DEF WatchCatalogue!vars
<1>3. WatchInv'
  BY <1>1 DEF WatchInv, WatchTypes
<1> QED
  BY <1>2, <1>3

LEMMA TailTyped ==
  ASSUME NEW items \in Seq(Indicators), items # <<>>
  PROVE  Tail(items) \in Seq(Indicators) /\ (Len(items) > 1 => Tail(items) # <<>>)
<1>1. Tail(items) \in Seq(Indicators) /\ Len(Tail(items)) = Len(items) - 1
  OBVIOUS
<1>2. ASSUME Len(items) > 1 PROVE Tail(items) # <<>>
  <2>1. Len(<<>>) = 0
    OBVIOUS
  <2>2. Len(Tail(items)) # 0
    BY <1>1, <1>2
  <2> QED
    BY <2>1, <2>2, Zenon
<1> QED
  BY <1>1, <1>2, Zenon

LEMMA ItemsReplaced ==
  ASSUME NEW tk \in Tasks, NEW items
  PROVE  [tk EXCEPT !.items = items] = [items |-> items, bulk |-> tk.bulk, read |-> tk.read]
BY DEF Tasks

(* What is left to add after an item.                                      *)
LEMMA AfterItemTyped ==
  ASSUME WatchInv, NEW a \in Admins, pc[a] \in {"count", "insert"}, AfterItem(a)
  PROVE  /\ pc' \in [Admins -> Labels] /\ \A b \in Admins \ {a} : pc'[b] = pc[b]
         /\ task' \in [Admins -> Tasks] /\ \A b \in Admins \ {a} : task'[b] = task[b]
         /\ pc'[a] \in {"count", "reload"}
         /\ pc'[a] = "count" => task'[a].items # <<>>
<1> DEFINE rest == Tail(task[a].items)
<1>1. task[a] \in Tasks /\ task[a].items \in Seq(Indicators) /\ task[a].items # <<>>
  BY DEF WatchInv, WatchTypes, Tasks
<1>2. rest \in Seq(Indicators) /\ (Len(task[a].items) > 1 => rest # <<>>)
  BY <1>1, TailTyped
<1>3. task' = [task EXCEPT ![a] = [items |-> rest, bulk |-> task[a].bulk, read |-> task[a].read]]
  <2>1. [task[a] EXCEPT !.items = rest]
          = [items |-> rest, bulk |-> task[a].bulk, read |-> task[a].read]
    BY <1>1, ItemsReplaced
  <2>2. task' = [task EXCEPT ![a] = [task[a] EXCEPT !.items = rest]]
    BY DEF AfterItem
  <2> QED
    BY <2>1, <2>2
<1> HIDE DEF rest
<1>4. [items |-> rest, bulk |-> task[a].bulk, read |-> task[a].read] \in Tasks
  BY <1>1, <1>2 DEF Tasks
<1>5. /\ task' \in [Admins -> Tasks] /\ \A b \in Admins \ {a} : task'[b] = task[b]
      /\ task'[a].items = rest
  BY <1>3, <1>4 DEF WatchInv, WatchTypes
<1>6. pc' = [pc EXCEPT ![a] = IF Len(task[a].items) > 1 THEN "count" ELSE "reload"]
  BY DEF AfterItem, Goto
<1>7. /\ pc' \in [Admins -> Labels] /\ \A b \in Admins \ {a} : pc'[b] = pc[b]
      /\ pc'[a] = IF Len(task[a].items) > 1 THEN "count" ELSE "reload"
  BY <1>6 DEF WatchInv, WatchTypes, WatchLabels, Labels
<1> QED
  BY <1>2, <1>5, <1>7

(* Every step keeps the invariant and is one of Catalogue, or none that it *)
(* can tell.                                                               *)
LEMMA WatchStepKeeps ==
  ASSUME WatchInv, NEW c \in Admins, WatchStep(c)
  PROVE  WatchInv' /\ [WatchCatalogue!Next]_(WatchCatalogue!vars)
<1> USE DEF WatchInv, WatchTypes, WatchLabels, Labels
<1>1. ASSUME NEW a \in Admins, NEW items \in Batches, NEW bulk \in BOOLEAN,
             AddEntries(a, items, bulk)
      PROVE  WatchInv' /\ UNCHANGED WatchCatalogue!vars
  <2>1. items \in Seq(Indicators) /\ {} \in SUBSET Entry
    BY WatchlistAssumption
  <2>2. Task(items, bulk, {}) \in Tasks /\ Task(items, bulk, {}).items = items
    BY <2>1, TaskTyped
  <2>3. pc' = [pc EXCEPT ![a] = IF items = <<>> THEN "reload" ELSE "count"]
    BY <1>1 DEF AddEntries, Arrive
  <2>4. task' = [task EXCEPT ![a] = Task(items, bulk, {})]
    BY <1>1 DEF AddEntries
  <2>5. UNCHANGED <<entries, entriesGiven, matcher, watchSince>>
    BY <1>1 DEF AddEntries
  <2>6. /\ task' \in [Admins -> Tasks] /\ \A b \in Admins \ {a} : task'[b] = task[b]
        /\ task'[a].items = items
    BY <2>2, <2>4
  <2> QED
    BY <2>3, <2>5, <2>6, WatchStutterKeeps
<1>2. ASSUME NEW a \in Admins, Count(a)
      PROVE  WatchInv' /\ UNCHANGED WatchCatalogue!vars
  BY <1>2, WatchStutterKeeps DEF Count, At, Goto, watchVars
<1>3. ASSUME NEW a \in Admins, Refuse(a)
      PROVE  WatchInv' /\ UNCHANGED WatchCatalogue!vars
  <2>1. pc[a] = "count" /\ UNCHANGED <<entries, entriesGiven, matcher, watchSince>>
    BY <1>3 DEF Refuse, At
  <2>2. CASE AfterItem(a)
    BY <2>1, <2>2, AfterItemTyped, WatchStutterKeeps
  <2>3. CASE Goto(a, "idle") /\ task' = [task EXCEPT ![a] = NoTask]
    <3>1. NoTask \in Tasks
      BY NoTaskTyped
    <3> QED
      BY <2>1, <2>3, <3>1, WatchStutterKeeps DEF Goto
  <2> QED
    BY <1>3, <2>2, <2>3 DEF Refuse
<1>4. ASSUME NEW a \in Admins, Insert(a)
      PROVE  WatchInv' /\ WatchCatalogue!Change(a)
  <2>1. pc[a] = "insert" /\ AfterItem(a) /\ UNCHANGED matcher /\ WatchChanged(a, entries')
    BY <1>4 DEF Insert, At
  <2>2. Head(task[a].items) \in Indicators
    BY <2>1 DEF Tasks
  <2>3. entriesGiven' \in Nat
    BY <1>4 DEF Insert
  <2>4. [id |-> entriesGiven', value |-> Head(task[a].items), active |-> TRUE] \in Entry
    BY <2>2, <2>3 DEF Entry
  <2>5. entries' \subseteq Entry
    BY <1>4, <2>4 DEF Insert
  <2> QED
    BY <2>1, <2>3, <2>5, AfterItemTyped, WatchChangeKeeps
<1>5. ASSUME NEW a \in Admins, NEW e \in entries, NEW active \in BOOLEAN, Toggle(a, e, active)
      PROVE  WatchInv' /\ WatchCatalogue!Change(a)
  <2>1. [e EXCEPT !.active = active] \in Entry
    BY DEF Entry
  <2>2. entries' \subseteq Entry
    BY <1>5, <2>1 DEF Toggle
  <2> QED
    BY <1>5, <2>2, WatchChangeKeeps DEF Toggle, Arrive
<1>6. ASSUME NEW a \in Admins, NEW e \in entries, Delete(a, e)
      PROVE  WatchInv' /\ WatchCatalogue!Change(a)
  <2>1. entries' \subseteq Entry
    BY <1>6 DEF Delete
  <2> QED
    BY <1>6, <2>1, WatchChangeKeeps DEF Delete, Arrive
<1>7. ASSUME NEW a \in Admins, ReadEntries(a)
      PROVE  WatchInv' /\ [WatchCatalogue!Next]_(WatchCatalogue!vars)
  <2>1. Task(<<>>, FALSE, Active(entries)) \in Tasks
        /\ Task(<<>>, FALSE, Active(entries)).read = Active(entries)
    <3>1. <<>> \in Seq(Indicators) /\ FALSE \in BOOLEAN
      OBVIOUS
    <3> QED
      BY <3>1, ActiveTyped, TaskTyped
  <2>2. /\ pc' \in [Admins -> Labels] /\ \A b \in Admins \ {a} : pc'[b] = pc[b]
        /\ pc'[a] = "swap"
        /\ task' \in [Admins -> Tasks] /\ \A b \in Admins \ {a} : task'[b] = task[b]
        /\ task'[a].read = Active(entries)
        /\ UNCHANGED <<entries, entriesGiven, matcher>>
    BY <1>7, <2>1 DEF ReadEntries, Goto
  <2>3. CASE watchSince[a] = {}
    <3>1. WatchChanged(a, entries) /\ entries' = entries
      BY <1>7, <2>2, <2>3 DEF ReadEntries
    <3> QED
      BY <2>2, <3>1, WatchChangeKeeps DEF WatchCatalogue!Next
  <2>4. CASE watchSince[a] # {}
    <3>1. UNCHANGED watchSince /\ Active(entries) \in watchSince[a]
      BY <1>7, <2>4 DEF ReadEntries
    <3> QED
      BY <2>2, <3>1, WatchStutterKeeps
  <2> QED
    BY <2>3, <2>4
<1>8. ASSUME NEW a \in Admins, Swap(a)
      PROVE  WatchInv' /\ WatchCatalogue!Refresh(a)
  <2>1. NoTask \in Tasks
    BY NoTaskTyped
  <2>2. /\ pc' \in [Admins -> Labels] /\ pc'[a] = "idle" /\ pc[a] = "swap"
        /\ \A b \in Admins \ {a} : pc'[b] = pc[b] /\ task'[b] = task[b]
                                   /\ watchSince'[b] = watchSince[b]
        /\ task' \in [Admins -> Tasks]
        /\ watchSince' \in [Admins -> SUBSET SUBSET Entry] /\ watchSince'[a] = {}
        /\ UNCHANGED <<entries, entriesGiven>>
    BY <1>8, <2>1 DEF Swap, At, Goto
  <2>3. Active(entries)' = Active(entries)
    BY <2>2 DEF Active
  <2>4. WatchInv'
    BY <2>2, <2>3
  <2>5. matcher' \in watchSince[a]
    BY <1>8, <2>2 DEF Swap
  <2>6. WatchCatalogue!Refresh(a)
    BY <1>8, <2>3, <2>5 DEF Swap, WatchCatalogue!Refresh
  <2> QED
    BY <2>4, <2>6
<1>9. CASE \E e \in entries : Delete(c, e) \/ \E active \in BOOLEAN : Toggle(c, e, active)
  BY <1>5, <1>6, <1>9 DEF WatchCatalogue!Next
<1>10. CASE \E items \in Batches, bulk \in BOOLEAN : AddEntries(c, items, bulk)
  BY <1>1, <1>10
<1>11. CASE Count(c) \/ Refuse(c)
  BY <1>2, <1>3, <1>11
<1>12. CASE Insert(c) \/ Swap(c)
  BY <1>4, <1>8, <1>12 DEF WatchCatalogue!Next
<1>13. CASE ReadEntries(c)
  BY <1>7, <1>13
<1> QED
  BY <1>9, <1>10, <1>11, <1>12, <1>13 DEF WatchStep

LEMMA WatchRestartKeeps ==
  ASSUME WatchInv, RequestsRestart, WatchRestart
  PROVE  WatchInv' /\ WatchCatalogue!Restart
<1>1. Active(entries)' = Active(entries)
  BY DEF WatchRestart, Active
<1>2. WatchInv'
  BY <1>1, NoTaskTyped
     DEF RequestsRestart, WatchRestart, WatchInv, WatchTypes, WatchLabels, Labels
<1>3. WatchCatalogue!Restart
  BY <1>1 DEF WatchRestart, WatchCatalogue!Restart
<1> QED
  BY <1>2, <1>3

LEMMA WatchNextKeeps ==
  ASSUME WatchInv, WatchNext
  PROVE  WatchInv' /\ [WatchCatalogue!Next]_(WatchCatalogue!vars)
BY WatchStepKeeps, WatchRestartKeeps DEF WatchNext, WatchCatalogue!Next

(* However requests overlap, and however many entries each of them adds,   *)
(* every change of the watchlist is followed by a refresh of the matcher   *)
(* with the active entries as they were then or later.                     *)
THEOREM WatchlistImplementsCatalogue == WatchSpec => WatchlistFresh
<1>1. RequestsInit /\ WatchInit => WatchCatalogue!Init
  BY DEF RequestsInit, WatchInit, WatchCatalogue!Init, Active
<1>2. WatchInv /\ UNCHANGED <<requestVars, watchVars>> => WatchInv' /\ UNCHANGED WatchCatalogue!vars
  BY DEF requestVars, watchVars, WatchInv, WatchTypes, WatchCatalogue!vars, Active
<1>3. WatchInv /\ [WatchNext]_<<requestVars, watchVars>>
        => WatchInv' /\ [WatchCatalogue!Next]_(WatchCatalogue!vars)
  BY <1>2, WatchNextKeeps
<1> QED
  BY <1>1, <1>3, WatchInitInv, PTL DEF WatchSpec, WatchlistFresh, WatchCatalogue!Spec

-----------------------------------------------------------------------------
(* What a load finds.                                                      *)

Texts == Documents \cup {NoFile, Blank}
Listed == [name : RuleNames, custom : BOOLEAN, doc : Documents \cup {Blank, BuiltinDoc}]

(* What a load makes of a file, and of a sequence of files.                *)
Says(n, custom, fs) == Rule(n, custom, IF custom THEN fs[n] ELSE BuiltinDoc)
Named(s, custom, fs) == [i \in DOMAIN s |-> Says(s[i], custom, fs)]
There(s, custom, fs) == custom => \A n \in ToSet(s) : fs[n] # NoFile

LEMMA NamedTyped ==
  ASSUME NEW s \in Seq(RuleNames), NEW custom \in BOOLEAN, NEW fs \in [RuleNames -> Texts],
         There(s, custom, fs)
  PROVE  /\ Named(s, custom, fs) \in Seq(Listed) /\ Len(Named(s, custom, fs)) = Len(s)
         /\ DOMAIN Named(s, custom, fs) = 1 .. Len(s)
         /\ ToSet(Named(s, custom, fs)) = {Says(n, custom, fs) : n \in ToSet(s)}
<1>1. Len(s) \in Nat /\ DOMAIN s = 1 .. Len(s) /\ \A i \in 1 .. Len(s) : s[i] \in RuleNames /\ s[i] \in ToSet(s)
  BY LenProperties DEF ToSet
<1>2. ASSUME NEW i \in 1 .. Len(s) PROVE Says(s[i], custom, fs) \in Listed
  BY <1>1 DEF There, Says, Rule, Listed, Texts
<1>3. Named(s, custom, fs) = [i \in 1 .. Len(s) |-> Says(s[i], custom, fs)]
  BY <1>1 DEF Named
<1> DEFINE r == Named(s, custom, fs)
<1>4. r \in [1 .. Len(s) -> Listed]
  BY <1>2, <1>3
<1> HIDE DEF r
<1>5. r \in Seq(Listed) /\ Len(r) = Len(s) /\ DOMAIN r = 1 .. Len(s)
  BY <1>1, <1>4
<1>6. ToSet(r) = {Says(n, custom, fs) : n \in ToSet(s)}
  BY <1>1, <1>3, <1>5 DEF ToSet, r
<1> QED
  BY <1>5, <1>6 DEF r

LEMMA NamedOfNone ==
  ASSUME NEW custom, NEW fs
  PROVE  Named(<<>>, custom, fs) = <<>>
BY DEF Named

LEMMA NamedOfTail ==
  ASSUME NEW s \in Seq(RuleNames), s # <<>>, NEW custom \in BOOLEAN,
         NEW fs \in [RuleNames -> Texts], There(s, custom, fs)
  PROVE  /\ There(Tail(s), custom, fs)
         /\ Named(s, custom, fs) = <<Says(Head(s), custom, fs)>> \o Named(Tail(s), custom, fs)
<1> DEFINE r == Tail(s)  x == Says(Head(s), custom, fs)
           v == Named(s, custom, fs)  u == Named(r, custom, fs)
<1>1. /\ Head(s) \in RuleNames /\ r \in Seq(RuleNames) /\ Len(r) = Len(s) - 1
      /\ \A i \in 1 .. Len(r) : r[i] = s[i + 1]
  BY HeadTailProperties
<1>2. Len(s) \in Nat \ {0} /\ DOMAIN s = 1 .. Len(s) /\ DOMAIN r = 1 .. Len(s) - 1
  BY <1>1, EmptySeq, LenProperties
<1>3. Head(s) = s[1]
  OBVIOUS
<1>4. ToSet(s) = {Head(s)} \cup ToSet(r)
  BY ToSetOfTail
<1>5. There(r, custom, fs)
  BY <1>4 DEF There
<1>6. v \in Seq(Listed) /\ Len(v) = Len(s) /\ u \in Seq(Listed) /\ Len(u) = Len(s) - 1
  BY <1>1, <1>5, NamedTyped
<1>7. \A i \in 1 .. Len(s) : v[i] = Says(s[i], custom, fs)
  BY <1>2 DEF Named
<1>8. \A i \in 1 .. Len(s) - 1 : u[i] = Says(s[i + 1], custom, fs)
  BY <1>1, <1>2 DEF Named
<1>9. x = v[1] /\ x \in Listed
  BY <1>2, <1>3, <1>6, <1>7
<1> HIDE DEF r, x, v, u
<1>10. <<x>> \in Seq(Listed) /\ Len(<<x>>) = 1 /\ <<x>>[1] = x
  BY <1>9
<1> DEFINE h == <<x>>
<1> HIDE DEF h
<1>11. /\ h \o u \in Seq(Listed) /\ Len(h \o u) = Len(s)
       /\ \A i \in 1 .. Len(s) : (h \o u)[i] = IF i <= 1 THEN h[i] ELSE u[i - 1]
  <2>1. /\ h \o u \in Seq(Listed) /\ Len(h \o u) = Len(h) + Len(u)
        /\ \A i \in 1 .. Len(h) + Len(u) : (h \o u)[i] = IF i <= Len(h) THEN h[i] ELSE u[i - Len(h)]
    BY <1>6, <1>10, ConcatProperties DEF h
  <2>2. Len(h) = 1 /\ Len(h) + Len(u) = Len(s)
    BY <1>2, <1>6, <1>10 DEF h
  <2> QED
    BY <2>1, <2>2
<1>12. ASSUME NEW i \in 1 .. Len(s) PROVE v[i] = (h \o u)[i]
  <2>1. CASE i = 1
    BY <1>2, <1>9, <1>10, <1>11, <2>1 DEF h
  <2>2. CASE i # 1
    <3>1. i - 1 \in 1 .. Len(s) - 1 /\ (i - 1) + 1 = i /\ ~ (i <= 1)
      BY <1>2, <2>2
    <3>2. u[i - 1] = Says(s[i], custom, fs)
      BY <1>8, <3>1
    <3> QED
      BY <1>7, <1>11, <3>1, <3>2
  <2> QED
    BY <2>1, <2>2
<1>13. v = h \o u
  BY <1>6, <1>11, <1>12, SeqEqual
<1> QED
  BY <1>5, <1>13 DEF r, x, v, u, h

LEMMA FilesAre ==
  ASSUME files \in [RuleNames -> Texts], IsFiniteSet(CustomNames)
  PROVE  /\ InOrder(Builtin) \in Seq(RuleNames) /\ ToSet(InOrder(Builtin)) = Builtin
         /\ InOrder(CustomNames) \in Seq(RuleNames) /\ ToSet(InOrder(CustomNames)) = CustomNames
         /\ There(InOrder(Builtin), FALSE, files) /\ There(InOrder(CustomNames), TRUE, files)
         /\ Files = Named(InOrder(Builtin), FALSE, files) \o Named(InOrder(CustomNames), TRUE, files)
         /\ Files \in Seq(Listed)
         /\ \A n \in Builtin : Rule(n, FALSE, BuiltinDoc) \in ToSet(Files)
         /\ \A n \in RuleNames : files[n] = NoFile \/ Rule(n, TRUE, files[n]) \in ToSet(Files)
<1> DEFINE b == InOrder(Builtin)  c == InOrder(CustomNames)
<1>1. Builtin \in SUBSET Nat /\ IsFiniteSet(Builtin) /\ Builtin \subseteq RuleNames
  BY RulesAssumption
<1>2. CustomNames \in SUBSET Nat /\ CustomNames \subseteq RuleNames
  BY RulesAssumption DEF CustomNames
<1>3. b \in Seq(RuleNames) /\ ToSet(b) = Builtin
  BY <1>1, InOrderCovers, SeqMonotonic
<1>4. c \in Seq(RuleNames) /\ ToSet(c) = CustomNames
  BY <1>2, InOrderCovers, SeqMonotonic
<1> HIDE DEF b, c
<1>5. There(b, FALSE, files) /\ There(c, TRUE, files)
  BY <1>4 DEF There, CustomNames
<1>6. /\ Named(b, FALSE, files) = [i \in DOMAIN b |-> Rule(b[i], FALSE, BuiltinDoc)]
      /\ Named(c, TRUE, files) = [i \in DOMAIN c |-> Rule(c[i], TRUE, files[c[i]])]
  BY DEF Named, Says
<1>7. Files = Named(b, FALSE, files) \o Named(c, TRUE, files)
  BY <1>6 DEF Files, b, c
<1> DEFINE v == Named(b, FALSE, files)  u == Named(c, TRUE, files)
<1>8. /\ v \in Seq(Listed) /\ ToSet(v) = {Says(n, FALSE, files) : n \in Builtin}
      /\ u \in Seq(Listed) /\ ToSet(u) = {Says(n, TRUE, files) : n \in CustomNames}
  BY <1>3, <1>4, <1>5, NamedTyped
<1> HIDE DEF v, u
<1>9. v \o u \in Seq(Listed) /\ ToSet(v \o u) = ToSet(v) \cup ToSet(u)
  BY <1>8, ConcatProperties, ToSetOfConcat, ZenonT(30)
<1>10. \A n \in Builtin : Rule(n, FALSE, BuiltinDoc) \in ToSet(v \o u)
  BY <1>8, <1>9 DEF Says
<1>11. \A n \in RuleNames : files[n] = NoFile \/ Rule(n, TRUE, files[n]) \in ToSet(v \o u)
  BY <1>8, <1>9 DEF Says, CustomNames
<1> QED
  BY <1>3, <1>4, <1>5, <1>7, <1>9, <1>10, <1>11 DEF b, c, v, u

-----------------------------------------------------------------------------
(* The rule files and the list that is loaded of them.                     *)

Jobs == [name : Nat, doc : Documents \cup {NoFile}, todo : Seq(RuleNames), custom : BOOLEAN,
         read : Seq(Listed)]

(* What a handler works on fits where it is.                               *)
Fits(label, j) ==
  /\ label \in {"open", "write", "unlink"}
       => \E n \in RuleNames, doc \in Documents \cup {NoFile} : j = Job(n, doc)
  /\ label = "open" => j.doc # NoFile
  /\ label \notin RuleLabels \/ label = "clear" => j = NoJob
  /\ label = "load" => j.read = <<>>

RulesTypes ==
  /\ pc \in [Admins -> Labels] /\ overlap \in BOOLEAN
  /\ files \in [RuleNames -> Texts] /\ IsFiniteSet(CustomNames)
  /\ rules \in Seq(Listed) /\ torn \subseteq RuleNames
  /\ job \in [Admins -> Jobs]
  /\ \A a \in Admins : Fits(pc[a], job[a])

(* A load under way will come to the file; it has read the rule and will   *)
(* append it; a write under way will be followed by a load.                *)
Coming(a, n, custom) ==
  \/ At(a, "clear")
  \/ /\ pc[a] \in Loading
     /\ (custom /\ ~job[a].custom) \/ (custom = job[a].custom /\ n \in ToSet(job[a].todo))
Held(a, rule) == At(a, "append") /\ rule \in ToSet(job[a].read)
Writing(a, n) == At(a, "write") /\ job[a].name = n /\ ~Lost(a)

(* Every rule file is in the list, or will be when all are done.           *)
BuiltinDue(n) ==
  \/ Rule(n, FALSE, BuiltinDoc) \in ToSet(rules)
  \/ \E a \in Admins : Coming(a, n, FALSE) \/ Held(a, Rule(n, FALSE, BuiltinDoc))
CustomDue(n) ==
  \/ files[n] = NoFile \/ n \in torn \/ Rule(n, TRUE, files[n]) \in ToSet(rules)
  \/ \E a \in Admins : Coming(a, n, TRUE) \/ Held(a, Rule(n, TRUE, files[n])) \/ Writing(a, n)

(* While no two requests overlap: what the one load has appended, what it  *)
(* holds and what it has yet to read are the files.                        *)
Busy == {"write", "clear"} \cup Loading
Rest(j, fs, names) ==
  Named(j.todo, j.custom, fs) \o (IF j.custom THEN <<>> ELSE Named(InOrder(names), TRUE, fs))
AloneAt(a) ==
  /\ pc[a] = "unlink" => files[job[a].name] # NoFile
  /\ pc[a] = "write" => ~Lost(a)
  /\ pc[a] \in Loading =>
       /\ rules \o (job[a].read \o Rest(job[a], files, CustomNames)) = Files
       /\ There(job[a].todo, job[a].custom, files)
Alone ==
  /\ \A a, b \in Admins : pc[a] # "idle" /\ pc[b] # "idle" => a = b
  /\ (\A a \in Admins : pc[a] \notin Busy) /\ torn = {} => rules = Files
  /\ \A a \in Admins : AloneAt(a)

RulesInv ==
  /\ RulesTypes
  /\ \A n \in Builtin : BuiltinDue(n)
  /\ \A n \in RuleNames : CustomDue(n)
  /\ ~overlap => Alone

LEMMA JobTyped ==
  ASSUME NEW name \in Nat, NEW doc \in Documents \cup {NoFile}
  PROVE  /\ Job(name, doc) \in Jobs
         /\ Job(name, doc).name = name /\ Job(name, doc).doc = doc
         /\ Job(name, doc).todo = <<>> /\ Job(name, doc).custom = FALSE
         /\ Job(name, doc).read = <<>>
BY EmptySeq DEF Job, Jobs

LEMMA NoJobTyped == NoJob \in Jobs /\ NoJob.doc = NoFile
BY JobTyped, ZenonT(30) DEF NoJob

LEMMA FilesSame ==
  ASSUME UNCHANGED files
  PROVE  CustomNames' = CustomNames /\ Files' = Files
<1>1. CustomNames' = CustomNames
  BY DEF CustomNames
<1> QED
  BY <1>1 DEF Files

LEMMA TypesKept ==
  ASSUME RulesTypes, NEW a \in Admins,
         pc' \in [Admins -> Labels], overlap' \in BOOLEAN,
         \A b \in Admins \ {a} : pc'[b] = pc[b] /\ job'[b] = job[b],
         files' \in [RuleNames -> Texts], IsFiniteSet(CustomNames'),
         rules' \in Seq(Listed), torn' \subseteq RuleNames,
         job' \in [Admins -> Jobs], Fits(pc'[a], job'[a])
  PROVE  RulesTypes'
<1>1. \A b \in Admins : Fits(pc'[b], job'[b])
  BY DEF RulesTypes
<1> QED
  BY <1>1 DEF RulesTypes, Fits

LEMMA CustomNamesFinite ==
  ASSUME IsFiniteSet(CustomNames), NEW n, \A m \in RuleNames \ {n} : files'[m] = files[m]
  PROVE  IsFiniteSet(CustomNames')
<1>1. CustomNames' \subseteq CustomNames \cup {n}
  BY DEF CustomNames
<1>2. IsFiniteSet(CustomNames \cup {n})
  BY FS_AddElement
<1> QED
  BY <1>1, <1>2, FS_Subset

(* A step of a thread that leaves some files: what was due through it is   *)
(* still due, or in the list.                                              *)
LEMMA DueKept ==
  ASSUME RulesInv, NEW a \in Admins, NEW names \in SUBSET RuleNames,
         \A b \in Admins \ {a} :
           pc'[b] = pc[b] /\ (job'[b] = job[b] \/ (At(b, "write") /\ job[b].name \notin names)),
         \A n \in names : files'[n] = files[n] /\ (n \in torn => n \in torn'),
         \A rule \in ToSet(rules) : rule \in ToSet(rules'),
         \A n \in RuleNames, custom \in BOOLEAN : Coming(a, n, custom) =>
           \/ Coming(a, n, custom)' \/ (custom /\ files[n] = NoFile)
           \/ pc'[a] = "append" /\ Says(n, custom, files) \in ToSet(job'[a].read),
         \A rule : Held(a, rule) =>
           rule \in ToSet(rules') \/ (pc'[a] = "append" /\ rule \in ToSet(job'[a].read)),
         \A n \in names : ~ Writing(a, n)
  PROVE  /\ \A n \in Builtin : BuiltinDue(n)'
         /\ \A n \in names : CustomDue(n)'
<1>1. ASSUME NEW b \in Admins \ {a}, NEW n, NEW custom, NEW rule
      PROVE  /\ Coming(b, n, custom) => Coming(b, n, custom)'
             /\ Held(b, rule) => Held(b, rule)'
             /\ n \in names /\ Writing(b, n) => Writing(b, n)'
  <2>1. CASE job'[b] = job[b]
    BY <2>1 DEF Coming, Held, Writing, At, Lost
  <2>2. CASE At(b, "write") /\ job[b].name \notin names
    BY <2>2 DEF Coming, Held, Writing, At, Loading
  <2> QED
    BY <2>1, <2>2
<1>2. ASSUME NEW n \in Builtin PROVE BuiltinDue(n)'
  <2>1. n \in RuleNames /\ BuiltinDue(n)
    BY RulesAssumption DEF RulesInv
  <2>2. Says(n, FALSE, files) = Rule(n, FALSE, BuiltinDoc)
    BY DEF Says
  <2>3. CASE Rule(n, FALSE, BuiltinDoc) \in ToSet(rules)
    BY <2>3 DEF BuiltinDue
  <2>4. ASSUME NEW b \in Admins \ {a}, Coming(b, n, FALSE) \/ Held(b, Rule(n, FALSE, BuiltinDoc))
        PROVE  BuiltinDue(n)'
    <3> DEFINE r == Rule(n, FALSE, BuiltinDoc)
    <3>1. Coming(b, n, FALSE)' \/ Held(b, r)'
      BY <1>1, <2>4
    <3> QED
      BY <3>1 DEF BuiltinDue
  <2>5. CASE Coming(a, n, FALSE)
    <3>1. \/ Coming(a, n, FALSE)'
          \/ pc'[a] = "append" /\ Rule(n, FALSE, BuiltinDoc) \in ToSet(job'[a].read)
      BY <2>1, <2>2, <2>5
    <3>2. Coming(a, n, FALSE)' \/ Held(a, Rule(n, FALSE, BuiltinDoc))'
      BY <3>1 DEF Held, At
    <3> QED
      BY <3>2 DEF BuiltinDue
  <2>6. CASE Held(a, Rule(n, FALSE, BuiltinDoc))
    <3>1. \/ Rule(n, FALSE, BuiltinDoc) \in ToSet(rules')
          \/ Held(a, Rule(n, FALSE, BuiltinDoc))'
      BY <2>6 DEF Held, At
    <3> QED
      BY <3>1 DEF BuiltinDue
  <2> QED
    BY <2>1, <2>3, <2>4, <2>5, <2>6 DEF BuiltinDue
<1>3. ASSUME NEW n \in names PROVE CustomDue(n)'
  <2>1. CustomDue(n)
    BY DEF RulesInv
  <2> DEFINE r == Rule(n, TRUE, files[n])
  <2>2. Says(n, TRUE, files) = r /\ Rule(n, TRUE, files'[n]) = r
    BY DEF Says
  <2>3. CASE files[n] = NoFile \/ n \in torn \/ r \in ToSet(rules)
    BY <2>2, <2>3 DEF CustomDue
  <2>4. ASSUME NEW b \in Admins \ {a}, Coming(b, n, TRUE) \/ Held(b, r) \/ Writing(b, n)
        PROVE  CustomDue(n)'
    <3> HIDE DEF r
    <3>1. \/ Coming(b, n, TRUE)' \/ Writing(b, n)'
          \/ pc'[b] = "append" /\ r \in ToSet(job'[b].read)
      BY <1>1, <2>4 DEF Held, At
    <3>2. Coming(b, n, TRUE)' \/ Writing(b, n)' \/ Held(b, Rule(n, TRUE, files[n]))'
      BY <2>2, <3>1 DEF Held, At
    <3> QED
      BY <3>2 DEF CustomDue
  <2>5. CASE Coming(a, n, TRUE)
    <3>1. \/ Coming(a, n, TRUE)' \/ files[n] = NoFile
          \/ pc'[a] = "append" /\ r \in ToSet(job'[a].read)
      BY <2>2, <2>5
    <3>2. Coming(a, n, TRUE)' \/ files'[n] = NoFile \/ Held(a, Rule(n, TRUE, files[n]))'
      BY <2>2, <3>1 DEF Held, At
    <3> QED
      BY <3>2 DEF CustomDue
  <2>6. CASE Held(a, r)
    <3>1. r \in ToSet(rules') \/ (pc'[a] = "append" /\ r \in ToSet(job'[a].read))
      BY <2>6
    <3>2. Rule(n, TRUE, files'[n]) \in ToSet(rules') \/ Held(a, Rule(n, TRUE, files[n]))'
      BY <2>2, <3>1 DEF Held, At
    <3> QED
      BY <3>2 DEF CustomDue
  <2> QED
    BY <2>1, <2>3, <2>4, <2>5, <2>6 DEF CustomDue
<1> QED
  BY <1>2, <1>3

(* A step of the only thread that has a request.                           *)
LEMMA AloneKept ==
  ASSUME NEW a \in Admins, Alone, pc[a] # "idle" \/ Quiet,
         \A b \in Admins \ {a} : pc'[b] = pc[b],
         AloneAt(a)', pc'[a] \notin Busy /\ torn' = {} => rules' = Files'
  PROVE  Alone'
<1>1. \A b \in Admins \ {a} : pc'[b] = "idle"
  BY DEF Alone, Quiet
<1>2. \A b, c \in Admins : pc'[b] # "idle" /\ pc'[c] # "idle" => b = c
  BY <1>1
<1>3. \A b \in Admins \ {a} : AloneAt(b)'
  BY <1>1 DEF AloneAt, Loading
<1> QED
  BY <1>2, <1>3 DEF Alone

(* Requests.                                                               *)
LEMMA ArrivalKeeps ==
  ASSUME RulesInv, NEW a \in Admins, NEW label \in {"open", "unlink"}, Arrive(a, label),
         NEW n \in RuleNames, NEW doc \in Documents \cup {NoFile},
         label = "open" => doc # NoFile, label = "unlink" => files[n] # NoFile,
         job' = [job EXCEPT ![a] = Job(n, doc)], UNCHANGED <<files, rules, torn>>
  PROVE  RulesInv'
<1>1. n \in Nat
  BY RulesAssumption
<1>2. /\ Job(n, doc) \in Jobs
      /\ Job(n, doc).name = n /\ Job(n, doc).doc = doc
  BY <1>1, JobTyped
<1>3. /\ pc' \in [Admins -> Labels] /\ pc[a] = "idle" /\ pc'[a] = label
      /\ \A b \in Admins \ {a} : pc'[b] = pc[b]
      /\ overlap' \in BOOLEAN /\ (~ overlap' => ~ overlap /\ Quiet)
  BY ArriveDoes DEF RulesInv, RulesTypes, Labels, RuleLabels
<1>4. /\ job' \in [Admins -> Jobs] /\ job'[a] = Job(n, doc)
      /\ \A b \in Admins \ {a} : job'[b] = job[b]
  BY <1>2 DEF RulesInv, RulesTypes
<1>5. CustomNames' = CustomNames /\ Files' = Files
  BY FilesSame
<1>6. RulesTypes'
  <2>1. Fits(pc'[a], job'[a])
    BY <1>2, <1>3, <1>4 DEF Fits, RuleLabels
  <2> QED
    BY <1>3, <1>4, <1>5, <2>1, TypesKept DEF RulesInv, RulesTypes
<1>7. /\ \A m \in Builtin : BuiltinDue(m)'
      /\ \A m \in RuleNames : CustomDue(m)'
  <2>1. /\ \A m, custom : ~ Coming(a, m, custom)
        /\ \A rule : ~ Held(a, rule)
        /\ \A m : ~ Writing(a, m)
    BY <1>3 DEF Coming, Held, Writing, At, Loading
  <2> QED
    BY <1>3, <1>4, <2>1, DueKept
<1>8. ASSUME ~ overlap' PROVE Alone'
  <2>1. Alone /\ Quiet
    BY <1>3, <1>8 DEF RulesInv
  <2>2. AloneAt(a)'
    BY <1>2, <1>3, <1>4 DEF AloneAt, Lost, Loading
  <2>3. torn' = {} => rules' = Files'
    BY <1>5, <2>1 DEF Alone, Quiet, Busy, Loading
  <2> QED
    BY <1>3, <2>1, <2>2, <2>3, AloneKept
<1> QED
  BY <1>6, <1>7, <1>8 DEF RulesInv

(* Steps of other requests.                                                *)
LEMMA ElsewhereKeeps ==
  ASSUME RulesInv, NEW a \in Admins, NEW label \in Labels \ RuleLabels, pc[a] \notin RuleLabels,
         Arrive(a, label) \/ (Goto(a, label) /\ pc[a] # "idle"),
         UNCHANGED <<files, rules, job, torn>>
  PROVE  RulesInv'
<1>1. /\ pc' \in [Admins -> Labels] /\ pc'[a] = label
      /\ \A b \in Admins \ {a} : pc'[b] = pc[b]
      /\ overlap' \in BOOLEAN /\ (~ overlap' => ~ overlap /\ (pc[a] # "idle" \/ Quiet))
  BY ArriveDoes, GotoDoes DEF RulesInv, RulesTypes
<1>2. CustomNames' = CustomNames /\ Files' = Files
  BY FilesSame
<1>3. RulesTypes'
  <2>1. Fits(pc'[a], job'[a])
    BY <1>1 DEF Fits, RuleLabels, Loading, RulesInv, RulesTypes
  <2> QED
    BY <1>1, <1>2, <2>1, TypesKept DEF RulesInv, RulesTypes
<1>4. /\ \A m \in Builtin : BuiltinDue(m)'
      /\ \A m \in RuleNames : CustomDue(m)'
  <2>1. /\ \A m, custom : ~ Coming(a, m, custom)
        /\ \A rule : ~ Held(a, rule)
        /\ \A m : ~ Writing(a, m)
    BY DEF Coming, Held, Writing, At, Loading, RuleLabels
  <2> QED
    BY <1>1, <2>1, DueKept
<1>5. ASSUME ~ overlap' PROVE Alone'
  <2>1. Alone
    BY <1>1, <1>5 DEF RulesInv
  <2>2. AloneAt(a)'
    BY <1>1 DEF AloneAt, Loading, RuleLabels
  <2>3. torn' = {} => rules' = Files'
    <3>1. \A b \in Admins : pc[b] \notin Busy
      BY <1>1, <1>5, <2>1 DEF Alone, Quiet, Busy, Loading, RuleLabels
    <3> QED
      BY <1>2, <2>1, <3>1 DEF Alone
  <2> QED
    BY <1>1, <1>5, <2>1, <2>2, <2>3, AloneKept
<1> QED
  BY <1>3, <1>4, <1>5 DEF RulesInv

(* Steps of nobody's request.                                              *)
LEMMA ApartKeeps ==
  ASSUME RulesInv, UNCHANGED <<requestVars, files, rules, job, torn>>
  PROVE  RulesInv'
<1>1. UNCHANGED <<pc, overlap>> /\ CustomNames' = CustomNames /\ Files' = Files
  BY FilesSame DEF requestVars
<1>2. RulesTypes'
  BY <1>1 DEF RulesInv, RulesTypes, Fits
<1>3. /\ \A n \in Builtin : BuiltinDue(n)'
      /\ \A n \in RuleNames : CustomDue(n)'
  <2>1. ASSUME NEW b \in Admins, NEW n, NEW custom, NEW rule
        PROVE  /\ Coming(b, n, custom) => Coming(b, n, custom)'
               /\ Held(b, rule) => Held(b, rule)'
               /\ Writing(b, n) => Writing(b, n)'
    BY <1>1 DEF Coming, Held, Writing, At, Lost
  <2>2. ASSUME NEW n \in Builtin PROVE BuiltinDue(n)'
    BY <2>1 DEF RulesInv, BuiltinDue
  <2>3. ASSUME NEW n \in RuleNames PROVE CustomDue(n)'
    <3>1. CustomDue(n) /\ files'[n] = files[n]
      BY DEF RulesInv
    <3>2. ASSUME NEW b \in Admins, Held(b, Rule(n, TRUE, files[n]))
          PROVE  Held(b, Rule(n, TRUE, files[n]))'
      BY <1>1, <3>2 DEF Held, At
    <3> QED
      BY <2>1, <3>1, <3>2 DEF CustomDue
  <2> QED
    BY <2>2, <2>3
<1>4. Alone => Alone'
  BY <1>1 DEF Alone, AloneAt, Lost
<1> QED
  BY <1>1, <1>2, <1>3, <1>4 DEF RulesInv

(* Writing a file.                                                         *)
LEMMA OpenFileKeeps ==
  ASSUME RulesInv, NEW a \in Admins, OpenFile(a)
  PROVE  RulesInv'
<1>1. PICK n \in RuleNames, doc \in Documents \cup {NoFile} : job[a] = Job(n, doc)
  BY DEF OpenFile, At, RulesInv, RulesTypes, Fits
<1>2. job[a].name = n /\ job[a].doc = doc /\ doc # NoFile
  <2>1. n \in Nat
    BY RulesAssumption
  <2>2. job[a].doc # NoFile
    BY DEF OpenFile, At, RulesInv, RulesTypes, Fits
  <2> QED
    BY <1>1, <2>1, <2>2 DEF Job
<1>3. /\ pc' \in [Admins -> Labels] /\ pc[a] = "open" /\ pc'[a] = "write"
      /\ \A b \in Admins \ {a} : pc'[b] = pc[b]
      /\ overlap' = overlap /\ job' = job /\ rules' = rules /\ torn' = torn
  BY GotoDoes DEF OpenFile, At, RulesInv, RulesTypes, Labels, RuleLabels
<1>4. /\ files' \in [RuleNames -> Texts]
      /\ \A m \in RuleNames \ {n} : files'[m] = files[m]
  BY <1>2 DEF OpenFile, RulesInv, RulesTypes, Texts
<1>5. RulesTypes'
  <2>1. Fits(pc'[a], job'[a])
    BY <1>1, <1>3 DEF Fits, RuleLabels
  <2>2. IsFiniteSet(CustomNames')
    BY <1>4, CustomNamesFinite DEF RulesInv, RulesTypes
  <2> QED
    BY <1>3, <1>4, <2>1, <2>2, TypesKept DEF RulesInv, RulesTypes
<1>6. /\ \A m \in Builtin : BuiltinDue(m)'
      /\ \A m \in RuleNames \ {n} : CustomDue(m)'
  <2>1. /\ \A m, custom : ~ Coming(a, m, custom)
        /\ \A rule : ~ Held(a, rule)
        /\ \A m : ~ Writing(a, m)
    BY <1>3 DEF Coming, Held, Writing, At, Loading
  <2>2. RuleNames \ {n} \in SUBSET RuleNames
    OBVIOUS
  <2> QED
    BY <1>3, <1>4, <2>1, <2>2, DueKept
<1>7. Writing(a, n)'
  BY <1>2, <1>3 DEF Writing, At, Lost
<1>8. CustomDue(n)'
  BY <1>7 DEF CustomDue
<1>9. ASSUME ~ overlap' PROVE Alone'
  <2>1. Alone
    BY <1>3, <1>9 DEF RulesInv
  <2>2. AloneAt(a)'
    BY <1>2, <1>3 DEF AloneAt, Lost, Loading
  <2> QED
    BY <1>3, <2>1, <2>2, AloneKept DEF Busy
<1> QED
  BY <1>5, <1>6, <1>8, <1>9 DEF RulesInv

LEMMA WriteFileKeeps ==
  ASSUME RulesInv, NEW a \in Admins, WriteFile(a)
  PROVE  RulesInv'
<1>1. PICK n \in RuleNames, doc \in Documents \cup {NoFile} : job[a] = Job(n, doc)
  BY DEF WriteFile, At, RulesInv, RulesTypes, Fits
<1>2. job[a].name = n /\ job[a].doc = doc
  <2>1. n \in Nat
    BY RulesAssumption
  <2> QED
    BY <1>1, <2>1 DEF Job
<1>3. /\ pc' \in [Admins -> Labels] /\ pc[a] = "write" /\ pc'[a] = "clear"
      /\ \A b \in Admins \ {a} : pc'[b] = pc[b]
      /\ overlap' = overlap /\ rules' = rules
  BY GotoDoes DEF WriteFile, At, RulesInv, RulesTypes, Labels, RuleLabels
<1>4. /\ job' \in [Admins -> Jobs] /\ job'[a] = NoJob
      /\ \A b \in Admins \ {a} : job'[b] = job[b]
  BY NoJobTyped DEF WriteFile, RulesInv, RulesTypes
<1>5. /\ files' \in [RuleNames -> Texts]
      /\ \A m \in RuleNames \ {n} : files'[m] = files[m]
  BY <1>2 DEF WriteFile, RulesInv, RulesTypes, Texts
<1>6. torn' \subseteq RuleNames
  BY DEF WriteFile, RulesInv, RulesTypes
<1>7. RulesTypes'
  <2>1. Fits(pc'[a], job'[a])
    BY <1>3, <1>4 DEF Fits, RuleLabels
  <2>2. IsFiniteSet(CustomNames')
    BY <1>5, CustomNamesFinite DEF RulesInv, RulesTypes
  <2> QED
    BY <1>3, <1>4, <1>5, <1>6, <2>1, <2>2, TypesKept DEF RulesInv, RulesTypes
<1>8. \A m, custom : Coming(a, m, custom)'
  BY <1>3 DEF Coming, At
<1>9. /\ \A m \in Builtin : BuiltinDue(m)'
      /\ \A m \in RuleNames : CustomDue(m)'
  BY <1>8 DEF BuiltinDue, CustomDue
<1>10. ASSUME ~ overlap' PROVE Alone'
  <2>1. Alone
    BY <1>3, <1>10 DEF RulesInv
  <2>2. AloneAt(a)'
    BY <1>3 DEF AloneAt, Loading
  <2> QED
    BY <1>3, <2>1, <2>2, AloneKept DEF Busy
<1> QED
  BY <1>7, <1>9, <1>10 DEF RulesInv

LEMMA WriteFailsKeeps ==
  ASSUME RulesInv, NEW a \in Admins, WriteFails(a)
  PROVE  RulesInv'
<1>1. PICK n \in RuleNames, doc \in Documents \cup {NoFile} : job[a] = Job(n, doc)
  BY DEF WriteFails, At, RulesInv, RulesTypes, Fits
<1>2. job[a].name = n /\ job[a].doc = doc
  <2>1. n \in Nat
    BY RulesAssumption
  <2> QED
    BY <1>1, <2>1 DEF Job
<1>3. /\ pc' \in [Admins -> Labels] /\ pc[a] = "write" /\ pc'[a] = "idle"
      /\ \A b \in Admins \ {a} : pc'[b] = pc[b]
      /\ overlap' = overlap /\ rules' = rules /\ files' = files
  BY GotoDoes DEF WriteFails, At, RulesInv, RulesTypes, Labels, ExcLabels
<1>4. /\ job' \in [Admins -> Jobs] /\ job'[a] = NoJob
      /\ \A b \in Admins \ {a} : job'[b] = job[b]
  BY NoJobTyped DEF WriteFails, RulesInv, RulesTypes
<1>5. torn' \subseteq RuleNames /\ torn \subseteq torn' /\ (~ Lost(a) => n \in torn')
  BY <1>2 DEF WriteFails, RulesInv, RulesTypes
<1>6. CustomNames' = CustomNames /\ Files' = Files
  BY <1>3, FilesSame
<1>7. RulesTypes'
  <2>1. Fits(pc'[a], job'[a])
    BY <1>3, <1>4 DEF Fits, RuleLabels
  <2> QED
    BY <1>3, <1>4, <1>5, <1>6, <2>1, TypesKept DEF RulesInv, RulesTypes
<1>8. /\ \A m, custom : ~ Coming(a, m, custom)
      /\ \A rule : ~ Held(a, rule)
      /\ \A m : Writing(a, m) => m = n /\ n \in torn'
  BY <1>2, <1>3, <1>5 DEF Coming, Held, Writing, At, Loading
<1>9. /\ \A m \in Builtin : BuiltinDue(m)'
      /\ \A m \in RuleNames \ torn' : CustomDue(m)'
  <2>1. RuleNames \ torn' \in SUBSET RuleNames
    OBVIOUS
  <2>2. \A m \in RuleNames \ torn' : ~ Writing(a, m) /\ files'[m] = files[m] /\ (m \in torn => m \in torn')
    BY <1>3, <1>5, <1>8
  <2> DEFINE names == RuleNames \ torn'
  <2> HIDE DEF names
  <2> QED
    BY <1>3, <1>4, <1>8, <2>1, <2>2, DueKept DEF names
<1>10. \A m \in torn' : CustomDue(m)'
  BY DEF CustomDue
<1>11. ASSUME ~ overlap' PROVE Alone'
  <2>1. Alone
    BY <1>3, <1>11 DEF RulesInv
  <2>2. ~ Lost(a)
    BY <1>3, <2>1 DEF Alone, AloneAt
  <2>3. AloneAt(a)' /\ torn' # {}
    BY <1>3, <1>5, <2>2 DEF AloneAt, Loading
  <2> QED
    BY <1>3, <2>1, <2>3, AloneKept
<1> QED
  BY <1>7, <1>9, <1>10, <1>11 DEF RulesInv

(* Deleting a file.                                                        *)
LEMMA UnlinkKeeps ==
  ASSUME RulesInv, NEW a \in Admins, Unlink(a)
  PROVE  RulesInv'
<1> DEFINE gone == files[job[a].name] = NoFile
           label == IF gone THEN "idle" ELSE "clear"
<1>1. PICK n \in RuleNames, doc \in Documents \cup {NoFile} : job[a] = Job(n, doc)
  BY DEF Unlink, At, RulesInv, RulesTypes, Fits
<1>2. job[a].name = n /\ n \in Nat
  <2>1. n \in Nat
    BY RulesAssumption
  <2> QED
    BY <1>1, <2>1 DEF Job
<1>3. /\ pc' \in [Admins -> Labels] /\ pc[a] = "unlink" /\ pc'[a] = label
      /\ \A b \in Admins \ {a} : pc'[b] = pc[b]
      /\ overlap' = overlap /\ rules' = rules
  <2>1. label \in Labels
    BY DEF Labels, RuleLabels, ExcLabels
  <2>2. Goto(a, label)
    BY DEF Unlink
  <2> HIDE DEF label
  <2> QED
    BY <2>1, <2>2, GotoDoes DEF Unlink, At, RulesInv, RulesTypes
<1>4. /\ job'[a] = NoJob
      /\ \A b \in Admins \ {a} :
           job'[b] = IF At(b, "write") /\ job[b].name = n THEN Job(n, NoFile) ELSE job[b]
      /\ job' \in [Admins -> Jobs]
  <2>1. job' = [b \in Admins |-> IF b = a THEN NoJob
                                ELSE IF At(b, "write") /\ job[b].name = n THEN Job(n, NoFile)
                                ELSE job[b]]
    BY <1>2 DEF Unlink
  <2>2. Job(n, NoFile) \in Jobs /\ NoJob \in Jobs
    BY <1>2, JobTyped, NoJobTyped
  <2> QED
    BY <2>1, <2>2 DEF RulesInv, RulesTypes
<1>5. /\ files' \in [RuleNames -> Texts] /\ files'[n] = NoFile
      /\ \A m \in RuleNames \ {n} : files'[m] = files[m]
  BY <1>2 DEF Unlink, RulesInv, RulesTypes, Texts
<1>6. torn' = torn \ {n}
  BY <1>2 DEF Unlink
<1>7. RulesTypes'
  <2>1. Fits(pc'[a], job'[a])
    BY <1>3, <1>4 DEF Fits, RuleLabels
  <2>2. IsFiniteSet(CustomNames')
    BY <1>5, CustomNamesFinite DEF RulesInv, RulesTypes
  <2>3. ASSUME NEW b \in Admins \ {a} PROVE Fits(pc'[b], job'[b])
    <3>1. Fits(pc[b], job[b]) /\ pc'[b] = pc[b]
      BY <1>3 DEF RulesInv, RulesTypes
    <3>2. CASE At(b, "write") /\ job[b].name = n
      BY <1>4, <3>1, <3>2 DEF Fits, At, RuleLabels
    <3>3. CASE ~ (At(b, "write") /\ job[b].name = n)
      BY <1>4, <3>1, <3>3
    <3> QED
      BY <3>2, <3>3
  <2>4. \A b \in Admins : Fits(pc'[b], job'[b])
    BY <2>1, <2>3
  <2> QED
    BY <1>3, <1>4, <1>5, <1>6, <2>2, <2>4 DEF RulesInv, RulesTypes, Fits
<1>8. /\ \A m \in Builtin : BuiltinDue(m)'
      /\ \A m \in RuleNames \ {n} : CustomDue(m)'
  <2>1. /\ \A m, custom : ~ Coming(a, m, custom)
        /\ \A rule : ~ Held(a, rule)
        /\ \A m : ~ Writing(a, m)
    BY <1>3 DEF Coming, Held, Writing, At, Loading
  <2>2. RuleNames \ {n} \in SUBSET RuleNames
    OBVIOUS
  <2>3. \A b \in Admins \ {a} :
          job'[b] = job[b] \/ (At(b, "write") /\ job[b].name \notin RuleNames \ {n})
    BY <1>4
  <2> QED
    BY <1>3, <1>5, <1>6, <2>1, <2>2, <2>3, DueKept
<1>9. CustomDue(n)'
  BY <1>5 DEF CustomDue
<1>10. ASSUME ~ overlap' PROVE Alone'
  <2>1. Alone
    BY <1>3, <1>10 DEF RulesInv
  <2>2. pc'[a] = "clear"
    BY <1>3, <2>1 DEF Alone, AloneAt
  <2>3. AloneAt(a)'
    BY <2>2 DEF AloneAt, Loading
  <2> QED
    BY <1>3, <2>1, <2>2, <2>3, AloneKept DEF Busy
<1> QED
  BY <1>7, <1>8, <1>9, <1>10 DEF RulesInv

(* Loading.                                                                *)
LEMMA JobWith ==
  ASSUME NEW j \in Jobs, NEW todo \in Seq(RuleNames), NEW read \in Seq(Listed)
  PROVE  /\ [j EXCEPT !.todo = todo]
              = [name |-> j.name, doc |-> j.doc, todo |-> todo, custom |-> j.custom, read |-> j.read]
         /\ [j EXCEPT !.read = read]
              = [name |-> j.name, doc |-> j.doc, todo |-> j.todo, custom |-> j.custom, read |-> read]
         /\ [[j EXCEPT !.todo = todo] EXCEPT !.read = read]
              = [name |-> j.name, doc |-> j.doc, todo |-> todo, custom |-> j.custom, read |-> read]
         /\ [[j EXCEPT !.todo = todo] EXCEPT !.custom = TRUE]
              = [name |-> j.name, doc |-> j.doc, todo |-> todo, custom |-> TRUE, read |-> j.read]
         /\ \A custom \in BOOLEAN, kept \in Seq(Listed) :
              [name |-> j.name, doc |-> j.doc, todo |-> todo, custom |-> custom, read |-> kept] \in Jobs
<1> DEFINE t == [name |-> j.name, doc |-> j.doc, todo |-> todo, custom |-> j.custom, read |-> j.read]
<1>1. [j EXCEPT !.todo = todo] = t
  BY SMTT(30) DEF Jobs
<1>2. [j EXCEPT !.read = read]
        = [name |-> j.name, doc |-> j.doc, todo |-> j.todo, custom |-> j.custom, read |-> read]
  BY DEF Jobs
<1>3. [t EXCEPT !.read = read]
        = [name |-> j.name, doc |-> j.doc, todo |-> todo, custom |-> j.custom, read |-> read]
  OBVIOUS
<1>4. [t EXCEPT !.custom = TRUE]
        = [name |-> j.name, doc |-> j.doc, todo |-> todo, custom |-> TRUE, read |-> j.read]
  <2>1. ASSUME NEW c
        PROVE  [t EXCEPT !.custom = c]
                 = [name |-> j.name, doc |-> j.doc, todo |-> todo, custom |-> c, read |-> j.read]
    OBVIOUS
  <2> QED
    BY <2>1, Zenon
<1>5. \A custom \in BOOLEAN, kept \in Seq(Listed) :
        [name |-> j.name, doc |-> j.doc, todo |-> todo, custom |-> custom, read |-> kept] \in Jobs
  BY DEF Jobs
<1> HIDE DEF t
<1>6. /\ [[j EXCEPT !.todo = todo] EXCEPT !.read = read] = [t EXCEPT !.read = read]
      /\ [[j EXCEPT !.todo = todo] EXCEPT !.custom = TRUE] = [t EXCEPT !.custom = TRUE]
  BY <1>1
<1> QED
  BY <1>1, <1>2, <1>3, <1>4, <1>5, <1>6 DEF t

LEMMA RestTyped ==
  ASSUME files \in [RuleNames -> Texts], IsFiniteSet(CustomNames), NEW j \in Jobs,
         There(j.todo, j.custom, files)
  PROVE  /\ Named(j.todo, j.custom, files) \in Seq(Listed)
         /\ Named(InOrder(CustomNames), TRUE, files) \in Seq(Listed)
         /\ (IF j.custom THEN <<>> ELSE Named(InOrder(CustomNames), TRUE, files)) \in Seq(Listed)
         /\ Rest(j, files, CustomNames) \in Seq(Listed)
<1>1. j.todo \in Seq(RuleNames) /\ j.custom \in BOOLEAN
  BY DEF Jobs
<1>2. Named(j.todo, j.custom, files) \in Seq(Listed)
  BY <1>1, NamedTyped
<1>3. Named(InOrder(CustomNames), TRUE, files) \in Seq(Listed)
  BY FilesAre, NamedTyped
<1>4. (IF j.custom THEN <<>> ELSE Named(InOrder(CustomNames), TRUE, files)) \in Seq(Listed)
  BY <1>1, <1>3, EmptySeq
<1>5. Rest(j, files, CustomNames) \in Seq(Listed)
  BY <1>2, <1>4, ConcatProperties DEF Rest
<1> QED
  BY <1>2, <1>3, <1>4, <1>5

LEMMA ClearKeeps ==
  ASSUME RulesInv, NEW a \in Admins, Clear(a)
  PROVE  RulesInv'
<1> DEFINE b0 == InOrder(Builtin)
<1>1. b0 \in Seq(RuleNames) /\ ToSet(b0) = Builtin /\ There(b0, FALSE, files)
  BY FilesAre DEF RulesInv, RulesTypes
<1>2. /\ pc' \in [Admins -> Labels] /\ pc[a] = "clear" /\ pc'[a] = "load"
      /\ \A b \in Admins \ {a} : pc'[b] = pc[b]
      /\ overlap' = overlap /\ rules' = <<>> /\ files' = files /\ torn' = torn
  BY GotoDoes DEF Clear, At, RulesInv, RulesTypes, Labels, RuleLabels, Loading
<1>3. job[a] = NoJob /\ NoJob \in Jobs /\ NoJob.custom = FALSE /\ NoJob.read = <<>>
  BY <1>2, NoJobTyped DEF RulesInv, RulesTypes, Fits, NoJob, Job
<1>4. job' = [job EXCEPT ![a] = [job[a] EXCEPT !.todo = b0]]
  BY DEF Clear
<1> HIDE DEF b0
<1>5. /\ [NoJob EXCEPT !.todo = b0] \in Jobs /\ [NoJob EXCEPT !.todo = b0].todo = b0
      /\ [NoJob EXCEPT !.todo = b0].custom = FALSE /\ [NoJob EXCEPT !.todo = b0].read = <<>>
  <2>1. [NoJob EXCEPT !.todo = b0]
          = [name |-> NoJob.name, doc |-> NoJob.doc, todo |-> b0, custom |-> FALSE, read |-> <<>>]
    BY <1>1, <1>3, EmptySeq, JobWith
  <2>2. [name |-> NoJob.name, doc |-> NoJob.doc, todo |-> b0, custom |-> FALSE, read |-> <<>>] \in Jobs
    BY <1>1, <1>3, EmptySeq, JobWith
  <2> QED
    BY <2>1, <2>2
<1>6. /\ job' \in [Admins -> Jobs] /\ job'[a].todo = b0
      /\ job'[a].custom = FALSE /\ job'[a].read = <<>>
      /\ \A b \in Admins \ {a} : job'[b] = job[b]
  BY <1>3, <1>4, <1>5 DEF RulesInv, RulesTypes
<1>7. CustomNames' = CustomNames /\ Files' = Files
  BY <1>2, FilesSame
<1>8. RulesTypes'
  <2>1. Fits(pc'[a], job'[a])
    BY <1>2, <1>6 DEF Fits, RuleLabels, Loading
  <2>2. rules' \in Seq(Listed)
    BY <1>2, EmptySeq
  <2> QED
    BY <1>2, <1>6, <1>7, <2>1, <2>2, TypesKept DEF RulesInv, RulesTypes
<1>9. /\ \A m \in Builtin : Coming(a, m, FALSE)'
      /\ \A m : Coming(a, m, TRUE)'
  BY <1>1, <1>2, <1>6 DEF Coming, Loading
<1>10. /\ \A m \in Builtin : BuiltinDue(m)'
       /\ \A m \in RuleNames : CustomDue(m)'
  BY <1>9 DEF BuiltinDue, CustomDue
<1>11. ASSUME ~ overlap' PROVE Alone'
  <2>1. Alone
    BY <1>2, <1>11 DEF RulesInv
  <2>2. Rest(job'[a], files, CustomNames) = Files /\ Files \in Seq(Listed)
    <3>1. Files = Named(b0, FALSE, files) \o Named(InOrder(CustomNames), TRUE, files)
          /\ Files \in Seq(Listed)
      BY FilesAre DEF b0, RulesInv, RulesTypes
    <3> QED
      BY <1>6, <3>1 DEF Rest
  <2>3. <<>> \o (<<>> \o Files) = Files
    BY <2>2, ConcatEmptySeq
  <2>4. AloneAt(a)'
    BY <1>1, <1>2, <1>6, <1>7, <2>2, <2>3 DEF AloneAt, Loading
  <2> QED
    BY <1>2, <2>1, <2>4, AloneKept DEF Busy, Loading
<1> QED
  BY <1>8, <1>10, <1>11 DEF RulesInv

LEMMA ReadFileKeeps ==
  ASSUME RulesInv, NEW a \in Admins, ReadFile(a)
  PROVE  RulesInv'
<1> DEFINE j == job[a]  todo == j.todo  n == Head(todo)
           skip == j.custom /\ files[n] = NoFile
           rule == Says(n, j.custom, files)
           read == IF skip THEN <<>> ELSE <<rule>>
           label == IF skip THEN "load" ELSE "append"
<1>1. /\ j \in Jobs /\ todo \in Seq(RuleNames) /\ todo # <<>> /\ j.custom \in BOOLEAN
      /\ files \in [RuleNames -> Texts] /\ IsFiniteSet(CustomNames) /\ pc[a] = "load"
  BY DEF ReadFile, At, RulesInv, RulesTypes, Jobs
<1>2. /\ n \in RuleNames /\ Tail(todo) \in Seq(RuleNames)
      /\ ToSet(todo) = {n} \cup ToSet(Tail(todo))
  BY <1>1, ToSetOfTail
<1>3. read \in Seq(Listed)
  <2>1. ASSUME ~ skip PROVE rule \in Listed
    BY <1>1, <1>2, <2>1 DEF Says, Rule, Listed, Texts
  <2>2. <<>> \in Seq(Listed)
    BY EmptySeq
  <2>3. CASE skip
    BY <2>2, <2>3
  <2>4. CASE ~ skip
    <3>1. rule \in Listed
      BY <2>1, <2>4
    <3> HIDE DEF rule
    <3>2. <<rule>> \in Seq(Listed)
      BY <3>1
    <3> QED
      BY <2>4, <3>2
  <2> QED
    BY <2>3, <2>4
<1>4. /\ job' = [job EXCEPT ![a] = [[j EXCEPT !.todo = Tail(todo)] EXCEPT !.read = read]]
      /\ Goto(a, label) /\ UNCHANGED <<files, rules, torn>>
  BY DEF ReadFile, Says
<1>5. /\ pc' \in [Admins -> Labels] /\ pc'[a] = label
      /\ \A b \in Admins \ {a} : pc'[b] = pc[b]
      /\ overlap' = overlap
  <2>1. label \in Labels
    BY DEF Labels, RuleLabels, Loading
  <2> HIDE DEF label
  <2> QED
    BY <1>4, <2>1, GotoDoes DEF RulesInv, RulesTypes
<1>6. /\ job' \in [Admins -> Jobs] /\ job'[a].todo = Tail(todo)
      /\ job'[a].custom = j.custom /\ job'[a].read = read
      /\ \A b \in Admins \ {a} : job'[b] = job[b]
  <2> DEFINE t == Tail(todo)  k == [[j EXCEPT !.todo = t] EXCEPT !.read = read]
  <2> HIDE DEF read, todo, j, t
  <2>1. k = [name |-> j.name, doc |-> j.doc, todo |-> t, custom |-> j.custom, read |-> read]
    BY <1>1, <1>2, <1>3, JobWith, ZenonT(30) DEF t
  <2>2. [name |-> j.name, doc |-> j.doc, todo |-> t, custom |-> j.custom, read |-> read] \in Jobs
    BY <1>1, <1>2, <1>3, JobWith DEF t
  <2>3. k \in Jobs /\ k.todo = t /\ k.custom = j.custom /\ k.read = read
    BY <2>1, <2>2
  <2>4. job' = [job EXCEPT ![a] = k]
    BY <1>4 DEF t
  <2> HIDE DEF k
  <2> QED
    BY <2>3, <2>4 DEF RulesInv, RulesTypes, t
<1>7. CustomNames' = CustomNames /\ Files' = Files
  BY <1>4, FilesSame
<1>8. RulesTypes'
  <2>1. Fits(pc'[a], job'[a])
    BY <1>5, <1>6 DEF Fits, RuleLabels, Loading
  <2> QED
    BY <1>4, <1>5, <1>6, <1>7, <2>1, TypesKept DEF RulesInv, RulesTypes
<1>9. ~ skip => ToSet(read) = {rule} /\ pc'[a] = "append"
  BY <1>5, ToSetOfOne
<1>10. /\ \A m \in Builtin : BuiltinDue(m)'
       /\ \A m \in RuleNames : CustomDue(m)'
  <2>1. ASSUME NEW m \in RuleNames, NEW custom \in BOOLEAN, Coming(a, m, custom)
        PROVE  \/ Coming(a, m, custom)' \/ (custom /\ files[m] = NoFile)
               \/ pc'[a] = "append" /\ Says(m, custom, files) \in ToSet(job'[a].read)
    <3>1. (custom /\ ~ j.custom) \/ (custom = j.custom /\ m \in ToSet(todo))
      BY <1>1, <2>1 DEF Coming, At
    <3>2. pc'[a] \in Loading
      BY <1>5 DEF Loading
    <3>3. CASE (custom /\ ~ j.custom) \/ (custom = j.custom /\ m \in ToSet(Tail(todo)))
      BY <1>6, <3>2, <3>3 DEF Coming
    <3>4. CASE custom = j.custom /\ m = n
      BY <1>6, <1>9, <3>4
    <3> QED
      BY <1>2, <3>1, <3>3, <3>4
  <2>2. /\ \A r : ~ Held(a, r)
        /\ \A m : ~ Writing(a, m)
    BY <1>1 DEF Held, Writing, At
  <2> HIDE DEF j, todo, n, skip, rule, read, label
  <2> QED
    BY <1>4, <1>5, <1>6, <2>1, <2>2, DueKept
<1>11. ASSUME ~ overlap' PROVE Alone'
  <2>1. Alone
    BY <1>5, <1>11 DEF RulesInv
  <2>2. There(todo, j.custom, files) /\ rules \o (j.read \o Rest(j, files, CustomNames)) = Files
    BY <1>1, <2>1 DEF Alone, AloneAt, Loading
  <2>3. ~ skip /\ pc'[a] = "append" /\ read = <<rule>>
    BY <1>2, <1>5, <2>2 DEF There
  <2>4. /\ There(Tail(todo), j.custom, files)
        /\ Named(todo, j.custom, files) = <<rule>> \o Named(Tail(todo), j.custom, files)
    BY <1>1, <2>2, NamedOfTail
  <2> DEFINE k == job'[a]
             x == IF j.custom THEN <<>> ELSE Named(InOrder(CustomNames), TRUE, files)
             u == Named(Tail(todo), j.custom, files)
  <2>5. x \in Seq(Listed) /\ u \in Seq(Listed) /\ Rest(j, files, CustomNames) \in Seq(Listed)
        /\ read \in Seq(Listed)
    <3>1. x \in Seq(Listed) /\ Rest(j, files, CustomNames) \in Seq(Listed)
      BY <1>1, <2>2, RestTyped
    <3>2. u \in Seq(Listed)
      BY <1>1, <1>2, <2>4, NamedTyped
    <3> HIDE DEF x, u, read
    <3> QED
      BY <1>3, <3>1, <3>2
  <2>6. Rest(j, files, CustomNames) = (read \o u) \o x
    BY <2>3, <2>4 DEF Rest
  <2>7. Rest(k, files, CustomNames) = u \o x
    BY <1>6 DEF Rest
  <2>8. (read \o u) \o x = read \o (u \o x)
    <3> HIDE DEF x, u, read
    <3> QED
      BY <2>5, ConcatAssociative
  <2>9. j.read = <<>>
    BY <1>1 DEF RulesInv, RulesTypes, Fits
  <2>10. j.read \o Rest(j, files, CustomNames) = Rest(j, files, CustomNames)
    BY <2>5, <2>9, ConcatEmptySeq
  <2>11. rules \o (read \o Rest(k, files, CustomNames)) = Files
    <3> HIDE DEF x, u, read, j, k
    <3> QED
      BY <2>2, <2>6, <2>7, <2>8, <2>10
  <2>12. AloneAt(a)'
    <3> HIDE DEF read
    <3> QED
      BY <1>4, <1>6, <1>7, <2>3, <2>4, <2>11 DEF AloneAt, Loading
  <2> QED
    BY <1>1, <1>5, <2>1, <2>3, <2>12, AloneKept DEF Busy, Loading
<1> QED
  BY <1>8, <1>10, <1>11 DEF RulesInv

LEMMA AppendRuleKeeps ==
  ASSUME RulesInv, NEW a \in Admins, AppendRule(a)
  PROVE  RulesInv'
<1> DEFINE j == job[a]  read == j.read
<1>1. /\ j \in Jobs /\ read \in Seq(Listed) /\ <<>> \in Seq(Listed) /\ rules \in Seq(Listed)
      /\ files \in [RuleNames -> Texts] /\ IsFiniteSet(CustomNames) /\ pc[a] = "append"
  BY EmptySeq DEF AppendRule, At, RulesInv, RulesTypes, Jobs
<1>2. /\ job' = [job EXCEPT ![a] = [j EXCEPT !.read = <<>>]]
      /\ rules' = rules \o read /\ UNCHANGED <<files, torn>>
  BY DEF AppendRule
<1>3. /\ pc' \in [Admins -> Labels] /\ pc'[a] = "load"
      /\ \A b \in Admins \ {a} : pc'[b] = pc[b]
      /\ overlap' = overlap
  BY GotoDoes DEF AppendRule, RulesInv, RulesTypes, Labels, RuleLabels, Loading
<1>4. /\ job' \in [Admins -> Jobs] /\ job'[a].todo = j.todo
      /\ job'[a].custom = j.custom /\ job'[a].read = <<>>
      /\ \A b \in Admins \ {a} : job'[b] = job[b]
  <2> DEFINE k == [j EXCEPT !.read = <<>>]
  <2>1. j.todo \in Seq(RuleNames) /\ j.custom \in BOOLEAN
    BY <1>1 DEF Jobs
  <2> HIDE DEF j
  <2>2. k = [name |-> j.name, doc |-> j.doc, todo |-> j.todo, custom |-> j.custom, read |-> <<>>]
    BY <1>1, <2>1, JobWith
  <2>3. [name |-> j.name, doc |-> j.doc, todo |-> j.todo, custom |-> j.custom, read |-> <<>>] \in Jobs
    BY <1>1, <2>1, JobWith
  <2>4. k \in Jobs /\ k.todo = j.todo /\ k.custom = j.custom /\ k.read = <<>>
    BY <2>2, <2>3
  <2>5. job' = [job EXCEPT ![a] = k]
    BY <1>2
  <2> HIDE DEF k
  <2> QED
    BY <2>4, <2>5 DEF RulesInv, RulesTypes
<1>5. CustomNames' = CustomNames /\ Files' = Files
  BY <1>2, FilesSame
<1>6. rules' \in Seq(Listed) /\ ToSet(rules') = ToSet(rules) \cup ToSet(read)
  <2> HIDE DEF read
  <2> QED
    BY <1>1, <1>2, ConcatProperties, ToSetOfConcat
<1>7. RulesTypes'
  <2>1. Fits(pc'[a], job'[a])
    BY <1>3, <1>4 DEF Fits, RuleLabels, Loading
  <2> QED
    BY <1>2, <1>3, <1>4, <1>5, <1>6, <2>1, TypesKept DEF RulesInv, RulesTypes
<1>8. /\ \A m \in Builtin : BuiltinDue(m)'
      /\ \A m \in RuleNames : CustomDue(m)'
  <2>1. ASSUME NEW m \in RuleNames, NEW custom \in BOOLEAN, Coming(a, m, custom)
        PROVE  Coming(a, m, custom)'
    BY <1>1, <1>3, <1>4, <2>1 DEF Coming, At, Loading
  <2>2. /\ \A r : Held(a, r) => r \in ToSet(rules')
        /\ \A m : ~ Writing(a, m)
    BY <1>1, <1>6 DEF Held, Writing, At
  <2> HIDE DEF j, read
  <2> QED
    BY <1>2, <1>3, <1>4, <1>6, <2>1, <2>2, DueKept, ZenonT(30)
<1>9. ASSUME ~ overlap' PROVE Alone'
  <2> DEFINE r == Rest(j, files, CustomNames)
  <2>1. Alone
    BY <1>3, <1>9 DEF RulesInv
  <2>2. There(j.todo, j.custom, files) /\ rules \o (read \o r) = Files
    BY <1>1, <2>1 DEF Alone, AloneAt, Loading
  <2>3. r \in Seq(Listed)
    BY <1>1, <2>2, RestTyped
  <2>4. Rest(job'[a], files, CustomNames) = r
    BY <1>4 DEF Rest
  <2>5. (rules \o read) \o (<<>> \o r) = Files
    <3> HIDE DEF r, read
    <3>1. (rules \o read) \o r = rules \o (read \o r)
      BY <1>1, <2>3, ConcatAssociative
    <3>2. <<>> \o r = r
      BY <2>3, ConcatEmptySeq
    <3> QED
      BY <2>2, <3>1, <3>2
  <2>6. AloneAt(a)'
    <3> HIDE DEF r
    <3> QED
      BY <1>2, <1>3, <1>4, <1>5, <2>2, <2>4, <2>5 DEF AloneAt, Loading
  <2> QED
    BY <1>1, <1>3, <2>1, <2>6, AloneKept DEF Busy, Loading
<1> QED
  BY <1>7, <1>8, <1>9 DEF RulesInv

LEMMA GlobCustomKeeps ==
  ASSUME RulesInv, NEW a \in Admins, GlobCustom(a)
  PROVE  RulesInv'
<1> DEFINE j == job[a]  c == InOrder(CustomNames)
<1>1. /\ j \in Jobs /\ j.read = <<>> /\ <<>> \in Seq(Listed) /\ j.todo = <<>> /\ j.custom = FALSE
      /\ files \in [RuleNames -> Texts] /\ IsFiniteSet(CustomNames) /\ pc[a] = "load"
  <2>1. pc[a] = "load" /\ j.todo = <<>> /\ ~ j.custom
    BY DEF GlobCustom, At
  <2>2. j \in Jobs /\ j.custom \in BOOLEAN /\ Fits(pc[a], j)
    BY DEF RulesInv, RulesTypes, Jobs
  <2>3. j.read = <<>>
    BY <2>1, <2>2 DEF Fits
  <2> QED
    BY <2>1, <2>2, <2>3, EmptySeq DEF RulesInv, RulesTypes
<1>2. /\ job' = [job EXCEPT ![a] = [[j EXCEPT !.todo = c] EXCEPT !.custom = TRUE]]
      /\ UNCHANGED <<files, rules, torn>>
  BY DEF GlobCustom
<1>3. /\ pc' \in [Admins -> Labels] /\ pc'[a] = "load"
      /\ \A b \in Admins \ {a} : pc'[b] = pc[b]
      /\ overlap' = overlap
  BY GotoDoes DEF GlobCustom, RulesInv, RulesTypes, Labels, RuleLabels, Loading
<1>4. /\ c \in Seq(RuleNames) /\ ToSet(c) = CustomNames /\ There(c, TRUE, files)
      /\ Named(c, TRUE, files) \in Seq(Listed)
  BY <1>1, FilesAre, NamedTyped
<1>5. /\ job' \in [Admins -> Jobs] /\ job'[a].todo = c
      /\ job'[a].custom = TRUE /\ job'[a].read = <<>>
      /\ \A b \in Admins \ {a} : job'[b] = job[b]
  <2> DEFINE k == [[j EXCEPT !.todo = c] EXCEPT !.custom = TRUE]
  <2> HIDE DEF j, c
  <2>1. k = [name |-> j.name, doc |-> j.doc, todo |-> c, custom |-> TRUE, read |-> j.read]
    BY <1>1, <1>4, JobWith
  <2>2. [name |-> j.name, doc |-> j.doc, todo |-> c, custom |-> TRUE, read |-> j.read] \in Jobs
    BY <1>1, <1>4, JobWith
  <2>3. k \in Jobs /\ k.todo = c /\ k.custom = TRUE /\ k.read = <<>>
    BY <1>1, <2>1, <2>2
  <2>4. job' = [job EXCEPT ![a] = k]
    BY <1>2 DEF j, c
  <2> HIDE DEF k
  <2> QED
    BY <2>3, <2>4 DEF RulesInv, RulesTypes
<1>6. CustomNames' = CustomNames /\ Files' = Files
  BY <1>2, FilesSame
<1>7. RulesTypes'
  <2>1. Fits(pc'[a], job'[a])
    BY <1>3, <1>5 DEF Fits, RuleLabels, Loading
  <2> QED
    BY <1>2, <1>3, <1>5, <1>6, <2>1, TypesKept DEF RulesInv, RulesTypes
<1>8. /\ \A m \in Builtin : BuiltinDue(m)'
      /\ \A m \in RuleNames : CustomDue(m)'
  <2>1. ASSUME NEW m \in RuleNames, NEW custom \in BOOLEAN, Coming(a, m, custom)
        PROVE  Coming(a, m, custom)' \/ (custom /\ files[m] = NoFile)
    <3>1. custom
      BY <1>1, <2>1, ToSetOfNone DEF Coming, At
    <3>2. ASSUME files[m] # NoFile PROVE m \in ToSet(job'[a].todo)
      BY <1>4, <1>5, <3>2 DEF CustomNames
    <3> QED
      BY <1>3, <1>5, <3>1, <3>2 DEF Coming, Loading
  <2>2. /\ \A r : ~ Held(a, r)
        /\ \A m : ~ Writing(a, m)
    BY <1>1 DEF Held, Writing, At
  <2> HIDE DEF j, c
  <2> QED
    BY <1>2, <1>3, <1>5, <2>1, <2>2, DueKept
<1>9. ASSUME ~ overlap' PROVE Alone'
  <2> DEFINE r == Named(c, TRUE, files)
  <2>1. Alone
    BY <1>3, <1>9 DEF RulesInv
  <2>2. rules \o (<<>> \o Rest(j, files, CustomNames)) = Files
    BY <1>1, <2>1 DEF Alone, AloneAt, Loading
  <2>3. Rest(j, files, CustomNames) = <<>> \o r
    BY <1>1, NamedOfNone DEF Rest
  <2>4. Rest(job'[a], files, CustomNames) = r \o <<>>
    BY <1>5 DEF Rest
  <2>5. r \o <<>> = <<>> \o r
    <3> HIDE DEF r
    <3> QED
      BY <1>4, ConcatEmptySeq DEF r
  <2>6. rules \o (<<>> \o Rest(job'[a], files, CustomNames)) = Files
    <3> HIDE DEF r
    <3> QED
      BY <2>2, <2>3, <2>4, <2>5
  <2>7. AloneAt(a)'
    BY <1>2, <1>3, <1>4, <1>5, <1>6, <2>6 DEF AloneAt, Loading
  <2> QED
    BY <1>1, <1>3, <2>1, <2>7, AloneKept DEF Busy, Loading
<1> QED
  BY <1>7, <1>8, <1>9 DEF RulesInv

LEMMA LoadedKeeps ==
  ASSUME RulesInv, NEW a \in Admins, Loaded(a)
  PROVE  RulesInv'
<1> DEFINE j == job[a]
<1>1. /\ j \in Jobs /\ j.read = <<>> /\ j.todo = <<>> /\ j.custom = TRUE
      /\ files \in [RuleNames -> Texts] /\ IsFiniteSet(CustomNames) /\ pc[a] = "load"
  <2>1. pc[a] = "load" /\ j.todo = <<>> /\ j.custom
    BY DEF Loaded, At
  <2>2. j \in Jobs /\ j.custom \in BOOLEAN /\ Fits(pc[a], j)
    BY DEF RulesInv, RulesTypes, Jobs
  <2>3. j.read = <<>>
    BY <2>1, <2>2 DEF Fits
  <2> QED
    BY <2>1, <2>2, <2>3 DEF RulesInv, RulesTypes
<1>2. /\ pc' \in [Admins -> Labels] /\ pc'[a] = "idle"
      /\ \A b \in Admins \ {a} : pc'[b] = pc[b]
      /\ overlap' = overlap /\ UNCHANGED <<files, rules, torn>>
  BY GotoDoes DEF Loaded, RulesInv, RulesTypes, Labels, ExcLabels
<1>3. /\ job' \in [Admins -> Jobs] /\ job'[a] = NoJob
      /\ \A b \in Admins \ {a} : job'[b] = job[b]
  BY NoJobTyped DEF Loaded, RulesInv, RulesTypes
<1>4. CustomNames' = CustomNames /\ Files' = Files
  BY <1>2, FilesSame
<1>5. RulesTypes'
  <2>1. Fits(pc'[a], job'[a])
    BY <1>2, <1>3 DEF Fits, RuleLabels, Loading
  <2> QED
    BY <1>2, <1>3, <1>4, <2>1, TypesKept DEF RulesInv, RulesTypes
<1>6. /\ \A m \in Builtin : BuiltinDue(m)'
      /\ \A m \in RuleNames : CustomDue(m)'
  <2>1. /\ \A m, custom : ~ Coming(a, m, custom)
        /\ \A r : ~ Held(a, r)
        /\ \A m : ~ Writing(a, m)
    BY <1>1, ToSetOfNone DEF Coming, Held, Writing, At
  <2> QED
    BY <1>2, <1>3, <2>1, DueKept
<1>7. ASSUME ~ overlap' PROVE Alone'
  <2>1. Alone
    BY <1>2, <1>7 DEF RulesInv
  <2>2. rules \o (<<>> \o Rest(j, files, CustomNames)) = Files
    BY <1>1, <2>1 DEF Alone, AloneAt, Loading
  <2>3. Rest(j, files, CustomNames) = <<>>
    <3>1. <<>> \in Seq(Listed)
      BY EmptySeq
    <3>2. <<>> \o <<>> = <<>>
      BY <3>1, ConcatEmptySeq
    <3>3. Rest(j, files, CustomNames) = Named(<<>>, TRUE, files) \o <<>>
      BY <1>1 DEF Rest
    <3> QED
      BY <3>2, <3>3, NamedOfNone
  <2>4. rules = Files
    <3>1. rules \in Seq(Listed) /\ <<>> \o <<>> = <<>>
      BY DEF RulesInv, RulesTypes
    <3> QED
      BY <2>2, <2>3, <3>1, ConcatEmptySeq
  <2>5. AloneAt(a)'
    BY <1>2 DEF AloneAt, Loading
  <2> QED
    BY <1>1, <1>2, <1>4, <2>1, <2>4, <2>5, AloneKept
<1> QED
  BY <1>5, <1>6, <1>7 DEF RulesInv

(* Startup, before requests are served: the list is the files.             *)
Start ==
  /\ pc = [a \in Admins |-> "idle"] /\ overlap = FALSE
  /\ files \in [RuleNames -> Texts] /\ IsFiniteSet(CustomNames)
  /\ rules = Files /\ job = [a \in Admins |-> NoJob] /\ torn = {}

LEMMA StartInv == Start => RulesInv
<1> SUFFICES ASSUME Start PROVE RulesInv
  OBVIOUS
<1>1. /\ Files \in Seq(Listed)
      /\ \A n \in Builtin : Rule(n, FALSE, BuiltinDoc) \in ToSet(Files)
      /\ \A n \in RuleNames : files[n] = NoFile \/ Rule(n, TRUE, files[n]) \in ToSet(Files)
  BY FilesAre DEF Start
<1>2. RulesTypes
  BY <1>1, NoJobTyped DEF Start, RulesTypes, Fits, Labels, ExcLabels, RuleLabels, Loading
<1>3. (\A n \in Builtin : BuiltinDue(n)) /\ (\A n \in RuleNames : CustomDue(n))
  BY <1>1 DEF Start, BuiltinDue, CustomDue
<1>4. Alone
  BY DEF Start, Alone, AloneAt, Loading
<1> QED
  BY <1>2, <1>3, <1>4 DEF RulesInv

LEMMA InitStarts == Init => Start
<1> SUFFICES ASSUME Init PROVE Start
  OBVIOUS
<1>1. CustomNames = {} /\ files \in [RuleNames -> Texts]
  BY DEF Init, RulesInit, CustomNames, Texts
<1> QED
  BY <1>1, FS_EmptySet DEF Init, RequestsInit, RulesInit, Start

LEMMA RestartKeeps ==
  ASSUME RulesInv, Restart
  PROVE  Start'
<1>1. CustomNames' = CustomNames /\ Files' = Files
  BY FilesSame DEF Restart, RulesRestart
<1> QED
  BY <1>1 DEF Restart, RequestsRestart, RulesRestart, RulesInv, RulesTypes, Start

(* Every step keeps the invariant.                                         *)
LEMMA RulesNextKeeps ==
  ASSUME RulesInv, Next, ~ Restart
  PROVE  RulesInv'
<1>1. ASSUME NEW a \in Admins, RulesStep(a) PROVE RulesInv'
  <2>1. ASSUME NEW n \in RuleNames, NEW doc \in Documents,
               CreateRule(a, n, doc) \/ UpdateRule(a, n, doc)
        PROVE  RulesInv'
    <3>1. doc # NoFile
      <4>1. doc.kind = "rule"
        BY RulesAssumption DEF Document
      <4>2. NoFile.kind = "none"
        BY DEF NoFile
      <4> QED
        BY <4>1, <4>2
    <3>2. Arrive(a, "open") /\ job' = [job EXCEPT ![a] = Job(n, doc)] /\ UNCHANGED <<files, rules, torn>>
      BY <2>1 DEF CreateRule, UpdateRule
    <3> QED
      BY <3>1, <3>2, ArrivalKeeps
  <2>2. ASSUME NEW n \in RuleNames, DeleteRule(a, n) PROVE RulesInv'
    BY <2>2, ArrivalKeeps DEF DeleteRule
  <2>3. CASE OpenFile(a) \/ WriteFile(a) \/ WriteFails(a) \/ Unlink(a)
    BY <2>3, OpenFileKeeps, WriteFileKeeps, WriteFailsKeeps, UnlinkKeeps
  <2>4. CASE Clear(a) \/ ReadFile(a) \/ AppendRule(a) \/ GlobCustom(a) \/ Loaded(a)
    BY <2>4, ClearKeeps, ReadFileKeeps, AppendRuleKeeps, GlobCustomKeeps, LoadedKeeps
  <2> QED
    BY <1>1, <2>1, <2>2, <2>3, <2>4 DEF RulesStep
<1>2. ASSUME NEW a \in Admins, NEW label \in ExcLabels \cup WatchLabels, pc[a] \notin RuleLabels,
             Arrive(a, label) \/ (Goto(a, label) /\ pc[a] # "idle"), UNCHANGED ruleVars
      PROVE  RulesInv'
  <2>1. label \in Labels \ RuleLabels
    BY DEF Labels, ExcLabels, WatchLabels, RuleLabels, Loading
  <2> QED
    BY <1>2, <2>1, ElsewhereKeeps DEF ruleVars
<1>3. ASSUME NEW a \in Admins, ExcStep(a), UNCHANGED ruleVars PROVE RulesInv'
  <2>1. PICK label \in ExcLabels :
          pc[a] \notin RuleLabels /\ (Arrive(a, label) \/ (Goto(a, label) /\ pc[a] # "idle"))
    <3>1. CASE \/ \E name \in RuleNames : AddException(a, name)
               \/ \E row \in excRows : DeleteException(a, row)
      BY <3>1 DEF AddException, DeleteException, Arrive, ExcLabels, RuleLabels, Loading
    <3>2. CASE ReadRows(a)
      BY <3>2 DEF ReadRows, At, ExcLabels, RuleLabels, Loading
    <3>3. CASE SwapExceptions(a)
      BY <3>3 DEF SwapExceptions, At, ExcLabels, RuleLabels, Loading
    <3> QED
      BY <1>3, <3>1, <3>2, <3>3 DEF ExcStep
  <2> QED
    BY <1>2, <1>3, <2>1
<1>4. ASSUME NEW a \in Admins, WatchStep(a), UNCHANGED ruleVars PROVE RulesInv'
  <2>1. \E label \in WatchLabels :
          pc[a] \notin RuleLabels /\ (Arrive(a, label) \/ (Goto(a, label) /\ pc[a] # "idle"))
    <3>1. ASSUME NEW items \in Batches, NEW bulk \in BOOLEAN, AddEntries(a, items, bulk)
          PROVE  \E label \in WatchLabels : pc[a] \notin RuleLabels /\ Arrive(a, label)
      BY <3>1 DEF AddEntries, Arrive, WatchLabels, RuleLabels, Loading
    <3>2. CASE \E e \in entries : Delete(a, e) \/ \E active \in BOOLEAN : Toggle(a, e, active)
      BY <3>2 DEF Delete, Toggle, Arrive, WatchLabels, RuleLabels, Loading
    <3>3. ASSUME At(a, "count") \/ At(a, "insert"), AfterItem(a)
          PROVE  \E label \in WatchLabels :
                   pc[a] \notin RuleLabels /\ Goto(a, label) /\ pc[a] # "idle"
      BY <3>3 DEF AfterItem, At, WatchLabels, RuleLabels, Loading
    <3>4. CASE Count(a) \/ Refuse(a) \/ Insert(a)
      BY <3>3, <3>4 DEF Count, Refuse, Insert, At, WatchLabels, RuleLabels, Loading
    <3>5. CASE ReadEntries(a) \/ Swap(a)
      BY <3>5 DEF ReadEntries, Swap, At, WatchLabels, RuleLabels, Loading
    <3> QED
      BY <1>4, <3>1, <3>2, <3>4, <3>5 DEF WatchStep
  <2> QED
    BY <1>2, <1>4, <2>1
<1>5. ASSUME NEW w \in Workers,
             Evaluate(w) \/ Report(w) \/ \E met \in Met : Check(w, met)
      PROVE  RulesInv'
  BY <1>5, ApartKeeps DEF Evaluate, EvaluateStep, Begin, Walk, End, Report, Check
<1> QED
  BY <1>1, <1>3, <1>4, <1>5 DEF Next, Administer

(* However loads, writes and deletions of rule files overlap: when all are *)
(* done every rule file is in the list with what it says now, unless its   *)
(* write failed; and if none overlapped, the list is the files, in order.  *)
THEOREM RulesAreComplete == Spec => []RulesComplete
<1>1. Init => RulesInv
  BY InitStarts, StartInv
<1>2. RulesInv /\ [Next]_vars => RulesInv'
  <2>1. RulesInv /\ UNCHANGED vars => RulesInv'
    BY ApartKeeps DEF vars, ruleVars
  <2>2. RulesInv /\ Restart => RulesInv'
    BY RestartKeeps, StartInv, PTL
  <2> QED
    BY <2>1, <2>2, RulesNextKeeps
<1>3. RulesInv => RulesComplete
  <2> SUFFICES ASSUME RulesInv, Quiet, torn = {}
               PROVE  ToSet(Files) \subseteq ToSet(rules) /\ (~ overlap => rules = Files)
    BY DEF RulesComplete
  <2>1. \A a \in Admins : \A n, custom, rule :
          ~ Coming(a, n, custom) /\ ~ Held(a, rule) /\ ~ Writing(a, n)
    BY DEF Quiet, Coming, Held, Writing, At, Loading
  <2>2. /\ \A n \in Builtin : Rule(n, FALSE, BuiltinDoc) \in ToSet(rules)
        /\ \A n \in CustomNames : Rule(n, TRUE, files[n]) \in ToSet(rules)
    BY <2>1 DEF RulesInv, BuiltinDue, CustomDue, CustomNames
  <2>3. ToSet(Files) \subseteq ToSet(rules)
    <3> DEFINE v == Named(InOrder(Builtin), FALSE, files)
               u == Named(InOrder(CustomNames), TRUE, files)
    <3>1. Files = v \o u
      BY FilesAre DEF RulesInv, RulesTypes
    <3>2. /\ v \in Seq(Listed) /\ ToSet(v) = {Says(n, FALSE, files) : n \in Builtin}
          /\ u \in Seq(Listed) /\ ToSet(u) = {Says(n, TRUE, files) : n \in CustomNames}
      BY FilesAre, NamedTyped DEF RulesInv, RulesTypes
    <3> HIDE DEF v, u
    <3>3. ToSet(v \o u) = ToSet(v) \cup ToSet(u)
      BY <3>2, ToSetOfConcat, ZenonT(30)
    <3> QED
      BY <2>2, <3>1, <3>2, <3>3 DEF Says
  <2>4. ~ overlap => rules = Files
    BY DEF RulesInv, Alone, Quiet, Busy, Loading
  <2> QED
    BY <2>3, <2>4
<1> QED
  BY <1>1, <1>2, <1>3, PTL DEF Spec

-----------------------------------------------------------------------------
(* Walks along the list.                                                   *)

WalkKeys == {"named", "list", "at", "whole", "base", "state"}

(* Nobody appends to the list that a walk is along which began when all    *)
(* was quiet: a load names another list before it appends.                 *)
WalksInv ==
  /\ walk = [w \in Workers |-> walk[w]] /\ \A w \in Workers : DOMAIN walk[w] = WalkKeys
  /\ \A w \in Workers : walk[w].whole =>
       /\ Along(w) = walk[w].base
       /\ walk[w].named => \A a \in Admins : pc[a] \notin Loading

LEMMA WalkWith ==
  ASSUME NEW k, DOMAIN k = WalkKeys, NEW v, NEW named
  PROVE  /\ DOMAIN [k EXCEPT !.at = v] = WalkKeys
         /\ [k EXCEPT !.at = v].whole = k.whole /\ [k EXCEPT !.at = v].named = k.named
         /\ [k EXCEPT !.at = v].list = k.list /\ [k EXCEPT !.at = v].base = k.base
         /\ DOMAIN [[k EXCEPT !.list = v] EXCEPT !.named = named] = WalkKeys
         /\ [[k EXCEPT !.list = v] EXCEPT !.named = named].whole = k.whole
         /\ [[k EXCEPT !.list = v] EXCEPT !.named = named].named = named
         /\ [[k EXCEPT !.list = v] EXCEPT !.named = named].list = v
         /\ [[k EXCEPT !.list = v] EXCEPT !.named = named].base = k.base
<1>1. /\ DOMAIN [k EXCEPT !.at = v] = WalkKeys
      /\ [k EXCEPT !.at = v].whole = k.whole /\ [k EXCEPT !.at = v].named = k.named
      /\ [k EXCEPT !.at = v].list = k.list /\ [k EXCEPT !.at = v].base = k.base
  BY DEF WalkKeys
<1> DEFINE l == [k EXCEPT !.list = v]
<1>2. DOMAIN l = WalkKeys /\ l.whole = k.whole /\ l.list = v /\ l.base = k.base
  BY DEF WalkKeys
<1> HIDE DEF l
<1>3. /\ DOMAIN [l EXCEPT !.named = named] = WalkKeys
      /\ [l EXCEPT !.named = named].whole = l.whole
      /\ [l EXCEPT !.named = named].named = named
      /\ [l EXCEPT !.named = named].list = l.list
      /\ [l EXCEPT !.named = named].base = l.base
  BY <1>2 DEF WalkKeys
<1> QED
  BY <1>1, <1>2, <1>3 DEF l

LEMMA RestingWalks ==
  /\ DOMAIN Resting = WalkKeys /\ Resting.whole = FALSE
  /\ DOMAIN [Resting EXCEPT !.state = "check"] = WalkKeys
  /\ [Resting EXCEPT !.state = "check"].whole = FALSE
BY DEF Resting, WalkKeys

(* A step of a request that names no other list and appends to none, or    *)
(* appends to one that no such walk is along.                              *)
LEMMA RequestLeavesWalks ==
  ASSUME WalksInv, RulesTypes, NEW a \in Admins, NEW label \in Labels,
         Arrive(a, label) \/ Goto(a, label),
         label \in Loading => pc[a] \in Loading,
         rules' = rules \/ pc[a] \in Loading, UNCHANGED walk
  PROVE  WalksInv'
<1>1. \A b \in Admins : pc'[b] \in Loading => pc[b] \in Loading
  BY ArriveDoes, GotoDoes DEF RulesTypes
<1>2. ASSUME NEW w \in Workers, walk'[w].whole
      PROVE  /\ Along(w)' = walk'[w].base
             /\ walk'[w].named => \A b \in Admins : pc'[b] \notin Loading
  BY <1>1, <1>2 DEF WalksInv, Along
<1> QED
  BY <1>2 DEF WalksInv

(* A step of a walk.                                                       *)
LEMMA WalkSteps ==
  ASSUME WalksInv, NEW w \in Workers, NEW k, DOMAIN k = WalkKeys,
         walk' = [walk EXCEPT ![w] = k], UNCHANGED <<pc, rules>>,
         k.whole => /\ (IF k.named THEN rules ELSE k.list) = k.base
                    /\ k.named => \A a \in Admins : pc[a] \notin Loading
  PROVE  WalksInv'
<1>1. /\ walk' = [v \in Workers |-> walk'[v]] /\ walk'[w] = k
      /\ \A v \in Workers \ {w} : walk'[v] = walk[v]
  BY DEF WalksInv
<1>2. \A v \in Workers : DOMAIN walk'[v] = WalkKeys
  BY <1>1 DEF WalksInv
<1>3. ASSUME NEW v \in Workers, walk'[v].whole
      PROVE  /\ Along(v)' = walk'[v].base
             /\ walk'[v].named => \A a \in Admins : pc'[a] \notin Loading
  <2>1. CASE v = w
    BY <1>1, <1>3, <2>1 DEF Along
  <2>2. CASE v # w
    BY <1>1, <1>3, <2>2 DEF WalksInv, Along
  <2> QED
    BY <2>1, <2>2
<1> QED
  BY <1>1, <1>2, <1>3 DEF WalksInv

LEMMA ClearLeavesWalks ==
  ASSUME WalksInv, NEW a \in Admins, Clear(a)
  PROVE  WalksInv'
<1> DEFINE k(w) == [[walk[w] EXCEPT !.list = Along(w)] EXCEPT !.named = FALSE]
<1>1. walk' = [w \in Workers |-> k(w)]
  BY DEF Clear
<1>2. ASSUME NEW w \in Workers
      PROVE  /\ DOMAIN k(w) = WalkKeys /\ k(w).whole = walk[w].whole /\ k(w).named = FALSE
             /\ k(w).list = Along(w) /\ k(w).base = walk[w].base
  <2>1. DOMAIN walk[w] = WalkKeys
    BY DEF WalksInv
  <2> QED
    BY <2>1, WalkWith
<1> HIDE DEF k
<1>3. ASSUME NEW w \in Workers PROVE walk'[w] = k(w)
  BY <1>1
<1>4. walk' = [w \in Workers |-> walk'[w]]
  BY <1>1
<1>5. ASSUME NEW w \in Workers, walk'[w].whole
      PROVE  Along(w)' = walk'[w].base /\ ~ walk'[w].named
  BY <1>2, <1>3, <1>5, ZenonT(30) DEF WalksInv, Along
<1> QED
  BY <1>2, <1>3, <1>4, <1>5 DEF WalksInv

LEMMA WalksNextKeeps ==
  ASSUME WalksInv, RulesInv, Next
  PROVE  WalksInv'
<1> USE DEF RulesInv
<1>1. ASSUME NEW a \in Admins, RulesStep(a) PROVE WalksInv'
  <2>1. CASE Clear(a)
    BY <2>1, ClearLeavesWalks
  <2>2. CASE ~ Clear(a)
    <3>1. UNCHANGED walk /\ (rules' = rules \/ pc[a] \in Loading)
      BY <1>1, <2>2 DEF RulesStep, CreateRule, UpdateRule, DeleteRule, OpenFile, WriteFile,
           WriteFails, Unlink, ReadFile, AppendRule, GlobCustom, Loaded, At, Loading
    <3>2. PICK label \in Labels :
            /\ Arrive(a, label) \/ Goto(a, label)
            /\ label \in Loading => pc[a] \in Loading
      <4> USE DEF Labels, ExcLabels, RuleLabels, Loading, At
      <4>1. CASE \/ \E n \in RuleNames, doc \in Documents : CreateRule(a, n, doc) \/ UpdateRule(a, n, doc)
                 \/ \E n \in RuleNames : DeleteRule(a, n)
        BY <4>1 DEF CreateRule, UpdateRule, DeleteRule
      <4>2. CASE OpenFile(a) \/ WriteFile(a) \/ WriteFails(a) \/ Unlink(a)
        BY <4>2 DEF OpenFile, WriteFile, WriteFails, Unlink
      <4>3. CASE ReadFile(a) \/ AppendRule(a) \/ GlobCustom(a) \/ Loaded(a)
        BY <4>3 DEF ReadFile, AppendRule, GlobCustom, Loaded
      <4> QED
        BY <1>1, <2>2, <4>1, <4>2, <4>3 DEF RulesStep
    <3> QED
      BY <3>1, <3>2, RequestLeavesWalks
  <2> QED
    BY <2>1, <2>2
<1>2. ASSUME NEW a \in Admins, UNCHANGED <<rules, walk>>,
             \E label \in ExcLabels \cup WatchLabels : Arrive(a, label) \/ Goto(a, label)
      PROVE  WalksInv'
  <2>1. PICK label \in ExcLabels \cup WatchLabels : Arrive(a, label) \/ Goto(a, label)
    BY <1>2
  <2>2. label \in Labels /\ label \notin Loading
    BY DEF Labels, ExcLabels, WatchLabels, Loading
  <2> QED
    BY <1>2, <2>1, <2>2, RequestLeavesWalks
<1>3. ASSUME NEW a \in Admins, ExcStep(a), UNCHANGED ruleVars PROVE WalksInv'
  BY <1>2, <1>3, ExcStepGoes DEF ruleVars
<1>4. ASSUME NEW a \in Admins, WatchStep(a), UNCHANGED ruleVars PROVE WalksInv'
  BY <1>2, <1>4, WatchStepGoes DEF ruleVars
<1>5. ASSUME NEW w \in Workers, Begin(w), UNCHANGED <<pc, rules>> PROVE WalksInv'
  <2> DEFINE k == [named |-> TRUE, list |-> <<>>, at |-> 0, whole |-> Quiet,
                   base |-> IF Quiet THEN rules ELSE <<>>, state |-> "walk"]
  <2>1. DOMAIN k = WalkKeys /\ walk' = [walk EXCEPT ![w] = k]
    BY <1>5 DEF Begin, WalkKeys
  <2>2. /\ k.whole = Quiet /\ k.named = TRUE
        /\ Quiet => k.base = rules /\ \A a \in Admins : pc[a] \notin Loading
    BY DEF Quiet, Loading
  <2> HIDE DEF k
  <2> QED
    BY <1>5, <2>1, <2>2, WalkSteps
<1>6. ASSUME NEW w \in Workers, Walk(w), UNCHANGED <<pc, rules>> PROVE WalksInv'
  <2> DEFINE v == walk[w].at + 1  k == [walk[w] EXCEPT !.at = v]
  <2>1. /\ DOMAIN k = WalkKeys /\ k.whole = walk[w].whole /\ k.named = walk[w].named
        /\ k.list = walk[w].list /\ k.base = walk[w].base
    <3>1. DOMAIN walk[w] = WalkKeys
      BY DEF WalksInv
    <3> HIDE DEF v
    <3> QED
      BY <3>1, WalkWith
  <2>2. walk' = [walk EXCEPT ![w] = Resting] \/ walk' = [walk EXCEPT ![w] = k]
    <3>1. walk' = [walk EXCEPT ![w] = IF Raises(NextRule(w)) THEN Resting ELSE k]
      BY <1>6 DEF Walk
    <3> HIDE DEF k
    <3> QED
      BY <3>1
  <2> HIDE DEF k
  <2>3. k.whole => /\ (IF k.named THEN rules ELSE k.list) = k.base
                   /\ k.named => \A a \in Admins : pc[a] \notin Loading
    BY <2>1 DEF WalksInv, Along
  <2> QED
    BY <1>6, <2>1, <2>2, <2>3, RestingWalks, WalkSteps
<1>7. ASSUME NEW w \in Workers, NEW met, Report(w) \/ Check(w, met) PROVE WalksInv'
  <2>1. UNCHANGED <<pc, rules>>
    BY <1>7 DEF Report, Check, requestVars
  <2> DEFINE k == [walk[w] EXCEPT !.state = "report"]
  <2>2. walk' = [walk EXCEPT ![w] = Resting] \/ walk' = [walk EXCEPT ![w] = k]
    BY <1>7 DEF Report, Check
  <2>3. /\ DOMAIN k = WalkKeys /\ k.whole = walk[w].whole /\ k.named = walk[w].named
        /\ k.list = walk[w].list /\ k.base = walk[w].base
    BY DEF WalksInv, WalkKeys
  <2> HIDE DEF k
  <2>4. k.whole => /\ (IF k.named THEN rules ELSE k.list) = k.base
                   /\ k.named => \A a \in Admins : pc[a] \notin Loading
    BY <2>3 DEF WalksInv, Along
  <2> QED
    BY <2>1, <2>2, <2>3, <2>4, RestingWalks, WalkSteps
<1>8. ASSUME NEW w \in Workers, Evaluate(w) PROVE WalksInv'
  <2>1. UNCHANGED <<pc, rules>>
    BY <1>8 DEF Evaluate, EvaluateStep, Begin, Walk, End, requestVars
  <2>2. CASE End(w)
    BY <2>1, <2>2, RestingWalks, WalkSteps DEF End
  <2> QED
    BY <1>5, <1>6, <1>8, <2>1, <2>2 DEF Evaluate, EvaluateStep
<1>9. CASE Restart
  BY <1>9, RestingWalks DEF Restart, RulesRestart, WalksInv, Along
<1> QED
  BY <1>1, <1>3, <1>4, <1>7, <1>8, <1>9 DEF Next, Administer

(* However many loads there are meanwhile, an evaluation that began when   *)
(* none was under way walks the list of that time to its end.              *)
THEOREM WalksAreUndisturbed == Spec => []UndisturbedByReload
<1>1. Init => RulesInv /\ WalksInv
  <2>1. Init => WalksInv
    BY RestingWalks DEF Init, RulesInit, WalksInv
  <2> QED
    BY <2>1, InitStarts, StartInv
<1>2. RulesInv /\ WalksInv /\ [Next]_vars => RulesInv' /\ WalksInv'
  <2>1. RulesInv /\ UNCHANGED vars => RulesInv'
    BY ApartKeeps DEF vars, ruleVars
  <2>2. WalksInv /\ UNCHANGED vars => WalksInv'
    BY DEF vars, ruleVars, requestVars, WalksInv, Along
  <2>3. RulesInv /\ Restart => RulesInv'
    BY RestartKeeps, StartInv, PTL
  <2> QED
    BY <2>1, <2>2, <2>3, RulesNextKeeps, WalksNextKeeps
<1>3. WalksInv => UndisturbedByReload
  BY DEF WalksInv, UndisturbedByReload
<1> QED
  BY <1>1, <1>2, <1>3, PTL DEF Spec

-----------------------------------------------------------------------------
(* The caches beside each other: requests about rules or watchlists leave  *)
(* the exceptions as they are, and so on.                                  *)

LEMMA ExcElsewhere ==
  ASSUME ExcInv, pc' \in [Admins -> Labels],
         \A b \in Admins : pc'[b] \in {"excRead", "excSwap"} => pc'[b] = pc[b],
         UNCHANGED excVars
  PROVE  ExcInv' /\ UNCHANGED ExcCatalogue!vars
BY DEF excVars, ExcInv, ExcTypes, ExcCatalogue!vars, Grouped

LEMMA WatchElsewhere ==
  ASSUME WatchInv, pc' \in [Admins -> Labels],
         \A b \in Admins : pc'[b] \in WatchLabels \ {"idle"} => pc'[b] = pc[b],
         UNCHANGED watchVars
  PROVE  WatchInv' /\ UNCHANGED WatchCatalogue!vars
<1>1. Active(entries)' = Active(entries)
  BY DEF watchVars, Active
<1>2. UNCHANGED WatchCatalogue!vars
  BY <1>1 DEF watchVars, WatchCatalogue!vars
<1>3. WatchInv'
  BY <1>1 DEF watchVars, WatchInv, WatchTypes, WatchLabels
<1> QED
  BY <1>2, <1>3

(* What events do leaves the caches of exceptions and of the watchlist.    *)
LEMMA EventsLeaveCaches ==
  ASSUME NEW w \in Workers, Evaluate(w) \/ Report(w) \/ \E met \in Met : Check(w, met)
  PROVE  UNCHANGED <<pc, excVars, watchVars>>
BY DEF Evaluate, Report, Check, requestVars

(* Beside requests about rules and watchlists, and whatever is evaluated,  *)
(* every change of the exceptions is followed by a refresh of their cache  *)
(* with the table as it was then or later.                                 *)
THEOREM ExceptionsAreFresh == Spec => ExceptionsFresh
<1>1. Init => ExcInv /\ ExcCatalogue!Init
  <2>1. Init => ExcInv
    BY ExcInitInv DEF Init
  <2>2. Init => ExcCatalogue!Init
    BY DEF Init, ExcInit, ExcCatalogue!Init, Grouped
  <2> QED
    BY <2>1, <2>2
<1>2. ASSUME ExcInv, Next PROVE ExcInv' /\ [ExcCatalogue!Next]_(ExcCatalogue!vars)
  <2>1. pc \in [Admins -> Labels]
    BY <1>2 DEF ExcInv, ExcTypes
  <2>2. ASSUME NEW a \in Admins, RulesStep(a) \/ WatchStep(a), UNCHANGED excVars
        PROVE  ExcInv' /\ UNCHANGED ExcCatalogue!vars
    <3> DEFINE S == RuleLabels \cup WatchLabels
    <3>1. \E label \in S : Arrive(a, label) \/ Goto(a, label)
      BY <2>2, RulesStepGoes, WatchStepGoes DEF WatchLabels
    <3>2. S \subseteq Labels /\ S \cap {"excRead", "excSwap"} = {}
      BY DEF Labels, RuleLabels, WatchLabels, Loading
    <3> HIDE DEF S
    <3> QED
      BY <1>2, <2>1, <2>2, <3>1, <3>2, GoesDoes, ExcElsewhere
  <2>3. ASSUME NEW w \in Workers, Evaluate(w) \/ Report(w) \/ \E met \in Met : Check(w, met)
        PROVE  ExcInv' /\ UNCHANGED ExcCatalogue!vars
    BY <1>2, <2>1, <2>3, EventsLeaveCaches, ExcElsewhere
  <2>4. CASE Restart
    BY <1>2, <2>4, ExcRestartKeeps DEF Restart, ExcCatalogue!Next
  <2> QED
    BY <1>2, <2>2, <2>3, <2>4, ExcStepKeeps DEF Next, Administer
<1>3. ExcInv /\ UNCHANGED vars => ExcInv' /\ UNCHANGED ExcCatalogue!vars
  BY DEF vars, requestVars, excVars, ExcInv, ExcTypes, ExcCatalogue!vars, Grouped
<1>4. ExcInv /\ [Next]_vars => ExcInv' /\ [ExcCatalogue!Next]_(ExcCatalogue!vars)
  BY <1>2, <1>3
<1> QED
  BY <1>1, <1>4, PTL DEF Spec, ExceptionsFresh, ExcCatalogue!Spec

(* The same of the watchlist.                                              *)
THEOREM WatchlistIsFresh == Spec => WatchlistFresh
<1>1. Init => WatchInv /\ WatchCatalogue!Init
  <2>1. Init => WatchInv
    BY WatchInitInv DEF Init
  <2>2. Init => WatchCatalogue!Init
    BY DEF Init, WatchInit, WatchCatalogue!Init, Active
  <2> QED
    BY <2>1, <2>2
<1>2. ASSUME WatchInv, Next PROVE WatchInv' /\ [WatchCatalogue!Next]_(WatchCatalogue!vars)
  <2>1. pc \in [Admins -> Labels]
    BY <1>2 DEF WatchInv, WatchTypes
  <2>2. ASSUME NEW a \in Admins, RulesStep(a) \/ ExcStep(a), UNCHANGED watchVars
        PROVE  WatchInv' /\ UNCHANGED WatchCatalogue!vars
    <3> DEFINE S == RuleLabels \cup ExcLabels
    <3>1. \E label \in S : Arrive(a, label) \/ Goto(a, label)
      BY <2>2, RulesStepGoes, ExcStepGoes DEF ExcLabels
    <3>2. S \subseteq Labels /\ S \cap (WatchLabels \ {"idle"}) = {}
      BY DEF Labels, RuleLabels, ExcLabels, WatchLabels, Loading
    <3> HIDE DEF S
    <3> QED
      BY <1>2, <2>1, <2>2, <3>1, <3>2, GoesDoes, WatchElsewhere
  <2>3. ASSUME NEW w \in Workers, Evaluate(w) \/ Report(w) \/ \E met \in Met : Check(w, met)
        PROVE  WatchInv' /\ UNCHANGED WatchCatalogue!vars
    BY <1>2, <2>1, <2>3, EventsLeaveCaches, WatchElsewhere
  <2>4. CASE Restart
    BY <1>2, <2>4, WatchRestartKeeps DEF Restart, WatchCatalogue!Next
  <2> QED
    BY <1>2, <2>2, <2>3, <2>4, WatchStepKeeps DEF Next, Administer
<1>3. WatchInv /\ UNCHANGED vars => WatchInv' /\ UNCHANGED WatchCatalogue!vars
  BY DEF vars, requestVars, watchVars, WatchInv, WatchTypes, WatchCatalogue!vars, Active
<1>4. WatchInv /\ [Next]_vars => WatchInv' /\ [WatchCatalogue!Next]_(WatchCatalogue!vars)
  BY <1>2, <1>3
<1> QED
  BY <1>1, <1>4, PTL DEF Spec, WatchlistFresh, WatchCatalogue!Spec

=============================================================================
