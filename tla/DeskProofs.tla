----------------------------- MODULE DeskProofs -----------------------------
(***************************************************************************)
(* The desk, proved for any number of threads, alerts, sources, slots and  *)
(* providers, any counts, limits and thresholds: triage undoes nothing,    *)
(* baselines are those of the samples, deviations are reported, queries    *)
(* have their own rows, keys stay with their providers, and calls with the *)
(* limit.                                                                  *)
(*                                                                         *)
(* DeskInv has the invariant of each part for the behaviours that stay in  *)
(* it, and what the part is like in the others, which never touch it.      *)
(***************************************************************************)
EXTENDS Desk, FiniteSetTheorems, SequenceTheorems, WellFoundedInduction, TLAPS

-----------------------------------------------------------------------------
(* Triage. *)

FieldValues == Statuses \cup Analysts
TriageRows  == [Fields -> FieldValues]
Asked       == [Fields -> FieldValues \cup {"unset"}]
TriageLabels      == {"idle", "triageRead", "triageWrite"}

TriageTypes ==
  /\ triage \in [Alerts -> TriageRows]
  /\ pc \in [Admins -> TriageLabels]
  /\ patch \in [Admins -> [alert : SUBSET Alerts, fields : Asked, read : TriageRows]]
  /\ behind \in [Admins -> SUBSET Fields]

(* What a has read of x is up to date, in the fields that it is not behind *)
(* in.                                                                     *)
UpToDate(a, x) ==
  patch[a].alert = {x} /\ \A f \in Fields \ behind[a] : patch[a].read[f] = triage[x][f]

TInv ==
  /\ TriageTypes /\ TriageKept
  /\ \A a \in Admins : pc[a] \in {"triageRead", "triageWrite"} =>
       \E x \in Alerts : patch[a].alert = {x}
  /\ \A a \in Admins : pc[a] = "triageWrite" => \A x \in patch[a].alert : UpToDate(a, x)

-----------------------------------------------------------------------------
(* The SQL sandbox. *)

WorkerStates == {"none", "execute", "fetch", "fetched", "raised"}

(* A worker belongs to a query under way, and that of a request to one     *)
(* that has the lock; all who execute at one time, if they are several,    *)
(* have met; and who has met nobody finds its own rows at every stage.     *)
SandboxInv ==
  /\ pc \in [Admins -> {"idle", "lock", "result", "leave"}]
  /\ worker \in [Admins -> WorkerStates]
  /\ answer \in [Admins -> [status : Nat, rows : SUBSET Admins]] /\ result \subseteq Admins
  /\ \A a \in Admins : worker[a] # "none" <=> pc[a] \in {"result", "leave"}
  /\ \A a \in Admins : pc[a] \in {"lock", "leave"} => a \notin Tools
  /\ \A a \in Admins \ Tools : worker[a] # "none" => holders = {a}
  /\ \A a \in Admins : pc[a] # "idle" => answer[a].status = 0
  /\ \A a, b \in Executing : a # b => a \in mixed
  /\ \A a \in Admins \ mixed :
       /\ worker[a] = "fetch" => result = {a}
       /\ worker[a] = "fetched" => answer[a].rows = {a}
       /\ answer[a].status = 200 => answer[a].rows = {a}

(* What the sandbox is when nobody queries.                                *)
SandboxUnused ==
  /\ worker = [a \in Admins |-> "none"] /\ answer = [a \in Admins |-> NoAnswer]

-----------------------------------------------------------------------------
(* The assistant. *)

Configs == [provider : Providers \cup {"none"}, key : SUBSET Providers]
Orders  == [now : Nat, asked : Configs, read : Configs]

(* What a save was asked for will do, given the row c.                     *)
Suffices(asked, c) ==
  \/ asked.provider \notin Keyed \/ asked.key # {}
  \/ c.provider = asked.provider /\ c.key # {}

(* Keys in hand are their providers' own; and who was not crossed by a     *)
(* save has the row as it is, and still may save.                          *)
KeysInv ==
  /\ pc \in [Admins -> {"idle", "readRow", "replace", "record", "provider", "key"}]
  /\ config \in Configs /\ lastCall \in Configs
  /\ order \in [Admins -> Orders]
  /\ crossed \subseteq Admins
  /\ KeysStayHome
  /\ \A a \in Admins : pc[a] \in {"readRow", "replace"} =>
       OwnKey(order[a].asked) /\ (a \notin crossed => Suffices(order[a].asked, config))
  /\ \A a \in Admins : pc[a] = "replace" => OwnKey(order[a].read)
  /\ \A a \in Admins \ crossed : pc[a] \in {"replace", "key"} => order[a].read = config

(* calls is what is left of recorded without some that are a day older     *)
(* than the newest time counted with.                                      *)
LeftOver(k) ==
  /\ Len(calls) = Len(recorded) - k
  /\ \A j \in 1 .. Len(calls) : calls[j] = recorded[k + j].now
  /\ \A i \in 1 .. k : recorded[i].now < newest - Day

(* The calls of the day before t that were counted in time, those that     *)
(* came late, and the threads that may still come late.                    *)
InTime(t)  == {i \in DOMAIN recorded : recorded[i].now \in (t - Day)..t /\ recorded[i].after <= t}
Late(t)    == {i \in DOMAIN recorded : recorded[i].now <= t /\ recorded[i].after > t}
Waiting(t) == {a \in Admins : pc[a] = "record" /\ order[a].now <= t}

LimitInv ==
  /\ clock \in Nat /\ newest \in 0 .. clock
  /\ calls \in Seq(Nat)
  /\ recorded \in Seq([now : Nat, after : Nat])
  /\ \A i \in DOMAIN recorded : recorded[i].now <= newest /\ recorded[i].after <= newest
  /\ \A a \in Admins : pc[a] = "record" => order[a].now <= clock
  /\ \E k \in 0 .. Len(recorded) : LeftOver(k)
  /\ \A t \in Nat : Cardinality(InTime(t)) <= DailyLimit
  /\ \A t \in Nat : newest > t =>
       Cardinality(Late(t)) + Cardinality(Waiting(t)) <= Cardinality(Admins) - 1

AssistantUnused == config = NoConfig /\ lastCall = NoConfig /\ recorded = <<>>

-----------------------------------------------------------------------------
(* Baselines. *)

Rows == [n : Nat, total : Int, spread : Int]
ViolationFields == {"key", "existing", "observed", "acknowledged"}
JobFields == {"at", "slot", "next", "observed", "existing"}

ReportedIn(vs, k, b, x) == \E v \in vs : v.key = k /\ v.existing = b /\ v.observed = x

(* The tables: what the runs check of them, and their types.               *)
TablesInv ==
  /\ baselines \in [Keys -> Rows]
  /\ sampled \in [Keys -> Seq(Observed)]
  /\ \A v \in violations : DOMAIN v = ViolationFields
  /\ BaselineOfSamples /\ DeviationsReported

(* The job: who is about to take in a count that lies far above the        *)
(* baseline it has read has reported it.                                   *)
JobInv ==
  /\ DOMAIN job = JobFields
  /\ job.at \in {"rest", "count", "get", "report", "upsert"}
  /\ job.at # "rest" => job.slot \in Slots /\ job.next \in DOMAIN BaselineSources
  /\ job.at \in {"get", "report", "upsert"} => job.observed \in Observed
  /\ job.at \in {"report", "upsert"} => job.existing \in Rows
  /\ job.at = "upsert" /\ FarAbove(job.existing, job.observed) =>
       ReportedIn(violations, Key, job.existing, job.observed)

DeskInv ==
  /\ area = "triage" => TInv
  /\ area # "triage" => TriageKept
  /\ area = "sandbox" => SandboxInv
  /\ area # "sandbox" => SandboxUnused
  /\ area = "assistant" => KeysInv /\ LimitInv
  /\ area # "assistant" => AssistantUnused
  /\ TablesInv /\ JobInv

-----------------------------------------------------------------------------

(* A set of naturals has a least member.                                   *)
LEMMA LeastExists ==
  ASSUME NEW T \in SUBSET Nat, T # {}
  PROVE  \E x \in T : \A y \in T : x <= y
<1> DEFINE R == OpToRel(<, Nat)
<1>1. IsWellFoundedOn(R, Nat)
  BY NatLessThanWellFounded
<1>2. ASSUME NEW x \in Nat, NEW y \in Nat, x < y PROVE <<x, y>> \in R
  BY <1>2 DEF OpToRel
<1> HIDE DEF R
<1>3. PICK x \in T : \A y \in T : ~ (<<y, x>> \in R)
  BY <1>1, WFMin
<1>4. ASSUME NEW y \in T PROVE x <= y
  <2>1. x \in Nat /\ y \in Nat
    OBVIOUS
  <2>2. ~ (y < x)
    BY <1>2, <1>3, <2>1
  <2> QED
    BY <2>1, <2>2
<1> QED
  BY <1>4

-----------------------------------------------------------------------------

LEMMA DefaultTyped == Default \in TriageRows /\ Default \in Asked
BY TriageAssumption DEF Default, TriageRows, FieldValues, Asked, Fields

LEMMA PatchTyped ==
  ASSUME NEW alert \in SUBSET Alerts, NEW fields \in Asked, NEW read \in TriageRows
  PROVE  /\ Patch(alert, fields, read) \in [alert : SUBSET Alerts, fields : Asked, read : TriageRows]
         /\ Patch(alert, fields, read).alert = alert
         /\ Patch(alert, fields, read).fields = fields
         /\ Patch(alert, fields, read).read = read
BY DEF Patch

LEMMA NoPatchTyped == NoPatch \in [alert : SUBSET Alerts, fields : Asked, read : TriageRows]
BY DefaultTyped, PatchTyped DEF NoPatch

LEMMA TriageInitInv == RequestsInit /\ TriageInit => TInv
BY DefaultTyped, NoPatchTyped
DEF RequestsInit, TriageInit, TInv, TriageTypes, TriageKept, TriageLabels, UpToDate

LEMMA PatchAlertKeeps ==
  ASSUME TInv, NEW a \in Admins, NEW x \in Alerts, NEW fields \in Patches,
         PatchAlert(a, x, fields)
  PROVE  TInv'
<1>1. fields \in Asked
  BY DEF Patches, Asked, FieldValues
<1>2. /\ Patch({x}, fields, Default) \in [alert : SUBSET Alerts, fields : Asked, read : TriageRows]
      /\ Patch({x}, fields, Default).alert = {x}
  BY <1>1, DefaultTyped, PatchTyped
<1>3. /\ pc' \in [Admins -> TriageLabels] /\ pc'[a] = "triageRead"
      /\ patch' \in [Admins -> [alert : SUBSET Alerts, fields : Asked, read : TriageRows]]
      /\ patch'[a].alert = {x}
      /\ \A b \in Admins \ {a} : pc'[b] = pc[b] /\ patch'[b] = patch[b]
      /\ UNCHANGED <<triage, given, behind>>
  BY <1>2 DEF PatchAlert, Arrive, TInv, TriageTypes, TriageLabels
<1>4. ASSUME NEW b \in Admins, pc'[b] = "triageWrite", NEW y \in patch'[b].alert
      PROVE  UpToDate(b, y)'
  BY <1>3, <1>4 DEF TInv, UpToDate
<1>5. ASSUME NEW b \in Admins, pc'[b] \in {"triageRead", "triageWrite"}
      PROVE  \E y \in Alerts : patch'[b].alert = {y}
  BY <1>3, <1>5 DEF TInv
<1> QED
  BY <1>3, <1>4, <1>5 DEF TInv, TriageTypes, TriageKept

LEMMA ReadTriageKeeps ==
  ASSUME TInv, NEW a \in Admins, ReadTriage(a)
  PROVE  TInv'
<1>1. PICK x \in patch[a].alert :
        patch' = [patch EXCEPT ![a] = Patch({x}, patch[a].fields, triage[x])]
  BY DEF ReadTriage
<1>2. x \in Alerts /\ patch[a].fields \in Asked /\ triage[x] \in TriageRows
  BY DEF TInv, TriageTypes
<1> DEFINE p == Patch({x}, patch[a].fields, triage[x])
<1>3. /\ p \in [alert : SUBSET Alerts, fields : Asked, read : TriageRows]
      /\ p.alert = {x} /\ p.read = triage[x]
  BY <1>2, PatchTyped
<1> HIDE DEF p
<1>4. patch' = [patch EXCEPT ![a] = p]
  BY <1>1 DEF p
<1>5. /\ pc' \in [Admins -> TriageLabels] /\ pc'[a] = "triageWrite"
      /\ patch' \in [Admins -> [alert : SUBSET Alerts, fields : Asked, read : TriageRows]]
      /\ patch'[a] = p
      /\ behind' \in [Admins -> SUBSET Fields]
      /\ \A b \in Admins \ {a} : pc'[b] = pc[b] /\ patch'[b] = patch[b] /\ behind'[b] = behind[b]
      /\ UNCHANGED <<triage, given>>
  BY <1>3, <1>4 DEF ReadTriage, Goto, TInv, TriageTypes, TriageLabels
<1>6. UpToDate(a, x)'
  BY <1>3, <1>5 DEF UpToDate
<1>7. ASSUME NEW b \in Admins, pc'[b] = "triageWrite", NEW y \in patch'[b].alert
      PROVE  UpToDate(b, y)'
  <2>1. CASE b = a
    BY <1>3, <1>5, <1>6, <1>7, <2>1
  <2>2. CASE b # a
    BY <1>5, <1>7, <2>2 DEF TInv, UpToDate
  <2> QED
    BY <2>1, <2>2
<1>8. ASSUME NEW b \in Admins, pc'[b] \in {"triageRead", "triageWrite"}
      PROVE  \E y \in Alerts : patch'[b].alert = {y}
  BY <1>2, <1>3, <1>5, <1>8 DEF TInv
<1> QED
  BY <1>5, <1>7, <1>8 DEF TInv, TriageTypes, TriageKept

(* The write: of the alert x, the fields that the patch names or was       *)
(* behind in.                                                              *)
LEMMA UpsertTriageKeeps ==
  ASSUME TInv, NEW a \in Admins, UpsertTriage(a)
  PROVE  TInv'
<1> DEFINE m == Merged(patch[a])
           written == {f \in Fields : patch[a].fields[f] # "unset"} \cup behind[a]
<1>1. PICK x \in patch[a].alert :
        /\ triage' = [triage EXCEPT ![x] = m]
        /\ given' = [given EXCEPT ![x] =
             [f \in Fields |-> IF f \in written THEN m[f] ELSE given[x][f]]]
        /\ behind' = [b \in Admins |->
             IF b = a THEN {}
             ELSE IF patch[b].alert = {x} THEN behind[b] \cup written ELSE behind[b]]
  BY DEF UpsertTriage
<1>2. pc[a] = "triageWrite" /\ x \in Alerts /\ UpToDate(a, x)
  BY DEF UpsertTriage, At, TInv, TriageTypes
<1>3. m \in TriageRows
  BY DEF Merged, TInv, TriageTypes, TriageRows, Asked
<1>4. \A f \in Fields \ written : m[f] = triage[x][f]
  BY <1>2 DEF Merged, UpToDate
<1>5. written \subseteq Fields
  BY DEF TInv, TriageTypes
<1> HIDE DEF m, written
<1>6. triage' \in [Alerts -> TriageRows] /\ triage'[x] = m
      /\ \A y \in Alerts \ {x} : triage'[y] = triage[y]
  BY <1>1, <1>2, <1>3 DEF TInv, TriageTypes
<1>7. triage' = given'
  <2>1. [f \in Fields |-> IF f \in written THEN m[f] ELSE given[x][f]] = m
    BY <1>3, <1>4 DEF TInv, TriageKept, TriageRows
  <2> QED
    BY <1>1, <2>1 DEF TInv, TriageKept
<1>8. /\ pc' \in [Admins -> TriageLabels] /\ pc'[a] = "idle"
      /\ patch' \in [Admins -> [alert : SUBSET Alerts, fields : Asked, read : TriageRows]]
      /\ behind' \in [Admins -> SUBSET Fields]
      /\ \A b \in Admins \ {a} : pc'[b] = pc[b] /\ patch'[b] = patch[b]
  BY <1>1, <1>5, NoPatchTyped DEF UpsertTriage, Goto, TInv, TriageTypes, TriageLabels
<1>9. ASSUME NEW b \in Admins, pc'[b] = "triageWrite", NEW y \in patch'[b].alert
      PROVE  UpToDate(b, y)'
  <2>1. b # a /\ pc[b] = "triageWrite" /\ patch'[b] = patch[b] /\ UpToDate(b, y)
    BY <1>8, <1>9 DEF TInv
  <2>2. patch[b].alert = {y} /\ y \in Alerts
    BY <2>1 DEF UpToDate, TInv, TriageTypes
  <2>3. CASE y = x
    <3>1. behind'[b] = behind[b] \cup written
      BY <1>1, <2>1, <2>2, <2>3
    <3> QED
      BY <1>4, <1>6, <2>1, <2>3, <3>1 DEF UpToDate
  <2>4. CASE y # x
    <3>1. behind'[b] = behind[b]
      BY <1>1, <2>1, <2>2, <2>4
    <3> QED
      BY <1>6, <2>1, <2>2, <2>4, <3>1 DEF UpToDate
  <2> QED
    BY <2>3, <2>4
<1>10. ASSUME NEW b \in Admins, pc'[b] \in {"triageRead", "triageWrite"}
       PROVE  \E y \in Alerts : patch'[b].alert = {y}
  BY <1>8, <1>10 DEF TInv
<1> QED
  BY <1>6, <1>7, <1>8, <1>9, <1>10 DEF TInv, TriageTypes, TriageKept

-----------------------------------------------------------------------------

(* g has the running sums of s.                                            *)
IsSums(s, g) == g = [i \in 0 .. Len(s) |-> IF i = 0 THEN 0 ELSE g[i - 1] + s[i]]
Sums(s) == CHOOSE g : IsSums(s, g)

LEMMA SumIs == \A s : SumOf(s) = Sums(s)[Len(s)]
BY DEF SumOf, Sums, IsSums

(* Running sums exist: else there is a shortest sequence without, and it   *)
(* has them without its last entry.                                        *)
LEMMA SumsExist == \A s \in Seq(Int) : \E g : IsSums(s, g)
<1> DEFINE Bad == {n \in Nat : \E s \in Seq(Int) : Len(s) = n /\ \A g : ~ IsSums(s, g)}
<1>1. ASSUME Bad # {} PROVE FALSE
  <2>1. PICK n \in Bad : \A m \in Bad : n <= m
    <3>1. Bad \in SUBSET Nat
      OBVIOUS
    <3> HIDE DEF Bad
    <3> QED
      BY <1>1, <3>1, LeastExists
  <2>2. PICK s \in Seq(Int) : Len(s) = n /\ \A g : ~ IsSums(s, g)
    OBVIOUS
  <2>3. n \in Nat
    OBVIOUS
  <2>4. CASE n = 0
    <3>1. IsSums(s, [i \in 0 .. 0 |-> 0])
      BY <2>2, <2>4 DEF IsSums
    <3> QED
      BY <2>2, <3>1
  <2>5. CASE n # 0
    <3> DEFINE r == SubSeq(s, 1, n - 1)
    <3>1. r \in Seq(Int) /\ Len(r) = n - 1 /\ n - 1 \in Nat /\ \A i \in 1 .. n - 1 : r[i] = s[i]
      BY <2>2, <2>3, <2>5
    <3> HIDE DEF r
    <3>2. \E g : IsSums(r, g)
      <4>1. ASSUME \A g : ~ IsSums(r, g) PROVE FALSE
        <5>1. n - 1 \in Bad
          BY <3>1, <4>1
        <5> HIDE DEF Bad
        <5> QED
          BY <2>1, <2>3, <5>1
      <4> QED
        BY <4>1
    <3>3. PICK g : IsSums(r, g)
      BY <3>2
    <3>4. /\ DOMAIN g = 0 .. n - 1
          /\ \A i \in 0 .. n - 1 : g[i] = IF i = 0 THEN 0 ELSE g[i - 1] + s[i]
      <4>1. g = [i \in 0 .. n - 1 |-> IF i = 0 THEN 0 ELSE g[i - 1] + r[i]]
        BY <3>1, <3>3 DEF IsSums
      <4>2. \A i \in 0 .. n - 1 : i # 0 => r[i] = s[i]
        BY <2>3, <3>1
      <4> QED
        BY <4>1, <4>2
    <3> DEFINE h == [i \in 0 .. n |-> IF i = n THEN g[n - 1] + s[n] ELSE g[i]]
    <3>5. DOMAIN h = 0 .. n /\ \A i \in 0 .. n : h[i] = IF i = 0 THEN 0 ELSE h[i - 1] + s[i]
      <4>1. ASSUME NEW i \in 0 .. n PROVE h[i] = IF i = 0 THEN 0 ELSE h[i - 1] + s[i]
        <5>1. CASE i = n
          <6>1. n - 1 \in 0 .. n /\ n - 1 # n /\ h[n - 1] = g[n - 1]
            BY <2>3, <2>5
          <6> QED
            BY <2>5, <5>1, <6>1
        <5>2. CASE i # n
          <6>1. i \in 0 .. n - 1 /\ h[i] = g[i] /\ (i # 0 => i - 1 \in 0 .. n /\ i - 1 # n)
            BY <2>3, <5>2
          <6> QED
            BY <3>4, <6>1
        <5> QED
          BY <5>1, <5>2
      <4> QED
        BY <4>1
    <3>6. h = [i \in 0 .. n |-> IF i = 0 THEN 0 ELSE h[i - 1] + s[i]]
      <4>1. h = [i \in 0 .. n |-> h[i]]
        BY <3>5
      <4> HIDE DEF h
      <4> QED
        BY <3>5, <4>1
    <3>7. IsSums(s, h)
      <4> HIDE DEF h
      <4> QED
        BY <2>2, <3>6 DEF IsSums
    <3> QED
      BY <2>2, <3>7
  <2> QED
    BY <2>4, <2>5
<1> QED
  <2>1. Bad = {}
    BY <1>1
  <2> SUFFICES ASSUME NEW s \in Seq(Int), \A g : ~ IsSums(s, g) PROVE FALSE
    OBVIOUS
  <2>2. Len(s) \in Bad
    OBVIOUS
  <2> QED
    BY <2>1, <2>2

LEMMA SumsAre ==
  ASSUME NEW s \in Seq(Int)
  PROVE  \A i \in 0 .. Len(s) : Sums(s)[i] = IF i = 0 THEN 0 ELSE Sums(s)[i - 1] + s[i]
<1>1. IsSums(s, Sums(s))
  BY SumsExist DEF Sums
<1> DEFINE g == Sums(s)
<1>2. g = [i \in 0 .. Len(s) |-> IF i = 0 THEN 0 ELSE g[i - 1] + s[i]]
  BY <1>1 DEF IsSums
<1> HIDE DEF g
<1>3. \A i \in 0 .. Len(s) : g[i] = IF i = 0 THEN 0 ELSE g[i - 1] + s[i]
  BY <1>2
<1> QED
  BY <1>3 DEF g

LEMMA SumTyped ==
  ASSUME NEW s \in Seq(Int)
  PROVE  \A i \in 0 .. Len(s) : Sums(s)[i] \in Int
<1> DEFINE Bad == {i \in 0 .. Len(s) : Sums(s)[i] \notin Int}
<1>1. ASSUME Bad # {} PROVE FALSE
  <2>1. PICK i \in Bad : \A j \in Bad : i <= j
    <3>1. Bad \in SUBSET Nat
      OBVIOUS
    <3> HIDE DEF Bad
    <3> QED
      BY <1>1, <3>1, LeastExists
  <2>2. i \in 0 .. Len(s) /\ Sums(s)[i] \notin Int
    OBVIOUS
  <2>3. Sums(s)[i] = IF i = 0 THEN 0 ELSE Sums(s)[i - 1] + s[i]
    BY <2>2, SumsAre
  <2>4. i # 0 /\ i - 1 \in 0 .. Len(s) /\ i - 1 \notin Bad /\ s[i] \in Int
    BY <2>1, <2>2, <2>3
  <2>5. Sums(s)[i - 1] \in Int
    BY <2>4
  <2> QED
    BY <2>2, <2>3, <2>4, <2>5
<1> QED
  BY <1>1

(* One more entry adds itself to the sum.                                  *)
LEMMA SumAppended ==
  ASSUME NEW s \in Seq(Int), NEW x \in Int
  PROVE  SumOf(s) \in Int /\ SumOf(Append(s, x)) = SumOf(s) + x
<1> DEFINE t == Append(s, x)
<1>1. t \in Seq(Int) /\ Len(t) = Len(s) + 1 /\ t[Len(s) + 1] = x
      /\ \A i \in 1 .. Len(s) : t[i] = s[i]
  OBVIOUS
<1> HIDE DEF t
<1> DEFINE Bad == {i \in 0 .. Len(s) : Sums(t)[i] # Sums(s)[i]}
<1>2. ASSUME Bad # {} PROVE FALSE
  <2>1. PICK i \in Bad : \A j \in Bad : i <= j
    <3>1. Bad \in SUBSET Nat
      OBVIOUS
    <3> HIDE DEF Bad
    <3> QED
      BY <1>2, <3>1, LeastExists
  <2>2. i \in 0 .. Len(s) /\ i \in 0 .. Len(t) /\ Sums(t)[i] # Sums(s)[i]
    BY <1>1
  <2>3. /\ Sums(s)[i] = IF i = 0 THEN 0 ELSE Sums(s)[i - 1] + s[i]
        /\ Sums(t)[i] = IF i = 0 THEN 0 ELSE Sums(t)[i - 1] + t[i]
    BY <1>1, <2>2, SumsAre
  <2>4. i # 0 /\ i - 1 \in 0 .. Len(s) /\ i - 1 \notin Bad
    BY <2>1, <2>2, <2>3
  <2>5. Sums(t)[i - 1] = Sums(s)[i - 1] /\ t[i] = s[i]
    BY <1>1, <2>2, <2>4
  <2> QED
    BY <2>2, <2>3, <2>4, <2>5
<1>3. Sums(t)[Len(s)] = Sums(s)[Len(s)]
  BY <1>2
<1>4. Len(t) \in 0 .. Len(t) /\ Len(t) # 0 /\ Len(t) - 1 = Len(s)
  BY <1>1
<1>5. Sums(t)[Len(t)] = IF Len(t) = 0 THEN 0 ELSE Sums(t)[Len(t) - 1] + t[Len(t)]
  BY <1>1, <1>4, SumsAre
<1>6. SumOf(s) = Sums(s)[Len(s)] /\ SumOf(t) = Sums(t)[Len(t)]
  BY SumIs
<1>7. Sums(s)[Len(s)] \in Int
  BY SumTyped
<1> QED
  BY <1>1, <1>3, <1>4, <1>5, <1>6, <1>7 DEF t

LEMMA SumEmpty == SumOf(<<>>) = 0
<1>1. <<>> \in Seq(Int) /\ Len(<<>>) = 0
  OBVIOUS
<1>2. 0 \in 0 .. Len(<<>>)
  OBVIOUS
<1>3. Sums(<<>>)[0] = IF 0 = 0 THEN 0 ELSE Sums(<<>>)[0 - 1] + <<>>[0]
  BY <1>1, <1>2, SumsAre
<1> QED
  BY <1>1, <1>3, SumIs

(* What Welford's update of a spread comes to.                             *)
LEMMA Welford ==
  ASSUME NEW n \in Nat \ {0}, NEW x \in Int, NEW S \in Int, NEW Q \in Int
  PROVE  ((n + 1) * (n * Q - S * S) + (n * x - S) * ((n + 1) * x - (S + x))) \div n
           = (n + 1) * (Q + x * x) - (S + x) * (S + x)
<1> DEFINE y == (n + 1) * (Q + x * x) - (S + x) * (S + x)
<1>1. y \in Int
  OBVIOUS
<1>2. (n + 1) * (n * Q - S * S) + (n * x - S) * ((n + 1) * x - (S + x)) = n * y
  OBVIOUS
<1> HIDE DEF y
<1>3. (n * y) \div n = y
  BY <1>1
<1> QED
  BY <1>2, <1>3 DEF y

LEMMA SquaresAppended ==
  ASSUME NEW s \in Seq(Int), NEW x \in Int
  PROVE  Squares(s) \in Seq(Int) /\ Squares(Append(s, x)) = Append(Squares(s), x * x)
<1>1. Squares(s) \in Seq(Int) /\ Len(Squares(s)) = Len(s)
  BY SMTT(30) DEF Squares
<1> DEFINE t == Append(s, x)
<1>2. t \in Seq(Int) /\ Len(t) = Len(s) + 1 /\ t[Len(s) + 1] = x
      /\ \A i \in 1 .. Len(s) : t[i] = s[i]
  OBVIOUS
<1> HIDE DEF t
<1>3. Squares(t) \in Seq(Int) /\ Len(Squares(t)) = Len(s) + 1
  BY <1>2 DEF Squares
<1>4. ASSUME NEW i \in 1 .. Len(s) + 1 PROVE Squares(t)[i] = Append(Squares(s), x * x)[i]
  BY <1>1, <1>2, <1>3 DEF Squares
<1> DEFINE u == Squares(t)
           v == Append(Squares(s), x * x)
<1>5. /\ u \in Seq(Int) /\ Len(u) = Len(s) + 1
      /\ v \in Seq(Int) /\ Len(v) = Len(s) + 1
      /\ \A i \in 1 .. Len(s) + 1 : u[i] = v[i]
  <2>1. x * x \in Int
    OBVIOUS
  <2> HIDE DEF u
  <2> QED
    BY <1>1, <1>3, <1>4, <2>1 DEF u
<1> HIDE DEF u, v
<1>6. u = v
  BY <1>5
<1> QED
  BY <1>1, <1>6 DEF t, u, v

(* The baseline of some counts and one more is the update of that of the   *)
(* former by the latter.                                                   *)
LEMMA BaselineUpdated ==
  ASSUME NEW s \in Seq(Nat), NEW x \in Nat
  PROVE  /\ BaselineOf(s) \in Rows /\ BaselineOf(s).n = Len(s)
         /\ BaselineOf(Append(s, x)) = Updated(BaselineOf(s), x)
<1>1. s \in Seq(Int) /\ Len(Append(s, x)) = Len(s) + 1 /\ Len(s) \in Nat
  OBVIOUS
<1>2. SumOf(s) \in Int /\ SumOf(Append(s, x)) = SumOf(s) + x
  BY <1>1, SumAppended
<1>3. /\ Squares(s) \in Seq(Int) /\ Squares(Append(s, x)) = Append(Squares(s), x * x)
      /\ x * x \in Int
  BY <1>1, SquaresAppended
<1>4. SumOf(Squares(s)) \in Int /\ SumOf(Squares(Append(s, x))) = SumOf(Squares(s)) + x * x
  BY <1>3, SumAppended
<1> DEFINE n == Len(s)
           S == SumOf(s)
           Q == SumOf(Squares(s))
<1>5. BaselineOf(s) = [n |-> n, total |-> S, spread |-> n * Q - S * S]
  BY DEF BaselineOf, Baseline
<1>6. BaselineOf(Append(s, x)) =
        [n |-> n + 1, total |-> S + x, spread |-> (n + 1) * (Q + x * x) - (S + x) * (S + x)]
  BY <1>1, <1>2, <1>4 DEF BaselineOf, Baseline
<1>7. n \in Nat /\ S \in Int /\ Q \in Int /\ n * Q - S * S \in Int
  BY <1>1, <1>2, <1>4
<1>8. CASE n = 0
  <2>1. s = <<>>
    BY <1>8
  <2>2. Squares(s) = <<>>
    BY <2>1 DEF Squares
  <2>3. S = 0 /\ Q = 0
    BY <2>1, <2>2, SumEmpty
  <2>4. BaselineOf(Append(s, x)) = [n |-> 1, total |-> x, spread |-> 0]
    <3>1. (0 + 1) * (0 + x * x) - (0 + x) * (0 + x) = 0 /\ 0 + x = x
      OBVIOUS
    <3> QED
      BY <1>6, <1>8, <2>3, <3>1
  <2>5. Updated(BaselineOf(s), x) = [n |-> 1, total |-> x, spread |-> 0]
    BY <1>5, <1>8 DEF Updated, Baseline
  <2> QED
    BY <1>5, <1>7, <2>4, <2>5 DEF Rows
<1>9. CASE n # 0
  <2> HIDE DEF n, S, Q
  <2>1. ((n + 1) * (n * Q - S * S) + (n * x - S) * ((n + 1) * x - (S + x))) \div n
          = (n + 1) * (Q + x * x) - (S + x) * (S + x)
    BY <1>7, <1>9, Welford
  <2>2. Updated(BaselineOf(s), x) =
          [n |-> n + 1, total |-> S + x, spread |->
             ((n + 1) * (n * Q - S * S) + (n * x - S) * ((n + 1) * x - (S + x))) \div n]
    BY <1>5, <1>9 DEF Updated, Baseline
  <2> QED
    BY <1>5, <1>6, <1>7, <2>1, <2>2 DEF Rows, n
<1> QED
  BY <1>8, <1>9

LEMMA NoBaselineIs == NoBaseline = BaselineOf(<<>>) /\ NoBaseline \in Rows
<1>1. Squares(<<>>) = <<>>
  BY DEF Squares
<1>2. Len(<<>>) = 0
  OBVIOUS
<1>3. BaselineOf(<<>>) = [n |-> 0, total |-> 0, spread |-> 0 * 0 - 0 * 0]
  BY <1>1, <1>2, SumEmpty DEF BaselineOf, Baseline
<1> QED
  BY <1>3 DEF NoBaseline, Baseline, Rows

-----------------------------------------------------------------------------

LEMMA TablesFrame ==
  ASSUME TablesInv, UNCHANGED <<baselines, sampled, violations, undone>>
  PROVE  TablesInv'
BY DEF TablesInv, BaselineOfSamples, DeviationsReported

LEMMA JobFrame ==
  ASSUME JobInv, UNCHANGED <<job, violations>>
  PROVE  JobInv'
BY DEF JobInv, ReportedIn, Key, Source

LEMMA AtRest == DOMAIN Rest = JobFields /\ Rest.at = "rest" /\ Rest.next = 1
BY DEF Rest, JobFields

LEMMA JobRests ==
  ASSUME job' = Rest
  PROVE  JobInv'
BY AtRest DEF JobInv

LEMMA JobCounts ==
  ASSUME NEW slot \in Slots, NEW next \in DOMAIN BaselineSources,
         DOMAIN job' = JobFields, job'.at = "count", job'.slot = slot, job'.next = next
  PROVE  JobInv'
BY DEF JobInv

LEMMA BeginRoundKeeps ==
  ASSUME TablesInv, JobInv, NEW slot \in Slots, BeginRound(slot)
  PROVE  TablesInv' /\ JobInv'
<1>1. /\ DOMAIN job' = JobFields /\ job'.at = "count" /\ job'.slot = slot /\ job'.next = 1
      /\ UNCHANGED <<baselines, sampled, violations, undone>>
  BY DEF BeginRound, Rest, JobFields
<1>2. 1 \in DOMAIN BaselineSources
  <2>1. BaselineSources \in Seq(STRING) /\ BaselineSources # <<>>
    BY BaselineAssumption DEF BeginRound
  <2> QED
    BY <2>1
<1> QED
  BY <1>1, <1>2, TablesFrame, JobCounts

LEMMA AfterSourceKeeps ==
  ASSUME JobInv, job.at # "rest", AfterSource
  PROVE  JobInv'
<1>1. /\ job.slot \in Slots /\ job.next \in 1 .. Len(BaselineSources)
      /\ BaselineSources \in Seq(STRING) /\ DOMAIN BaselineSources = 1 .. Len(BaselineSources)
      /\ Len(BaselineSources) \in Nat
  BY BaselineAssumption DEF JobInv
<1>2. CASE job.next = Len(BaselineSources)
  BY <1>2, JobRests DEF AfterSource
<1>3. CASE job.next # Len(BaselineSources)
  <2>1. /\ DOMAIN job' = JobFields /\ job'.at = "count" /\ job'.slot = job.slot
        /\ job'.next = job.next + 1
    BY <1>3 DEF AfterSource, Rest, JobFields
  <2>2. job.next + 1 \in DOMAIN BaselineSources
    BY <1>1, <1>3
  <2> QED
    BY <1>1, <2>1, <2>2, JobCounts
<1> QED
  BY <1>2, <1>3

LEMMA CountEventsKeeps ==
  ASSUME TablesInv, JobInv, NEW x \in Observed, CountEvents(x)
  PROVE  TablesInv' /\ JobInv'
<1>1. UNCHANGED <<baselines, sampled, violations, undone>>
  BY DEF CountEvents
<1>2. /\ DOMAIN job = JobFields /\ job.slot \in Slots /\ job.next \in DOMAIN BaselineSources
      /\ job' = [job EXCEPT !.at = "get", !.observed = x]
  BY DEF CountEvents, JobInv
<1>3. /\ DOMAIN job' = JobFields /\ job'.at = "get" /\ job'.observed = x
      /\ job'.slot = job.slot /\ job'.next = job.next
  BY <1>2 DEF JobFields
<1>4. JobInv'
  BY <1>2, <1>3 DEF JobInv
<1> QED
  BY <1>1, <1>4, TablesFrame

LEMMA GetBaselineKeeps ==
  ASSUME TablesInv, JobInv, GetBaseline
  PROVE  TablesInv' /\ JobInv'
<1>1. UNCHANGED <<baselines, sampled, violations, undone>>
  BY DEF GetBaseline
<1> DEFINE b == baselines[Key]
           next == IF FarAbove(b, job.observed) THEN "report" ELSE "upsert"
<1>2. /\ DOMAIN job = JobFields /\ job.slot \in Slots /\ job.next \in DOMAIN BaselineSources
      /\ job.observed \in Observed
      /\ job' = [job EXCEPT !.existing = b, !.at = next]
  BY DEF GetBaseline, JobInv
<1>3. next \in {"report", "upsert"} /\ (next = "upsert" => ~ FarAbove(b, job.observed))
  OBVIOUS
<1> HIDE DEF b, next
<1>4. /\ DOMAIN job' = JobFields /\ job'.at = next /\ job'.observed = job.observed
      /\ job'.existing = b /\ job'.slot = job.slot /\ job'.next = job.next
  BY <1>2 DEF JobFields
<1>5. b \in Rows
  BY <1>2 DEF TablesInv, b, Key, Source, Keys, SourceSet
<1>6. JobInv'
  BY <1>2, <1>3, <1>4, <1>5 DEF JobInv
<1> QED
  BY <1>1, <1>6, TablesFrame

(* What is reported stays so when others are.                              *)
LEMMA MoreReported ==
  ASSUME TablesInv, UNCHANGED <<baselines, sampled, undone>>,
         \A v \in violations' : DOMAIN v = ViolationFields,
         \A k, b, x : ReportedIn(violations, k, b, x) => ReportedIn(violations', k, b, x)
  PROVE  TablesInv'
<1>1. BaselineOfSamples'
  BY DEF TablesInv, BaselineOfSamples
<1>2. ASSUME NEW k \in Keys \ undone, NEW i \in DOMAIN sampled[k], i > MinSamples, i > 1,
             Deviates(BaselineOf(SubSeq(sampled[k], 1, i - 1)), sampled[k][i])
      PROVE  ReportedIn(violations', k, BaselineOf(SubSeq(sampled[k], 1, i - 1)), sampled[k][i])
  <2>1. ReportedIn(violations, k, BaselineOf(SubSeq(sampled[k], 1, i - 1)), sampled[k][i])
    BY <1>2 DEF TablesInv, DeviationsReported, ReportedIn
  <2> QED
    BY <2>1
<1>3. DeviationsReported'
  BY <1>2 DEF DeviationsReported, ReportedIn
<1> QED
  BY <1>1, <1>3 DEF TablesInv

LEMMA InsertViolationKeeps ==
  ASSUME TablesInv, JobInv, InsertViolation
  PROVE  TablesInv' /\ JobInv'
<1> DEFINE v == [key |-> Key, existing |-> job.existing, observed |-> job.observed,
                 acknowledged |-> FALSE]
<1>1. /\ DOMAIN v = ViolationFields /\ v.key = Key /\ v.existing = job.existing
      /\ v.observed = job.observed
  BY DEF ViolationFields
<1>2. violations' = violations \cup {v} /\ UNCHANGED <<baselines, sampled, undone>>
  BY DEF InsertViolation
<1> HIDE DEF v
<1>3. /\ DOMAIN job = JobFields /\ job.slot \in Slots /\ job.next \in DOMAIN BaselineSources
      /\ job.observed \in Observed /\ job.existing \in Rows /\ job' = [job EXCEPT !.at = "upsert"]
  BY DEF InsertViolation, JobInv
<1>4. /\ DOMAIN job' = JobFields /\ job'.at = "upsert" /\ job'.observed = job.observed
      /\ job'.existing = job.existing /\ job'.slot = job.slot /\ job'.next = job.next
  BY <1>3 DEF JobFields
<1>5. Key' = Key
  BY <1>4 DEF Key, Source
<1>6. ReportedIn(violations', Key', job'.existing, job'.observed)
  BY <1>1, <1>2, <1>4, <1>5 DEF ReportedIn
<1>7. JobInv'
  BY <1>3, <1>4, <1>6 DEF JobInv
<1>8. TablesInv'
  <2>1. \A k, b, x : ReportedIn(violations, k, b, x) => ReportedIn(violations', k, b, x)
    BY <1>2 DEF ReportedIn
  <2>2. \A w \in violations' : DOMAIN w = ViolationFields
    BY <1>1, <1>2 DEF TablesInv
  <2> QED
    BY <1>2, <2>1, <2>2, MoreReported
<1> QED
  BY <1>7, <1>8

LEMMA AcknowledgeKeeps ==
  ASSUME TablesInv, JobInv, NEW v \in violations, Acknowledge(v)
  PROVE  TablesInv' /\ JobInv'
<1> DEFINE w == [v EXCEPT !.acknowledged = TRUE]
<1>1. DOMAIN v = ViolationFields
  BY DEF TablesInv
<1>2. /\ DOMAIN w = ViolationFields /\ w.key = v.key /\ w.existing = v.existing
      /\ w.observed = v.observed
  BY <1>1 DEF ViolationFields
<1>3. /\ violations' = (violations \ {v}) \cup {w}
      /\ UNCHANGED <<baselines, job, sampled, undone>>
  BY DEF Acknowledge
<1> HIDE DEF w
<1>4. ASSUME NEW k, NEW b, NEW x, ReportedIn(violations, k, b, x)
      PROVE  ReportedIn(violations', k, b, x)
  <2>1. PICK u \in violations : u.key = k /\ u.existing = b /\ u.observed = x
    BY <1>4 DEF ReportedIn
  <2> QED
    BY <1>2, <1>3, <2>1 DEF ReportedIn
<1>5. \A u \in violations' : DOMAIN u = ViolationFields
  BY <1>2, <1>3 DEF TablesInv
<1>6. TablesInv'
  BY <1>3, <1>4, <1>5, MoreReported
<1>7. JobInv'
  <2>1. Key' = Key
    BY <1>3 DEF Key, Source
  <2>2. job.at = "upsert" /\ FarAbove(job.existing, job.observed) =>
          ReportedIn(violations', Key, job.existing, job.observed)
    BY <1>4 DEF JobInv
  <2> QED
    BY <1>3, <2>1, <2>2 DEF JobInv
<1> QED
  BY <1>6, <1>7

LEMMA UpdatedTyped ==
  ASSUME NEW b \in Rows, NEW x \in Nat
  PROVE  Updated(b, x) \in Rows
<1>1. b.n \in Nat /\ b.total \in Int /\ b.spread \in Int
  BY DEF Rows
<1>2. CASE b.n = 0
  BY <1>2 DEF Updated, Baseline, Rows
<1>3. CASE b.n # 0
  <2> DEFINE s == ((b.n + 1) * b.spread + (b.n * x - b.total) * ((b.n + 1) * x - (b.total + x)))
                    \div b.n
  <2>1. s \in Int
    BY <1>1, <1>3
  <2>2. Updated(b, x) = [n |-> b.n + 1, total |-> b.total + x, spread |-> s]
    BY <1>3 DEF Updated, Baseline
  <2> HIDE DEF s
  <2> QED
    BY <1>1, <2>1, <2>2 DEF Rows
<1> QED
  BY <1>2, <1>3

(* The count is taken in: the new baseline is that of the samples with it, *)
(* and if it lies far above those before it, it has been reported.         *)
LEMMA UpsertBaselineKeeps ==
  ASSUME TablesInv, JobInv, UpsertBaseline
  PROVE  TablesInv' /\ JobInv'
<1> DEFINE key == Key
           old == sampled[key]
           x == job.observed
           b == job.existing
<1>1. /\ job.at = "upsert" /\ job.slot \in Slots /\ job.next \in DOMAIN BaselineSources
      /\ x \in Observed /\ x \in Nat
  BY BaselineAssumption DEF UpsertBaseline, JobInv
<1>2. key \in Keys
  BY <1>1 DEF Key, Keys, Source, SourceSet
<1>3. old \in Seq(Observed) /\ old \in Seq(Nat) /\ Len(old) \in Nat
  <2>1. old \in Seq(Observed)
    BY <1>2 DEF TablesInv
  <2>2. Observed \subseteq Nat
    BY BaselineAssumption
  <2> HIDE DEF old
  <2>3. old \in Seq(Nat)
    BY <2>1, <2>2, SeqMonotonic
  <2> QED
    BY <2>1, <2>3
<1>4. FarAbove(b, x) => ReportedIn(violations, key, b, x)
  BY <1>1 DEF JobInv
<1>5. /\ baselines' = [baselines EXCEPT ![key] = Updated(b, x)]
      /\ sampled' = [sampled EXCEPT ![key] = Append(old, x)]
      /\ undone' = IF baselines[key] = b THEN undone ELSE undone \cup {key}
      /\ violations' = violations
  BY DEF UpsertBaseline
<1>6. JobInv'
  BY <1>1, AfterSourceKeeps DEF UpsertBaseline
<1>7. b \in Rows
  BY <1>1 DEF JobInv
<1> HIDE DEF key, old, x, b
<1>8. /\ baselines' \in [Keys -> Rows] /\ baselines'[key] = Updated(b, x)
      /\ sampled' \in [Keys -> Seq(Observed)] /\ sampled'[key] = Append(old, x)
      /\ \A k \in Keys \ {key} : baselines'[k] = baselines[k] /\ sampled'[k] = sampled[k]
  <2>1. Append(old, x) \in Seq(Observed) /\ Updated(b, x) \in Rows
    BY <1>1, <1>3, <1>7, UpdatedTyped
  <2> QED
    BY <1>2, <1>5, <2>1 DEF TablesInv
<1>9. key \notin undone' => key \notin undone /\ b = BaselineOf(old)
  BY <1>2, <1>5 DEF TablesInv, BaselineOfSamples, old
<1>10. ASSUME NEW k \in Keys \ undone' PROVE baselines'[k] = BaselineOf(sampled'[k])
  <2>1. CASE k = key
    BY <1>1, <1>3, <1>8, <1>9, <1>10, <2>1, BaselineUpdated
  <2>2. CASE k # key
    <3>1. k \notin undone
      BY <1>5, <1>10, <2>2
    <3> QED
      BY <1>8, <2>2, <3>1 DEF TablesInv, BaselineOfSamples
  <2> QED
    BY <2>1, <2>2
<1>11. ASSUME NEW k \in Keys \ undone', NEW i \in DOMAIN sampled'[k], i > MinSamples, i > 1,
              Deviates(BaselineOf(SubSeq(sampled'[k], 1, i - 1)), sampled'[k][i])
       PROVE  ReportedIn(violations, k, BaselineOf(SubSeq(sampled'[k], 1, i - 1)), sampled'[k][i])
  <2>1. CASE k # key
    <3>1. k \notin undone /\ sampled'[k] = sampled[k]
      BY <1>5, <1>8, <1>11, <2>1
    <3> QED
      BY <1>11, <3>1 DEF TablesInv, DeviationsReported, ReportedIn
  <2>2. CASE k = key
    <3> DEFINE new == sampled'[k]
    <3>1. new = Append(old, x) /\ key \notin undone /\ b = BaselineOf(old)
      BY <1>8, <1>9, <1>11, <2>2
    <3>2. i \in 1 .. Len(old) + 1 /\ DOMAIN old = 1 .. Len(old)
      BY <1>1, <1>3, <3>1
    <3>3. CASE i = Len(old) + 1
      <4>1. SubSeq(new, 1, i - 1) = old /\ new[i] = x
        BY <1>1, <1>3, <3>1, <3>3
      <4>2. BaselineOf(old) = b /\ b.n = Len(old) /\ MinSamples \in Nat
        BY <1>1, <1>3, <3>1, BaselineUpdated, BaselineAssumption
      <4>3. b.n >= MinSamples /\ b.n > 0
        BY <1>3, <1>11, <3>3, <4>2
      <4>4. Deviates(b, x)
        BY <1>11, <4>1, <4>2
      <4> QED
        BY <1>4, <2>2, <4>1, <4>2, <4>3, <4>4 DEF FarAbove
    <3>4. CASE i # Len(old) + 1
      <4>1. /\ i \in DOMAIN old /\ SubSeq(new, 1, i - 1) = SubSeq(old, 1, i - 1)
            /\ new[i] = old[i]
        BY <1>1, <1>3, <3>1, <3>2, <3>4
      <4>2. ReportedIn(violations, key, BaselineOf(SubSeq(old, 1, i - 1)), old[i])
        <5>1. Deviates(BaselineOf(SubSeq(old, 1, i - 1)), old[i])
          BY <1>11, <4>1
        <5> QED
          BY <1>2, <1>11, <3>1, <4>1, <5>1 DEF TablesInv, DeviationsReported, ReportedIn, old
      <4> QED
        BY <2>2, <4>1, <4>2
    <3> QED
      BY <3>3, <3>4
  <2> QED
    BY <2>1, <2>2
<1>12. BaselineOfSamples'
  BY <1>10 DEF BaselineOfSamples
<1>13. DeviationsReported'
  BY <1>5, <1>11 DEF DeviationsReported, ReportedIn
<1> QED
  BY <1>5, <1>6, <1>8, <1>12, <1>13 DEF TablesInv

LEMMA ResetKeeps ==
  ASSUME TablesInv, JobInv, NEW source, Reset(source)
  PROVE  TablesInv' /\ JobInv'
<1>1. /\ baselines' = [k \in Keys |-> IF k[1] = source THEN NoBaseline ELSE baselines[k]]
      /\ sampled' = [k \in Keys |-> IF k[1] = source THEN <<>> ELSE sampled[k]]
      /\ undone' = {k \in undone : k[1] # source}
      /\ UNCHANGED <<violations, job>>
  BY DEF Reset
<1>2. baselines' \in [Keys -> Rows] /\ sampled' \in [Keys -> Seq(Observed)]
  BY <1>1, NoBaselineIs DEF TablesInv
<1>3. ASSUME NEW k \in Keys \ undone' PROVE baselines'[k] = BaselineOf(sampled'[k])
  <2>1. CASE k[1] = source
    BY <1>1, <2>1, NoBaselineIs
  <2>2. CASE k[1] # source
    BY <1>1, <1>3, <2>2 DEF TablesInv, BaselineOfSamples
  <2> QED
    BY <2>1, <2>2
<1>4. ASSUME NEW k \in Keys \ undone', NEW i \in DOMAIN sampled'[k], i > MinSamples, i > 1,
             Deviates(BaselineOf(SubSeq(sampled'[k], 1, i - 1)), sampled'[k][i])
      PROVE  ReportedIn(violations, k, BaselineOf(SubSeq(sampled'[k], 1, i - 1)), sampled'[k][i])
  <2>1. k[1] # source
    BY <1>1, <1>4
  <2>2. k \notin undone /\ sampled'[k] = sampled[k]
    BY <1>1, <1>4, <2>1
  <2> QED
    BY <1>4, <2>2 DEF TablesInv, DeviationsReported, ReportedIn
<1>5. BaselineOfSamples'
  BY <1>3 DEF BaselineOfSamples
<1>6. DeviationsReported'
  BY <1>1, <1>4 DEF DeviationsReported, ReportedIn
<1>7. JobInv'
  BY <1>1, JobFrame
<1> QED
  BY <1>1, <1>2, <1>5, <1>6, <1>7 DEF TablesInv

LEMMA BaselinesInitInv == BaselinesInit => TablesInv /\ JobInv
<1> SUFFICES ASSUME BaselinesInit PROVE TablesInv /\ JobInv
  OBVIOUS
<1>1. \A k \in Keys : baselines[k] = NoBaseline /\ sampled[k] = <<>>
  BY DEF BaselinesInit
<1>2. BaselineOfSamples /\ DeviationsReported
  BY <1>1, NoBaselineIs DEF BaselineOfSamples, DeviationsReported
<1>3. baselines \in [Keys -> Rows] /\ sampled \in [Keys -> Seq(Observed)] /\ violations = {}
  BY NoBaselineIs DEF BaselinesInit
<1>4. JobInv
  BY AtRest DEF BaselinesInit, JobInv
<1> QED
  BY <1>2, <1>3, <1>4 DEF TablesInv

LEMMA JobStepKeeps ==
  ASSUME TablesInv, JobInv, JobStep
  PROVE  TablesInv' /\ JobInv'
<1>1. CASE CountFails
  <2>1. job.at # "rest" /\ AfterSource /\ UNCHANGED <<baselines, sampled, violations, undone>>
    BY <1>1 DEF CountFails
  <2> QED
    BY <2>1, AfterSourceKeeps, TablesFrame
<1>2. CASE RoundFails
  BY <1>2, JobRests, TablesFrame DEF RoundFails
<1> QED
  BY <1>1, <1>2, BeginRoundKeeps, CountEventsKeeps, GetBaselineKeeps, InsertViolationKeeps,
     UpsertBaselineKeeps
  DEF JobStep

LEMMA BaselineRequestKeeps ==
  ASSUME TablesInv, JobInv, NEW a \in Admins, BaselineRequest(a)
  PROVE  TablesInv' /\ JobInv'
BY ResetKeeps, AcknowledgeKeeps DEF BaselineRequest

LEMMA BaselinesRestartKeeps ==
  ASSUME TablesInv, JobInv, BaselinesRestart
  PROVE  TablesInv' /\ JobInv'
BY JobRests, TablesFrame DEF BaselinesRestart

(* What an answer is.                                                      *)
LEMMA Answered ==
  ASSUME NEW status \in Nat, NEW rows \in SUBSET Admins
  PROVE  /\ Answer(status, rows) \in [status : Nat, rows : SUBSET Admins]
         /\ Answer(status, rows).status = status /\ Answer(status, rows).rows = rows
BY DEF Answer

LEMMA NoAnswerTyped ==
  /\ NoAnswer \in [status : Nat, rows : SUBSET Admins]
  /\ NoAnswer.status = 0
BY DEF NoAnswer, Answer

(* Whoever starts to execute meets all who do: a request has the lock, so  *)
(* the others are queries of the tool.                                     *)
LEMMA StartMeets ==
  ASSUME SandboxInv, NEW a \in Admins, pc[a] \in {"idle", "lock"}, StartWorker(a),
         a \notin Tools => holders = {}
  PROVE  /\ worker' = [worker EXCEPT ![a] = "execute"]
         /\ Executing' = Executing \cup {a} /\ a \notin Executing
         /\ mixed' = IF Executing = {} THEN mixed \ {a} ELSE mixed \cup Executing \cup {a}
<1>1. worker' = [worker EXCEPT ![a] = "execute"]
  BY DEF StartWorker
<1>2. worker[a] = "none" /\ a \notin Executing
  BY DEF SandboxInv, Executing
<1>3. Executing' = Executing \cup {a}
  BY <1>1 DEF SandboxInv, Executing
<1>4. \A b \in Executing : a \in Tools \/ b \in Tools
  BY DEF SandboxInv, Executing
<1>5. {b \in Executing : a \in Tools \/ b \in Tools} = Executing
  BY <1>4
<1>6. mixed' = (mixed \ {a}) \cup Executing \cup (IF Executing = {} THEN {} ELSE {a})
  BY <1>5 DEF StartWorker
<1> QED
  BY <1>1, <1>2, <1>3, <1>6

LEMMA QueryKeeps ==
  ASSUME SandboxInv, NEW a \in Admins, Query(a)
  PROVE  SandboxInv'
<1>1. pc[a] = "idle" /\ worker[a] = "none" /\ holders' = holders /\ result' = result
  BY DEF Query, Arrive, SandboxInv
<1>2. /\ answer' \in [Admins -> [status : Nat, rows : SUBSET Admins]]
      /\ answer'[a].status = 0
      /\ \A b \in Admins \ {a} : answer'[b] = answer[b]
  BY NoAnswerTyped DEF Query, SandboxInv
<1>3. CASE a \in Tools
  <2>1. pc' = [pc EXCEPT ![a] = "result"] /\ StartWorker(a)
    BY <1>3 DEF Query, Arrive
  <2>2. /\ worker' = [worker EXCEPT ![a] = "execute"]
        /\ Executing' = Executing \cup {a} /\ a \notin Executing
        /\ mixed' = IF Executing = {} THEN mixed \ {a} ELSE mixed \cup Executing \cup {a}
    BY <1>1, <1>3, <2>1, StartMeets
  <2>3. /\ pc' \in [Admins -> {"idle", "lock", "result", "leave"}] /\ pc'[a] = "result"
        /\ worker' \in [Admins -> WorkerStates] /\ worker'[a] = "execute"
        /\ \A b \in Admins \ {a} : pc'[b] = pc[b] /\ worker'[b] = worker[b]
    BY <2>1, <2>2 DEF SandboxInv, WorkerStates
  <2> QED
    BY <1>1, <1>2, <1>3, <2>2, <2>3 DEF SandboxInv
<1>4. CASE a \notin Tools
  <2>1. /\ pc' = [pc EXCEPT ![a] = "lock"] /\ worker' = worker /\ mixed' = mixed
    BY <1>4 DEF Query, Arrive
  <2>2. /\ pc' \in [Admins -> {"idle", "lock", "result", "leave"}] /\ pc'[a] = "lock"
        /\ \A b \in Admins \ {a} : pc'[b] = pc[b]
        /\ Executing' = Executing
    BY <2>1 DEF SandboxInv, Executing
  <2> QED
    BY <1>1, <1>2, <1>4, <2>1, <2>2, SMTT(30) DEF SandboxInv
<1> QED
  BY <1>3, <1>4

LEMMA TakeLockKeeps ==
  ASSUME SandboxInv, NEW a \in Admins, TakeLock(a)
  PROVE  SandboxInv'
<1>1. /\ pc[a] = "lock" /\ holders = {} /\ holders' = {a} /\ StartWorker(a)
      /\ pc' = [pc EXCEPT ![a] = "result"] /\ result' = result /\ answer' = answer
  BY DEF TakeLock, At, Goto
<1>2. /\ worker' = [worker EXCEPT ![a] = "execute"]
      /\ Executing' = Executing \cup {a} /\ a \notin Executing
      /\ mixed' = IF Executing = {} THEN mixed \ {a} ELSE mixed \cup Executing \cup {a}
  BY <1>1, StartMeets
<1>3. /\ pc' \in [Admins -> {"idle", "lock", "result", "leave"}] /\ pc'[a] = "result"
      /\ worker' \in [Admins -> WorkerStates] /\ worker'[a] = "execute"
      /\ \A b \in Admins \ {a} : pc'[b] = pc[b] /\ worker'[b] = worker[b]
  BY <1>1, <1>2 DEF SandboxInv, WorkerStates
<1>4. answer[a].status = 0 /\ a \notin Tools
  BY <1>1 DEF SandboxInv
<1> QED
  BY <1>1, <1>2, <1>3, <1>4 DEF SandboxInv

LEMMA BusyKeeps ==
  ASSUME SandboxInv, NEW a \in Admins, Busy(a)
  PROVE  SandboxInv'
<1>1. /\ pc[a] = "lock" /\ pc' = [pc EXCEPT ![a] = "idle"]
      /\ UNCHANGED <<holders, result, worker, mixed>>
  BY DEF Busy, At, Goto
<1>2. /\ answer' \in [Admins -> [status : Nat, rows : SUBSET Admins]]
      /\ answer'[a].status = 429
      /\ \A b \in Admins \ {a} : answer'[b] = answer[b]
  BY DEF Busy, SandboxInv, Answer
<1>3. /\ pc' \in [Admins -> {"idle", "lock", "result", "leave"}] /\ pc'[a] = "idle"
      /\ \A b \in Admins \ {a} : pc'[b] = pc[b]
      /\ Executing' = Executing /\ worker[a] = "none"
  BY <1>1 DEF SandboxInv, Executing
<1> QED
  BY <1>1, <1>2, <1>3 DEF SandboxInv

(* Nobody but a is about to fetch, of those who have met nobody.           *)
LEMMA AloneExecuting ==
  ASSUME SandboxInv, NEW a \in Executing, NEW b \in Executing, b \notin mixed
  PROVE  a = b
BY DEF SandboxInv, Executing

LEMMA ExecuteKeeps ==
  ASSUME SandboxInv, NEW a \in Admins, Execute(a)
  PROVE  SandboxInv'
<1>1. worker[a] = "execute" /\ UNCHANGED <<pc, holders, answer, mixed>>
  BY DEF Execute
<1>2. \/ worker' = [worker EXCEPT ![a] = "fetch"] /\ result' = {a}
      \/ worker' = [worker EXCEPT ![a] = "raised"] /\ result' = {}
  BY DEF Execute
<1>3. /\ worker' \in [Admins -> WorkerStates] /\ worker'[a] \in {"fetch", "raised"}
      /\ worker'[a] = "fetch" => result' = {a}
      /\ \A b \in Admins \ {a} : worker'[b] = worker[b]
      /\ Executing' \subseteq Executing /\ a \in Executing
  BY <1>1, <1>2 DEF SandboxInv, WorkerStates, Executing
<1>4. ASSUME NEW b \in Admins \ mixed, worker'[b] = "fetch" PROVE result' = {b}
  <2>1. CASE b = a
    BY <1>3, <1>4, <2>1
  <2>2. CASE b # a
    BY <1>3, <1>4, <2>2, AloneExecuting DEF Executing
  <2> QED
    BY <2>1, <2>2
<1>5. result' \subseteq Admins
  BY <1>2
<1>6. /\ \A b \in Admins : worker'[b] # "none" <=> worker[b] # "none"
      /\ \A b \in Admins : worker'[b] = "fetched" => worker[b] = "fetched"
  BY <1>1, <1>3 DEF SandboxInv
<1>7. /\ \A b \in Admins : worker'[b] # "none" <=> pc'[b] \in {"result", "leave"}
      /\ \A b \in Admins \ Tools : worker'[b] # "none" => holders' = {b}
      /\ \A b, c \in Executing' : b # c => b \in mixed'
  BY <1>1, <1>3, <1>6 DEF SandboxInv
<1>8. \A b \in Admins \ mixed' :
        /\ worker'[b] = "fetch" => result' = {b}
        /\ worker'[b] = "fetched" => answer'[b].rows = {b}
        /\ answer'[b].status = 200 => answer'[b].rows = {b}
  BY <1>1, <1>4, <1>6 DEF SandboxInv
<1> QED
  BY <1>1, <1>3, <1>5, <1>7, <1>8 DEF SandboxInv

LEMMA FetchKeeps ==
  ASSUME SandboxInv, NEW a \in Admins, Fetch(a)
  PROVE  SandboxInv'
<1>1. /\ worker[a] = "fetch" /\ UNCHANGED <<pc, holders, mixed>> /\ result' = {}
      /\ \/ worker' = [worker EXCEPT ![a] = "fetched"]
         \/ worker' = [worker EXCEPT ![a] = "raised"]
  BY DEF Fetch
<1>2. /\ worker' \in [Admins -> WorkerStates] /\ worker'[a] \in {"fetched", "raised"}
      /\ \A b \in Admins \ {a} : worker'[b] = worker[b]
      /\ Executing' = Executing \ {a} /\ a \in Executing
  BY <1>1, SMTT(30) DEF SandboxInv, WorkerStates, Executing
<1>3. /\ answer' \in [Admins -> [status : Nat, rows : SUBSET Admins]]
      /\ answer'[a].status = 0 /\ answer'[a].rows = result
      /\ \A b \in Admins \ {a} : answer'[b] = answer[b]
  BY DEF Fetch, SandboxInv, Answer
<1>4. ASSUME NEW b \in Admins \ mixed, worker'[b] = "fetch" PROVE FALSE
  BY <1>2, <1>4, AloneExecuting DEF Executing
<1>5. pc[a] # "idle" /\ (a \notin mixed => result = {a})
  BY <1>1 DEF SandboxInv
<1>6. /\ \A b \in Admins : worker'[b] # "none" <=> pc'[b] \in {"result", "leave"}
      /\ \A b \in Admins \ Tools : worker'[b] # "none" => holders' = {b}
      /\ \A b, c \in Executing' : b # c => b \in mixed'
      /\ \A b \in Admins : pc'[b] # "idle" => answer'[b].status = 0
  BY <1>1, <1>2, <1>3, <1>5 DEF SandboxInv
<1>7. ASSUME NEW b \in Admins \ mixed'
      PROVE  /\ worker'[b] = "fetch" => result' = {b}
             /\ worker'[b] = "fetched" => answer'[b].rows = {b}
             /\ answer'[b].status = 200 => answer'[b].rows = {b}
  <2>1. CASE b = a
    BY <1>1, <1>2, <1>3, <1>5, <2>1
  <2>2. CASE b # a
    BY <1>1, <1>2, <1>3, <1>4, <2>2 DEF SandboxInv
  <2> QED
    BY <2>1, <2>2
<1> QED
  BY <1>1, <1>2, <1>3, <1>6, <1>7 DEF SandboxInv

LEMMA TimeoutKeeps ==
  ASSUME SandboxInv, NEW a \in Admins, Timeout(a)
  PROVE  SandboxInv'
<1>1. /\ pc[a] = "result" /\ a \notin Tools /\ pc' = [pc EXCEPT ![a] = "leave"]
      /\ UNCHANGED sandboxVars
  BY DEF Timeout, At, Goto
<1>2. Executing' = Executing
  BY <1>1 DEF Executing, sandboxVars
<1> QED
  BY <1>1, <1>2 DEF SandboxInv, sandboxVars

(* A query that ends gives up its worker, and a request the lock.          *)
LEMMA ReleaseKeeps ==
  ASSUME SandboxInv, NEW a \in Admins, pc[a] \in {"result", "leave"}, Release(a), Ended(a),
         answer' \in [Admins -> [status : Nat, rows : SUBSET Admins]],
         \A b \in Admins \ {a} : answer'[b] = answer[b],
         answer'[a].status = 200 => worker[a] = "fetched" /\ answer'[a].rows = answer[a].rows
  PROVE  SandboxInv'
<1>1. /\ pc' = [pc EXCEPT ![a] = "idle"] /\ worker' = [worker EXCEPT ![a] = "none"]
      /\ holders' = holders \ {a} /\ result' = result /\ mixed' = mixed
  BY DEF Release, Goto
<1>2. /\ pc' \in [Admins -> {"idle", "lock", "result", "leave"}] /\ pc'[a] = "idle"
      /\ worker' \in [Admins -> WorkerStates] /\ worker'[a] = "none"
      /\ \A b \in Admins \ {a} : pc'[b] = pc[b] /\ worker'[b] = worker[b]
      /\ Executing' = Executing
  BY <1>1 DEF SandboxInv, WorkerStates, Executing, Ended
<1>3. ASSUME NEW b \in Admins \ Tools, worker'[b] # "none" PROVE holders' = {b}
  <2>1. b # a /\ holders = {b}
    BY <1>2, <1>3 DEF SandboxInv
  <2> QED
    BY <1>1, <2>1
<1>4. ASSUME NEW b \in Admins \ mixed
      PROVE  /\ worker'[b] = "fetch" => result' = {b}
             /\ worker'[b] = "fetched" => answer'[b].rows = {b}
             /\ answer'[b].status = 200 => answer'[b].rows = {b}
  BY <1>1, <1>2 DEF SandboxInv
<1> QED
  BY <1>1, <1>2, <1>3, <1>4 DEF SandboxInv

LEMMA TimedOutKeeps ==
  ASSUME SandboxInv, NEW a \in Admins, TimedOut(a)
  PROVE  SandboxInv'
<1>1. /\ answer' \in [Admins -> [status : Nat, rows : SUBSET Admins]]
      /\ answer'[a].status = 408
      /\ \A b \in Admins \ {a} : answer'[b] = answer[b]
  BY DEF TimedOut, SandboxInv, Answer
<1> QED
  BY <1>1, ReleaseKeeps DEF TimedOut, At

LEMMA RespondKeeps ==
  ASSUME SandboxInv, NEW a \in Admins, Respond(a)
  PROVE  SandboxInv'
<1>1. pc[a] = "result" /\ Ended(a) /\ Release(a)
  BY DEF Respond, At
<1>2. CASE worker[a] = "raised"
  <2>1. answer' = [answer EXCEPT ![a] = Answer(500, {})]
    BY <1>2 DEF Respond
  <2>2. /\ answer' \in [Admins -> [status : Nat, rows : SUBSET Admins]]
        /\ answer'[a].status = 500
        /\ \A b \in Admins \ {a} : answer'[b] = answer[b]
    BY <2>1, Answered DEF SandboxInv
  <2> QED
    BY <1>1, <2>2, ReleaseKeeps
<1>3. CASE worker[a] # "raised"
  <2>1. /\ answer' = [answer EXCEPT ![a] = Answer(200, answer[a].rows)]
        /\ answer[a].rows \in SUBSET Admins
    BY <1>3 DEF Respond, SandboxInv
  <2>2. /\ answer' \in [Admins -> [status : Nat, rows : SUBSET Admins]]
        /\ answer'[a].rows = answer[a].rows
        /\ \A b \in Admins \ {a} : answer'[b] = answer[b]
    BY <2>1, Answered DEF SandboxInv
  <2>3. worker[a] = "fetched"
    BY <1>1, <1>3 DEF Ended
  <2> QED
    BY <1>1, <2>2, <2>3, ReleaseKeeps
<1> QED
  BY <1>2, <1>3

LEMMA SandboxStepKeeps ==
  ASSUME SandboxInv, NEW a \in Admins, SandboxStep(a)
  PROVE  SandboxInv'
BY QueryKeeps, TakeLockKeeps, BusyKeeps, ExecuteKeeps, FetchKeeps, TimeoutKeeps, TimedOutKeeps,
   RespondKeeps DEF SandboxStep

LEMMA SandboxFresh ==
  ASSUME pc = [a \in Admins |-> "idle"], SandboxUnused, result = {}
  PROVE  SandboxInv
<1>1. Executing = {}
  BY DEF Executing, SandboxUnused
<1> QED
  BY <1>1, NoAnswerTyped DEF SandboxInv, SandboxUnused, WorkerStates

(* What the sandbox promises, by its invariant or because it is not used.  *)
LEMMA SandboxPromise == SandboxInv \/ SandboxUnused => OwnRows
<1>1. ASSUME SandboxInv PROVE OwnRows
  <2>1. Cardinality(Executing \ Tools) <= 1
    <3>1. CASE Executing \ Tools = {}
      BY <3>1, FS_EmptySet
    <3>2. CASE Executing \ Tools # {}
      <4>1. PICK a \in Admins \ Tools : worker[a] # "none"
        BY <3>2 DEF Executing
      <4>2. \A b \in Executing \ Tools : b = a
        <5>1. ASSUME NEW b \in Executing \ Tools PROVE b = a
          <6>1. holders = {a} /\ holders = {b}
            BY <1>1, <4>1 DEF SandboxInv, Executing
          <6> QED
            BY <6>1
        <5> QED
          BY <5>1
      <4>3. Executing \ Tools = {a}
        BY <3>2, <4>2
      <4>4. Cardinality({a}) = 1
        BY FS_Singleton
      <4> QED
        BY <4>3, <4>4
    <3> QED
      BY <3>1, <3>2
  <2> QED
    BY <1>1, <2>1 DEF SandboxInv, OwnRows
<1>2. ASSUME SandboxUnused PROVE OwnRows
  <2>1. Executing \ Tools = {}
    BY <1>2 DEF SandboxUnused, Executing
  <2> QED
    BY <1>2, <2>1, FS_EmptySet, NoAnswerTyped DEF SandboxUnused, OwnRows
<1> QED
  BY <1>1, <1>2

-----------------------------------------------------------------------------

LEMMA Configured ==
  ASSUME NEW p \in Providers \cup {"none"}, NEW key \in SUBSET Providers
  PROVE  /\ Config(p, key) \in Configs
         /\ Config(p, key).provider = p /\ Config(p, key).key = key
BY DEF Config, Configs

LEMMA NoConfigured ==
  /\ NoConfig \in Configs /\ OwnKey(NoConfig)
  /\ NoConfig.provider = "none" /\ NoConfig.key = {} /\ NoConfig.provider \notin Keyed
BY Configured, AssistantAssumption DEF NoConfig, OwnKey

LEMMA Ordered ==
  ASSUME NEW now \in Nat, NEW asked \in Configs, NEW read \in Configs
  PROVE  /\ Order(now, asked, read) \in Orders
         /\ Order(now, asked, read).now = now
         /\ Order(now, asked, read).asked = asked
         /\ Order(now, asked, read).read = read
BY DEF Order, Orders

LEMMA NoOrdered == NoOrder \in Orders
BY Ordered, NoConfigured DEF NoOrder

(* An answer: the thread is idle again, and has no order.                  *)
LEMMA Finished ==
  ASSUME KeysInv, NEW a \in Admins, Finish(a)
  PROVE  /\ pc' \in [Admins -> {"idle", "readRow", "replace", "record", "provider", "key"}]
         /\ order' \in [Admins -> Orders]
         /\ pc'[a] = "idle"
         /\ \A b \in Admins \ {a} : pc'[b] = pc[b] /\ order'[b] = order[b]
BY NoOrdered DEF Finish, Goto, KeysInv

(* A thread that takes the row down has it in hand, and its order.         *)
LEMMA RowInHand ==
  ASSUME KeysInv, NEW a \in Admins, order' = [order EXCEPT ![a].read = config]
  PROVE  /\ order' \in [Admins -> Orders]
         /\ order'[a].read = config /\ order'[a].asked = order[a].asked
         /\ \A b \in Admins \ {a} : order'[b] = order[b]
BY DEF KeysInv, Orders

LEMMA SaveConfigKeeps ==
  ASSUME KeysInv, NEW a \in Admins, NEW p \in Providers, NEW key \in SUBSET Providers,
         SaveConfig(a, p, key)
  PROVE  KeysInv'
<1> DEFINE o == Order(0, Config(p, key), NoConfig)
<1>1. /\ Config(p, key) \in Configs
      /\ Config(p, key).provider = p /\ Config(p, key).key = key
  BY Configured
<1>2. o \in Orders /\ o.asked = Config(p, key)
  BY <1>1, NoConfigured, Ordered
<1>3. OwnKey(o.asked) /\ Suffices(o.asked, config)
  BY <1>1, <1>2 DEF SaveConfig, OwnKey, Suffices
<1> HIDE DEF o
<1>4. order' = [order EXCEPT ![a] = o]
  BY DEF SaveConfig, o
<1>5. /\ pc' \in [Admins -> {"idle", "readRow", "replace", "record", "provider", "key"}]
      /\ pc'[a] = "readRow"
      /\ order' \in [Admins -> Orders] /\ order'[a] = o
      /\ \A b \in Admins \ {a} : pc'[b] = pc[b] /\ order'[b] = order[b]
      /\ crossed' = crossed \ {a}
      /\ UNCHANGED <<config, excused, lastCall>>
  BY <1>2, <1>4 DEF SaveConfig, Arrive, KeysInv
<1> QED
  BY <1>3, <1>5 DEF KeysInv, KeysStayHome

LEMMA ReadRowKeeps ==
  ASSUME KeysInv, NEW a \in Admins, ReadRow(a)
  PROVE  KeysInv'
<1>1. /\ pc[a] = "readRow"
      /\ pc' \in [Admins -> {"idle", "readRow", "replace", "record", "provider", "key"}]
      /\ pc'[a] = "replace" /\ \A b \in Admins \ {a} : pc'[b] = pc[b]
      /\ UNCHANGED <<config, crossed, excused, lastCall>>
  BY DEF ReadRow, At, Goto, KeysInv
<1>2. /\ order' \in [Admins -> Orders]
      /\ order'[a].read = config /\ order'[a].asked = order[a].asked
      /\ \A b \in Admins \ {a} : order'[b] = order[b]
  BY RowInHand DEF ReadRow
<1> QED
  BY <1>1, <1>2 DEF KeysInv, KeysStayHome

LEMMA EncryptRaisesKeeps ==
  ASSUME KeysInv, NEW a \in Admins, EncryptRaises(a)
  PROVE  KeysInv'
<1>1. Finish(a) /\ UNCHANGED <<config, crossed, excused, lastCall>>
  BY DEF EncryptRaises
<1> QED
  BY <1>1, Finished DEF KeysInv, KeysStayHome

(* Whatever replaces the row crosses all others.                           *)
LEMMA ReplacementKeeps ==
  ASSUME KeysInv, NEW a \in Admins, Finish(a), NEW c \in Configs, config' = c, OwnKey(c),
         c.provider \in Keyed /\ c.key = {} => a \in crossed,
         crossed' = crossed \cup (Admins \ {a}), excused' = (a \in crossed), lastCall' = lastCall
  PROVE  KeysInv'
<1>1. KeysStayHome'
  BY DEF KeysInv, KeysStayHome
<1> QED
  BY <1>1, Finished DEF KeysInv

(* What a save stores is its provider's own key; and none, where one is    *)
(* needed, only if another save came between.                              *)
LEMMA ReplaceRowKeeps ==
  ASSUME KeysInv, NEW a \in Admins, ReplaceRow(a)
  PROVE  KeysInv'
<1> DEFINE o == order[a]
<1>1. /\ pc[a] = "replace" /\ Finish(a)
      /\ config' = Config(o.asked.provider, Carried(o))
      /\ crossed' = crossed \cup (Admins \ {a}) /\ excused' = (a \in crossed)
      /\ lastCall' = lastCall
  BY DEF ReplaceRow, At
<1>2. /\ o \in Orders /\ OwnKey(o.asked) /\ OwnKey(o.read)
      /\ a \notin crossed => Suffices(o.asked, config) /\ o.read = config
  BY <1>1 DEF KeysInv
<1> HIDE DEF o
<1>3. Carried(o) \in SUBSET Providers /\ o.asked.provider \in Providers \cup {"none"}
  BY <1>2 DEF Carried, Orders, Configs
<1>4. Carried(o) \subseteq {o.asked.provider}
  BY <1>2 DEF Carried, OwnKey
<1>5. a \notin crossed => o.asked.provider \notin Keyed \/ Carried(o) # {}
  BY <1>2 DEF Suffices, Carried
<1> DEFINE c == Config(o.asked.provider, Carried(o))
<1>6. c \in Configs /\ c.provider = o.asked.provider /\ c.key = Carried(o)
  BY <1>3, Configured
<1>7. config' = c
  BY <1>1
<1> HIDE DEF c
<1>8. OwnKey(c) /\ (c.provider \in Keyed /\ c.key = {} => a \in crossed)
  BY <1>4, <1>5, <1>6 DEF OwnKey
<1> QED
  BY <1>1, <1>6, <1>7, <1>8, ReplacementKeeps

LEMMA InsertFailsKeeps ==
  ASSUME KeysInv, NEW a \in Admins, InsertFails(a)
  PROVE  KeysInv'
BY NoConfigured, ReplacementKeeps DEF InsertFails

LEMMA BeginCallKeeps ==
  ASSUME KeysInv, clock \in Nat, NEW a \in Admins, BeginCall(a)
  PROVE  KeysInv'
<1> DEFINE o == Order(clock, NoConfig, NoConfig)
<1>1. o \in Orders
  BY NoConfigured, Ordered
<1> HIDE DEF o
<1>2. order' = [order EXCEPT ![a] = o]
  BY DEF BeginCall, o
<1>3. /\ pc' \in [Admins -> {"idle", "readRow", "replace", "record", "provider", "key"}]
      /\ pc'[a] = "record"
      /\ order' \in [Admins -> Orders]
      /\ \A b \in Admins \ {a} : pc'[b] = pc[b] /\ order'[b] = order[b]
      /\ UNCHANGED <<config, crossed, excused, lastCall>>
  BY <1>1, <1>2 DEF BeginCall, Arrive, KeysInv
<1> QED
  BY <1>3 DEF KeysInv, KeysStayHome

LEMMA RecordCallKeeps ==
  ASSUME KeysInv, NEW a \in Admins, RecordCall(a)
  PROVE  KeysInv'
<1>1. /\ pc' \in [Admins -> {"idle", "readRow", "replace", "record", "provider", "key"}]
      /\ pc'[a] \in {"provider", "idle"}
      /\ order' \in [Admins -> Orders]
      /\ \A b \in Admins \ {a} : pc'[b] = pc[b] /\ order'[b] = order[b]
      /\ UNCHANGED <<config, crossed, excused, lastCall>>
  BY NoOrdered DEF RecordCall, Goto, KeysInv
<1> QED
  BY <1>1 DEF KeysInv, KeysStayHome

LEMMA TestConfigKeeps ==
  ASSUME KeysInv, NEW a \in Admins, TestConfig(a)
  PROVE  KeysInv'
<1>1. /\ pc' \in [Admins -> {"idle", "readRow", "replace", "record", "provider", "key"}]
      /\ pc'[a] = "provider" /\ \A b \in Admins \ {a} : pc'[b] = pc[b]
      /\ UNCHANGED <<config, order, crossed, excused, lastCall>>
  BY DEF TestConfig, Arrive, assistantVars, KeysInv
<1> QED
  BY <1>1 DEF KeysInv, KeysStayHome

LEMMA ReadProviderKeeps ==
  ASSUME KeysInv, NEW a \in Admins, ReadProvider(a)
  PROVE  KeysInv'
<1>1. crossed' = crossed \ {a} /\ UNCHANGED <<config, excused, lastCall>>
  BY DEF ReadProvider
<1>2. CASE config = NoConfig
  <2>1. Finish(a)
    BY <1>2 DEF ReadProvider
  <2> QED
    BY <1>1, <2>1, Finished DEF KeysInv, KeysStayHome
<1>3. CASE config # NoConfig
  <2>1. /\ pc' \in [Admins -> {"idle", "readRow", "replace", "record", "provider", "key"}]
        /\ pc'[a] = "key" /\ \A b \in Admins \ {a} : pc'[b] = pc[b]
    BY <1>3 DEF ReadProvider, Goto, KeysInv
  <2>2. /\ order' \in [Admins -> Orders] /\ order'[a].read = config
        /\ \A b \in Admins \ {a} : order'[b] = order[b]
    BY <1>3, RowInHand DEF ReadProvider
  <2> QED
    BY <1>1, <2>1, <2>2 DEF KeysInv, KeysStayHome
<1> QED
  BY <1>2, <1>3

(* The call has both of one row, unless a save came between.               *)
LEMMA ReadKeyKeeps ==
  ASSUME KeysInv, NEW a \in Admins, ReadKey(a)
  PROVE  KeysInv'
<1>1. pc[a] = "key" /\ Finish(a) /\ UNCHANGED <<config, crossed, excused>>
  BY DEF ReadKey, At
<1>2. lastCall' \in Configs /\ OwnKey(lastCall')
  <2>1. CASE a \in crossed
    BY <2>1, NoConfigured DEF ReadKey
  <2>2. CASE a \notin crossed
    <3>1. lastCall' = Config(config.provider, config.key)
      BY <1>1, <2>2 DEF ReadKey, KeysInv
    <3>2. config.provider \in Providers \cup {"none"} /\ config.key \in SUBSET Providers
      BY DEF KeysInv, Configs
    <3>3. OwnKey(config)
      BY DEF KeysInv, KeysStayHome
    <3>4. /\ lastCall' \in Configs
          /\ lastCall'.provider = config.provider /\ lastCall'.key = config.key
      BY <3>1, <3>2, Configured
    <3> QED
      BY <3>3, <3>4 DEF OwnKey
  <2> QED
    BY <2>1, <2>2
<1> QED
  BY <1>1, <1>2, Finished DEF KeysInv, KeysStayHome

LEMMA KeysKept ==
  ASSUME KeysInv, clock \in Nat, NEW a \in Admins, AssistantStep(a)
  PROVE  KeysInv'
BY SaveConfigKeeps, ReadRowKeeps, EncryptRaisesKeeps, ReplaceRowKeeps, InsertFailsKeeps,
   BeginCallKeeps, RecordCallKeeps, TestConfigKeeps, ReadProviderKeeps, ReadKeyKeeps
DEF AssistantStep

-----------------------------------------------------------------------------

LEMMA MaxOfTwo ==
  ASSUME NEW x \in Int, NEW y \in Int
  PROVE  Max({x, y}) \in {x, y} /\ Max({x, y}) >= x /\ Max({x, y}) >= y
<1>1. \E z \in {x, y} : \A w \in {x, y} : z >= w
  BY SMT
<1> QED
  BY <1>1 DEF Max

(* What is kept of the times is what is left without some from the front,  *)
(* all of them more than a day old.                                        *)
LEMMA KeptIs ==
  ASSUME NEW times \in Seq(Nat), NEW now \in Int
  PROVE  \E k \in 0 .. Len(times) :
           /\ Kept(times, now) \in Seq(Nat) /\ Len(Kept(times, now)) = Len(times) - k
           /\ \A j \in 1 .. Len(times) - k : Kept(times, now)[j] = times[k + j]
           /\ \A i \in 1 .. k : times[i] < now - Day
<1> DEFINE Recent == {i \in 1 .. Len(times) : times[i] >= now - Day}
<1>0. Day \in Nat
  BY AssistantAssumption
<1>1. CASE Recent = {}
  <2>1. Kept(times, now) = <<>>
    BY <1>1 DEF Kept, SelectInSeq
  <2>2. \A i \in 1 .. Len(times) : times[i] < now - Day
    BY <1>0, <1>1
  <2> WITNESS Len(times) \in 0 .. Len(times)
  <2> QED
    BY <2>1, <2>2
<1>2. CASE Recent # {}
  <2>1. Recent \in SUBSET Nat
    OBVIOUS
  <2>2. \E i \in Recent : \A j \in Recent : i <= j
    <3> HIDE DEF Recent
    <3> QED
      BY <1>2, <2>1, LeastExists
  <2> DEFINE first == Min(Recent)
  <2>3. first \in Recent /\ \A j \in Recent : first <= j
    BY <2>2 DEF Min
  <2>4. Kept(times, now) = SubSeq(times, first, Len(times))
    <3>1. first # 0
      BY <2>3
    <3> QED
      BY <1>2, <3>1 DEF Kept, SelectInSeq
  <2>5. first \in 1 .. Len(times)
    <3> HIDE DEF first
    <3> QED
      BY <2>3
  <2>6. ASSUME NEW i \in 1 .. first - 1 PROVE times[i] < now - Day
    <3> HIDE DEF first
    <3>1. i \in 1 .. Len(times) /\ i \notin Recent /\ times[i] \in Nat
      BY <2>3, <2>5
    <3> QED
      BY <1>0, <3>1
  <2> HIDE DEF first, Recent
  <2>7. first - 1 \in 0 .. Len(times)
    BY <2>5
  <2> WITNESS first - 1 \in 0 .. Len(times)
  <2> QED
    BY <2>4, <2>5, <2>6
<1> QED
  BY <1>1, <1>2

LEMMA CountedFinite ==
  ASSUME recorded \in Seq([now : Nat, after : Nat]), NEW t
  PROVE  IsFiniteSet(InTime(t)) /\ IsFiniteSet(Late(t)) /\ IsFiniteSet(Waiting(t))
<1>1. DOMAIN recorded = 1 .. Len(recorded) /\ IsFiniteSet(1 .. Len(recorded))
  BY FS_Interval
<1>2. InTime(t) \subseteq 1 .. Len(recorded) /\ Late(t) \subseteq 1 .. Len(recorded)
  BY <1>1 DEF InTime, Late
<1>3. Waiting(t) \subseteq Admins
  BY DEF Waiting
<1> QED
  BY <1>1, <1>2, <1>3, FS_Subset, AssistantAssumption

LEMMA CountedTyped ==
  ASSUME recorded \in Seq([now : Nat, after : Nat]), NEW i \in 1 .. Len(recorded)
  PROVE  recorded[i].now \in Nat /\ recorded[i].after \in Nat
<1> DEFINE R == [now : Nat, after : Nat]
<1>1. recorded[i] \in R
  <2> HIDE DEF R
  <2>1. recorded \in Seq(R)
    BY DEF R
  <2> QED
    BY <2>1
<1> QED
  BY <1>1

(* Steps that count no call: the threads that come late are the same, or   *)
(* fewer.                                                                  *)
LEMMA LimitFrame ==
  ASSUME LimitInv, UNCHANGED <<calls, recorded, newest>>, clock' \in Nat, clock' >= clock,
         \A b \in Admins : order[b].now \in Nat,
         \A b \in Admins : pc'[b] = "record" =>
            \/ pc[b] = "record" /\ order'[b].now = order[b].now
            \/ order'[b].now = clock
  PROVE  LimitInv'
<1>0. clock \in Nat /\ newest' \in 0 .. clock'
  BY DEF LimitInv
<1>1. /\ calls' \in Seq(Nat)
      /\ recorded' \in Seq([now : Nat, after : Nat])
      /\ \A i \in DOMAIN recorded' : recorded'[i].now <= newest' /\ recorded'[i].after <= newest'
  BY DEF LimitInv
<1>5. ASSUME NEW b \in Admins, pc'[b] = "record" PROVE order'[b].now <= clock'
  BY <1>0, <1>5 DEF LimitInv
<1>2. \E k \in 0 .. Len(recorded') : LeftOver(k)'
  BY DEF LimitInv, LeftOver
<1>3. ASSUME NEW t \in Nat PROVE Cardinality(InTime(t)') <= DailyLimit
  BY DEF LimitInv, InTime
<1>4. ASSUME NEW t \in Nat, newest' > t
      PROVE  Cardinality(Late(t)') + Cardinality(Waiting(t)') <= Cardinality(Admins) - 1
  <2>1. Late(t)' = Late(t)
    BY DEF Late
  <2>2. Waiting(t)' \subseteq Waiting(t)
    BY <1>4 DEF Waiting, LimitInv
  <2>3. IsFiniteSet(Waiting(t)) /\ IsFiniteSet(Late(t))
    BY CountedFinite DEF LimitInv
  <2>4. Cardinality(Waiting(t)') <= Cardinality(Waiting(t))
    BY <2>2, <2>3, FS_Subset
  <2>5. /\ Cardinality(Waiting(t)) \in Nat /\ Cardinality(Waiting(t)') \in Nat
        /\ Cardinality(Late(t)) \in Nat /\ Cardinality(Admins) \in Nat
    BY <2>2, <2>3, FS_Subset, FS_CardinalityType, AssistantAssumption
  <2>6. Cardinality(Late(t)) + Cardinality(Waiting(t)) <= Cardinality(Admins) - 1
    BY <1>4 DEF LimitInv
  <2> QED
    BY <2>1, <2>4, <2>5, <2>6
<1> QED
  BY <1>0, <1>1, <1>2, <1>3, <1>4, <1>5 DEF LimitInv

(* What is kept when a thread counts: what is left of recorded without     *)
(* some more that are older than a day.                                    *)
LEMMA KeptLeft ==
  ASSUME LimitInv, NEW now \in Nat, NEW latest \in Nat, latest >= newest, latest >= now
  PROVE  \E k \in 0 .. Len(recorded) :
           /\ Kept(calls, now) \in Seq(Nat) /\ Len(Kept(calls, now)) = Len(recorded) - k
           /\ \A j \in 1 .. Len(recorded) - k : Kept(calls, now)[j] = recorded[k + j].now
           /\ \A i \in 1 .. k : recorded[i].now < latest - Day
<1>1. PICK k \in 0 .. Len(recorded) : LeftOver(k)
  BY DEF LimitInv
<1>2. /\ calls \in Seq(Nat) /\ recorded \in Seq([now : Nat, after : Nat])
      /\ newest \in Nat /\ Day \in Nat /\ now \in Int
      /\ Len(calls) \in Nat /\ Len(recorded) \in Nat /\ k \in Nat
  BY AssistantAssumption DEF LimitInv
<1>3. PICK m \in 0 .. Len(calls) :
        /\ Kept(calls, now) \in Seq(Nat) /\ Len(Kept(calls, now)) = Len(calls) - m
        /\ \A j \in 1 .. Len(calls) - m : Kept(calls, now)[j] = calls[m + j]
        /\ \A i \in 1 .. m : calls[i] < now - Day
  BY <1>2, KeptIs
<1>8. m \in Nat
  BY <1>2
<1>4. /\ Len(calls) = Len(recorded) - k
      /\ \A j \in 1 .. Len(calls) : calls[j] = recorded[k + j].now
      /\ \A i \in 1 .. k : recorded[i].now < newest - Day
  BY <1>1 DEF LeftOver
<1>5. k + m \in 0 .. Len(recorded) /\ Len(Kept(calls, now)) = Len(recorded) - (k + m)
  BY <1>2, <1>3, <1>4
<1>6. ASSUME NEW j \in 1 .. Len(recorded) - (k + m)
      PROVE  Kept(calls, now)[j] = recorded[(k + m) + j].now
  <2>1. j \in 1 .. Len(calls) - m /\ m + j \in 1 .. Len(calls) /\ k + (m + j) = (k + m) + j
    BY <1>2, <1>4, <1>8
  <2> QED
    BY <1>3, <1>4, <2>1
<1>7. ASSUME NEW i \in 1 .. k + m PROVE recorded[i].now < latest - Day
  <2>1. recorded[i].now \in Nat
    <3>1. i \in 1 .. Len(recorded)
      BY <1>2, <1>5, <1>8
    <3> QED
      BY <1>2, <3>1, CountedTyped
  <2>2. CASE i <= k
    <3>1. i \in 1 .. k
      BY <1>2, <1>8, <2>2
    <3>2. recorded[i].now < newest - Day
      BY <1>4, <3>1
    <3> QED
      BY <1>2, <2>1, <3>2
  <2>3. CASE i > k
    <3>1. i - k \in 1 .. m /\ i - k \in 1 .. Len(calls) /\ k + (i - k) = i
      BY <1>2, <1>8, <2>3
    <3>2. recorded[i].now < now - Day
      BY <1>3, <1>4, <3>1
    <3> QED
      BY <1>2, <2>1, <3>2
  <2> QED
    BY <2>2, <2>3
<1> WITNESS k + m \in 0 .. Len(recorded)
<1> QED
  BY <1>3, <1>5, <1>6, <1>7

(* Whoever counts late leaves one less to do so; and at the moment that    *)
(* time passes t, the thread that counted it is not late itself.           *)
LEMMA StillLate ==
  ASSUME LimitInv, NEW a \in Admins, NEW t \in Nat, pc[a] = "record", order[a].now \in Nat,
         newest' = Max({newest, order[a].now}), newest' > t,
         Late(t)' \subseteq Late(t) \cup (IF order[a].now <= t THEN {Len(recorded) + 1} ELSE {}),
         Waiting(t)' \subseteq Waiting(t) \ {a}
  PROVE  Cardinality(Late(t)') + Cardinality(Waiting(t)') <= Cardinality(Admins) - 1
<1>1. /\ recorded \in Seq([now : Nat, after : Nat]) /\ newest \in Nat
      /\ IsFiniteSet(Late(t)) /\ IsFiniteSet(Waiting(t))
      /\ IsFiniteSet(Admins) /\ Cardinality(Admins) \in Nat
  BY CountedFinite, AssistantAssumption, FS_CardinalityType DEF LimitInv
<1>2. newest' \in {newest, order[a].now}
  <2>1. newest \in Int /\ order[a].now \in Int
    BY <1>1
  <2> QED
    BY <2>1, MaxOfTwo
<1>3. CASE newest > t
  <2>1. Cardinality(Late(t)) + Cardinality(Waiting(t)) <= Cardinality(Admins) - 1
    BY <1>3 DEF LimitInv
  <2>2. Cardinality(Late(t)) \in Nat /\ Cardinality(Waiting(t)) \in Nat
    BY <1>1, FS_CardinalityType
  <2>3. CASE order[a].now <= t
    <3>1. a \in Waiting(t)
      BY <2>3 DEF Waiting
    <3>2. /\ IsFiniteSet(Waiting(t) \ {a})
          /\ Cardinality(Waiting(t) \ {a}) = Cardinality(Waiting(t)) - 1
      BY <1>1, <3>1, FS_RemoveElement
    <3>3. Cardinality(Waiting(t)') \in Nat /\ Cardinality(Waiting(t)') <= Cardinality(Waiting(t)) - 1
      BY <3>2, FS_Subset, FS_CardinalityType
    <3> DEFINE More == Late(t) \cup {Len(recorded) + 1}
    <3>4. IsFiniteSet(More) /\ Cardinality(More) <= Cardinality(Late(t)) + 1
      <4>1. /\ IsFiniteSet(More)
            /\ Cardinality(More) = IF Len(recorded) + 1 \in Late(t) THEN Cardinality(Late(t))
                                    ELSE Cardinality(Late(t)) + 1
        BY <1>1, FS_AddElement
      <4> QED
        BY <2>2, <4>1
    <3>5. Late(t)' \subseteq More
      BY <2>3
    <3> HIDE DEF More
    <3>6. /\ Cardinality(Late(t)') \in Nat /\ Cardinality(More) \in Nat
          /\ Cardinality(Late(t)') <= Cardinality(More)
      BY <3>4, <3>5, FS_Subset, FS_CardinalityType
    <3> QED
      BY <1>1, <2>1, <2>2, <3>3, <3>4, <3>6
  <2>4. CASE ~ (order[a].now <= t)
    <3>1. Late(t)' \subseteq Late(t) /\ Waiting(t)' \subseteq Waiting(t)
      BY <2>4
    <3>2. /\ Cardinality(Late(t)') \in Nat /\ Cardinality(Late(t)') <= Cardinality(Late(t))
          /\ Cardinality(Waiting(t)') \in Nat /\ Cardinality(Waiting(t)') <= Cardinality(Waiting(t))
      BY <1>1, <3>1, FS_Subset, FS_CardinalityType
    <3> QED
      BY <1>1, <2>1, <2>2, <3>2
  <2> QED
    BY <2>3, <2>4
<1>4. CASE ~ (newest > t)
  <2>1. ~ (order[a].now <= t)
    BY <1>1, <1>2, <1>4
  <2>2. Late(t) = {}
    <3>1. ASSUME NEW i \in Late(t) PROVE FALSE
      <4>1. i \in 1 .. Len(recorded) /\ recorded[i].after > t
        BY <1>1 DEF Late
      <4>2. recorded[i].after \in Nat /\ recorded[i].after <= newest
        BY <1>1, <4>1, CountedTyped DEF LimitInv
      <4> QED
        BY <1>1, <1>4, <4>1, <4>2
    <3> QED
      BY <3>1
  <2>3. Late(t)' = {} /\ Waiting(t)' \subseteq Admins \ {a}
    BY <2>1, <2>2 DEF Waiting
  <2>4. /\ IsFiniteSet(Admins \ {a}) /\ Cardinality(Admins \ {a}) = Cardinality(Admins) - 1
    BY <1>1, FS_RemoveElement
  <2>5. Cardinality(Waiting(t)') \in Nat /\ Cardinality(Waiting(t)') <= Cardinality(Admins) - 1
    BY <2>3, <2>4, FS_Subset, FS_CardinalityType
  <2>6. Cardinality(Late(t)') = 0
    BY <2>3, FS_EmptySet
  <2> QED
    BY <1>1, <2>5, <2>6
<1> QED
  BY <1>3, <1>4

(* A call that is not counted.                                             *)
LEMMA RefusalKeeps ==
  ASSUME KeysInv, LimitInv, NEW a \in Admins, RecordCall(a),
         ~ UnderLimit(Kept(calls, order[a].now))
  PROVE  LimitInv'
<1> DEFINE now == order[a].now
<1>1. /\ pc[a] = "record" /\ now \in Nat /\ now <= clock
      /\ calls' = Kept(calls, now) /\ recorded' = recorded /\ clock' = clock
      /\ newest' = Max({newest, now})
      /\ pc' = [pc EXCEPT ![a] = "idle"] /\ order' = [order EXCEPT ![a] = NoOrder]
  BY DEF RecordCall, At, Goto, LimitInv, KeysInv, Orders
<1>2. /\ recorded \in Seq([now : Nat, after : Nat]) /\ newest \in 0 .. clock /\ clock \in Nat
  BY DEF LimitInv
<1>3. /\ newest' \in {newest, now} /\ newest' >= newest /\ newest' >= now
  <2>1. newest \in Int /\ now \in Int
    BY <1>1, <1>2
  <2> HIDE DEF now
  <2> QED
    BY <1>1, <2>1, MaxOfTwo
<1>4. newest' \in Nat /\ newest' \in 0 .. clock'
  BY <1>1, <1>2, <1>3
<1>5. /\ \A b \in Admins : pc'[b] = "record" => b # a /\ pc[b] = "record"
      /\ \A b \in Admins \ {a} : order'[b] = order[b]
  BY <1>1 DEF KeysInv
<1> HIDE DEF now
<1>6. PICK k \in 0 .. Len(recorded) :
        /\ Kept(calls, now) \in Seq(Nat) /\ Len(Kept(calls, now)) = Len(recorded) - k
        /\ \A j \in 1 .. Len(recorded) - k : Kept(calls, now)[j] = recorded[k + j].now
        /\ \A i \in 1 .. k : recorded[i].now < newest' - Day
  BY <1>1, <1>3, <1>4, KeptLeft
<1>7. LeftOver(k)'
  BY <1>1, <1>6 DEF LeftOver
<1>8. \A i \in DOMAIN recorded : recorded[i].now <= newest' /\ recorded[i].after <= newest'
  <2>1. ASSUME NEW i \in 1 .. Len(recorded)
        PROVE  recorded[i].now <= newest' /\ recorded[i].after <= newest'
    <3>1. recorded[i].now \in Nat /\ recorded[i].after \in Nat
      BY <1>2, CountedTyped
    <3>2. recorded[i].now <= newest /\ recorded[i].after <= newest
      BY <1>2 DEF LimitInv
    <3> QED
      BY <1>2, <1>3, <1>4, <3>1, <3>2
  <2> QED
    BY <1>2, <2>1
<1>9. ASSUME NEW t \in Nat PROVE Cardinality(InTime(t)') <= DailyLimit
  BY <1>1 DEF LimitInv, InTime
<1>10. ASSUME NEW t \in Nat, newest' > t
       PROVE  Cardinality(Late(t)') + Cardinality(Waiting(t)') <= Cardinality(Admins) - 1
  <2>1. Late(t)' \subseteq Late(t)
    BY <1>1 DEF Late
  <2>2. Waiting(t)' \subseteq Waiting(t) \ {a}
    BY <1>5 DEF Waiting
  <2> QED
    BY <1>1, <1>10, <2>1, <2>2, StillLate DEF now
<1>11. \A b \in Admins : pc'[b] = "record" => order'[b].now <= clock'
  BY <1>1, <1>5 DEF LimitInv
<1>12. /\ clock' \in Nat /\ calls' \in Seq(Nat) /\ recorded' \in Seq([now : Nat, after : Nat])
       /\ \E l \in 0 .. Len(recorded') : LeftOver(l)'
  BY <1>1, <1>2, <1>6, <1>7
<1> QED
  BY <1>1, <1>4, <1>8, <1>9, <1>10, <1>11, <1>12 DEF LimitInv

(* A call that is counted: those of any day up to now that were counted in *)
(* time are among the ones that were kept.                                 *)
LEMMA CountKeeps ==
  ASSUME KeysInv, LimitInv, NEW a \in Admins, RecordCall(a),
         UnderLimit(Kept(calls, order[a].now))
  PROVE  LimitInv'
<1> DEFINE now == order[a].now
           entry == [now |-> now, after |-> newest]
<1>1. /\ pc[a] = "record" /\ now \in Nat /\ now <= clock
      /\ calls' = Append(Kept(calls, now), now) /\ clock' = clock
      /\ recorded' = Append(recorded, entry)
      /\ newest' = Max({newest, now})
      /\ pc' = [pc EXCEPT ![a] = "provider"] /\ order' = [order EXCEPT ![a] = NoOrder]
      /\ Len(Kept(calls, now)) < DailyLimit
  BY DEF RecordCall, UnderLimit, At, Goto, LimitInv, KeysInv, Orders
<1>2. /\ recorded \in Seq([now : Nat, after : Nat]) /\ newest \in 0 .. clock /\ clock \in Nat
      /\ Day \in Nat /\ DailyLimit \in Nat
  BY AssistantAssumption DEF LimitInv
<1>3. /\ newest' \in {newest, now} /\ newest' >= newest /\ newest' >= now
  <2>1. newest \in Int /\ now \in Int
    BY <1>1, <1>2
  <2> HIDE DEF now
  <2> QED
    BY <1>1, <2>1, MaxOfTwo
<1>4. newest' \in Nat /\ newest' \in 0 .. clock'
  BY <1>1, <1>2, <1>3
<1>5. /\ \A b \in Admins : pc'[b] = "record" => b # a /\ pc[b] = "record"
      /\ \A b \in Admins \ {a} : order'[b] = order[b]
  BY <1>1 DEF KeysInv
<1>6. /\ entry \in [now : Nat, after : Nat] /\ entry.now = now /\ entry.after = newest
  BY <1>1, <1>2
<1> DEFINE last == Len(recorded) + 1
<1>7. /\ recorded' \in Seq([now : Nat, after : Nat])
      /\ Len(recorded') = last /\ last \in Nat /\ recorded'[last] = entry
      /\ \A i \in 1 .. Len(recorded) : recorded'[i] = recorded[i]
      /\ DOMAIN recorded' = 1 .. last /\ DOMAIN recorded = 1 .. Len(recorded)
  <2> DEFINE R == [now : Nat, after : Nat]
  <2>1. recorded \in Seq(R) /\ entry \in R
    BY <1>2, <1>6
  <2> HIDE DEF R, entry
  <2>2. /\ recorded' \in Seq(R)
        /\ Len(recorded') = last /\ last \in Nat /\ recorded'[last] = entry
        /\ \A i \in 1 .. Len(recorded) : recorded'[i] = recorded[i]
        /\ DOMAIN recorded' = 1 .. last /\ DOMAIN recorded = 1 .. Len(recorded)
    BY <1>1, <2>1
  <2> QED
    BY <2>2 DEF R
<1> HIDE DEF now, entry, last
<1>8. PICK k \in 0 .. Len(recorded) :
        /\ Kept(calls, now) \in Seq(Nat) /\ Len(Kept(calls, now)) = Len(recorded) - k
        /\ \A j \in 1 .. Len(recorded) - k : Kept(calls, now)[j] = recorded[k + j].now
        /\ \A i \in 1 .. k : recorded[i].now < newest' - Day
  BY <1>1, <1>3, <1>4, KeptLeft
<1>9. last = Len(recorded) + 1 /\ Len(recorded) \in Nat /\ k \in Nat
  BY <1>2 DEF last
<1>10. LeftOver(k)'
  <2> DEFINE kept == Kept(calls, now)
  <2>0. kept \in Seq(Nat) /\ Len(kept) = Len(recorded) - k /\ calls' = Append(kept, now)
    BY <1>1, <1>8
  <2> HIDE DEF kept
  <2>1. /\ calls' \in Seq(Nat) /\ Len(calls') = Len(recorded') - k
        /\ Len(calls') = Len(kept) + 1 /\ calls'[Len(calls')] = now
        /\ \A j \in 1 .. Len(kept) : calls'[j] = kept[j]
    BY <1>1, <1>7, <1>9, <2>0
  <2>2. ASSUME NEW j \in 1 .. Len(calls') PROVE calls'[j] = recorded'[k + j].now
    <3>1. CASE j = Len(calls')
      <4>1. calls'[j] = now
        BY <2>1, <3>1
      <4>2. Len(calls') = last - k /\ last \in Nat /\ k \in Nat
        BY <1>7, <1>9, <2>1, Zenon
      <4>3. k + j = last
        BY <3>1, <4>2
      <4> QED
        BY <1>6, <1>7, <4>1, <4>3
    <3>2. CASE j # Len(calls')
      <4>1. /\ j \in 1 .. Len(recorded) - k /\ k + j \in 1 .. Len(recorded)
            /\ calls'[j] = Kept(calls, now)[j]
        <5>1. Len(kept) \in Nat /\ Len(calls') = Len(kept) + 1 /\ j \in 1 .. Len(calls')
          BY <2>0, <2>1
        <5>2. j \in 1 .. Len(kept) /\ j \in 1 .. Len(recorded) - k
          BY <2>0, <3>2, <5>1
        <5>3. k + j \in 1 .. Len(recorded)
          BY <1>9, <5>2
        <5> QED
          BY <2>1, <5>2, <5>3 DEF kept
      <4> QED
        BY <1>7, <1>8, <4>1
    <3> QED
      BY <3>1, <3>2
  <2>3. ASSUME NEW i \in 1 .. k PROVE recorded'[i].now < newest' - Day
    <3>1. i \in 1 .. Len(recorded)
      BY <1>9
    <3> QED
      BY <1>7, <1>8, <3>1
  <2> QED
    BY <2>1, <2>2, <2>3 DEF LeftOver
<1>11. ASSUME NEW i \in DOMAIN recorded'
       PROVE  recorded'[i].now <= newest' /\ recorded'[i].after <= newest'
  <2>1. CASE i = last
    BY <1>1, <1>2, <1>3, <1>6, <1>7, <2>1
  <2>2. CASE i # last
    <3>1. i \in 1 .. Len(recorded) /\ recorded'[i] = recorded[i]
      BY <1>7, <1>9, <2>2
    <3>2. recorded[i].now \in Nat /\ recorded[i].after \in Nat
      BY <1>2, <3>1, CountedTyped
    <3>3. recorded[i].now <= newest /\ recorded[i].after <= newest
      BY <1>7, <3>1 DEF LimitInv
    <3> QED
      BY <1>2, <1>3, <1>4, <3>1, <3>2, <3>3
  <2> QED
    BY <2>1, <2>2
<1>12. ASSUME NEW t \in Nat PROVE Cardinality(InTime(t)') <= DailyLimit
  <2>1. InTime(t)' = {i \in 1 .. last : recorded'[i].now \in (t - Day) .. t /\ recorded'[i].after <= t}
    BY <1>7 DEF InTime
  <2>2. CASE newest <= t /\ now <= t
    <3>1. ASSUME NEW i \in InTime(t)' PROVE i \in k + 1 .. last
      <4>1. i \in 1 .. last /\ recorded'[i].now >= t - Day
        BY <1>2, <2>1
      <4>2. CASE i \in 1 .. k
        <5>1. recorded'[i] = recorded[i] /\ recorded[i].now < newest' - Day
          BY <1>7, <1>8, <1>9, <4>2
        <5>2. recorded[i].now \in Nat
          BY <1>2, <1>8, <1>9, <4>2, CountedTyped
        <5> QED
          BY <1>2, <1>3, <1>4, <2>2, <4>1, <5>1, <5>2, SMTT(30)
      <4> QED
        BY <1>7, <1>9, <4>1, <4>2
    <3>2. /\ IsFiniteSet(k + 1 .. last)
          /\ Cardinality(k + 1 .. last) = IF k + 1 > last THEN 0 ELSE last - (k + 1) + 1
      <4>1. k + 1 \in Int /\ last \in Int
        BY <1>7, <1>9
      <4> QED
        BY <4>1, FS_Interval
    <3>3. Cardinality(k + 1 .. last) <= DailyLimit
      BY <1>1, <1>2, <1>8, <1>9, <3>2
    <3>4. /\ Cardinality(InTime(t)') <= Cardinality(k + 1 .. last)
          /\ Cardinality(InTime(t)') \in Nat /\ Cardinality(k + 1 .. last) \in Nat
      <4>1. InTime(t)' \subseteq k + 1 .. last
        BY <3>1
      <4> QED
        BY <3>2, <4>1, FS_Subset, FS_CardinalityType
    <3> QED
      BY <1>2, <3>3, <3>4
  <2>3. CASE ~ (newest <= t /\ now <= t)
    <3>1. last \notin InTime(t)'
      BY <1>1, <1>2, <1>6, <1>7, <2>1, <2>3
    <3>2. InTime(t)' = InTime(t)
      BY <1>7, <1>9, <2>1, <3>1, SMTT(30) DEF InTime
    <3> QED
      BY <3>2 DEF LimitInv
  <2> QED
    BY <2>2, <2>3
<1>13. ASSUME NEW t \in Nat, newest' > t
       PROVE  Cardinality(Late(t)') + Cardinality(Waiting(t)') <= Cardinality(Admins) - 1
  <2>1. Late(t)' \subseteq Late(t) \cup (IF now <= t THEN {last} ELSE {})
    <3>1. ASSUME NEW i \in Late(t)' PROVE i \in Late(t) \cup (IF now <= t THEN {last} ELSE {})
      <4>1. i \in 1 .. last /\ recorded'[i].now <= t /\ recorded'[i].after > t
        BY <1>7 DEF Late
      <4>2. CASE i = last
        BY <1>6, <1>7, <4>1, <4>2
      <4>3. CASE i # last
        BY <1>7, <1>9, <4>1, <4>3, SMTT(30) DEF Late
      <4> QED
        BY <4>2, <4>3
    <3> QED
      BY <3>1
  <2>2. Waiting(t)' \subseteq Waiting(t) \ {a}
    BY <1>5 DEF Waiting
  <2> QED
    BY <1>1, <1>13, <2>1, <2>2, StillLate DEF now, last
<1>14. \A b \in Admins : pc'[b] = "record" => order'[b].now <= clock'
  BY <1>1, <1>5 DEF LimitInv
<1>15. /\ clock' \in Nat /\ calls' \in Seq(Nat) /\ \E l \in 0 .. Len(recorded') : LeftOver(l)'
  <2>1. k \in 0 .. Len(recorded')
    BY <1>7, <1>9
  <2> QED
    BY <1>1, <1>2, <1>8, <1>10, <2>1
<1> QED
  BY <1>4, <1>7, <1>11, <1>12, <1>13, <1>14, <1>15 DEF LimitInv

LEMMA AssistantStepKeeps ==
  ASSUME KeysInv, LimitInv, NEW a \in Admins, AssistantStep(a)
  PROVE  KeysInv' /\ LimitInv'
<1>1. KeysInv'
  BY KeysKept DEF LimitInv
<1>2. CASE RecordCall(a)
  BY <1>1, <1>2, RefusalKeeps, CountKeeps
<1>3. CASE ~ RecordCall(a)
  <2>1. UNCHANGED <<calls, recorded, newest, clock>>
    BY <1>3 DEF AssistantStep, SaveConfig, ReadRow, EncryptRaises, ReplaceRow, InsertFails,
                BeginCall, TestConfig, ReadProvider, ReadKey, assistantVars
  <2>2. /\ clock \in Nat /\ \A b \in Admins : order[b].now \in Nat
    BY DEF LimitInv, KeysInv, Orders
  <2>3. \A b \in Admins : pc'[b] = "record" =>
            \/ pc[b] = "record" /\ order'[b].now = order[b].now
            \/ order'[b].now = clock
    <3>1. CASE BeginCall(a)
      <4> DEFINE o == Order(clock, NoConfig, NoConfig)
      <4>1. o.now = clock
        BY <2>2, NoConfigured, Ordered
      <4>2. pc' = [pc EXCEPT ![a] = "record"] /\ order' = [order EXCEPT ![a] = o]
        BY <3>1 DEF BeginCall, Arrive
      <4> HIDE DEF o
      <4> QED
        BY <4>1, <4>2 DEF KeysInv
    <3>2. CASE ~ BeginCall(a)
      <4>1. /\ pc'[a] # "record" /\ \A b \in Admins \ {a} : pc'[b] = pc[b] /\ order'[b] = order[b]
        BY <1>3, <3>2 DEF KeysInv, AssistantStep, SaveConfig, ReadRow, EncryptRaises, ReplaceRow,
             InsertFails, TestConfig, ReadProvider, ReadKey, assistantVars, Arrive, Goto, Finish
      <4> QED
        BY <4>1
    <3> QED
      BY <3>1, <3>2
  <2> QED
    BY <1>1, <2>1, <2>2, <2>3, LimitFrame
<1> QED
  BY <1>1, <1>2, <1>3

LEMMA TickKeeps ==
  ASSUME KeysInv, LimitInv, Tick, UNCHANGED requestVars
  PROVE  KeysInv' /\ LimitInv'
<1>1. /\ UNCHANGED <<pc, config, order, crossed, excused, calls, recorded, newest, lastCall>>
      /\ clock' = clock + 1 /\ clock \in Nat
  BY DEF Tick, requestVars, LimitInv
<1>2. KeysInv'
  BY <1>1 DEF KeysInv, KeysStayHome
<1>3. \A b \in Admins : order[b].now \in Nat
  BY DEF KeysInv, Orders
<1>4. LimitInv'
  BY <1>1, <1>3, LimitFrame
<1> QED
  BY <1>2, <1>4

(* Nothing counted, nothing under way: at the start, and after a restart.  *)
LEMMA NothingCounted ==
  ASSUME pc = [a \in Admins |-> "idle"], calls = <<>>, recorded = <<>>, newest = 0, clock \in Nat
  PROVE  LimitInv
<1>1. LeftOver(0) /\ 0 \in 0 .. Len(recorded)
  BY DEF LeftOver
<1>2. ASSUME NEW t \in Nat PROVE Cardinality(InTime(t)) <= DailyLimit
  <2>1. InTime(t) = {}
    BY DEF InTime
  <2> QED
    BY <2>1, FS_EmptySet, AssistantAssumption
<1>3. \E k \in 0 .. Len(recorded) : LeftOver(k)
  BY <1>1
<1>4. recorded \in Seq([now : Nat, after : Nat])
  <2> DEFINE R == [now : Nat, after : Nat]
  <2> HIDE DEF R
  <2>1. recorded \in Seq(R)
    OBVIOUS
  <2> QED
    BY <2>1 DEF R
<1> QED
  BY <1>2, <1>3, <1>4 DEF LimitInv

LEMMA AssistantFresh ==
  ASSUME pc = [a \in Admins |-> "idle"], order = [a \in Admins |-> NoOrder], crossed = {},
         calls = <<>>, recorded = <<>>, newest = 0, clock \in Nat, lastCall = NoConfig,
         config \in Configs, KeysStayHome
  PROVE  KeysInv /\ LimitInv
<1>1. LimitInv
  BY NothingCounted
<1>2. KeysInv
  BY NoOrdered, NoConfigured DEF KeysInv
<1> QED
  BY <1>1, <1>2

(* What the limit promises.                                                *)
LEMMA LimitPromise == LimitInv => CallsCapped
<1> SUFFICES ASSUME LimitInv, NEW t \in 0 .. LastTime, NEW late \in BOOLEAN
             PROVE  Cardinality({i \in DOMAIN recorded :
                       recorded[i].now \in (t - Day) .. t /\ late = (recorded[i].after > t)})
                      <= IF late THEN Cardinality(Admins) - 1 ELSE DailyLimit
  BY DEF CallsCapped
<1> DEFINE counted == {i \in DOMAIN recorded :
                         recorded[i].now \in (t - Day) .. t /\ late = (recorded[i].after > t)}
<1>1. /\ recorded \in Seq([now : Nat, after : Nat]) /\ newest \in Nat /\ t \in Nat
      /\ Day \in Nat /\ DOMAIN recorded = 1 .. Len(recorded)
  BY AssistantAssumption DEF LimitInv
<1>2. CASE late
  <2>1. counted \subseteq Late(t)
    <3>1. ASSUME NEW i \in counted PROVE i \in Late(t)
      <4>1. i \in 1 .. Len(recorded) /\ recorded[i].now \in (t - Day) .. t
        BY <1>1
      <4>2. recorded[i].after > t
        BY <1>2
      <4> QED
        BY <1>1, <4>1, <4>2 DEF Late
    <3> QED
      BY <3>1
  <2>2. CASE counted = {}
    <3>1. Cardinality(counted) = 0
      <4> HIDE DEF counted
      <4> QED
        BY <2>2, FS_EmptySet
    <3>2. Cardinality(Admins) \in Nat /\ Cardinality(Admins) # 0
      BY AssistantAssumption, FS_EmptySet, FS_CardinalityType
    <3> QED
      BY <1>2, <3>1, <3>2
  <2>3. CASE counted # {}
    <3>1. newest > t
      <4>1. PICK i \in 1 .. Len(recorded) : recorded[i].after > t
        BY <1>1, <1>2, <2>3
      <4>2. recorded[i].after \in Nat /\ recorded[i].after <= newest
        BY <1>1, CountedTyped DEF LimitInv
      <4> QED
        BY <1>1, <4>1, <4>2
    <3> HIDE DEF counted
    <3>2. Cardinality(Late(t)) + Cardinality(Waiting(t)) <= Cardinality(Admins) - 1
      BY <1>1, <3>1 DEF LimitInv
    <3>3. IsFiniteSet(Late(t)) /\ IsFiniteSet(Waiting(t))
      BY <1>1, CountedFinite
    <3>4. /\ Cardinality(counted) <= Cardinality(Late(t))
          /\ Cardinality(counted) \in Nat /\ Cardinality(Late(t)) \in Nat
          /\ Cardinality(Waiting(t)) \in Nat /\ Cardinality(Admins) \in Nat
      BY <2>1, <3>3, FS_Subset, FS_CardinalityType, AssistantAssumption
    <3>5. Cardinality(counted) <= Cardinality(Admins) - 1
      BY <3>2, <3>4
    <3> QED
      BY <1>2, <3>5 DEF counted
  <2> QED
    BY <2>2, <2>3
<1>3. CASE ~ late
  <2>1. counted = InTime(t)
    <3>1. ASSUME NEW i \in 1 .. Len(recorded)
          PROVE  (late = (recorded[i].after > t)) <=> recorded[i].after <= t
      BY <1>1, <1>3, CountedTyped
    <3> QED
      BY <1>1, <3>1 DEF InTime
  <2>2. Cardinality(InTime(t)) <= DailyLimit
    BY <1>1 DEF LimitInv
  <2> QED
    BY <1>3, <2>1, <2>2
<1> QED
  BY <1>2, <1>3

-----------------------------------------------------------------------------

LEMMA TriageStepKeeps ==
  ASSUME TInv, RotateAlerts \/ \E a \in Admins : TriageStep(a)
  PROVE  TInv'
<1>1. CASE RotateAlerts
  BY <1>1 DEF RotateAlerts, TInv, TriageTypes, TriageKept, UpToDate
<1> QED
  BY <1>1, PatchAlertKeeps, ReadTriageKeeps, UpsertTriageKeeps DEF TriageStep

LEMMA TriageRestartKeeps ==
  ASSUME TInv, RequestsRestart, TriageRestart
  PROVE  TInv'
BY NoPatchTyped
DEF RequestsRestart, TriageRestart, TInv, TriageTypes, TriageKept, TriageLabels, UpToDate

LEMMA InitInv == Init => DeskInv
<1> SUFFICES ASSUME Init PROVE DeskInv
  OBVIOUS
<1>1. pc = [a \in Admins |-> "idle"]
  BY DEF Init, RequestsInit
<1>2. TInv
  BY TriageInitInv DEF Init
<1>3. SandboxUnused /\ result = {}
  BY DEF Init, SandboxInit, SandboxUnused
<1>4. AssistantUnused /\ KeysInv /\ LimitInv
  <2>1. AssistantInit /\ AssistantUnused
    BY DEF Init, AssistantInit, AssistantUnused
  <2>2. config \in Configs /\ KeysStayHome
    BY <2>1, NoConfigured DEF AssistantUnused, KeysStayHome
  <2> QED
    BY <1>1, <2>1, <2>2, AssistantFresh DEF AssistantInit
<1>5. TablesInv /\ JobInv
  BY BaselinesInitInv DEF Init
<1> QED
  BY <1>1, <1>2, <1>3, <1>4, <1>5, SandboxFresh DEF DeskInv, TInv

(* A step of another area, or of none, leaves a part as it is.             *)
LEMMA TriageFrame ==
  ASSUME UNCHANGED triageVars
  PROVE  /\ TriageKept => TriageKept'
         /\ TInv /\ UNCHANGED requestVars => TInv'
BY DEF triageVars, requestVars, TInv, TriageTypes, TriageKept, UpToDate

LEMMA SandboxFrame ==
  ASSUME UNCHANGED sandboxVars
  PROVE  /\ SandboxUnused => SandboxUnused'
         /\ SandboxInv /\ UNCHANGED requestVars => SandboxInv'
BY DEF sandboxVars, requestVars, SandboxInv, SandboxUnused, Executing

LEMMA AssistantFrame ==
  ASSUME UNCHANGED assistantVars
  PROVE  /\ AssistantUnused => AssistantUnused'
         /\ KeysInv /\ LimitInv /\ UNCHANGED requestVars => KeysInv' /\ LimitInv'
<1>1. UNCHANGED <<config, order, crossed, excused, clock, calls, recorded, newest, lastCall>>
  BY DEF assistantVars
<1>2. AssistantUnused => AssistantUnused'
  BY <1>1 DEF AssistantUnused
<1>3. ASSUME KeysInv, LimitInv, UNCHANGED requestVars PROVE KeysInv' /\ LimitInv'
  <2>1. pc' = pc
    BY <1>3 DEF requestVars
  <2>2. KeysInv'
    BY <1>1, <1>3, <2>1 DEF KeysInv, KeysStayHome
  <2>3. LimitInv'
    BY <1>1, <1>3, <2>1 DEF LimitInv, LeftOver, InTime, Late, Waiting
  <2> QED
    BY <2>2, <2>3
<1> QED
  BY <1>2, <1>3

LEMMA BaselinesFrame ==
  ASSUME UNCHANGED baselineVars, TablesInv, JobInv
  PROVE  TablesInv' /\ JobInv'
BY TablesFrame, JobFrame DEF baselineVars

LEMMA InTriageKeeps ==
  ASSUME DeskInv, InTriage
  PROVE  DeskInv'
BY TriageStepKeeps, SandboxFrame, AssistantFrame, BaselinesFrame DEF DeskInv, InTriage

LEMMA InBaselinesKeeps ==
  ASSUME DeskInv, InBaselines
  PROVE  DeskInv'
BY JobStepKeeps, BaselineRequestKeeps, TriageFrame, SandboxFrame, AssistantFrame
DEF DeskInv, InBaselines

LEMMA InSandboxKeeps ==
  ASSUME DeskInv, InSandbox
  PROVE  DeskInv'
BY SandboxStepKeeps, TriageFrame, AssistantFrame, BaselinesFrame DEF DeskInv, InSandbox

LEMMA InAssistantKeeps ==
  ASSUME DeskInv, InAssistant
  PROVE  DeskInv'
BY AssistantStepKeeps, TickKeeps, TriageFrame, SandboxFrame, BaselinesFrame
DEF DeskInv, InAssistant

LEMMA RestartKeeps ==
  ASSUME DeskInv, Restart
  PROVE  DeskInv'
<1>1. /\ RequestsRestart /\ TriageRestart /\ BaselinesRestart /\ SandboxRestart
      /\ AssistantRestart /\ area' = area
  BY DEF Restart
<1>2. pc' = [a \in Admins |-> "idle"]
  BY <1>1 DEF RequestsRestart
<1>3. area = "triage" => TInv'
  BY <1>1, TriageRestartKeeps DEF DeskInv
<1>4. TriageKept => TriageKept'
  BY <1>1 DEF TriageRestart, TriageKept
<1>5. SandboxUnused' /\ SandboxInv'
  <2>1. SandboxUnused' /\ result' = {}
    BY <1>1 DEF SandboxRestart, SandboxUnused
  <2>2. (pc = [a \in Admins |-> "idle"] /\ SandboxUnused /\ result = {} => SandboxInv)'
    BY SandboxFresh, PTL
  <2> QED
    BY <1>2, <2>1, <2>2
<1>6. area = "assistant" => KeysInv' /\ LimitInv'
  <2> SUFFICES ASSUME area = "assistant" PROVE KeysInv' /\ LimitInv'
    OBVIOUS
  <2>1. KeysInv /\ LimitInv
    BY DEF DeskInv
  <2>2. /\ order' = [a \in Admins |-> NoOrder] /\ crossed' = {}
        /\ calls' = <<>> /\ recorded' = <<>> /\ newest' = 0 /\ lastCall' = NoConfig
        /\ UNCHANGED <<config, excused, clock>>
    BY <1>1 DEF AssistantRestart
  <2>3. clock' \in Nat /\ config' \in Configs /\ KeysStayHome'
    BY <2>1, <2>2, NoConfigured DEF LimitInv, KeysInv, KeysStayHome
  <2>4. ((pc = [a \in Admins |-> "idle"] /\ order = [a \in Admins |-> NoOrder] /\ crossed = {}
          /\ calls = <<>> /\ recorded = <<>> /\ newest = 0 /\ clock \in Nat
          /\ lastCall = NoConfig /\ config \in Configs /\ KeysStayHome)
         => KeysInv /\ LimitInv)'
    BY AssistantFresh, PTL
  <2> QED
    BY <1>2, <2>2, <2>3, <2>4
<1>7. AssistantUnused => AssistantUnused'
  BY <1>1 DEF AssistantRestart, AssistantUnused
<1>8. TablesInv' /\ JobInv'
  BY <1>1, BaselinesRestartKeeps DEF DeskInv
<1> QED
  BY <1>1, <1>3, <1>4, <1>5, <1>6, <1>7, <1>8 DEF DeskInv

LEMMA StutterKeeps ==
  ASSUME DeskInv, UNCHANGED vars
  PROVE  DeskInv'
<1>1. /\ area' = area
      /\ UNCHANGED <<requestVars, triageVars, baselineVars, sandboxVars, assistantVars>>
  BY DEF vars
<1> QED
  BY <1>1, TriageFrame, SandboxFrame, AssistantFrame, BaselinesFrame DEF DeskInv

(* The inductive invariant of the desk: that of the area at hand, and the  *)
(* others' state as it was.                                                *)
THEOREM DeskKept == Spec => []DeskInv
<1>1. ASSUME DeskInv, [Next]_vars PROVE DeskInv'
  BY <1>1, InTriageKeeps, InBaselinesKeeps, InSandboxKeeps, InAssistantKeeps, RestartKeeps,
     StutterKeeps DEF Next
<1> QED
  BY InitInv, <1>1, PTL DEF Spec

(* However many patches of an alert overlap, none undoes a field it did    *)
(* not name, unless another patch named the field between its read and its *)
(* write.                                                                  *)
THEOREM TriageIsKept == Spec => []TriageKept
<1>1. DeskInv => TriageKept
  BY DEF DeskInv, TInv
<1> QED
  BY <1>1, DeskKept, PTL

(* However many requests query at once, and whenever they time out, they   *)
(* execute one at a time; and no query has the rows of another, unless one *)
(* of the MCP tool ran meanwhile.                                          *)
THEOREM RowsAreOwn == Spec => []OwnRows
<1>1. DeskInv => OwnRows
  BY SandboxPromise DEF DeskInv
<1> QED
  BY <1>1, DeskKept, PTL

(* Whatever saves, calls and failures interleave, no provider is stored or *)
(* called with the key of another, and none is stored without a key that   *)
(* it needs, but for what a save that crossed another does.                *)
THEOREM KeysAreOwn == Spec => []KeysStayHome
<1>1. DeskInv => KeysStayHome
  BY NoConfigured DEF DeskInv, KeysInv, AssistantUnused, KeysStayHome
<1> QED
  BY <1>1, DeskKept, PTL

(* Whatever the limit, the day and the number of threads: in no day more   *)
(* calls are counted than the limit and one for each other thread.         *)
THEOREM CallsAreCapped == Spec => []CallsCapped
<1>1. AssistantUnused => CallsCapped
  <2> SUFFICES ASSUME AssistantUnused, NEW t \in 0 .. LastTime, NEW late \in BOOLEAN
               PROVE  Cardinality({i \in DOMAIN recorded :
                         recorded[i].now \in (t - Day) .. t /\ late = (recorded[i].after > t)})
                        <= IF late THEN Cardinality(Admins) - 1 ELSE DailyLimit
    BY DEF CallsCapped
  <2> DEFINE counted == {i \in DOMAIN recorded :
                recorded[i].now \in (t - Day) .. t /\ late = (recorded[i].after > t)}
  <2>1. counted = {}
    BY DEF AssistantUnused
  <2> HIDE DEF counted
  <2>2. Cardinality(counted) = 0
    BY <2>1, FS_EmptySet
  <2>3. Cardinality(Admins) \in Nat /\ Cardinality(Admins) # 0 /\ DailyLimit \in Nat
    BY AssistantAssumption, FS_EmptySet, FS_CardinalityType
  <2>4. Cardinality(counted) <= Cardinality(Admins) - 1 /\ Cardinality(counted) <= DailyLimit
    BY <2>2, <2>3
  <2> QED
    BY <2>4 DEF counted
<1>2. DeskInv => CallsCapped
  BY <1>1, LimitPromise DEF DeskInv
<1> QED
  BY <1>2, DeskKept, PTL

(* For any counts and any interleaving of the job with resets: a baseline  *)
(* is that of the counts taken in, Welford's update being exact.           *)
THEOREM BaselinesAreOfSamples == Spec => []BaselineOfSamples
<1>1. DeskInv => BaselineOfSamples
  BY DEF DeskInv, TablesInv
<1> QED
  BY <1>1, DeskKept, PTL

(* Every count taken in that lies far above those before it has been       *)
(* reported.                                                               *)
THEOREM DeviationsAreReported == Spec => []DeviationsReported
<1>1. DeskInv => DeviationsReported
  BY DEF DeskInv, TablesInv
<1> QED
  BY <1>1, DeskKept, PTL

=============================================================================
