---------------------------- MODULE CasesProofs ----------------------------
(***************************************************************************)
(* Three facts about cases, for any threads, cases, items and requests:    *)
(* the timeline tells of the status (StatusTold), a deletion that raced    *)
(* with nothing leaves nothing behind (NothingLeftBehind), and comments on *)
(* links account for the links (LinksTold).                                *)
(*                                                                         *)
(* The argument for the first: the status that a request found was told,   *)
(* like the status the case has now.  So a request that changes the status *)
(* without a comment sets it to one that is told.  For the second: nobody  *)
(* works on a case that is gone unless the deletion was noted as raced.    *)
(* For the third: the comments there are and those that requests have left *)
(* to add are counted together; a step moves that count by what its own    *)
(* thread adds to it, which is what it does to the links.                  *)
(***************************************************************************)
EXTENDS Cases, TLAPS, FiniteSetTheorems

CallRecord == [case : CaseIds \cup {Unset}, found : CaseRow \cup {Unused},
               todo : Seq(Texts), toLink : Seq(Items), note : Notes \cup {Unset}]

CallsTyped ==
  /\ cases \in [CaseIds -> CaseRow \cup {Unused, Gone}]
  /\ comments \in [CaseIds -> [Texts -> Nat]]
  /\ notes \in [Notes -> CaseIds \cup {Unset, Gone}]
  /\ pc \in [Threads -> Labels] /\ call \in [Threads -> CallRecord]

(* What is left to tell: nothing before the work is done, and no status    *)
(* while a creation has alerts to link.                                    *)
TodoInOrder ==
  \A t \in Threads :
    /\ pc[t] \notin {"tell", "given"} => call[t].todo = <<>> /\ call[t].toLink = <<>>
    /\ pc[t] = "tell" => call[t].todo # <<>>
    /\ pc[t] = "given" => call[t].toLink # <<>>
    /\ call[t].toLink # <<>> =>
         \A s \in Statuses : Became(s) \notin ToSet(call[t].todo)
    /\ pc[t] # "idle" => call[t].case \in CaseIds
    /\ pc[t] = "patch" => call[t].found \in CaseRow /\ cases[call[t].case] # Unused

(* The status is told, and so is the status a patch found.                 *)
Said(c, status) == status = "open" \/ IsTold(c, Became(status))

FoundTold ==
  \A t \in Threads : pc[t] = "patch" =>
    \A c \in CaseIds \ cut :
      (call[t].case = c /\ Exists(c)) => Said(c, call[t].found.status)

(* Of a case that is gone there is nothing, and nobody works on it.        *)
NoTrace(c) ==
  /\ \A l \in links : l[1] # c
  /\ \A text \in Texts : comments[c][text] = 0
  /\ \A n \in Notes : notes[n] # c
  /\ \A t \in Threads : call[t].case # c

NoTraces == \A c \in CaseIds \ raced : cases[c] = Gone => NoTrace(c)

CInv == CallsTyped /\ TodoInOrder /\ StatusTold /\ FoundTold /\ NoTraces

-----------------------------------------------------------------------------

LEMMA ToSetOfNone == ToSet(<<>>) = {}
BY DEF ToSet

LEMMA ToSetOfOne == ASSUME NEW x PROVE ToSet(<<x>>) = {x}
BY DEF ToSet

LEMMA ToSetOfSome ==
  ASSUME NEW s \in Seq(Texts), s # <<>>
  PROVE  /\ Head(s) \in Texts /\ Tail(s) \in Seq(Texts)
         /\ ToSet(s) = {Head(s)} \cup ToSet(Tail(s))
<1>1. Len(s) \in Nat \ {0} /\ s \in [1 .. Len(s) -> Texts] /\ Head(s) = s[1]
  OBVIOUS
<1>2. /\ Tail(s) \in Seq(Texts) /\ DOMAIN Tail(s) = 1 .. Len(s) - 1
      /\ \A k \in 1 .. Len(s) - 1 : Tail(s)[k] = s[k + 1]
  BY <1>1
<1>3. ASSUME NEW x \in ToSet(s)
      PROVE  x \in {Head(s)} \cup ToSet(Tail(s))
  <2>1. PICK k \in 1 .. Len(s) : x = s[k]
    BY <1>1 DEF ToSet
  <2>2. CASE k = 1
    BY <1>1, <2>1, <2>2
  <2>3. CASE k # 1
    <3>1. k - 1 \in 1 .. Len(s) - 1 /\ Tail(s)[k - 1] = x
      BY <1>1, <1>2, <2>1, <2>3
    <3> QED
      BY <1>2, <3>1 DEF ToSet
  <2> QED
    BY <2>2, <2>3
<1>4. ASSUME NEW x \in {Head(s)} \cup ToSet(Tail(s))
      PROVE  x \in ToSet(s)
  <2>1. CASE x = Head(s)
    BY <1>1, <2>1 DEF ToSet
  <2>2. CASE x \in ToSet(Tail(s))
    <3>1. PICK k \in 1 .. Len(s) - 1 : x = Tail(s)[k]
      BY <1>2, <2>2 DEF ToSet
    <3>2. k + 1 \in 1 .. Len(s) /\ x = s[k + 1]
      BY <1>1, <1>2, <3>1
    <3> QED
      BY <1>1, <3>2 DEF ToSet
  <2> QED
    BY <2>1, <2>2
<1> QED
  BY <1>1, <1>2, <1>3, <1>4

(* Texts of different kinds differ, and so do those of different statuses. *)
LEMMA TextsDiffer ==
  ASSUME NEW s \in Statuses
  PROVE  /\ Became(s) \in Texts /\ Created \in Texts /\ Became(s) # Created
         /\ \A i : Became(s) # Linked(i) /\ Became(s) # Unlinked(i)
         /\ \A r \in Statuses : Became(r) = Became(s) => r = s
BY DEF Texts, Became, Created, Linked, Unlinked

(* What is told stays told while t's part of it does.                      *)
LEMMA ToldStays ==
  ASSUME NEW t \in Threads, NEW c \in CaseIds, NEW text,
         IsTold(c, text),
         comments[c][text] > 0 => comments'[c][text] > 0,
         \A u \in Threads \ {t} : call'[u] = call[u],
         (call[t].case = c /\ text \in ToSet(call[t].todo)) =>
           \/ comments'[c][text] > 0
           \/ call'[t].case = c /\ text \in ToSet(call'[t].todo)
  PROVE  IsTold(c, text)'
<1>1. CASE comments[c][text] > 0
  BY <1>1 DEF IsTold
<1>2. CASE \E u \in Threads : call[u].case = c /\ text \in ToSet(call[u].todo)
  <2>1. PICK u \in Threads : call[u].case = c /\ text \in ToSet(call[u].todo)
    BY <1>2
  <2>2. CASE u = t
    BY <2>1, <2>2 DEF IsTold
  <2>3. CASE u # t
    BY <2>1, <2>3 DEF IsTold
  <2> QED
    BY <2>2, <2>3
<1> QED
  BY <1>1, <1>2 DEF IsTold

-----------------------------------------------------------------------------

(* Who adds comments next, or answers.                                     *)
LEMMA TellsResult ==
  ASSUME CallsTyped, NEW t \in Threads, NEW todo \in Seq(Texts), Tells(t, todo)
  PROVE  /\ pc' \in [Threads -> Labels] /\ call' \in [Threads -> CallRecord]
         /\ \A u \in Threads \ {t} : pc'[u] = pc[u] /\ call'[u] = call[u]
         /\ \/ todo = <<>> /\ pc'[t] = "idle" /\ call'[t] = Idle
            \/ /\ todo # <<>> /\ pc'[t] = "tell" /\ call'[t].todo = todo
               /\ call'[t].case = call[t].case /\ call'[t].toLink = call[t].toLink
<1>0. Idle \in CallRecord
  BY DEF Idle, Request, CallRecord
<1>1. CASE todo = <<>>
  <2>1. pc' = [pc EXCEPT ![t] = "idle"] /\ call' = [call EXCEPT ![t] = Idle]
    BY <1>1 DEF Tells, Return, Goto
  <2> QED
    BY <1>0, <1>1, <2>1 DEF CallsTyped, Labels
<1>2. CASE todo # <<>>
  <2>1. pc' = [pc EXCEPT ![t] = "tell"] /\ call' = [call EXCEPT ![t].todo = todo]
    BY <1>2 DEF Tells, Goto
  <2>2. call'[t] = [call[t] EXCEPT !.todo = todo]
    BY <2>1 DEF CallsTyped
  <2>3. /\ call'[t] \in CallRecord /\ call'[t].todo = todo
        /\ call'[t].case = call[t].case /\ call'[t].toLink = call[t].toLink
    BY <2>2 DEF CallsTyped, CallRecord
  <2>4. call' \in [Threads -> CallRecord] /\ pc' \in [Threads -> Labels]
    BY <2>1, <2>3 DEF CallsTyped, Labels
  <2> QED
    BY <1>2, <2>1, <2>3, <2>4 DEF CallsTyped
<1> QED
  BY <1>1, <1>2

LEMMA ReturnResult ==
  ASSUME CallsTyped, NEW t \in Threads, Return(t)
  PROVE  /\ pc' \in [Threads -> Labels] /\ call' \in [Threads -> CallRecord]
         /\ \A u \in Threads \ {t} : pc'[u] = pc[u] /\ call'[u] = call[u]
         /\ pc'[t] = "idle" /\ call'[t] = Idle
<1>1. Tells(t, <<>>)
  BY DEF Tells
<1>2. <<>> \in Seq(Texts)
  OBVIOUS
<1> QED
  BY <1>1, <1>2, TellsResult

(* The timeline's part of the invariant: what was told stays told, and the *)
(* new status of a case, like the status that a new patch found, is told.  *)
LEMMA TellingKept ==
  ASSUME CInv, CallsTyped', NEW t \in Threads, cut \subseteq cut',
         \A u \in Threads \ {t} : pc'[u] = pc[u] /\ call'[u] = call[u],
         \A c \in CaseIds \ cut', s \in Statuses :
           (Exists(c)' /\ IsTold(c, Became(s))) => IsTold(c, Became(s))',
         \A c \in CaseIds : Exists(c)' => Exists(c) \/ cases[c] = Unused,
         \A c \in CaseIds \ cut' : Exists(c)' =>
           \/ Exists(c) /\ cases'[c].status = cases[c].status
           \/ \E s \in Statuses : s = cases'[c].status /\ Said(c, s)',
         pc'[t] = "patch" => \E c \in CaseIds : /\ call'[t].case = c /\ Exists(c)
                                               /\ call'[t].found.status = cases[c].status
  PROVE  StatusTold' /\ FoundTold'
<1>1. \A c \in CaseIds \ cut', s \in Statuses : (Exists(c)' /\ Said(c, s)) => Said(c, s)'
  BY DEF Said
<1>2. \A c \in CaseIds \ cut' : Exists(c) => Said(c, cases[c].status)
  BY DEF CInv, StatusTold, Said
<1>3. ASSUME NEW c \in CaseIds \ cut', Exists(c)'
      PROVE  \E s \in Statuses : s = cases'[c].status /\ Said(c, s)'
  <2>1. CASE Exists(c) /\ cases'[c].status = cases[c].status
    <3>1. Said(c, cases[c].status) /\ cases[c].status \in Statuses
      BY <1>2, <2>1 DEF Exists
    <3> QED
      BY <1>1, <1>3, <2>1, <3>1
  <2> QED
    BY <1>3, <2>1
<1>4. StatusTold'
  BY <1>3 DEF StatusTold, Said, IsTold
<1>5. ASSUME NEW u \in Threads, pc'[u] = "patch", NEW c \in CaseIds \ cut',
             call'[u].case = c, Exists(c)'
      PROVE  \E s \in Statuses : s = call'[u].found.status /\ Said(c, s)'
  <2>1. CASE u = t
    <3>1. Exists(c) /\ call'[t].found.status = cases[c].status
      BY <1>5, <2>1
    <3>2. Said(c, call'[t].found.status) /\ call'[t].found.status \in Statuses
      BY <1>2, <3>1 DEF Exists
    <3> QED
      BY <1>1, <1>5, <2>1, <3>2
  <2>2. CASE u # t
    <3>1. pc[u] = "patch" /\ call'[u] = call[u]
      BY <1>5, <2>2
    <3>2. cases[c] # Unused /\ call[u].found.status \in Statuses
      BY <1>5, <3>1 DEF CInv, TodoInOrder, CaseRow
    <3>3. Exists(c) /\ call[u].case = c
      BY <1>5, <3>1, <3>2
    <3>4. Said(c, call[u].found.status)
      BY <3>1, <3>3 DEF CInv, FoundTold
    <3> QED
      BY <1>1, <1>5, <3>1, <3>2, <3>4
  <2> QED
    BY <2>1, <2>2
<1>6. FoundTold'
  BY <1>5 DEF FoundTold, Said, IsTold
<1> QED
  BY <1>4, <1>6

(* A request adds rows only for its case, and nobody works on a case that  *)
(* is gone without trace.                                                  *)
LEMMA NoTracesKept ==
  ASSUME CInv, NEW t \in Threads, raced' = raced,
         \A c \in CaseIds : cases'[c] = Gone => cases[c] = Gone,
         \A l \in links' : l \in links \/ l[1] = call[t].case,
         \A c \in CaseIds : c # call[t].case => comments'[c] = comments[c],
         \A n \in Notes : notes'[n] \in {notes[n], call[t].case, Gone},
         \A u \in Threads \ {t} : call'[u] = call[u],
         \/ call'[t].case \in {Unset, call[t].case} \cup raced
         \/ call'[t].case \in CaseIds /\ cases'[call'[t].case] # Gone
  PROVE  NoTraces'
<1> SUFFICES ASSUME NEW c \in CaseIds \ raced, cases'[c] = Gone PROVE NoTrace(c)'
  BY DEF NoTraces
<1>1. cases[c] = Gone /\ NoTrace(c)
  BY DEF CInv, NoTraces
<1>2. c # call[t].case /\ c # Gone /\ c # Unset
  BY <1>1, InputsAssumption DEF NoTrace
<1>3. \A l \in links' : l[1] # c
  BY <1>1, <1>2 DEF NoTrace
<1>4. \A text \in Texts : comments'[c][text] = 0
  BY <1>1, <1>2 DEF NoTrace
<1>5. \A n \in Notes : notes'[n] # c
  BY <1>1, <1>2 DEF NoTrace
<1>6. \A u \in Threads : call'[u].case # c
  BY <1>1, <1>2 DEF NoTrace
<1> QED
  BY <1>3, <1>4, <1>5, <1>6 DEF NoTrace

(* A step that does what a request asked for, before its comments.         *)
LEMMA WorkKeeps ==
  ASSUME CInv, NEW t \in Threads, pc[t] # "idle", UNCHANGED <<comments, cut, raced>>,
         cases' \in [CaseIds -> CaseRow \cup {Unused, Gone}],
         \A c \in CaseIds : (c # call[t].case \/ ~Exists(c)) => cases'[c] = cases[c],
         \A c \in CaseIds : Exists(c) => cases'[c] \in CaseRow,
         \A l \in links' : l \in links \/ l[1] = call[t].case,
         notes' \in [Notes -> CaseIds \cup {Unset, Gone}],
         \A n \in Notes : notes'[n] \in {notes[n], call[t].case, Gone},
         pc' \in [Threads -> Labels], call' \in [Threads -> CallRecord],
         \A u \in Threads \ {t} : pc'[u] = pc[u] /\ call'[u] = call[u],
         \/ pc'[t] = "idle" /\ call'[t] = Idle
         \/ /\ pc'[t] = "tell" /\ call'[t].case = call[t].case
            /\ call'[t].todo # <<>> /\ call'[t].toLink = <<>>,
         \A s \in Statuses : Became(s) \notin ToSet(call[t].todo),
         \A c \in CaseIds \ cut : (c = call[t].case /\ Exists(c)) =>
           \E s \in Statuses :
             /\ s = cases'[c].status
             /\ \/ s = cases[c].status \/ Said(c, s)
                \/ call'[t].case = c /\ Became(s) \in ToSet(call'[t].todo)
  PROVE  CInv'
<1>1. CallsTyped'
  BY DEF CInv, CallsTyped
<1>2. \A c \in CaseIds : cases[c] # Unused => cases'[c] # Unused
  BY DEF CaseRow, Unused, Statuses
<1>3. TodoInOrder'
  <2>1. \A u \in Threads \ {t} : pc[u] = "patch" => cases'[call[u].case] # Unused
    BY <1>2 DEF CInv, TodoInOrder
  <2>2. call[t].case \in CaseIds
    BY DEF CInv, TodoInOrder
  <2> QED
    BY <2>1, <2>2 DEF CInv, TodoInOrder, Idle, Request
<1>4. \A c \in CaseIds, s \in Statuses : IsTold(c, Became(s)) => IsTold(c, Became(s))'
  BY ToldStays
<1>5. ASSUME NEW c \in CaseIds \ cut, Exists(c)'
      PROVE  \/ Exists(c) /\ cases'[c].status = cases[c].status
             \/ \E s \in Statuses : s = cases'[c].status /\ Said(c, s)'
  <2>1. CASE c # call[t].case \/ ~Exists(c)
    <3>1. cases'[c] = cases[c]
      BY <2>1
    <3> QED
      BY <1>5, <3>1 DEF Exists
  <2>2. CASE c = call[t].case /\ Exists(c)
    <3>1. PICK s \in Statuses :
             /\ s = cases'[c].status
             /\ \/ s = cases[c].status \/ Said(c, s)
                \/ call'[t].case = c /\ Became(s) \in ToSet(call'[t].todo)
      BY <2>2
    <3>2. CASE Said(c, s)
      BY <1>4, <3>1, <3>2 DEF Said
    <3>3. CASE call'[t].case = c /\ Became(s) \in ToSet(call'[t].todo)
      <4>1. IsTold(c, Became(s))'
        BY <3>3 DEF IsTold
      <4> QED
        BY <3>1, <4>1 DEF Said
    <3>4. CASE s = cases[c].status
      BY <2>2, <3>1, <3>4
    <3> QED
      BY <3>1, <3>2, <3>3, <3>4
  <2> QED
    BY <2>1, <2>2
<1>6. \A c \in CaseIds : Exists(c)' => Exists(c)
  BY DEF Exists
<1>7. StatusTold' /\ FoundTold'
  BY <1>1, <1>4, <1>5, <1>6, TellingKept
<1>8. \A c \in CaseIds : cases'[c] = Gone => cases[c] = Gone
  BY DEF CaseRow, Gone, Statuses
<1>9. call'[t].case \in {Unset, call[t].case}
  BY DEF Idle, Request
<1>10. NoTraces'
  BY <1>8, <1>9, NoTracesKept
<1> QED
  BY <1>1, <1>3, <1>7, <1>10 DEF CInv

-----------------------------------------------------------------------------

(* A case that exists has a row.                                           *)
LEMMA ExistsRow ==
  ASSUME CallsTyped, NEW c \in CaseIds, Exists(c)
  PROVE  cases[c] \in CaseRow
<1>1. Unused.status = "unused" /\ Gone.status = "gone"
  BY DEF Unused, Gone
<1>2. "unused" \notin Statuses /\ "gone" \notin Statuses
  BY DEF Statuses
<1>3. cases[c] # Unused /\ cases[c] # Gone
  BY <1>1, <1>2 DEF Exists
<1> QED
  BY <1>3 DEF CallsTyped

(* The new items of a request are a sequence of items.                     *)
LEMMA NewIsSeq ==
  ASSUME NEW c, NEW list \in Seq(Items)
  PROVE  New(c, list) \in Seq(Items)
<1> DEFINE S == {i \in ToSet(list) : <<c, i>> \notin links}
<1>1. list \in [1 .. Len(list) -> Items] /\ Len(list) \in Nat /\ DOMAIN list = 1 .. Len(list)
  OBVIOUS
<1>2. list \in Surjection(1 .. Len(list), ToSet(list)) /\ ToSet(list) \subseteq Items
  BY <1>1 DEF Surjection, ToSet
<1>3. IsFiniteSet(1 .. Len(list))
  BY <1>1, FS_Interval
<1>4. IsFiniteSet(ToSet(list))
  BY <1>2, <1>3, FS_Surjection
<1>5. IsFiniteSet(S)
  <2>1. S \in SUBSET ToSet(list)
    OBVIOUS
  <2> QED
    BY <1>4, <2>1, FS_Subset
<1>6. Cardinality(S) \in Nat /\ ExistsBijection(1 .. Cardinality(S), S)
  BY <1>5, FS_CardinalityType
<1>7. PICK f \in Bijection(1 .. Cardinality(S), S) : TRUE
  BY <1>6 DEF ExistsBijection
<1>8. f \in [1 .. Cardinality(S) -> S] /\ IsInjective(f)
  BY <1>7 DEF Bijection, Injection
<1>9. SetToSeq(S) \in [1 .. Cardinality(S) -> S]
  BY <1>8 DEF SetToSeq
<1>10. S \subseteq Items
  BY <1>2
<1> HIDE DEF S
<1>11. SetToSeq(S) \in [1 .. Cardinality(S) -> Items]
  BY <1>9, <1>10
<1>12. \A n \in Nat : [1 .. n -> Items] \subseteq Seq(Items)
  OBVIOUS
<1>13. SetToSeq(S) \in Seq(Items)
  BY <1>6, <1>11, <1>12
<1> QED
  BY <1>13 DEF S, New

LEMMA TellLinkedIsSeq ==
  ASSUME NEW list \in Seq(Items)
  PROVE  /\ TellLinked(list) \in Seq(Texts)
         /\ \A s \in Statuses : Became(s) \notin ToSet(TellLinked(list))
         /\ list # <<>> => TellLinked(list) # <<>>
<1>1. /\ Len(list) \in Nat /\ DOMAIN list = 1 .. Len(list)
      /\ \A k \in 1 .. Len(list) : list[k] \in Items
  OBVIOUS
<1>2. \A i \in Items : Linked(i) \in Texts
  BY DEF Texts
<1>3. TellLinked(list) \in [1 .. Len(list) -> Texts]
  BY <1>1, <1>2 DEF TellLinked
<1>4. TellLinked(list) \in Seq(Texts)
  BY <1>1, <1>3
<1>5. \A s \in Statuses : Became(s) \notin ToSet(TellLinked(list))
  BY TextsDiffer DEF ToSet, TellLinked
<1>6. ASSUME list # <<>>
      PROVE  TellLinked(list) # <<>>
  <2>1. Len(list) # 0
    BY <1>6
  <2>2. DOMAIN TellLinked(list) = 1 .. Len(list)
    BY <1>3
  <2>3. 1 \in DOMAIN TellLinked(list)
    BY <1>1, <2>1, <2>2
  <2>4. DOMAIN <<>> = {}
    OBVIOUS
  <2> QED
    BY <2>3, <2>4
<1> QED
  BY <1>4, <1>5, <1>6

(* Requests that leave the cases table alone.                              *)
LEMMA OthersKeep ==
  ASSUME CInv, NEW t \in Threads, NEW todo \in Seq(Texts),
         pc[t] \notin {"idle", "tell", "given"}, Tells(t, todo),
         UNCHANGED <<cases, comments, cut, raced>>,
         \A l \in links' : l \in links \/ l[1] = call[t].case,
         notes' \in [Notes -> CaseIds \cup {Unset, Gone}],
         \A n \in Notes : notes'[n] \in {notes[n], call[t].case, Gone}
  PROVE  CInv'
<1>1. call[t].todo = <<>> /\ call[t].toLink = <<>>
  BY DEF CInv, TodoInOrder
<1>2. \A s \in Statuses : Became(s) \notin ToSet(call[t].todo)
  BY <1>1, ToSetOfNone
<1>3. /\ pc' \in [Threads -> Labels] /\ call' \in [Threads -> CallRecord]
      /\ \A u \in Threads \ {t} : pc'[u] = pc[u] /\ call'[u] = call[u]
      /\ \/ pc'[t] = "idle" /\ call'[t] = Idle
         \/ /\ pc'[t] = "tell" /\ call'[t].case = call[t].case
            /\ call'[t].todo # <<>> /\ call'[t].toLink = <<>>
  BY <1>1, TellsResult DEF CInv
<1>4. cases' \in [CaseIds -> CaseRow \cup {Unused, Gone}]
  BY DEF CInv, CallsTyped
<1>5. \A c \in CaseIds : Exists(c) => cases'[c] \in CaseRow /\ cases'[c].status \in Statuses
  BY ExistsRow DEF CInv, Exists
<1> QED
  BY <1>2, <1>3, <1>4, <1>5, WorkKeeps

LEMMA PatchKeeps ==
  ASSUME CInv, NEW t \in Threads, NEW status \in Statuses \cup {Unset},
         NEW resolution \in Resolutions \cup {Unset, Other}, Patch(t, status, resolution)
  PROVE  CInv'
<1> DEFINE c == call[t].case
           set == IF status = "resolved" THEN Closing(t, resolution) ELSE resolution
           todo == IF Announces(t, status) THEN <<Became(status)>> ELSE <<>>
<1>1. /\ pc[t] = "patch" /\ Tells(t, todo) /\ UNCHANGED <<comments, notes, links, cut, raced>>
      /\ cases' = IF Exists(c) THEN [cases EXCEPT ![c] = Updated(cases[c], status, set)]
                  ELSE cases
      /\ status = "resolved" => set \in Resolutions
  BY DEF Patch
<1>2. /\ call[t].todo = <<>> /\ call[t].toLink = <<>> /\ c \in CaseIds
      /\ call[t].found \in CaseRow
  BY <1>1 DEF CInv, TodoInOrder
<1>3. \A s \in Statuses : Became(s) \notin ToSet(call[t].todo)
  BY <1>2, ToSetOfNone
<1>4. set \in Resolutions \cup {Unset, Other}
  BY <1>1
<1>5. ASSUME Exists(c)
      PROVE  /\ Updated(cases[c], status, set) \in CaseRow
             /\ Updated(cases[c], status, set).status =
                  IF status = Unset THEN cases[c].status ELSE status
  <2>1. cases[c] \in CaseRow
    BY <1>2, <1>5, ExistsRow DEF CInv
  <2> QED
    BY <1>4, <2>1 DEF Updated, CaseRow
<1>6. /\ cases' \in [CaseIds -> CaseRow \cup {Unused, Gone}]
      /\ \A d \in CaseIds : (d # c \/ ~Exists(d)) => cases'[d] = cases[d]
      /\ Exists(c) => cases'[c] = Updated(cases[c], status, set)
  BY <1>1, <1>2, <1>5 DEF CInv, CallsTyped
<1>7. \A d \in CaseIds : Exists(d) => cases'[d] \in CaseRow
  BY <1>5, <1>6, ExistsRow DEF CInv
<1>8. todo \in Seq(Texts)
  BY TextsDiffer, InputsAssumption DEF Announces
<1>9. /\ pc' \in [Threads -> Labels] /\ call' \in [Threads -> CallRecord]
      /\ \A u \in Threads \ {t} : pc'[u] = pc[u] /\ call'[u] = call[u]
      /\ \/ todo = <<>> /\ pc'[t] = "idle" /\ call'[t] = Idle
         \/ /\ pc'[t] = "tell" /\ call'[t].case = c /\ call'[t].todo = todo
            /\ todo # <<>> /\ call'[t].toLink = <<>>
  BY <1>1, <1>2, <1>8, TellsResult DEF CInv
<1>10. ASSUME c \notin cut, Exists(c)
       PROVE  \E s \in Statuses :
                /\ s = cases'[c].status
                /\ \/ s = cases[c].status \/ Said(c, s)
                   \/ call'[t].case = c /\ Became(s) \in ToSet(call'[t].todo)
  <2>1. CASE status = Unset
    BY <1>5, <1>6, <1>10, <2>1 DEF Exists
  <2>2. CASE status # Unset /\ status = call[t].found.status
    <3>1. Said(c, status)
      BY <1>1, <1>2, <1>10, <2>2 DEF CInv, FoundTold
    <3> QED
      BY <1>5, <1>6, <1>10, <2>2, <3>1
  <2>3. CASE status # Unset /\ status # call[t].found.status
    <3>1. todo = <<Became(status)>>
      BY <2>3 DEF Announces
    <3>2. call'[t].case = c /\ call'[t].todo = <<Became(status)>>
      BY <1>9, <3>1
    <3>3. Became(status) \in ToSet(call'[t].todo)
      BY <3>2, ToSetOfOne
    <3> QED
      BY <1>5, <1>6, <1>10, <2>3, <3>2, <3>3
  <2> QED
    BY <2>1, <2>2, <2>3
<1>11. /\ notes' \in [Notes -> CaseIds \cup {Unset, Gone}]
       /\ \A n \in Notes : notes'[n] = notes[n]
  BY <1>1 DEF CInv, CallsTyped
<1> QED
  BY <1>1, <1>3, <1>6, <1>7, <1>9, <1>10, <1>11, WorkKeeps, SMTT(30)

LEMMA LinkKeeps ==
  ASSUME CInv, NEW t \in Threads, NEW list \in Lists, Link(t, list)
  PROVE  CInv'
<1> DEFINE todo == TellLinked(New(call[t].case, list))
<1>1. /\ pc[t] = "link" /\ Tells(t, todo) /\ UNCHANGED <<cases, comments, notes, cut, raced>>
      /\ links' = links \cup ({call[t].case} \X ToSet(list))
  BY DEF Link
<1>2. todo \in Seq(Texts)
  BY NewIsSeq, TellLinkedIsSeq, InputsAssumption
<1>3. \A l \in links' : l \in links \/ l[1] = call[t].case
  BY <1>1
<1> HIDE DEF todo
<1> QED
  BY <1>1, <1>2, <1>3, OthersKeep DEF CInv, CallsTyped

LEMMA UnlinkKeeps ==
  ASSUME CInv, NEW t \in Threads, NEW i \in Items, Unlink(t, i)
  PROVE  CInv'
<1> DEFINE todo == IF <<call[t].case, i>> \in links THEN <<Unlinked(i)>> ELSE <<>>
<1>1. /\ pc[t] = "unlink" /\ Tells(t, todo) /\ UNCHANGED <<cases, comments, notes, cut, raced>>
      /\ links' \subseteq links
  BY DEF Unlink
<1>2. Unlinked(i) \in Texts
  BY DEF Texts
<1>3. todo \in Seq(Texts)
  BY <1>2
<1> HIDE DEF todo
<1> QED
  BY <1>1, <1>3, OthersKeep DEF CInv, CallsTyped

(* Requests that answer without a comment.                                 *)
LEMMA AnswersKeep ==
  ASSUME CInv, NEW t \in Threads,
         \/ \E n \in Notes : AddNote(t, n)
         \/ RemoveNote(t)
         \/ \E s \in Steps : CompleteStep(t, s) \/ UncompleteStep(t, s)
         \/ \E r \in Resolutions \cup {Unset, Other} : Refuse(t, r)
  PROVE  CInv'
<1>1. /\ Return(t) /\ UNCHANGED <<cases, comments, links, cut, raced>>
      /\ pc[t] \in {"note", "unnote", "step", "unstep", "patch"}
  BY DEF AddNote, RemoveNote, CompleteStep, UncompleteStep, Refuse
<1>2. Tells(t, <<>>) /\ <<>> \in Seq(Texts)
  BY <1>1 DEF Tells
<1>3. call[t].case \in CaseIds
  BY <1>1 DEF CInv, TodoInOrder
<1>4. /\ notes' \in [Notes -> CaseIds \cup {Unset, Gone}]
      /\ \A n \in Notes : notes'[n] \in {notes[n], call[t].case, Gone}
  BY <1>3 DEF AddNote, RemoveNote, CompleteStep, UncompleteStep, Refuse, CInv, CallsTyped
<1> QED
  BY <1>1, <1>2, <1>4, OthersKeep

LEMMA LinkGivenKeeps ==
  ASSUME CInv, NEW t \in Threads, LinkGiven(t)
  PROVE  CInv'
<1> DEFINE todo == TellLinked(call[t].toLink)
           c == Request(call[t].case, call[t].found, todo, <<>>, call[t].note)
<1>1. /\ pc[t] = "given" /\ UNCHANGED <<cases, comments, notes, cut, raced>>
      /\ links' = links \cup ({call[t].case} \X ToSet(call[t].toLink))
      /\ pc' = [pc EXCEPT ![t] = "tell"]
      /\ call' = [call EXCEPT ![t] = c]
  BY DEF LinkGiven, Goto
<1>2. /\ call[t] \in CallRecord /\ call[t].toLink \in Seq(Items)
      /\ call[t].toLink # <<>>
  BY <1>1 DEF CInv, CallsTyped, CallRecord, TodoInOrder
<1>3. todo \in Seq(Texts) /\ todo # <<>>
  BY <1>2, TellLinkedIsSeq
<1> HIDE DEF todo
<1>4. c \in CallRecord /\ c.case = call[t].case /\ c.todo = todo /\ c.toLink = <<>>
  <2>1. <<>> \in Seq(Items)
    OBVIOUS
  <2>2. /\ call[t].case \in CaseIds \cup {Unset} /\ call[t].found \in CaseRow \cup {Unused}
        /\ call[t].note \in Notes \cup {Unset}
    BY <1>2 DEF CallRecord
  <2> QED
    BY <1>3, <2>1, <2>2 DEF CallRecord, Request
<1>5. /\ pc' \in [Threads -> Labels] /\ call' \in [Threads -> CallRecord]
      /\ pc'[t] = "tell" /\ call'[t] = c
      /\ \A u \in Threads \ {t} : pc'[u] = pc[u] /\ call'[u] = call[u]
  BY <1>1, <1>4 DEF CInv, CallsTyped, Labels
<1>6. \A s \in Statuses : Became(s) \notin ToSet(call[t].todo)
  BY <1>2 DEF CInv, TodoInOrder
<1>7. \A l \in links' : l \in links \/ l[1] = call[t].case
  BY <1>1
<1>8. \A d \in CaseIds : Exists(d) => cases'[d] \in CaseRow /\ cases'[d].status \in Statuses
  BY <1>1, ExistsRow DEF CInv, Exists
<1>9. /\ cases' \in [CaseIds -> CaseRow \cup {Unused, Gone}]
      /\ notes' \in [Notes -> CaseIds \cup {Unset, Gone}]
  BY <1>1 DEF CInv, CallsTyped
<1>10. /\ call'[t].case = call[t].case /\ call'[t].todo # <<>> /\ call'[t].toLink = <<>>
  BY <1>3, <1>4, <1>5
<1> HIDE DEF c
<1> QED
  BY <1>1, <1>5, <1>6, <1>7, <1>8, <1>9, <1>10, WorkKeeps

LEMMA TellKeeps ==
  ASSUME CInv, NEW t \in Threads, Tell(t)
  PROVE  CInv'
<1> DEFINE c == call[t].case
           todo == call[t].todo
<1>1. /\ pc[t] = "tell" /\ UNCHANGED <<cases, notes, links, cut, raced>>
      /\ comments' = [comments EXCEPT ![c][Head(todo)] = @ + 1]
      /\ \/ call[t].toLink = <<>> /\ Tells(t, Tail(todo))
         \/ /\ call[t].toLink # <<>> /\ pc' = [pc EXCEPT ![t] = "given"]
            /\ call' = [call EXCEPT ![t].todo = Tail(todo)]
  BY DEF Tell, Goto
<1>2. /\ c \in CaseIds /\ todo \in Seq(Texts) /\ todo # <<>>
      /\ call[t] \in CallRecord
  BY <1>1 DEF CInv, TodoInOrder, CallsTyped, CallRecord
<1>3. /\ Head(todo) \in Texts /\ Tail(todo) \in Seq(Texts)
      /\ ToSet(todo) = {Head(todo)} \cup ToSet(Tail(todo))
  BY <1>2, ToSetOfSome
<1> HIDE DEF todo
<1>4. /\ comments' \in [CaseIds -> [Texts -> Nat]]
      /\ comments'[c][Head(todo)] > 0
      /\ \A d \in CaseIds : d # c => comments'[d] = comments[d]
      /\ \A d \in CaseIds, x \in Texts : comments[d][x] > 0 => comments'[d][x] > 0
  BY <1>1, <1>2, <1>3 DEF CInv, CallsTyped
<1>5. /\ pc' \in [Threads -> Labels] /\ call' \in [Threads -> CallRecord]
      /\ \A u \in Threads \ {t} : pc'[u] = pc[u] /\ call'[u] = call[u]
      /\ \/ Tail(todo) = <<>> /\ pc'[t] = "idle" /\ call'[t] = Idle
         \/ /\ Tail(todo) # <<>> /\ pc'[t] = "tell" /\ call'[t].todo = Tail(todo)
            /\ call'[t].case = c /\ call'[t].toLink = <<>>
         \/ /\ call[t].toLink # <<>> /\ pc'[t] = "given" /\ call'[t].todo = Tail(todo)
            /\ call'[t].case = c /\ call'[t].toLink = call[t].toLink
  <2>1. CASE call[t].toLink = <<>> /\ Tells(t, Tail(todo))
    BY <1>3, <2>1, TellsResult DEF CInv
  <2>2. CASE /\ call[t].toLink # <<>> /\ pc' = [pc EXCEPT ![t] = "given"]
             /\ call' = [call EXCEPT ![t].todo = Tail(todo)]
    <3>1. call'[t] = [call[t] EXCEPT !.todo = Tail(todo)]
      BY <2>2 DEF CInv, CallsTyped
    <3>2. /\ call'[t] \in CallRecord /\ call'[t].todo = Tail(todo)
          /\ call'[t].case = c /\ call'[t].toLink = call[t].toLink
      BY <1>2, <1>3, <3>1 DEF CallRecord
    <3>3. pc' \in [Threads -> Labels] /\ call' \in [Threads -> CallRecord]
      BY <2>2, <3>2 DEF CInv, CallsTyped, Labels
    <3> QED
      BY <2>2, <3>2, <3>3 DEF CInv, CallsTyped
  <2> QED
    BY <1>1, <2>1, <2>2 DEF todo
<1>6. CallsTyped'
  BY <1>1, <1>4, <1>5 DEF CInv, CallsTyped
<1>7. call[t].toLink # <<>> => \A s \in Statuses : Became(s) \notin ToSet(Tail(todo))
  BY <1>3 DEF CInv, TodoInOrder, todo
<1>8. TodoInOrder'
  <2>0. UNCHANGED cases
    BY <1>1
  <2>1. /\ Idle.todo = <<>> /\ Idle.toLink = <<>>
    BY DEF Idle, Request
  <2>2. /\ pc'[t] = "tell" => call'[t].todo # <<>>
        /\ pc'[t] \notin {"tell", "given"} => call'[t].todo = <<>> /\ call'[t].toLink = <<>>
        /\ pc'[t] = "given" => call'[t].toLink # <<>>
        /\ pc'[t] # "patch"
    BY <1>5, <2>1
  <2>3. call'[t].toLink # <<>> => \A s \in Statuses : Became(s) \notin ToSet(call'[t].todo)
    BY <1>5, <1>7, <2>1
  <2>4. pc'[t] # "idle" => call'[t].case \in CaseIds
    BY <1>2, <1>5
  <2>5. \A u \in Threads \ {t} : pc'[u] = pc[u] /\ call'[u] = call[u]
    BY <1>5
  <2> QED
    BY <2>0, <2>2, <2>3, <2>4, <2>5 DEF CInv, TodoInOrder
<1>9. ASSUME NEW d \in CaseIds, NEW s \in Statuses, IsTold(d, Became(s))
      PROVE  IsTold(d, Became(s))'
  <2>1. Became(s) \in Texts
    BY TextsDiffer
  <2>2. ASSUME call[t].case = d, Became(s) \in ToSet(call[t].todo)
        PROVE  \/ comments'[d][Became(s)] > 0
               \/ call'[t].case = d /\ Became(s) \in ToSet(call'[t].todo)
    <3>1. CASE Became(s) = Head(todo)
      BY <1>4, <2>2, <3>1
    <3>2. CASE Became(s) \in ToSet(Tail(todo))
      <4>1. Tail(todo) # <<>>
        BY <3>2, ToSetOfNone
      <4> QED
        BY <1>5, <2>2, <3>2, <4>1
    <3> QED
      BY <1>3, <2>2, <3>1, <3>2 DEF todo
  <2> QED
    BY <1>4, <1>5, <1>9, <2>1, <2>2, ToldStays
<1>10. StatusTold' /\ FoundTold'
  BY <1>1, <1>5, <1>6, <1>9, TellingKept DEF Exists
<1>11. call'[t].case \in {Unset, call[t].case}
  BY <1>5 DEF Idle, Request
<1>12. NoTraces'
  BY <1>1, <1>4, <1>5, <1>11, NoTracesKept
<1> QED
  BY <1>6, <1>8, <1>10, <1>12 DEF CInv

LEMMA AbortKeeps ==
  ASSUME CInv, NEW t \in Threads, Abort(t)
  PROVE  CInv'
<1>1. /\ UNCHANGED <<cases, comments, notes, links, raced>> /\ Return(t) /\ pc[t] # "idle"
      /\ cut' = IF call[t].todo # <<>> THEN cut \cup {call[t].case} ELSE cut
  BY DEF Abort
<1>2. /\ pc' \in [Threads -> Labels] /\ call' \in [Threads -> CallRecord]
      /\ \A u \in Threads \ {t} : pc'[u] = pc[u] /\ call'[u] = call[u]
      /\ pc'[t] = "idle" /\ call'[t] = Idle
  BY <1>1, ReturnResult DEF CInv
<1>3. CallsTyped'
  BY <1>1, <1>2 DEF CInv, CallsTyped
<1>4. TodoInOrder'
  BY <1>1, <1>2 DEF CInv, TodoInOrder, Idle, Request
<1>5. ASSUME NEW c \in CaseIds \ cut', NEW s \in Statuses, IsTold(c, Became(s))
      PROVE  IsTold(c, Became(s))'
  <2>1. call[t].case # c \/ call[t].todo = <<>>
    BY <1>1, <1>5
  <2>2. call[t].case # c \/ Became(s) \notin ToSet(call[t].todo)
    BY <2>1, ToSetOfNone
  <2> QED
    BY <1>1, <1>2, <1>5, <2>2, ToldStays
<1>6. StatusTold' /\ FoundTold'
  BY <1>1, <1>2, <1>3, <1>5, TellingKept DEF Exists
<1>7. NoTraces'
  BY <1>1, <1>2, NoTracesKept DEF Idle, Request
<1> QED
  BY <1>3, <1>4, <1>6, <1>7 DEF CInv

(* A request that stops while it links: its case is not vouched for.       *)
LEMMA LinkBreaksKeeps ==
  ASSUME CInv, NEW t \in Threads, NEW list, LinkBreaks(t, list)
  PROVE  CInv'
<1>1. /\ UNCHANGED <<cases, comments, notes, raced>> /\ Return(t)
      /\ cut' = cut \cup {call[t].case}
      /\ \A l \in links' : l \in links \/ l[1] = call[t].case
  BY DEF LinkBreaks
<1>2. /\ pc' \in [Threads -> Labels] /\ call' \in [Threads -> CallRecord]
      /\ \A u \in Threads \ {t} : pc'[u] = pc[u] /\ call'[u] = call[u]
      /\ pc'[t] = "idle" /\ call'[t] = Idle
  BY <1>1, ReturnResult DEF CInv
<1>3. CallsTyped'
  BY <1>1, <1>2 DEF CInv, CallsTyped
<1>4. TodoInOrder'
  BY <1>1, <1>2 DEF CInv, TodoInOrder, Idle, Request
<1>5. ASSUME NEW c \in CaseIds \ cut', NEW s \in Statuses, IsTold(c, Became(s))
      PROVE  IsTold(c, Became(s))'
  <2>1. call[t].case # c
    BY <1>1, <1>5
  <2> QED
    BY <1>1, <1>2, <1>5, <2>1, ToldStays
<1>6. StatusTold' /\ FoundTold'
  BY <1>1, <1>2, <1>3, <1>5, TellingKept DEF Exists
<1>7. NoTraces'
  BY <1>1, <1>2, NoTracesKept DEF Idle, Request
<1> QED
  BY <1>3, <1>4, <1>6, <1>7 DEF CInv

LEMMA CreateKeeps ==
  ASSUME CInv, NEW t \in Threads, NEW c \in CaseIds, NEW list \in Given, Create(t, c, list)
  PROVE  CInv'
<1> DEFINE row == [status |-> "open", resolution |-> Unset]
           r == Request(c, Unused, <<Created>>, list, Unset)
<1>1. /\ pc[t] = "idle" /\ cases[c] = Unused
      /\ UNCHANGED <<comments, notes, links, cut, raced>>
      /\ cases' = [cases EXCEPT ![c] = row]
      /\ pc' = [pc EXCEPT ![t] = "tell"] /\ call' = [call EXCEPT ![t] = r]
  BY DEF Create, Goto
<1>2. row \in CaseRow /\ row.status = "open" /\ row # Unused /\ row # Gone
  BY DEF CaseRow, Statuses, Unused, Gone
<1>3. r.case = c /\ r.todo = <<Created>> /\ r.toLink = list /\ r \in CallRecord
  <2>1. Created \in Texts /\ list \in Seq(Items)
    BY InputsAssumption DEF Texts
  <2>2. <<Created>> \in Seq(Texts)
    BY <2>1
  <2> QED
    BY <2>1, <2>2 DEF CallRecord, Request
<1> HIDE DEF row, r
<1>4. /\ cases' \in [CaseIds -> CaseRow \cup {Unused, Gone}]
      /\ cases'[c] = row /\ \A d \in CaseIds : d # c => cases'[d] = cases[d]
  BY <1>1, <1>2 DEF CInv, CallsTyped
<1>5. /\ pc' \in [Threads -> Labels] /\ call' \in [Threads -> CallRecord]
      /\ pc'[t] = "tell" /\ call'[t] = r
      /\ \A u \in Threads \ {t} : pc'[u] = pc[u] /\ call'[u] = call[u]
  BY <1>1, <1>3 DEF CInv, CallsTyped, Labels
<1>6. CallsTyped'
  BY <1>1, <1>4, <1>5 DEF CInv, CallsTyped
<1>7. \A d \in CaseIds : cases'[d] = Unused => cases[d] = Unused
  BY <1>1, <1>4
<1>8. TodoInOrder'
  <2>1. \A s \in Statuses : Became(s) \notin ToSet(<<Created>>)
    BY TextsDiffer, ToSetOfOne
  <2>2. \A u \in Threads \ {t} : pc[u] = "patch" =>
          call[u].case \in CaseIds /\ cases'[call[u].case] # Unused
    BY <1>7 DEF CInv, TodoInOrder
  <2>3. <<Created>> # <<>>
    OBVIOUS
  <2> QED
    BY <1>3, <1>5, <2>1, <2>2, <2>3 DEF CInv, TodoInOrder
<1>9. call[t].todo = <<>>
  BY <1>1 DEF CInv, TodoInOrder
<1>10. ASSUME NEW d \in CaseIds, NEW s \in Statuses, IsTold(d, Became(s))
       PROVE  IsTold(d, Became(s))'
  <2>1. Became(s) \notin ToSet(call[t].todo)
    BY <1>9, ToSetOfNone
  <2> QED
    BY <1>1, <1>5, <1>10, <2>1, ToldStays
<1>11. ASSUME NEW d \in CaseIds, Exists(d)'
       PROVE  \/ Exists(d) /\ cases'[d].status = cases[d].status
              \/ \E s \in Statuses : s = cases'[d].status /\ Said(d, s)'
  <2>1. CASE d = c
    <3>1. "open" \in Statuses /\ cases'[d].status = "open"
      BY <1>2, <1>4, <2>1 DEF Statuses
    <3> QED
      BY <3>1 DEF Said
  <2>2. CASE d # c
    BY <1>4, <1>11, <2>2 DEF Exists
  <2> QED
    BY <2>1, <2>2
<1>12. \A d \in CaseIds : Exists(d)' => Exists(d) \/ cases[d] = Unused
  BY <1>1, <1>4 DEF Exists
<1>13. StatusTold' /\ FoundTold'
  BY <1>1, <1>5, <1>6, <1>10, <1>11, <1>12, TellingKept
<1>14. \A d \in CaseIds : cases'[d] = Gone => cases[d] = Gone
  BY <1>2, <1>4
<1>15. call'[t].case \in CaseIds /\ cases'[call'[t].case] # Gone
  BY <1>2, <1>3, <1>4, <1>5
<1>16. NoTraces'
  BY <1>1, <1>5, <1>14, <1>15, NoTracesKept
<1> QED
  BY <1>6, <1>8, <1>13, <1>16 DEF CInv

(* A request that only looks something up.                                 *)
LEMMA LookingKeeps ==
  ASSUME CInv, NEW t \in Threads, pc[t] = "idle",
         UNCHANGED <<cases, comments, notes, links, cut, raced>>,
         NEW r \in CallRecord, r.todo = <<>>, r.toLink = <<>>,
         NEW label \in Labels \ {"idle", "tell", "given"},
         pc' = [pc EXCEPT ![t] = label], call' = [call EXCEPT ![t] = r],
         r.case \in CaseIds, cases[r.case] # Gone \/ r.case \in raced,
         label = "patch" => Exists(r.case) /\ r.found = cases[r.case]
  PROVE  CInv'
<1>1. /\ pc' \in [Threads -> Labels] /\ call' \in [Threads -> CallRecord]
      /\ pc'[t] = label /\ call'[t] = r
      /\ \A u \in Threads \ {t} : pc'[u] = pc[u] /\ call'[u] = call[u]
  BY DEF CInv, CallsTyped
<1>2. CallsTyped'
  BY <1>1 DEF CInv, CallsTyped
<1>3. TodoInOrder'
  <2>1. label = "patch" => r.found \in CaseRow /\ cases[r.case] # Unused
    BY ExistsRow DEF CInv, Exists, Unused, Statuses
  <2> QED
    BY <1>1, <2>1 DEF CInv, TodoInOrder
<1>4. call[t].todo = <<>>
  BY DEF CInv, TodoInOrder
<1>5. ASSUME NEW d \in CaseIds, NEW s \in Statuses, IsTold(d, Became(s))
      PROVE  IsTold(d, Became(s))'
  <2>1. Became(s) \notin ToSet(call[t].todo)
    BY <1>4, ToSetOfNone
  <2> QED
    BY <1>1, <1>5, <2>1, ToldStays
<1>6. StatusTold' /\ FoundTold'
  BY <1>1, <1>2, <1>5, TellingKept DEF Exists
<1>7. NoTraces'
  BY <1>1, NoTracesKept
<1> QED
  BY <1>2, <1>3, <1>6, <1>7 DEF CInv

LEMMA FindKeeps ==
  ASSUME CInv, NEW t \in Threads, NEW c \in CaseIds, NEW label \in Labels, Find(t, c, label)
  PROVE  CInv'
<1> DEFINE r == Request(c, cases[c], <<>>, <<>>, Unset)
<1>1. /\ pc[t] = "idle" /\ Exists(c) /\ label \in Labels \ {"idle", "tell", "given"}
      /\ UNCHANGED <<cases, comments, notes, links, cut, raced>>
      /\ pc' = [pc EXCEPT ![t] = label] /\ call' = [call EXCEPT ![t] = r]
  BY DEF Find, Goto
<1>2. cases[c] \in CaseRow
  BY <1>1, ExistsRow DEF CInv
<1>3. cases[c] # Gone
  BY <1>1 DEF Exists, Gone, Statuses
<1>4. /\ r \in CallRecord /\ r.case = c /\ r.found = cases[c]
      /\ r.todo = <<>> /\ r.toLink = <<>>
  BY <1>2 DEF Request, CallRecord
<1> HIDE DEF r
<1> QED
  BY <1>1, <1>3, <1>4, LookingKeeps

(* A comment of a case that is gone is one that raced with the deletion.   *)
LEMMA FindNoteKeeps ==
  ASSUME CInv, NEW t \in Threads, NEW n \in Notes, FindNote(t, n)
  PROVE  CInv'
<1> DEFINE r == Request(notes[n], Unused, <<>>, <<>>, n)
<1>1. /\ pc[t] = "idle" /\ notes[n] \in CaseIds /\ "unnote" \in Labels \ {"idle", "tell", "given"}
      /\ UNCHANGED <<cases, comments, notes, links, cut, raced>>
      /\ pc' = [pc EXCEPT ![t] = "unnote"] /\ call' = [call EXCEPT ![t] = r]
  BY DEF FindNote, Goto, Labels
<1>2. cases[notes[n]] # Gone \/ notes[n] \in raced
  BY <1>1 DEF CInv, NoTraces, NoTrace
<1>3. r \in CallRecord /\ r.case = notes[n] /\ r.todo = <<>> /\ r.toLink = <<>>
  BY <1>1 DEF Request, CallRecord
<1> HIDE DEF r
<1> QED
  BY <1>1, <1>2, <1>3, LookingKeeps

LEMMA DeleteKeeps ==
  ASSUME CInv, NEW c \in CaseIds, DeleteCase(c)
  PROVE  CInv'
<1>1. /\ Exists(c) /\ cases' = [cases EXCEPT ![c] = Gone]
      /\ comments' = [comments EXCEPT ![c] = NoTexts]
      /\ notes' = [n \in Notes |-> IF notes[n] = c THEN Gone ELSE notes[n]]
      /\ links' = {l \in links : l[1] # c}
      /\ raced \subseteq raced'
      /\ c \notin raced' => \A t \in Threads : call[t].case # c
      /\ UNCHANGED <<pc, call, cut>>
  BY DEF DeleteCase, Kept
<1>2. /\ cases'[c] = Gone /\ ~Exists(c)'
      /\ \A d \in CaseIds : d # c => cases'[d] = cases[d] /\ comments'[d] = comments[d]
      /\ \A text \in Texts : comments'[c][text] = 0
  BY <1>1 DEF CInv, CallsTyped, Exists, Gone, Statuses, NoTexts
<1>3. CallsTyped'
  <2>1. NoTexts \in [Texts -> Nat]
    BY DEF NoTexts
  <2> QED
    BY <1>1, <2>1 DEF CInv, CallsTyped
<1>4. TodoInOrder'
  BY <1>1, <1>2 DEF CInv, TodoInOrder, Gone, Unused
<1>5. \A d \in CaseIds : Exists(d)' => d # c /\ Exists(d)
  BY <1>2 DEF Exists
<1>6. \A d \in CaseIds, s \in Statuses : (d # c /\ Said(d, s)) => Said(d, s)'
  BY <1>1, <1>2 DEF Said, IsTold
<1>7. StatusTold'
  <2> SUFFICES ASSUME NEW d \in CaseIds \ cut, Exists(d)'
               PROVE  \E s \in Statuses : s = cases'[d].status /\ Said(d, s)'
    BY <1>1 DEF StatusTold, Said, IsTold
  <2>1. d # c /\ Exists(d) /\ cases'[d] = cases[d] /\ cases[d].status \in Statuses
    BY <1>2, <1>5 DEF Exists
  <2>2. Said(d, cases[d].status)
    BY <2>1 DEF CInv, StatusTold, Said
  <2> QED
    BY <1>6, <2>1, <2>2
<1>8. FoundTold'
  <2> SUFFICES ASSUME NEW t \in Threads, pc[t] = "patch", NEW d \in CaseIds \ cut,
                      call[t].case = d, Exists(d)'
               PROVE  \E s \in Statuses : s = call[t].found.status /\ Said(d, s)'
    BY <1>1 DEF FoundTold, Said, IsTold
  <2>1. d # c /\ Said(d, call[t].found.status)
    BY <1>5 DEF CInv, FoundTold
  <2>2. call[t].found.status \in Statuses
    BY DEF CInv, TodoInOrder, CaseRow
  <2> QED
    BY <1>6, <2>1, <2>2
<1>9. NoTraces'
  <2> SUFFICES ASSUME NEW d \in CaseIds \ raced', cases'[d] = Gone PROVE NoTrace(d)'
    BY DEF NoTraces
  <2>1. CASE d = c
    <3>1. \A n \in Notes : notes'[n] # c
      BY <1>1, InputsAssumption
    <3>2. \A t \in Threads : call'[t].case # c
      BY <1>1, <2>1
    <3>3. \A l \in links' : l[1] # c
      BY <1>1
    <3> QED
      BY <1>2, <2>1, <3>1, <3>2, <3>3 DEF NoTrace
  <2>2. CASE d # c
    <3>1. NoTrace(d)
      BY <1>1, <1>2, <2>2 DEF CInv, NoTraces
    <3>2. \A n \in Notes : notes'[n] # d
      BY <1>1, <3>1, InputsAssumption DEF NoTrace
    <3> QED
      BY <1>1, <1>2, <2>2, <3>1, <3>2 DEF NoTrace
  <2> QED
    BY <2>1, <2>2
<1> QED
  BY <1>3, <1>4, <1>7, <1>8, <1>9 DEF CInv

(* A deletion that stops halfway: the case is still there, but not vouched *)
(* for.                                                                    *)
LEMMA DeleteBreaksKeeps ==
  ASSUME CInv, NEW c \in CaseIds, DeleteBreaks(c)
  PROVE  CInv'
<1>1. /\ Exists(c) /\ comments' = [comments EXCEPT ![c] = NoTexts]
      /\ notes' = [n \in Notes |-> IF notes[n] = c THEN Gone ELSE notes[n]]
      /\ links' \subseteq links /\ cut' = cut \cup {c}
      /\ UNCHANGED <<cases, pc, call, raced>>
  BY DEF DeleteBreaks
<1>2. cases[c] # Gone
  BY <1>1 DEF Exists, Gone, Statuses
<1>3. CallsTyped'
  <2>1. NoTexts \in [Texts -> Nat]
    BY DEF NoTexts
  <2> QED
    BY <1>1, <2>1 DEF CInv, CallsTyped
<1>4. TodoInOrder'
  BY <1>1 DEF CInv, TodoInOrder
<1>5. \A d \in CaseIds : d # c => comments'[d] = comments[d]
  BY <1>1 DEF CInv, CallsTyped
<1>6. StatusTold' /\ FoundTold'
  BY <1>1, <1>5 DEF CInv, StatusTold, FoundTold, Said, IsTold, Exists
<1>7. NoTraces'
  <2> SUFFICES ASSUME NEW d \in CaseIds \ raced, cases[d] = Gone PROVE NoTrace(d)'
    BY <1>1 DEF NoTraces
  <2>1. d # c /\ NoTrace(d)
    BY <1>2 DEF CInv, NoTraces
  <2>2. \A n \in Notes : notes'[n] # d
    BY <1>1, <2>1, InputsAssumption DEF NoTrace
  <2> QED
    BY <1>1, <1>5, <2>1, <2>2 DEF NoTrace
<1> QED
  BY <1>3, <1>4, <1>6, <1>7 DEF CInv

-----------------------------------------------------------------------------

LEMMA InitCInv == Init => CInv
<1> SUFFICES ASSUME Init PROVE CInv
  OBVIOUS
<1>1. Idle \in CallRecord /\ Idle.todo = <<>> /\ Idle.toLink = <<>> /\ Idle.case = Unset
  BY DEF Idle, Request, CallRecord
<1>2. NoTexts \in [Texts -> Nat]
  BY DEF NoTexts
<1>3. CallsTyped
  BY <1>1, <1>2 DEF Init, CallsTyped, Labels
<1>4. TodoInOrder
  BY <1>1 DEF Init, TodoInOrder
<1>5. \A c \in CaseIds : ~Exists(c) /\ cases[c] # Gone
  BY DEF Init, Exists, Unused, Gone, Statuses
<1>6. StatusTold /\ FoundTold /\ NoTraces
  BY <1>5 DEF StatusTold, FoundTold, NoTraces
<1> QED
  BY <1>3, <1>4, <1>6 DEF CInv

LEMMA StepKeeps == CInv /\ [Next]_vars => CInv'
<1> SUFFICES ASSUME CInv, [Next]_vars PROVE CInv'
  OBVIOUS
<1>1. CASE UNCHANGED vars
  BY <1>1 DEF vars, CInv, CallsTyped, TodoInOrder, StatusTold, FoundTold, NoTraces,
              NoTrace, Said, IsTold, Exists
<1>2. CASE \E c \in CaseIds : DeleteCase(c) \/ DeleteBreaks(c)
  BY <1>2, DeleteKeeps, DeleteBreaksKeeps
<1>3. ASSUME NEW t \in Threads, Step(t) PROVE CInv'
  <2>1. CASE \E c \in CaseIds : \E list \in Given : Create(t, c, list)
    BY <2>1, CreateKeeps
  <2>2. CASE \E c \in CaseIds, label \in Labels : Find(t, c, label)
    BY <2>2, FindKeeps
  <2>3. CASE \E n \in Notes : FindNote(t, n)
    BY <2>3, FindNoteKeeps
  <2>4. CASE \E r \in Resolutions \cup {Unset, Other}, s \in Statuses \cup {Unset} : Patch(t, s, r)
    BY <2>4, PatchKeeps
  <2>5. CASE \E list \in Lists : Link(t, list)
    BY <2>5, LinkKeeps
  <2>6. CASE \E i \in Items : Unlink(t, i)
    BY <2>6, UnlinkKeeps
  <2>7. CASE \/ \E n \in Notes : AddNote(t, n)
             \/ RemoveNote(t)
             \/ \E s \in Steps : CompleteStep(t, s) \/ UncompleteStep(t, s)
             \/ \E r \in Resolutions \cup {Unset, Other} : Refuse(t, r)
    BY <2>7, AnswersKeep
  <2>8. CASE LinkGiven(t)
    BY <2>8, LinkGivenKeeps
  <2>9. CASE Tell(t)
    BY <2>9, TellKeeps
  <2>10. CASE Abort(t)
    BY <2>10, AbortKeeps
  <2>11. CASE \E list \in Lists \cup Given : LinkBreaks(t, list)
    BY <2>11, LinkBreaksKeeps
  <2> QED
    BY <1>3, <2>1, <2>2, <2>3, <2>4, <2>5, <2>6, <2>7, <2>8, <2>9, <2>10, <2>11 DEF Step
<1> QED
  BY <1>1, <1>2, <1>3 DEF Next

(* The inductive invariant holds in every reachable state: requests in     *)
(* progress, tables and history fit together (CInv).                       *)
THEOREM CasesInvariant == Spec => []CInv
<1> QED
  BY InitCInv, StepKeeps, PTL DEF Spec

(* Whatever patches overlap, no case is investigated or resolved without a *)
(* system comment that says so, unless a request stopped halfway.          *)
THEOREM StatusAlwaysTold == Spec => []StatusTold
<1>1. CInv => StatusTold
  BY DEF CInv
<1> QED
  BY <1>1, CasesInvariant, PTL

(* Deleting a case leaves no link, system comment or analyst's comment of  *)
(* it behind, unless a request had found the case before.                  *)
THEOREM DeletionComplete == Spec => []NothingLeftBehind
<1>1. CInv => NothingLeftBehind
  BY DEF CInv, NoTraces, NoTrace, NothingLeftBehind
<1> QED
  BY <1>1, CasesInvariant, PTL

-----------------------------------------------------------------------------
(* Links and the comments that tell of them: how the number of comments    *)
(* with a text, told and untold, moves with one thread.                    *)

Times(todo, text) == Cardinality(Positions(todo, text))

Mine(calls, t, c, text) == IF calls[t].case = c THEN Times(calls[t].todo, text) ELSE 0

LEMMA PositionsFinite ==
  ASSUME NEW s \in Seq(Texts), NEW text
  PROVE  IsFiniteSet(Positions(s, text)) /\ Times(s, text) \in Nat
<1>1. IsFiniteSet(1 .. Len(s)) /\ Positions(s, text) \subseteq 1 .. Len(s)
  BY FS_Interval DEF Positions
<1>2. IsFiniteSet(Positions(s, text))
  BY <1>1, FS_Subset
<1> QED
  BY <1>2, FS_CardinalityType DEF Times

LEMMA NoneToTell ==
  ASSUME NEW s, NEW text, text \notin ToSet(s)
  PROVE  Times(s, text) = 0
<1>1. Positions(s, text) = {}
  BY DEF Positions, ToSet
<1> QED
  BY <1>1, FS_EmptySet DEF Times

LEMMA OnceToTell ==
  ASSUME NEW s, NEW text, NEW k, Positions(s, text) = {k}
  PROVE  Times(s, text) = 1
BY FS_Singleton DEF Times

LEMMA OneToTell ==
  ASSUME NEW text
  PROVE  Times(<<text>>, text) = 1 /\ \A x : x # text => Times(<<text>>, x) = 0
<1>1. Positions(<<text>>, text) = {1}
  BY DEF Positions
<1>2. ToSet(<<text>>) = {text}
  BY ToSetOfOne
<1> QED
  BY <1>1, <1>2, OnceToTell, NoneToTell

(* The first comment is told: one less of its text is left.                *)
LEMMA TailToTell ==
  ASSUME NEW s \in Seq(Texts), s # <<>>, NEW text
  PROVE  Times(s, text) = Times(Tail(s), text) + (IF text = Head(s) THEN 1 ELSE 0)
<1> DEFINE P == Positions(s, text)
           Q == Positions(Tail(s), text)
           f == [k \in P \ {1} |-> k - 1]
<1>1. /\ Len(s) \in Nat \ {0} /\ DOMAIN s = 1 .. Len(s) /\ Head(s) = s[1]
      /\ Tail(s) \in Seq(Texts) /\ DOMAIN Tail(s) = 1 .. Len(s) - 1
      /\ \A k \in 1 .. Len(s) - 1 : Tail(s)[k] = s[k + 1]
  OBVIOUS
<1>2. IsFiniteSet(P) /\ IsFiniteSet(P \ {1})
  BY PositionsFinite, FS_RemoveElement
<1>3. \A k \in P \ {1} : k \in Nat /\ k - 1 \in Q
  BY <1>1 DEF Positions
<1>4. \A q \in Q : q \in Nat /\ q + 1 \in P \ {1} /\ (q + 1) - 1 = q
  BY <1>1 DEF Positions
<1>5. f \in Bijection(P \ {1}, Q)
  <2>1. f \in [P \ {1} -> Q]
    BY <1>3
  <2>2. \A j, k \in P \ {1} : f[j] = f[k] => j = k
    BY <1>3
  <2>3. \A q \in Q : f[q + 1] = q
    BY <1>4
  <2>4. \A q \in Q : \E k \in P \ {1} : f[k] = q
    BY <1>4, <2>3
  <2> HIDE DEF f, P, Q
  <2> QED
    BY <2>1, <2>2, <2>4 DEF Bijection, Injection, Surjection, IsInjective
<1> HIDE DEF f
<1>6. Cardinality(Q) = Cardinality(P \ {1})
  BY <1>2, <1>5, FS_Bijection DEF ExistsBijection
<1>7. 1 \in P <=> text = Head(s)
  BY <1>1 DEF Positions
<1>8. Cardinality(P \ {1}) = IF 1 \in P THEN Cardinality(P) - 1 ELSE Cardinality(P)
  BY <1>2, FS_RemoveElement
<1>9. Cardinality(P) \in Nat
  BY <1>2, FS_CardinalityType
<1> HIDE DEF P, Q
<1>10. Cardinality(P) = Cardinality(Q) + (IF text = Head(s) THEN 1 ELSE 0)
  BY <1>6, <1>7, <1>8, <1>9
<1> QED
  BY <1>10 DEF P, Q, Times

(* What one thread has to tell, and what the others have.                  *)
LEMMA UntoldSplit ==
  ASSUME NEW calls \in [Threads -> CallRecord], NEW t \in Threads, NEW c, NEW text
  PROVE  /\ Mine(calls, t, c, text) \in Nat
         /\ Cardinality(Untold(calls, Threads \ {t}, c, text)) \in Nat
         /\ Cardinality(Untold(calls, Threads, c, text))
              = Cardinality(Untold(calls, Threads \ {t}, c, text)) + Mine(calls, t, c, text)
<1> DEFINE U(T) == {u \in T : calls[u].case = c}
           P(u) == {u} \X Positions(calls[u].todo, text)
           f    == [u \in U(Threads \ {t}) |-> P(u)]
           Parts == {P(u) : u \in U(Threads \ {t})}
           A == Untold(calls, Threads \ {t}, c, text)
           B == IF calls[t].case = c THEN P(t) ELSE {}
<1>1. \A u \in Threads : calls[u].todo \in Seq(Texts)
  BY DEF CallRecord
<1>2. ASSUME NEW u \in Threads
      PROVE  IsFiniteSet(P(u)) /\ Cardinality(P(u)) = Times(calls[u].todo, text)
  <2>1. /\ IsFiniteSet(Positions(calls[u].todo, text))
        /\ Cardinality(Positions(calls[u].todo, text)) \in Nat
    BY <1>1, PositionsFinite DEF Times
  <2>2. IsFiniteSet({u}) /\ Cardinality({u}) = 1
    BY FS_Singleton
  <2>3. /\ IsFiniteSet(P(u))
        /\ Cardinality(P(u)) = Cardinality({u}) * Cardinality(Positions(calls[u].todo, text))
    BY <2>1, <2>2, FS_Product
  <2> QED
    BY <2>1, <2>2, <2>3 DEF Times
<1>3. IsFiniteSet(U(Threads \ {t}))
  BY InputsAssumption, FS_Subset
<1>4. f \in Surjection(U(Threads \ {t}), Parts)
  BY DEF Surjection
<1>5. IsFiniteSet(Parts)
  BY <1>3, <1>4, FS_Surjection
<1>6. \A T \in Parts : IsFiniteSet(T)
  BY <1>2
<1>7. A = UNION Parts
  BY DEF Untold
<1>8. IsFiniteSet(A)
  BY <1>5, <1>6, <1>7, FS_UNION
<1>9. IsFiniteSet(B) /\ Cardinality(B) = Mine(calls, t, c, text)
  BY <1>2, FS_EmptySet DEF Mine
<1>10. Untold(calls, Threads, c, text) = A \cup B
  BY DEF Untold
<1>11. A \cap B = {}
  BY DEF Untold
<1> HIDE DEF A, B
<1>12. Cardinality(A \cup B) = Cardinality(A) + Cardinality(B) - Cardinality(A \cap B)
  BY <1>8, <1>9, FS_Union
<1>13. Cardinality(A \cap B) = 0 /\ Cardinality(A) \in Nat /\ Cardinality(B) \in Nat
  BY <1>8, <1>9, <1>11, FS_EmptySet, FS_CardinalityType
<1> QED
  BY <1>9, <1>10, <1>12, <1>13 DEF A

(* The other threads' part of it stays.                                    *)
LEMMA UntoldByOthers ==
  ASSUME NEW calls, NEW calls2, NEW T, \A u \in T : calls2[u] = calls[u], NEW c, NEW text
  PROVE  Untold(calls2, T, c, text) = Untold(calls, T, c, text)
BY DEF Untold

(* Texts of links differ from all others, and of different items.          *)
LEMMA LinkTexts ==
  ASSUME NEW i \in Items
  PROVE  /\ Linked(i) \in Texts /\ Unlinked(i) \in Texts
         /\ Linked(i) # Unlinked(i)
         /\ \A j : Linked(i) # Unlinked(j) /\ (Linked(j) = Linked(i) => j = i)
                   /\ (Unlinked(j) = Unlinked(i) => j = i)
         /\ Created # Linked(i) /\ Created # Unlinked(i)
         /\ \A s : Became(s) # Linked(i) /\ Became(s) # Unlinked(i)
BY DEF Texts, Linked, Unlinked, Created, Became

(* The new items of a list are each there once.                            *)
LEMMA NewIsSet ==
  ASSUME NEW c, NEW list \in Seq(Items)
  PROVE  LET new == New(c, list)
         IN  /\ new \in Seq(Items)
             /\ \A i : i \in ToSet(new) <=> i \in ToSet(list) /\ <<c, i>> \notin links
             /\ \A j, k \in DOMAIN new : new[j] = new[k] => j = k
<1> DEFINE S == {i \in ToSet(list) : <<c, i>> \notin links}
<1>1. list \in [1 .. Len(list) -> Items] /\ Len(list) \in Nat /\ DOMAIN list = 1 .. Len(list)
  OBVIOUS
<1>2. list \in Surjection(1 .. Len(list), ToSet(list)) /\ ToSet(list) \subseteq Items
  BY <1>1 DEF Surjection, ToSet
<1>3. IsFiniteSet(1 .. Len(list))
  BY <1>1, FS_Interval
<1>4. IsFiniteSet(ToSet(list))
  BY <1>2, <1>3, FS_Surjection
<1>5. IsFiniteSet(S)
  <2>1. S \in SUBSET ToSet(list)
    OBVIOUS
  <2> QED
    BY <1>4, <2>1, FS_Subset
<1>6. Cardinality(S) \in Nat /\ ExistsBijection(1 .. Cardinality(S), S)
  BY <1>5, FS_CardinalityType
<1>7. PICK f \in Bijection(1 .. Cardinality(S), S) : TRUE
  BY <1>6 DEF ExistsBijection
<1>8. f \in [1 .. Cardinality(S) -> S] /\ IsInjective(f)
  BY <1>7 DEF Bijection, Injection
<1>9. SetToSeq(S) \in [1 .. Cardinality(S) -> S] /\ IsInjective(SetToSeq(S))
  BY <1>8 DEF SetToSeq
<1> DEFINE g == SetToSeq(S)
<1>10. g \in Injection(1 .. Cardinality(S), S)
  BY <1>9 DEF Injection
<1>11. g \in Surjection(1 .. Cardinality(S), S)
  <2>1. IsFiniteSet(1 .. Cardinality(S)) /\ Cardinality(1 .. Cardinality(S)) = Cardinality(S)
    BY <1>6, FS_Interval
  <2> HIDE DEF g, S
  <2> QED
    BY <1>5, <1>10, <2>1, FS_Injection
<1> HIDE DEF g
<1>12. /\ DOMAIN g = 1 .. Cardinality(S)
       /\ \A i : i \in S <=> \E k \in DOMAIN g : g[k] = i
       /\ \A j, k \in DOMAIN g : g[j] = g[k] => j = k
  BY <1>10, <1>11 DEF Surjection, Injection, IsInjective
<1>13. ToSet(g) = S
  BY <1>12 DEF ToSet
<1>14. New(c, list) = g
  BY DEF New, g
<1> QED
  BY <1>12, <1>13, <1>14, NewIsSeq

(* Comments on links are one for each place in the list, and on nothing    *)
(* else.                                                                   *)
LEMMA LinkedToTell ==
  ASSUME NEW list \in Seq(Items), NEW i \in Items
  PROVE  /\ Times(TellLinked(list), Unlinked(i)) = 0
         /\ i \notin ToSet(list) => Times(TellLinked(list), Linked(i)) = 0
         /\ i \in ToSet(list) => Times(TellLinked(list), Linked(i)) >= 1
         /\ (i \in ToSet(list) /\ \A j, k \in DOMAIN list : list[j] = list[k] => j = k) =>
              Times(TellLinked(list), Linked(i)) = 1
<1> DEFINE todo == TellLinked(list)
<1>1. /\ todo \in Seq(Texts) /\ DOMAIN todo = DOMAIN list
      /\ \A k \in DOMAIN list : todo[k] = Linked(list[k]) /\ list[k] \in Items
  BY TellLinkedIsSeq DEF TellLinked
<1> HIDE DEF todo
<1>2. Unlinked(i) \notin ToSet(todo)
  BY <1>1, LinkTexts DEF ToSet
<1>3. Linked(i) \in ToSet(todo) <=> i \in ToSet(list)
  BY <1>1, LinkTexts DEF ToSet
<1>4. IsFiniteSet(Positions(todo, Linked(i))) /\ Times(todo, Linked(i)) \in Nat
  BY <1>1, PositionsFinite
<1>5. ASSUME i \in ToSet(list) PROVE Times(todo, Linked(i)) >= 1
  <2>1. Positions(todo, Linked(i)) # {}
    BY <1>3, <1>5 DEF Positions, ToSet
  <2>2. Times(todo, Linked(i)) # 0
    BY <1>4, <2>1, FS_EmptySet DEF Times
  <2> QED
    BY <1>4, <2>2
<1>6. ASSUME i \in ToSet(list), \A j, k \in DOMAIN list : list[j] = list[k] => j = k
      PROVE  Times(todo, Linked(i)) = 1
  <2>1. PICK k \in DOMAIN list : list[k] = i
    BY <1>6 DEF ToSet
  <2>2. Positions(todo, Linked(i)) = {k}
    <3>1. \A j \in DOMAIN list : todo[j] = Linked(i) <=> j = k
      BY <1>1, <1>6, <2>1, LinkTexts
    <3> QED
      BY <1>1, <2>1, <3>1 DEF Positions
  <2> QED
    BY <2>2, OnceToTell
<1> QED
  BY <1>2, <1>3, <1>5, <1>6, NoneToTell DEF todo

-----------------------------------------------------------------------------

(* Of a case that was not created there is nothing either.                 *)
UnusedClean == \A c \in CaseIds : cases[c] = Unused => NoTrace(c)

(* A creation has nothing else to tell before its alerts are linked.       *)
GivenLast ==
  \A t \in Threads :
    /\ pc[t] = "given" => call[t].todo = <<>>
    /\ pc[t] = "tell" /\ call[t].toLink # <<>> => call[t].todo = <<Created>>
    /\ \A i \in ToSet(call[t].toLink) : <<call[t].case, i>> \in given

LinksInv == LinksTold /\ UnusedClean /\ GivenLast

(* The timeline's balance of an item, as far as t has a part in it, in     *)
(* comments told (cs) and untold (calls).                                  *)
Part(cs, calls, t, c, i) ==
  (cs[c][Linked(i)] + Mine(calls, t, c, Linked(i)))
    - (cs[c][Unlinked(i)] + Mine(calls, t, c, Unlinked(i)))

Expected(ls, c, i) == IF <<c, i>> \in ls THEN 1 ELSE 0

(* LinksTold for one case and item.                                        *)
LinkTold(c, i) ==
  LET balance == Told(c, Linked(i)) - Told(c, Unlinked(i))
  IN  IF <<c, i>> \in given THEN balance >= Expected(links, c, i)
      ELSE balance = Expected(links, c, i)

LEMMA LinkToldEach ==
  LinksTold <=> \A c \in CaseIds \ cut, i \in Items : Exists(c) => LinkTold(c, i)
BY DEF LinksTold, LinkTold, Expected

(* The balance moves with t's part.                                        *)
LEMMA BalanceMoves ==
  ASSUME CInv, CInv', NEW t \in Threads, \A u \in Threads \ {t} : call'[u] = call[u],
         NEW c \in CaseIds, NEW i \in Items
  PROVE  /\ Part(comments, call, t, c, i) \in Int /\ Part(comments', call', t, c, i) \in Int
         /\ Told(c, Linked(i)) - Told(c, Unlinked(i)) \in Int
         /\ (Told(c, Linked(i)) - Told(c, Unlinked(i)))'
              = (Told(c, Linked(i)) - Told(c, Unlinked(i)))
                + (Part(comments', call', t, c, i) - Part(comments, call, t, c, i))
<1> DEFINE L == Linked(i)
           M == Unlinked(i)
           a == Cardinality(Untold(call, Threads \ {t}, c, L))
           b == Cardinality(Untold(call, Threads \ {t}, c, M))
<1>1. /\ call \in [Threads -> CallRecord] /\ call' \in [Threads -> CallRecord]
      /\ comments \in [CaseIds -> [Texts -> Nat]] /\ comments' \in [CaseIds -> [Texts -> Nat]]
  BY DEF CInv, CallsTyped
<1>2. /\ comments[c][L] \in Nat /\ comments[c][M] \in Nat
      /\ comments'[c][L] \in Nat /\ comments'[c][M] \in Nat
  BY <1>1, LinkTexts
<1>3. /\ a \in Nat /\ Mine(call, t, c, L) \in Nat
      /\ Cardinality(Untold(call, Threads, c, L)) = a + Mine(call, t, c, L)
  BY <1>1, UntoldSplit
<1>4. /\ b \in Nat /\ Mine(call, t, c, M) \in Nat
      /\ Cardinality(Untold(call, Threads, c, M)) = b + Mine(call, t, c, M)
  BY <1>1, UntoldSplit
<1>5. /\ Cardinality(Untold(call', Threads \ {t}, c, L)) = a
      /\ Cardinality(Untold(call', Threads \ {t}, c, M)) = b
  BY UntoldByOthers
<1>6. /\ Mine(call', t, c, L) \in Nat
      /\ Cardinality(Untold(call', Threads, c, L)) = a + Mine(call', t, c, L)
  BY <1>1, <1>5, UntoldSplit
<1>7. /\ Mine(call', t, c, M) \in Nat
      /\ Cardinality(Untold(call', Threads, c, M)) = b + Mine(call', t, c, M)
  BY <1>1, <1>5, UntoldSplit
<1>8. /\ Told(c, L) = comments[c][L] + (a + Mine(call, t, c, L))
      /\ Told(c, M) = comments[c][M] + (b + Mine(call, t, c, M))
  BY <1>3, <1>4 DEF Told
<1>9. /\ Told(c, L)' = comments'[c][L] + (a + Mine(call', t, c, L))
      /\ Told(c, M)' = comments'[c][M] + (b + Mine(call', t, c, M))
  BY <1>6, <1>7 DEF Told, Linked, Unlinked
<1>10. (Told(c, L) - Told(c, M))' = Told(c, L)' - Told(c, M)'
  BY DEF Linked, Unlinked
<1> HIDE DEF a, b, L, M
<1>11. /\ Part(comments, call, t, c, i) = (comments[c][L] + Mine(call, t, c, L)) - (comments[c][M] + Mine(call, t, c, M))
       /\ Part(comments', call', t, c, i) = (comments'[c][L] + Mine(call', t, c, L)) - (comments'[c][M] + Mine(call', t, c, M))
  BY DEF Part, L, M
<1>12. /\ Part(comments, call, t, c, i) \in Int /\ Part(comments', call', t, c, i) \in Int
       /\ Told(c, L) - Told(c, M) \in Int
       /\ Told(c, L)' - Told(c, M)' = (Told(c, L) - Told(c, M)) + (Part(comments', call', t, c, i) - Part(comments, call, t, c, i))
  BY <1>2, <1>3, <1>4, <1>6, <1>7, <1>8, <1>9, <1>11
<1> QED
  BY <1>10, <1>12 DEF L, M

LEMMA LinkToldStays ==
  ASSUME CInv, CInv', NEW t \in Threads, \A u \in Threads \ {t} : call'[u] = call[u],
         NEW c \in CaseIds, NEW i \in Items, LinkTold(c, i),
         <<c, i>> \in given' <=> <<c, i>> \in given,
         NEW d, d = Part(comments', call', t, c, i) - Part(comments, call, t, c, i),
         NEW x, x = Expected(links', c, i) - Expected(links, c, i),
         d = x \/ (<<c, i>> \in given /\ d >= x)
  PROVE  LinkTold(c, i)'
<1> DEFINE balance == Told(c, Linked(i)) - Told(c, Unlinked(i))
<1>1. balance \in Int /\ d \in Int /\ balance' = balance + d
  BY BalanceMoves
<1>2. /\ Expected(links, c, i) \in Int /\ Expected(links', c, i) \in Int
      /\ x \in Int /\ Expected(links', c, i) = Expected(links, c, i) + x
  BY DEF Expected
<1>3. IF <<c, i>> \in given THEN balance >= Expected(links, c, i)
      ELSE balance = Expected(links, c, i)
  BY DEF LinkTold
<1>4. (Expected(links, c, i))' = Expected(links', c, i)
  BY DEF Expected
<1> HIDE DEF balance
<1>5. IF <<c, i>> \in given' THEN balance' >= Expected(links', c, i)
      ELSE balance' = Expected(links', c, i)
  BY <1>1, <1>2, <1>3
<1>6. balance' = (Told(c, Linked(i)) - Told(c, Unlinked(i)))'
  BY DEF balance
<1> QED
  BY <1>4, <1>5, <1>6 DEF LinkTold

(* Nothing to tell of item i of case c.                                    *)
Silent(r, c, i) == r.case = c => Linked(i) \notin ToSet(r.todo) /\ Unlinked(i) \notin ToSet(r.todo)

LEMMA SilentPart ==
  ASSUME NEW calls, NEW t, NEW c, NEW i, Silent(calls[t], c, i)
  PROVE  Mine(calls, t, c, Linked(i)) = 0 /\ Mine(calls, t, c, Unlinked(i)) = 0
BY NoneToTell DEF Silent, Mine

(* A step after which comments and links are as they were, for cases that  *)
(* are vouched for, and of which t tells nothing before or after.          *)
LEMMA QuietStep ==
  ASSUME CInv, CInv', LinksTold, NEW t \in Threads,
         \A u \in Threads \ {t} : call'[u] = call[u], cut \subseteq cut',
         UNCHANGED <<given, comments>>,
         \A c \in CaseIds \ cut' : Exists(c)' => Exists(c),
         \A c \in CaseIds \ cut', i \in Items :
           /\ <<c, i>> \in links' <=> <<c, i>> \in links
           /\ Silent(call[t], c, i) /\ Silent(call'[t], c, i)
  PROVE  LinksTold'
<1>1. ASSUME NEW c \in CaseIds \ cut', NEW i \in Items, Exists(c)' PROVE LinkTold(c, i)'
  <2>1. LinkTold(c, i)
    BY <1>1, LinkToldEach
  <2>2. /\ Mine(call, t, c, Linked(i)) = 0 /\ Mine(call, t, c, Unlinked(i)) = 0
        /\ Mine(call', t, c, Linked(i)) = 0 /\ Mine(call', t, c, Unlinked(i)) = 0
    BY SilentPart
  <2>3. /\ Part(comments', call', t, c, i) = Part(comments, call, t, c, i)
        /\ Part(comments, call, t, c, i) \in Int
    BY <2>2, BalanceMoves DEF Part
  <2>4. Expected(links', c, i) = Expected(links, c, i) /\ Expected(links, c, i) \in Int
    BY DEF Expected
  <2>5. Part(comments', call', t, c, i) - Part(comments, call, t, c, i)
          = Expected(links', c, i) - Expected(links, c, i)
    BY <2>3, <2>4
  <2> QED
    BY <2>1, <2>5, LinkToldStays
<1> QED
  BY <1>1 DEF LinksTold, LinkTold, Expected

(* A step of t about its own case.                                         *)
LEMMA OwnStep ==
  ASSUME CInv, CInv', LinksTold, NEW t \in Threads, NEW c \in CaseIds, c = call[t].case,
         \A u \in Threads \ {t} : call'[u] = call[u],
         UNCHANGED <<given, cut, cases>>, call'[t].case \in {c, Unset},
         \A d \in CaseIds \ {c} : comments'[d] = comments[d],
         \A d \in CaseIds \ {c}, i \in Items : <<d, i>> \in links' <=> <<d, i>> \in links,
         \A i \in Items : \E m, x \in Int :
           /\ m = Part(comments', call', t, c, i) - Part(comments, call, t, c, i)
           /\ x = Expected(links', c, i) - Expected(links, c, i)
           /\ m = x \/ (<<c, i>> \in given /\ m >= x)
  PROVE  LinksTold'
<1>1. ASSUME NEW d \in CaseIds \ cut', NEW i \in Items, Exists(d)' PROVE LinkTold(d, i)'
  <2>1. LinkTold(d, i)
    BY <1>1, LinkToldEach DEF Exists
  <2>2. CASE d = c
    BY <2>1, <2>2, LinkToldStays
  <2>3. CASE d # c
    <3>1. Silent(call[t], d, i) /\ Silent(call'[t], d, i)
      BY <2>3, InputsAssumption DEF Silent
    <3>2. /\ Mine(call, t, d, Linked(i)) = 0 /\ Mine(call, t, d, Unlinked(i)) = 0
          /\ Mine(call', t, d, Linked(i)) = 0 /\ Mine(call', t, d, Unlinked(i)) = 0
      BY <3>1, SilentPart
    <3>3. /\ Part(comments', call', t, d, i) = Part(comments, call, t, d, i)
          /\ Part(comments, call, t, d, i) \in Int
      BY <2>3, <3>2, BalanceMoves DEF Part
    <3>4. Expected(links', d, i) = Expected(links, d, i) /\ Expected(links, d, i) \in Int
      BY <2>3 DEF Expected
    <3>5. Part(comments', call', t, d, i) - Part(comments, call, t, d, i)
            = Expected(links', d, i) - Expected(links, d, i)
      BY <3>3, <3>4
    <3> QED
      BY <2>1, <3>5, LinkToldStays
  <2> QED
    BY <2>2, <2>3
<1> QED
  BY <1>1 DEF LinksTold, LinkTold, Expected

(* Cases that were not created stay without trace.                         *)
LEMMA UnusedKept ==
  ASSUME CInv, UnusedClean, NEW t \in Threads,
         \A c \in CaseIds : cases'[c] = Unused => cases[c] = Unused,
         \A l \in links' : l \in links \/ l[1] = call[t].case,
         \A c \in CaseIds : c # call[t].case => comments'[c] = comments[c],
         \A n \in Notes : notes'[n] \in {notes[n], call[t].case, Gone},
         \A u \in Threads \ {t} : call'[u] = call[u],
         \/ call'[t].case \in {Unset, call[t].case}
         \/ call'[t].case \in CaseIds /\ cases'[call'[t].case] # Unused
  PROVE  UnusedClean'
<1> SUFFICES ASSUME NEW c \in CaseIds, cases'[c] = Unused PROVE NoTrace(c)'
  BY DEF UnusedClean
<1>1. NoTrace(c)
  BY DEF UnusedClean
<1>2. c # call[t].case /\ c # Gone /\ c # Unset
  BY <1>1, InputsAssumption DEF NoTrace
<1>3. \A l \in links' : l[1] # c
  BY <1>1, <1>2 DEF NoTrace
<1>4. \A text \in Texts : comments'[c][text] = 0
  BY <1>1, <1>2 DEF NoTrace
<1>5. \A n \in Notes : notes'[n] # c
  BY <1>1, <1>2 DEF NoTrace
<1>6. \A u \in Threads : call'[u].case # c
  BY <1>1, <1>2 DEF NoTrace
<1> QED
  BY <1>3, <1>4, <1>5, <1>6 DEF NoTrace

LEMMA GivenKept ==
  ASSUME GivenLast, NEW t \in Threads, given \subseteq given',
         \A u \in Threads \ {t} : pc'[u] = pc[u] /\ call'[u] = call[u],
         pc'[t] = "given" => call'[t].todo = <<>>,
         pc'[t] = "tell" /\ call'[t].toLink # <<>> => call'[t].todo = <<Created>>,
         \A i \in ToSet(call'[t].toLink) : <<call'[t].case, i>> \in given'
  PROVE  GivenLast'
BY DEF GivenLast

(* What becomes of a request that does its work.                           *)
LEMMA WorkFrame ==
  ASSUME CInv, NEW t \in Threads, pc[t] \notin {"idle", "tell", "given"},
         NEW todo \in Seq(Texts), Tells(t, todo)
  PROVE  /\ call[t].todo = <<>> /\ call[t].toLink = <<>> /\ call[t].case \in CaseIds
         /\ \A u \in Threads \ {t} : pc'[u] = pc[u] /\ call'[u] = call[u]
         /\ call'[t].case \in {call[t].case, Unset} /\ call'[t].toLink = <<>>
         /\ pc'[t] # "given" /\ ToSet(call'[t].todo) \subseteq ToSet(todo)
         /\ \A text : /\ Mine(call, t, call[t].case, text) = 0
                      /\ Mine(call', t, call[t].case, text) = Times(todo, text)
<1>1. call[t].todo = <<>> /\ call[t].toLink = <<>> /\ call[t].case \in CaseIds
  BY DEF CInv, TodoInOrder
<1>2. /\ \A u \in Threads \ {t} : pc'[u] = pc[u] /\ call'[u] = call[u]
      /\ \/ todo = <<>> /\ pc'[t] = "idle" /\ call'[t] = Idle
         \/ /\ todo # <<>> /\ pc'[t] = "tell" /\ call'[t].todo = todo
            /\ call'[t].case = call[t].case /\ call'[t].toLink = call[t].toLink
  BY TellsResult DEF CInv
<1>3. Idle.case = Unset /\ Idle.todo = <<>> /\ Idle.toLink = <<>>
  BY DEF Idle, Request
<1>4. \A text : Times(<<>>, text) = 0
  BY NoneToTell, ToSetOfNone
<1>5. \A text : Mine(call, t, call[t].case, text) = 0
  BY <1>1, <1>4 DEF Mine
<1>6. \A text : Mine(call', t, call[t].case, text) = Times(todo, text)
  BY <1>1, <1>2, <1>3, <1>4, InputsAssumption DEF Mine
<1> QED
  BY <1>1, <1>2, <1>3, <1>5, <1>6

-----------------------------------------------------------------------------

(* Requests without a word on links.                                       *)
LEMMA PlainWorkLinks ==
  ASSUME CInv, CInv', LinksInv, NEW t \in Threads, pc[t] \notin {"idle", "tell", "given"},
         NEW todo \in Seq(Texts), Tells(t, todo),
         \A i \in Items : Linked(i) \notin ToSet(todo) /\ Unlinked(i) \notin ToSet(todo),
         UNCHANGED <<comments, links, cut, given>>,
         \A c \in CaseIds : cases'[c] = Unused => cases[c] = Unused,
         \A c \in CaseIds : Exists(c)' => Exists(c),
         \A n \in Notes : notes'[n] \in {notes[n], call[t].case, Gone}
  PROVE  LinksInv'
<1>1. /\ call[t].todo = <<>> /\ call[t].toLink = <<>> /\ call[t].case \in CaseIds
      /\ \A u \in Threads \ {t} : pc'[u] = pc[u] /\ call'[u] = call[u]
      /\ call'[t].case \in {call[t].case, Unset} /\ call'[t].toLink = <<>>
      /\ pc'[t] # "given" /\ ToSet(call'[t].todo) \subseteq ToSet(todo)
  BY WorkFrame
<1>2. \A c \in CaseIds, i \in Items : Silent(call[t], c, i) /\ Silent(call'[t], c, i)
  BY <1>1, ToSetOfNone DEF Silent
<1>3. LinksTold'
  BY <1>1, <1>2, QuietStep DEF LinksInv
<1>4. UnusedClean'
  BY <1>1, UnusedKept DEF LinksInv
<1>5. GivenLast'
  BY <1>1, ToSetOfNone, GivenKept DEF LinksInv
<1> QED
  BY <1>3, <1>4, <1>5 DEF LinksInv

LEMMA AnswersLinks ==
  ASSUME CInv, CInv', LinksInv, NEW t \in Threads,
         \/ \E n \in Notes : AddNote(t, n)
         \/ RemoveNote(t)
         \/ \E s \in Steps : CompleteStep(t, s) \/ UncompleteStep(t, s)
         \/ \E r \in Resolutions \cup {Unset, Other} : Refuse(t, r)
  PROVE  LinksInv'
<1>1. /\ Return(t) /\ UNCHANGED <<cases, comments, links, cut, given>>
      /\ pc[t] \in {"note", "unnote", "step", "unstep", "patch"}
  BY DEF AddNote, RemoveNote, CompleteStep, UncompleteStep, Refuse
<1>2. Tells(t, <<>>) /\ <<>> \in Seq(Texts)
  BY <1>1 DEF Tells
<1>3. \A n \in Notes : notes'[n] \in {notes[n], call[t].case, Gone}
  BY DEF AddNote, RemoveNote, CompleteStep, UncompleteStep, Refuse, CInv, CallsTyped
<1>4. /\ \A c \in CaseIds : cases'[c] = Unused => cases[c] = Unused
      /\ \A c \in CaseIds : Exists(c)' => Exists(c)
  BY <1>1 DEF Exists
<1> QED
  BY <1>1, <1>2, <1>3, <1>4, ToSetOfNone, PlainWorkLinks

LEMMA PatchLinks ==
  ASSUME CInv, CInv', LinksInv, NEW t \in Threads, NEW status \in Statuses \cup {Unset},
         NEW resolution, Patch(t, status, resolution)
  PROVE  LinksInv'
<1> DEFINE todo == IF Announces(t, status) THEN <<Became(status)>> ELSE <<>>
           set  == IF status = "resolved" THEN Closing(t, resolution) ELSE resolution
           c    == call[t].case
<1>1. /\ pc[t] = "patch" /\ Tells(t, todo) /\ UNCHANGED <<comments, links, cut, given, notes>>
      /\ cases' = IF Exists(c) THEN [cases EXCEPT ![c] = Updated(@, status, set)] ELSE cases
  BY DEF Patch
<1>2. Announces(t, status) => status \in Statuses
  BY DEF Announces
<1>3. todo \in Seq(Texts)
  BY <1>2, TextsDiffer
<1>4. \A i \in Items : Linked(i) \notin ToSet(todo) /\ Unlinked(i) \notin ToSet(todo)
  BY LinkTexts, ToSetOfNone, ToSetOfOne
<1> HIDE DEF todo, set
<1>5. \A d \in CaseIds : cases'[d] = cases[d] \/ (d = c /\ Exists(d))
  BY <1>1 DEF CInv, CallsTyped
<1>6. \A d \in CaseIds : Exists(d) => cases[d] # Unused /\ (Exists(d)' => Exists(d))
  BY DEF Exists, Unused, Statuses
<1>7. \A d \in CaseIds : Exists(d)' => Exists(d)
  BY <1>5 DEF Exists
<1>8. \A d \in CaseIds : cases'[d] = Unused => cases[d] = Unused
  <2> SUFFICES ASSUME NEW d \in CaseIds, cases'[d] = Unused, d = c, Exists(d) PROVE FALSE
    BY <1>5
  <2>1. cases'[d] = Updated(cases[d], status, set)
    BY <1>1 DEF CInv, CallsTyped
  <2>2. cases'[d].status \in Statuses
    BY <2>1 DEF Updated, Exists, CInv, Statuses
  <2> QED
    BY <2>2 DEF Unused, Statuses
<1>9. \A n \in Notes : notes'[n] \in {notes[n], call[t].case, Gone}
  BY <1>1
<1> QED
  BY <1>1, <1>3, <1>4, <1>7, <1>8, <1>9, PlainWorkLinks

(* New links are told once for each item that was not linked.              *)
LEMMA LinkLinks ==
  ASSUME CInv, CInv', LinksInv, NEW t \in Threads, NEW list \in Lists, Link(t, list)
  PROVE  LinksInv'
<1> DEFINE c == call[t].case
           new == New(c, list)
           todo == TellLinked(new)
<1>1. /\ pc[t] = "link" /\ Tells(t, todo)
      /\ UNCHANGED <<cases, comments, notes, cut, given>>
      /\ links' = links \cup ({c} \X ToSet(list))
  BY DEF Link
<1>2. /\ new \in Seq(Items)
      /\ \A i : i \in ToSet(new) <=> i \in ToSet(list) /\ <<c, i>> \notin links
      /\ \A j, k \in DOMAIN new : new[j] = new[k] => j = k
  BY NewIsSet, InputsAssumption
<1> HIDE DEF new
<1>3. todo \in Seq(Texts)
  BY <1>2, TellLinkedIsSeq
<1>4. \A i \in Items :
        /\ Times(todo, Unlinked(i)) = 0
        /\ Times(todo, Linked(i)) = IF i \in ToSet(list) /\ <<c, i>> \notin links THEN 1 ELSE 0
  BY <1>2, LinkedToTell
<1> HIDE DEF todo
<1>5. /\ call[t].todo = <<>> /\ call[t].toLink = <<>> /\ c \in CaseIds
      /\ \A u \in Threads \ {t} : pc'[u] = pc[u] /\ call'[u] = call[u]
      /\ call'[t].case \in {c, Unset} /\ call'[t].toLink = <<>> /\ pc'[t] # "given"
      /\ \A text : Mine(call, t, c, text) = 0 /\ Mine(call', t, c, text) = Times(todo, text)
  BY <1>1, <1>3, WorkFrame
<1>6. ASSUME NEW i \in Items
      PROVE  \E m, x \in Int :
               /\ m = Part(comments', call', t, c, i) - Part(comments, call, t, c, i)
               /\ x = Expected(links', c, i) - Expected(links, c, i)
               /\ m = x \/ (<<c, i>> \in given /\ m >= x)
  <2>1. comments[c][Linked(i)] \in Nat /\ comments[c][Unlinked(i)] \in Nat
    BY <1>5, LinkTexts DEF CInv, CallsTyped
  <2>2. Part(comments', call', t, c, i) - Part(comments, call, t, c, i)
          = IF i \in ToSet(list) /\ <<c, i>> \notin links THEN 1 ELSE 0
    BY <1>1, <1>4, <1>5, <2>1 DEF Part
  <2>3. Expected(links', c, i) - Expected(links, c, i)
          = IF i \in ToSet(list) /\ <<c, i>> \notin links THEN 1 ELSE 0
    BY <1>1 DEF Expected
  <2> QED
    BY <2>2, <2>3
<1>7. \A d \in CaseIds \ {c}, i \in Items : <<d, i>> \in links' <=> <<d, i>> \in links
  BY <1>1
<1>8. LinksTold'
  BY <1>1, <1>5, <1>6, <1>7, OwnStep DEF LinksInv
<1>9. \A l \in links' : l \in links \/ l[1] = c
  BY <1>1
<1>10. UnusedClean'
  BY <1>1, <1>5, <1>9, UnusedKept DEF LinksInv
<1>11. GivenLast'
  BY <1>1, <1>5, ToSetOfNone, GivenKept DEF LinksInv
<1> QED
  BY <1>8, <1>10, <1>11 DEF LinksInv

LEMMA UnlinkLinks ==
  ASSUME CInv, CInv', LinksInv, NEW t \in Threads, NEW i \in Items, Unlink(t, i)
  PROVE  LinksInv'
<1> DEFINE c == call[t].case
           todo == IF <<c, i>> \in links THEN <<Unlinked(i)>> ELSE <<>>
<1>1. /\ pc[t] = "unlink" /\ Tells(t, todo)
      /\ UNCHANGED <<cases, comments, notes, cut, given>>
      /\ links' = links \ {<<c, i>>}
  BY DEF Unlink
<1>2. Unlinked(i) \in Texts
  BY LinkTexts
<1>3. todo \in Seq(Texts)
  BY <1>2
<1>4. \A j \in Items :
        /\ Times(todo, Linked(j)) = 0
        /\ Times(todo, Unlinked(j)) = IF j = i /\ <<c, i>> \in links THEN 1 ELSE 0
  BY LinkTexts, OneToTell, NoneToTell, ToSetOfNone
<1> HIDE DEF todo
<1>5. /\ call[t].todo = <<>> /\ call[t].toLink = <<>> /\ c \in CaseIds
      /\ \A u \in Threads \ {t} : pc'[u] = pc[u] /\ call'[u] = call[u]
      /\ call'[t].case \in {c, Unset} /\ call'[t].toLink = <<>> /\ pc'[t] # "given"
      /\ \A text : Mine(call, t, c, text) = 0 /\ Mine(call', t, c, text) = Times(todo, text)
  BY <1>1, <1>3, WorkFrame
<1>6. ASSUME NEW j \in Items
      PROVE  \E m, x \in Int :
               /\ m = Part(comments', call', t, c, j) - Part(comments, call, t, c, j)
               /\ x = Expected(links', c, j) - Expected(links, c, j)
               /\ m = x \/ (<<c, j>> \in given /\ m >= x)
  <2>1. comments[c][Linked(j)] \in Nat /\ comments[c][Unlinked(j)] \in Nat
    BY <1>5, LinkTexts DEF CInv, CallsTyped
  <2>2. Part(comments', call', t, c, j) - Part(comments, call, t, c, j)
          = IF j = i /\ <<c, i>> \in links THEN -1 ELSE 0
    BY <1>1, <1>4, <1>5, <2>1 DEF Part
  <2>3. Expected(links', c, j) - Expected(links, c, j)
          = IF j = i /\ <<c, i>> \in links THEN -1 ELSE 0
    BY <1>1 DEF Expected
  <2> QED
    BY <2>2, <2>3
<1>7. \A d \in CaseIds \ {c}, j \in Items : <<d, j>> \in links' <=> <<d, j>> \in links
  BY <1>1
<1>8. LinksTold'
  BY <1>1, <1>5, <1>6, <1>7, OwnStep DEF LinksInv
<1>9. \A l \in links' : l \in links \/ l[1] = c
  BY <1>1
<1>10. UnusedClean'
  BY <1>1, <1>5, <1>9, UnusedKept DEF LinksInv
<1>11. GivenLast'
  BY <1>1, <1>5, ToSetOfNone, GivenKept DEF LinksInv
<1> QED
  BY <1>8, <1>10, <1>11 DEF LinksInv

(* The links of a creation: what was given at it may be told more often.   *)
LEMMA LinkGivenLinks ==
  ASSUME CInv, CInv', LinksInv, NEW t \in Threads, LinkGiven(t)
  PROVE  LinksInv'
<1> DEFINE c == call[t].case
           list == call[t].toLink
           todo == TellLinked(list)
           r == Request(c, call[t].found, todo, <<>>, call[t].note)
<1>1. /\ pc[t] = "given" /\ UNCHANGED <<cases, comments, notes, cut, given>>
      /\ links' = links \cup ({c} \X ToSet(list))
      /\ pc' = [pc EXCEPT ![t] = "tell"] /\ call' = [call EXCEPT ![t] = r]
  BY DEF LinkGiven, Goto
<1>2. /\ list \in Seq(Items) /\ c \in CaseIds /\ call[t].todo = <<>>
      /\ \A i \in ToSet(list) : <<c, i>> \in given
  BY <1>1 DEF CInv, CallsTyped, CallRecord, TodoInOrder, LinksInv, GivenLast
<1>3. /\ r.case = c /\ r.todo = todo /\ r.toLink = <<>>
  BY DEF Request
<1> HIDE DEF r
<1>4. /\ pc'[t] = "tell" /\ call'[t] = r
      /\ \A u \in Threads \ {t} : pc'[u] = pc[u] /\ call'[u] = call[u]
  BY <1>1 DEF CInv, CallsTyped
<1>5. /\ \A text : Mine(call, t, c, text) = 0
      /\ \A text : Mine(call', t, c, text) = Times(todo, text)
  BY <1>2, <1>3, <1>4, NoneToTell, ToSetOfNone DEF Mine
<1>6. ASSUME NEW i \in Items
      PROVE  \E m, x \in Int :
               /\ m = Part(comments', call', t, c, i) - Part(comments, call, t, c, i)
               /\ x = Expected(links', c, i) - Expected(links, c, i)
               /\ m = x \/ (<<c, i>> \in given /\ m >= x)
  <2>1. comments[c][Linked(i)] \in Nat /\ comments[c][Unlinked(i)] \in Nat
    BY <1>2, LinkTexts DEF CInv, CallsTyped
  <2>2. /\ Times(todo, Unlinked(i)) = 0 /\ Times(todo, Linked(i)) \in Nat
        /\ i \notin ToSet(list) => Times(todo, Linked(i)) = 0
        /\ i \in ToSet(list) => Times(todo, Linked(i)) >= 1
    BY <1>2, LinkedToTell, TellLinkedIsSeq, PositionsFinite
  <2>3. Part(comments', call', t, c, i) - Part(comments, call, t, c, i) = Times(todo, Linked(i))
    <3>1. Part(comments, call, t, c, i) = comments[c][Linked(i)] - comments[c][Unlinked(i)]
      BY <1>5, <2>1 DEF Part
    <3>2. Part(comments', call', t, c, i)
            = (comments[c][Linked(i)] + Times(todo, Linked(i))) - comments[c][Unlinked(i)]
      <4>1. /\ Mine(call', t, c, Linked(i)) = Times(todo, Linked(i))
            /\ Mine(call', t, c, Unlinked(i)) = 0
        BY <1>5, <2>2
      <4>2. comments' = comments
        BY <1>1
      <4> HIDE DEF todo
      <4> QED
        BY <2>1, <2>2, <4>1, <4>2 DEF Part
    <3> HIDE DEF todo
    <3> QED
      BY <2>1, <2>2, <3>1, <3>2
  <2> HIDE DEF todo
  <2>4. /\ Expected(links', c, i) - Expected(links, c, i) \in {0, 1}
        /\ i \notin ToSet(list) => Expected(links', c, i) - Expected(links, c, i) = 0
    BY <1>1 DEF Expected
  <2> QED
    BY <1>2, <2>2, <2>3, <2>4
<1>7. \A d \in CaseIds \ {c}, i \in Items : <<d, i>> \in links' <=> <<d, i>> \in links
  BY <1>1
<1>8. LinksTold'
  BY <1>1, <1>2, <1>3, <1>4, <1>6, <1>7, OwnStep DEF LinksInv
<1>9. \A l \in links' : l \in links \/ l[1] = c
  BY <1>1
<1>10. UnusedClean'
  BY <1>1, <1>3, <1>4, <1>9, UnusedKept DEF LinksInv
<1>11. GivenLast'
  BY <1>1, <1>3, <1>4, ToSetOfNone, GivenKept DEF LinksInv
<1> QED
  BY <1>8, <1>10, <1>11 DEF LinksInv

(* A comment that is added moves from those left to those there are.       *)
LEMMA TellLinks ==
  ASSUME CInv, CInv', LinksInv, NEW t \in Threads, Tell(t)
  PROVE  LinksInv'
<1> DEFINE c == call[t].case
           todo == call[t].todo
           head == Head(todo)
<1>1. /\ pc[t] = "tell" /\ UNCHANGED <<cases, notes, links, cut, given>>
      /\ comments' = [comments EXCEPT ![c][head] = @ + 1]
      /\ \/ call[t].toLink = <<>> /\ Tells(t, Tail(todo))
         \/ /\ call[t].toLink # <<>> /\ pc' = [pc EXCEPT ![t] = "given"]
            /\ call' = [call EXCEPT ![t].todo = Tail(todo)]
  BY DEF Tell, Goto
<1>2. /\ c \in CaseIds /\ todo \in Seq(Texts) /\ todo # <<>>
      /\ call[t] \in CallRecord /\ head \in Texts /\ Tail(todo) \in Seq(Texts)
  BY <1>1, ToSetOfSome DEF CInv, TodoInOrder, CallsTyped, CallRecord
<1>3. /\ \A u \in Threads \ {t} : pc'[u] = pc[u] /\ call'[u] = call[u]
      /\ \/ Tail(todo) = <<>> /\ pc'[t] = "idle" /\ call'[t] = Idle
         \/ /\ pc'[t] = "tell" /\ call'[t].todo = Tail(todo)
            /\ call'[t].case = c /\ call'[t].toLink = <<>>
         \/ /\ call[t].toLink # <<>> /\ pc'[t] = "given" /\ call'[t].todo = Tail(todo)
            /\ call'[t].case = c /\ call'[t].toLink = call[t].toLink
  <2>1. CASE call[t].toLink = <<>> /\ Tells(t, Tail(todo))
    BY <1>2, <2>1, TellsResult DEF CInv
  <2>2. CASE /\ call[t].toLink # <<>> /\ pc' = [pc EXCEPT ![t] = "given"]
             /\ call' = [call EXCEPT ![t].todo = Tail(todo)]
    <3>1. call'[t] = [call[t] EXCEPT !.todo = Tail(todo)]
      BY <2>2 DEF CInv, CallsTyped
    <3>2. /\ call'[t].todo = Tail(todo) /\ call'[t].case = c
          /\ call'[t].toLink = call[t].toLink
      BY <1>2, <3>1 DEF CallRecord
    <3> QED
      BY <2>2, <3>2 DEF CInv, CallsTyped
  <2> QED
    BY <1>1, <2>1, <2>2
<1>4. Idle.case = Unset /\ Idle.todo = <<>> /\ Idle.toLink = <<>>
  BY DEF Idle, Request
<1>5. call[t].toLink # <<>> => Tail(todo) = <<>>
  <2>1. call[t].toLink # <<>> => todo = <<Created>>
    BY <1>1 DEF LinksInv, GivenLast
  <2>2. Tail(<<Created>>) = <<>>
    OBVIOUS
  <2> HIDE DEF todo
  <2> QED
    BY <2>1, <2>2
<1>6. \A text : /\ Mine(call, t, c, text) = Times(todo, text)
                /\ Mine(call', t, c, text) = Times(Tail(todo), text)
  BY <1>2, <1>3, <1>4, NoneToTell, ToSetOfNone, InputsAssumption DEF Mine
<1>7. \A d \in CaseIds : d # c => comments'[d] = comments[d]
  BY <1>1 DEF CInv, CallsTyped
<1>8. ASSUME NEW text \in Texts
      PROVE  /\ comments[c][text] \in Nat /\ Times(todo, text) \in Nat
             /\ comments'[c][text] + Times(Tail(todo), text) = comments[c][text] + Times(todo, text)
  <2>1. comments[c][text] \in Nat
    BY <1>2 DEF CInv, CallsTyped
  <2>2. comments'[c][text] = comments[c][text] + (IF text = head THEN 1 ELSE 0)
    BY <1>1, <1>2, <2>1 DEF CInv, CallsTyped
  <2>3. Times(todo, text) = Times(Tail(todo), text) + (IF text = head THEN 1 ELSE 0)
    BY <1>2, TailToTell
  <2>4. Times(todo, text) \in Nat /\ Times(Tail(todo), text) \in Nat
    BY <1>2, PositionsFinite
  <2> HIDE DEF todo, head
  <2> QED
    BY <2>1, <2>2, <2>3, <2>4
<1> HIDE DEF todo, head
<1>9. ASSUME NEW i \in Items
      PROVE  \E m, x \in Int :
               /\ m = Part(comments', call', t, c, i) - Part(comments, call, t, c, i)
               /\ x = Expected(links', c, i) - Expected(links, c, i)
               /\ m = x \/ (<<c, i>> \in given /\ m >= x)
  <2>1. Part(comments', call', t, c, i) = Part(comments, call, t, c, i)
    BY <1>6, <1>8, LinkTexts DEF Part
  <2>2. Part(comments, call, t, c, i) \in Int
    BY <1>2, <1>3, BalanceMoves
  <2>3. Expected(links', c, i) = Expected(links, c, i) /\ Expected(links, c, i) \in Int
    BY <1>1 DEF Expected
  <2>4. /\ 0 = Part(comments', call', t, c, i) - Part(comments, call, t, c, i)
        /\ 0 = Expected(links', c, i) - Expected(links, c, i)
    BY <2>1, <2>2, <2>3
  <2> QED
    BY <2>4
<1>10. call'[t].case \in {c, Unset}
  BY <1>3, <1>4
<1>11. LinksTold'
  BY <1>1, <1>2, <1>3, <1>7, <1>9, <1>10, OwnStep DEF LinksInv
<1>12. UnusedClean'
  BY <1>1, <1>3, <1>7, <1>10, UnusedKept DEF LinksInv
<1>13. /\ pc'[t] = "given" => call'[t].todo = <<>>
       /\ pc'[t] = "tell" => call'[t].toLink = <<>>
       /\ call'[t].toLink = <<>> \/ (call'[t].case = c /\ call'[t].toLink = call[t].toLink)
  <2>1. CASE Tail(todo) = <<>> /\ pc'[t] = "idle" /\ call'[t] = Idle
    BY <1>4, <2>1
  <2>2. CASE /\ pc'[t] = "tell" /\ call'[t].todo = Tail(todo)
             /\ call'[t].case = c /\ call'[t].toLink = <<>>
    BY <2>2
  <2>3. CASE /\ call[t].toLink # <<>> /\ pc'[t] = "given" /\ call'[t].todo = Tail(todo)
             /\ call'[t].case = c /\ call'[t].toLink = call[t].toLink
    BY <1>5, <2>3
  <2> QED
    BY <1>3, <2>1, <2>2, <2>3
<1>14. \A i \in ToSet(call'[t].toLink) : <<call'[t].case, i>> \in given
  BY <1>13, ToSetOfNone DEF LinksInv, GivenLast
<1>15. GivenLast'
  BY <1>1, <1>3, <1>13, <1>14, GivenKept DEF LinksInv
<1> QED
  BY <1>11, <1>12, <1>15 DEF LinksInv

(* A request that stops with something left to tell, or to link: its case  *)
(* is not vouched for.                                                     *)
LEMMA StopLinks ==
  ASSUME CInv, CInv', LinksInv, NEW t \in Threads,
         Abort(t) \/ \E list \in Lists \cup Given : LinkBreaks(t, list)
  PROVE  LinksInv'
<1>1. /\ UNCHANGED <<cases, comments, notes, given>> /\ Return(t) /\ cut \subseteq cut'
      /\ call[t].case \in cut' \/ (call[t].todo = <<>> /\ links' = links)
      /\ \A c, i : c # call[t].case => (<<c, i>> \in links' <=> <<c, i>> \in links)
      /\ \A l \in links' : l \in links \/ l[1] = call[t].case
  BY DEF Abort, LinkBreaks
<1>2. /\ \A u \in Threads \ {t} : pc'[u] = pc[u] /\ call'[u] = call[u]
      /\ pc'[t] = "idle" /\ call'[t] = Idle
  BY <1>1, ReturnResult DEF CInv
<1>3. Idle.case = Unset /\ Idle.todo = <<>> /\ Idle.toLink = <<>>
  BY DEF Idle, Request
<1>4. ASSUME NEW c \in CaseIds \ cut', NEW i \in Items
      PROVE  /\ <<c, i>> \in links' <=> <<c, i>> \in links
             /\ Silent(call[t], c, i) /\ Silent(call'[t], c, i)
  <2>1. c # call[t].case \/ (call[t].todo = <<>> /\ links' = links)
    BY <1>1, <1>4
  <2> QED
    BY <1>1, <1>2, <1>3, <2>1, ToSetOfNone DEF Silent
<1>5. \A c \in CaseIds : Exists(c)' => Exists(c)
  BY <1>1 DEF Exists
<1>6. LinksTold'
  BY <1>1, <1>2, <1>4, <1>5, QuietStep DEF LinksInv
<1>7. UnusedClean'
  BY <1>1, <1>2, <1>3, UnusedKept DEF LinksInv
<1>8. GivenLast'
  BY <1>1, <1>2, <1>3, ToSetOfNone, GivenKept DEF LinksInv
<1> QED
  BY <1>6, <1>7, <1>8 DEF LinksInv

(* A request that has looked up its case, or its comment.                  *)
LEMMA LookedUp ==
  ASSUME CInv, CInv', LinksInv, NEW t \in Threads, NEW c \in CaseIds, NEW r, NEW label,
         pc[t] = "idle", UNCHANGED <<cases, comments, notes, links, cut, given>>,
         r.case = c, r.todo = <<>>, r.toLink = <<>>,
         call' = [call EXCEPT ![t] = r], pc' = [pc EXCEPT ![t] = label],
         label \notin {"tell", "given"}, Exists(c) \/ \E n \in Notes : notes[n] = c
  PROVE  LinksInv'
<1>1. /\ call'[t].case = c /\ call'[t].todo = <<>> /\ call'[t].toLink = <<>> /\ pc'[t] = label
      /\ \A u \in Threads \ {t} : pc'[u] = pc[u] /\ call'[u] = call[u]
  BY DEF CInv, CallsTyped
<1>2. call[t].todo = <<>>
  BY DEF CInv, TodoInOrder
<1>3. cases[c] # Unused
  BY DEF Exists, Unused, Statuses, LinksInv, UnusedClean, NoTrace
<1>4. \A d \in CaseIds, i \in Items : Silent(call[t], d, i) /\ Silent(call'[t], d, i)
  BY <1>1, <1>2, ToSetOfNone DEF Silent
<1>5. \A d \in CaseIds : Exists(d)' => Exists(d)
  BY DEF Exists
<1>6. LinksTold'
  BY <1>1, <1>4, <1>5, QuietStep DEF LinksInv
<1>7. UnusedClean'
  BY <1>1, <1>3, UnusedKept DEF LinksInv
<1>8. GivenLast'
  BY <1>1, ToSetOfNone, GivenKept DEF LinksInv
<1> QED
  BY <1>6, <1>7, <1>8 DEF LinksInv

(* A request that looks up its case, or its comment.                       *)
LEMMA LookLinks ==
  ASSUME CInv, CInv', LinksInv, NEW t \in Threads,
         \/ \E c \in CaseIds, label \in Labels : Find(t, c, label)
         \/ \E n \in Notes : FindNote(t, n)
  PROVE  LinksInv'
<1>1. CASE \E c \in CaseIds, label \in Labels : Find(t, c, label)
  <2>1. PICK c \in CaseIds, label \in Labels : Find(t, c, label)
    BY <1>1
  <2>2. PICK r : /\ r = Request(c, cases[c], <<>>, <<>>, Unset)
                 /\ call' = [call EXCEPT ![t] = r]
    BY <2>1 DEF Find
  <2>3. r.case = c /\ r.todo = <<>> /\ r.toLink = <<>>
    BY <2>2 DEF Request
  <2>4. pc[t] = "idle" /\ UNCHANGED <<cases, comments, notes, links, cut, given>>
    BY <2>1 DEF Find
  <2>5. pc' = [pc EXCEPT ![t] = label] /\ label \notin {"tell", "given"} /\ Exists(c)
    BY <2>1 DEF Find, Goto
  <2>6. Exists(c) \/ \E n \in Notes : notes[n] = c
    BY <2>5
  <2> QED
    BY <2>2, <2>3, <2>4, <2>5, <2>6, LookedUp
<1>2. CASE \E n \in Notes : FindNote(t, n)
  <2>1. PICK n \in Notes : FindNote(t, n)
    BY <1>2
  <2>2. PICK r : /\ r = Request(notes[n], Unused, <<>>, <<>>, n)
                 /\ call' = [call EXCEPT ![t] = r]
    BY <2>1 DEF FindNote
  <2>3. r.case = notes[n] /\ r.todo = <<>> /\ r.toLink = <<>>
    BY <2>2 DEF Request
  <2>4. /\ pc[t] = "idle" /\ UNCHANGED <<cases, comments, notes, links, cut, given>>
        /\ notes[n] \in CaseIds
    BY <2>1 DEF FindNote
  <2>5. PICK label : label = "unnote" /\ pc' = [pc EXCEPT ![t] = label]
    BY <2>1 DEF FindNote, Goto
  <2>6. label \notin {"tell", "given"}
    BY <2>5
  <2>7. PICK c \in CaseIds : c = notes[n]
    BY <2>4
  <2>8. Exists(c) \/ \E m \in Notes : notes[m] = c
    BY <2>7
  <2>9. r.case = c /\ r.todo = <<>> /\ r.toLink = <<>>
    BY <2>3, <2>7
  <2> QED
    BY <2>2, <2>4, <2>5, <2>6, <2>8, <2>9, LookedUp
<1> QED
  BY <1>1, <1>2

(* A new case has neither links nor comments on any.                       *)
LEMMA CreateLinks ==
  ASSUME CInv, CInv', LinksInv, NEW t \in Threads, NEW c \in CaseIds, NEW list \in Given,
         Create(t, c, list)
  PROVE  LinksInv'
<1> DEFINE r == Request(c, Unused, <<Created>>, list, Unset)
<1>1. /\ pc[t] = "idle" /\ cases[c] = Unused
      /\ UNCHANGED <<comments, notes, links, cut>>
      /\ cases' = [cases EXCEPT ![c] = [status |-> "open", resolution |-> Unset]]
      /\ pc' = [pc EXCEPT ![t] = "tell"] /\ call' = [call EXCEPT ![t] = r]
      /\ given' = given \cup ({c} \X ToSet(list))
  BY DEF Create, Goto
<1>2. r.case = c /\ r.todo = <<Created>> /\ r.toLink = list
  BY DEF Request
<1> HIDE DEF r
<1>3. /\ pc'[t] = "tell" /\ call'[t] = r
      /\ \A u \in Threads \ {t} : pc'[u] = pc[u] /\ call'[u] = call[u]
      /\ cases'[c].status = "open" /\ \A d \in CaseIds \ {c} : cases'[d] = cases[d]
  BY <1>1 DEF CInv, CallsTyped
<1>4. NoTrace(c) /\ call[t].todo = <<>>
  BY <1>1 DEF LinksInv, UnusedClean, CInv, TodoInOrder
<1>5. \A d \in CaseIds, i \in Items : Silent(call[t], d, i) /\ Silent(call'[t], d, i)
  <2>1. ToSet(call[t].todo) = {} /\ ToSet(call'[t].todo) = {Created}
    BY <1>2, <1>3, <1>4, ToSetOfNone, ToSetOfOne
  <2>2. \A i \in Items : Linked(i) # Created /\ Unlinked(i) # Created
    BY LinkTexts
  <2> QED
    BY <2>1, <2>2 DEF Silent
<1>6. ASSUME NEW d \in CaseIds \ cut', NEW i \in Items, Exists(d)' PROVE LinkTold(d, i)'
  <2>1. CASE d # c
    <3>1. LinkTold(d, i)
      BY <1>1, <1>3, <1>6, <2>1, LinkToldEach DEF LinksInv, Exists
    <3>2. /\ Mine(call, t, d, Linked(i)) = 0 /\ Mine(call, t, d, Unlinked(i)) = 0
          /\ Mine(call', t, d, Linked(i)) = 0 /\ Mine(call', t, d, Unlinked(i)) = 0
      BY <1>5, SilentPart
    <3>3. /\ Part(comments', call', t, d, i) = Part(comments, call, t, d, i)
          /\ Part(comments, call, t, d, i) \in Int
      BY <1>1, <1>3, <3>2, BalanceMoves DEF Part
    <3>4. Expected(links', d, i) = Expected(links, d, i) /\ Expected(links, d, i) \in Int
      BY <1>1 DEF Expected
    <3>5. Part(comments', call', t, d, i) - Part(comments, call, t, d, i)
            = Expected(links', d, i) - Expected(links, d, i)
      BY <3>3, <3>4
    <3>6. <<d, i>> \in given' <=> <<d, i>> \in given
      BY <1>1, <2>1
    <3> QED
      BY <1>3, <3>1, <3>5, <3>6, LinkToldStays
  <2>2. CASE d = c
    <3>1. Linked(i) \in Texts /\ Unlinked(i) \in Texts /\ Linked(i) # Created /\ Unlinked(i) # Created
      BY LinkTexts
    <3>2. comments'[c][Linked(i)] = 0 /\ comments'[c][Unlinked(i)] = 0
      BY <1>1, <1>4, <3>1 DEF NoTrace
    <3>3. \A text \in {Linked(i), Unlinked(i)} : Untold(call', Threads, c, text) = {}
      <4> SUFFICES ASSUME NEW text \in {Linked(i), Unlinked(i)}, NEW u \in Threads,
                          call'[u].case = c
                   PROVE  Positions(call'[u].todo, text) = {}
        BY DEF Untold
      <4>1. u = t
        BY <1>3, <1>4 DEF NoTrace
      <4> QED
        BY <1>2, <1>3, <3>1, <4>1 DEF Positions
    <3>4. Told(c, Linked(i))' = 0 /\ Told(c, Unlinked(i))' = 0
      BY <3>2, <3>3, FS_EmptySet DEF Told, Linked, Unlinked
    <3>5. (Told(c, Linked(i)) - Told(c, Unlinked(i)))' = 0
      BY <3>4 DEF Linked, Unlinked
    <3>6. (Expected(links, c, i))' = 0
      BY <1>1, <1>4 DEF Expected, NoTrace
    <3> QED
      BY <2>2, <3>5, <3>6 DEF LinkTold
  <2> QED
    BY <2>1, <2>2
<1>7. LinksTold'
  BY <1>6 DEF LinksTold, LinkTold, Expected
<1>8. UnusedClean'
  <2>1. \A d \in CaseIds : cases'[d] = Unused => cases[d] = Unused
    BY <1>1, <1>3
  <2>2. cases'[c] # Unused
    BY <1>3 DEF Unused
  <2> QED
    BY <1>1, <1>2, <1>3, <2>1, <2>2, UnusedKept DEF LinksInv
<1>9. GivenLast'
  BY <1>1, <1>2, <1>3, GivenKept DEF LinksInv
<1> QED
  BY <1>7, <1>8, <1>9 DEF LinksInv

(* A deletion, whole or in part, is of one case, which is gone or not      *)
(* vouched for.                                                            *)
LEMMA DeleteLinks ==
  ASSUME CInv, CInv', LinksInv, NEW c \in CaseIds, DeleteCase(c) \/ DeleteBreaks(c)
  PROVE  LinksInv'
<1>1. /\ Exists(c) /\ comments' = [comments EXCEPT ![c] = NoTexts]
      /\ notes' = [n \in Notes |-> IF notes[n] = c THEN Gone ELSE notes[n]]
      /\ links' \subseteq links /\ \A d, i : d # c => (<<d, i>> \in links' <=> <<d, i>> \in links)
      /\ UNCHANGED <<pc, call, given>> /\ cut \subseteq cut'
      /\ c \in cut' \/ cases'[c] = Gone
      /\ \A d \in CaseIds : d # c => cases'[d] = cases[d]
      /\ cases' = cases \/ cases'[c] = Gone
  BY DEF DeleteCase, DeleteBreaks, Kept, CInv, CallsTyped
<1>2. \A d \in CaseIds \ {c} : comments'[d] = comments[d]
  BY <1>1 DEF CInv, CallsTyped
<1>3. ASSUME NEW d \in CaseIds \ cut', NEW i \in Items, Exists(d)' PROVE LinkTold(d, i)'
  <2>1. d # c
    BY <1>1, <1>3 DEF Exists, Gone, Statuses
  <2>2. LinkTold(d, i)
    BY <1>1, <1>3, <2>1, LinkToldEach DEF LinksInv, Exists
  <2>3. \A text : Told(d, text)' = Told(d, text)
    BY <1>1, <1>2, <2>1 DEF Told
  <2>4. (Told(d, Linked(i)) - Told(d, Unlinked(i)))' = Told(d, Linked(i)) - Told(d, Unlinked(i))
    BY <2>3 DEF Linked, Unlinked
  <2>5. (Expected(links, d, i))' = Expected(links, d, i)
    BY <1>1, <2>1 DEF Expected
  <2> QED
    BY <1>1, <2>2, <2>4, <2>5 DEF LinkTold
<1>4. LinksTold'
  BY <1>3 DEF LinksTold, LinkTold, Expected
<1>5. UnusedClean'
  <2> SUFFICES ASSUME NEW d \in CaseIds, cases'[d] = Unused PROVE NoTrace(d)'
    BY DEF UnusedClean
  <2>1. d # c /\ cases[d] = Unused
    BY <1>1 DEF Exists, Unused, Gone, Statuses
  <2>2. NoTrace(d)
    BY <2>1 DEF LinksInv, UnusedClean
  <2>3. \A n \in Notes : notes'[n] # d
    BY <1>1, <2>2, InputsAssumption DEF NoTrace
  <2> QED
    BY <1>1, <1>2, <2>1, <2>2, <2>3 DEF NoTrace
<1>6. GivenLast'
  BY <1>1 DEF LinksInv, GivenLast
<1> QED
  BY <1>4, <1>5, <1>6 DEF LinksInv

LEMMA InitLinks == Init => LinksInv
<1> SUFFICES ASSUME Init PROVE LinksInv
  OBVIOUS
<1>1. \A c \in CaseIds : ~Exists(c)
  BY DEF Init, Exists, Unused, Statuses
<1>2. Idle.case = Unset /\ Idle.todo = <<>> /\ Idle.toLink = <<>>
  BY DEF Idle, Request
<1>3. UnusedClean
  BY <1>2, InputsAssumption DEF Init, UnusedClean, NoTrace, NoTexts
<1>4. GivenLast
  BY <1>2, ToSetOfNone DEF Init, GivenLast
<1> QED
  BY <1>1, <1>3, <1>4 DEF LinksInv, LinksTold

LEMMA LinksKept == CInv /\ CInv' /\ LinksInv /\ [Next]_vars => LinksInv'
<1> SUFFICES ASSUME CInv, CInv', LinksInv, [Next]_vars PROVE LinksInv'
  OBVIOUS
<1>1. CASE UNCHANGED vars
  BY <1>1 DEF vars, LinksInv, LinksTold, UnusedClean, GivenLast, NoTrace, Told, Exists
<1>2. CASE \E c \in CaseIds : DeleteCase(c) \/ DeleteBreaks(c)
  BY <1>2, DeleteLinks
<1>3. ASSUME NEW t \in Threads, Step(t) PROVE LinksInv'
  <2>1. CASE \E c \in CaseIds : \E list \in Given : Create(t, c, list)
    BY <2>1, CreateLinks
  <2>2. CASE \/ \E c \in CaseIds, label \in Labels : Find(t, c, label)
             \/ \E n \in Notes : FindNote(t, n)
    BY <2>2, LookLinks
  <2>3. CASE \E r \in Resolutions \cup {Unset, Other}, s \in Statuses \cup {Unset} : Patch(t, s, r)
    BY <2>3, PatchLinks
  <2>4. CASE \E list \in Lists : Link(t, list)
    BY <2>4, LinkLinks
  <2>5. CASE \E i \in Items : Unlink(t, i)
    BY <2>5, UnlinkLinks
  <2>6. CASE \/ \E n \in Notes : AddNote(t, n)
             \/ RemoveNote(t)
             \/ \E s \in Steps : CompleteStep(t, s) \/ UncompleteStep(t, s)
             \/ \E r \in Resolutions \cup {Unset, Other} : Refuse(t, r)
    BY <2>6, AnswersLinks
  <2>7. CASE LinkGiven(t)
    BY <2>7, LinkGivenLinks
  <2>8. CASE Tell(t)
    BY <2>8, TellLinks
  <2>9. CASE Abort(t) \/ \E list \in Lists \cup Given : LinkBreaks(t, list)
    BY <2>9, StopLinks
  <2> QED
    BY <1>3, <2>1, <2>2, <2>3, <2>4, <2>5, <2>6, <2>7, <2>8, <2>9 DEF Step
<1> QED
  BY <1>1, <1>2, <1>3 DEF Next

(* The timeline of a case accounts for its links, whatever requests link   *)
(* and unlink at a time (link_alerts, unlink_alert and their like of       *)
(* events), but for what one leaves that stopped halfway.                  *)
THEOREM LinksAreTold == Spec => []LinksTold
<1>1. LinksInv => LinksTold
  BY DEF LinksInv
<1>2. Spec => []LinksInv
  BY InitLinks, LinksKept, CasesInvariant, PTL DEF Spec
<1> QED
  BY <1>1, <1>2, PTL
====
