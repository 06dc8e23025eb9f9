----------------------------- MODULE AuthProofs -----------------------------
(***************************************************************************)
(* Proofs about the users table and its tokens (Accounts) and about login  *)
(* throttling (Lockout), for any number of requests, accounts, names, keys *)
(* and limits.                                                             *)
(*                                                                         *)
(* Accounts: no update of an account is lost but to a fault or to another  *)
(* request, no token outlives a revocation and no token carries a role its *)
(* user no longer has, for accounts that were never written over unread.   *)
(* The argument: epochs only grow.  For an account that was not raced, all *)
(* tokens, and all rows that a token is about to be made from, have epochs *)
(* up to that of its row, and its role where they have the same.  And no   *)
(* request that is alone loses a row, unless a fault strikes it, or takes  *)
(* away the last superadmin: what it has checked stays true, and since     *)
(* names are apart its INSERT breaks on nobody's.  The two go together:    *)
(* what is kept depends on who is alone not clashing.                      *)
(*                                                                         *)
(* Lockout: an entry is its attempts (Len(times) = count), it was last     *)
(* seen at the last of them, and it is locked exactly for the back-off of  *)
(* that attempt, which the cap bounds.  So "idle for more than the cap"    *)
(* implies "not locked", which is what makes the sweep safe.               *)
(***************************************************************************)
EXTENDS Accounts, Lockout, FiniteSetTheorems, TLAPS

Places == {"idle", "target", "count", "name", "exists", "read", "insert", "replace",
           "reread", "delete", "issue"}

(* Where a request has an account in hand, and a row of it.                *)
Shaped(place, r) ==
  /\ place \notin {"idle", "name", "insert"} => r.id \in Ids
  /\ place = "name" => r.op = "create" \/ r.id \in Ids
  /\ place = "insert" => r.op = "create"
  /\ r.op = "create" => r.name \in Names /\ r.role \in Roles
  /\ place \in {"replace", "issue"} => r.row \in Row /\ r.id \in used

(* An epoch and a role are of the past of a row, or of the row.            *)
Past(epoch, role, row) ==
  row # NoRow => epoch <= row.epoch /\ (epoch = row.epoch => role = row.role)

AInv ==
  /\ TypeOK /\ torn \subseteq used /\ UpdatesKept
  /\ \A t \in Threads : Shaped(pc[t], req[t])
  /\ \A tok \in tokens :
       tok.id \in used /\ (tok.id \notin raced => Past(tok.epoch, tok.role, users[tok.id]))
  /\ \A t \in Threads : pc[t] = "issue" /\ req[t].id \notin raced =>
       Past(req[t].row.epoch, req[t].row.role, users[req[t].id])

(* The last superadmin.  Names are apart, so the INSERT of a replacement   *)
(* that finds its row as it was read breaks on nobody's name; and who has  *)
(* found another superadmin still does, unless somebody else wrote.        *)
SuperIn(us)     == {i \in Ids : us[i].role = "superadmin"}
NamesApart(us)  == \A i, j \in Ids : us[i] # NoRow /\ us[i].name = us[j].name => i = j
Spared(us, r)   == Demotes(r, us[r.id]) => \E i \in SuperIn(us) : i # r.id
NameFree(us, r) == r.name # Same => \A i \in Ids \ {r.id} : us[i].name # r.name

(* What a request has made sure of where it is, while nobody else writes.  *)
Cleared(us, place, r) ==
  /\ place \in {"count", "replace"} => r.row = us[r.id] /\ r.row # NoRow
  /\ place \in {"exists", "delete"} => r.op = "delete"
  /\ place \in {"exists", "read", "replace", "delete"} => Spared(us, r)
  /\ place = "name" /\ r.op # "create" => Spared(us, r)
  /\ place \in {"read", "replace"} => NameFree(us, r)

AloneInv ==
  /\ NamesApart(users) /\ IsFiniteSet(used)
  /\ \A t \in Threads \ disturbed : Cleared(users, pc[t], req[t])

-----------------------------------------------------------------------------

LEMMA NoRowIsNone == NoRow \notin Row
BY DEF NoRow, Row, Roles

LEMMA FreeTyped == Free \in Request
BY DEF Free, Request, Ops, Same

LEMMA OpReplaced ==
  ASSUME NEW r \in Request, NEW op \in Ops
  PROVE  /\ [r EXCEPT !.op = op] \in Request /\ [r EXCEPT !.op = op].op = op
         /\ [r EXCEPT !.op = op].id = r.id /\ [r EXCEPT !.op = op].row = r.row
BY DEF Request

LEMMA IdReplaced ==
  ASSUME NEW r \in Request, NEW id \in Ids \cup {"none"}
  PROVE  /\ [r EXCEPT !.id = id] \in Request /\ [r EXCEPT !.id = id].id = id
         /\ [r EXCEPT !.id = id].op = r.op /\ [r EXCEPT !.id = id].row = r.row
BY DEF Request

LEMMA NameReplaced ==
  ASSUME NEW r \in Request, NEW name \in Names \cup {Same}
  PROVE  /\ [r EXCEPT !.name = name] \in Request /\ [r EXCEPT !.name = name].name = name
         /\ [r EXCEPT !.name = name].op = r.op /\ [r EXCEPT !.name = name].id = r.id /\ [r EXCEPT !.name = name].row = r.row
BY DEF Request

LEMMA RoleReplaced ==
  ASSUME NEW r \in Request, NEW role \in Roles \cup {Same}
  PROVE  /\ [r EXCEPT !.role = role] \in Request /\ [r EXCEPT !.role = role].role = role
         /\ [r EXCEPT !.role = role].op = r.op /\ [r EXCEPT !.role = role].id = r.id /\ [r EXCEPT !.role = role].name = r.name
BY DEF Request

LEMMA RowReplaced ==
  ASSUME NEW r \in Request, NEW row \in Row \cup {NoRow}
  PROVE  /\ [r EXCEPT !.row = row] \in Request /\ [r EXCEPT !.row = row].row = row
         /\ [r EXCEPT !.row = row].op = r.op /\ [r EXCEPT !.row = row].id = r.id
         /\ [r EXCEPT !.row = row].name = r.name /\ [r EXCEPT !.row = row].role = r.role
BY DEF Request

(* The requests as they arrive.                                            *)
LoginReq(id, row) == [Free EXCEPT !.op = "login", !.id = id, !.row = row]
CreateReq(n, role) == [Free EXCEPT !.op = "create", !.name = n, !.role = role]
UpdateReq(id, n, role) == [Free EXCEPT !.op = "update", !.id = id, !.name = n, !.role = role]
PlainReq(op, id) == [Free EXCEPT !.op = op, !.id = id]

LEMMA LoginRequest ==
  ASSUME NEW id \in Ids, NEW row \in Row
  PROVE  LET r == LoginReq(id, row)
         IN  r \in Request /\ r.op = "login" /\ r.id = id /\ r.row = row
<1> DEFINE r1 == [Free EXCEPT !.op = "login"]
           r2 == [r1 EXCEPT !.id = id]
           r3 == [r2 EXCEPT !.row = row]
<1>1. r1 \in Request /\ r1.op = "login"
  BY FreeTyped, OpReplaced DEF Ops
<1> HIDE DEF r1
<1>2. r2 \in Request /\ r2.op = "login" /\ r2.id = id
  BY <1>1, IdReplaced
<1> HIDE DEF r2
<1>3. r3 \in Request /\ r3.op = "login" /\ r3.id = id /\ r3.row = row
  BY <1>2, RowReplaced
<1> HIDE DEF r3
<1>4. LoginReq(id, row) = r3
  BY DEF r1, r2, r3, LoginReq
<1> QED
  BY <1>3, <1>4

LEMMA CreateRequest ==
  ASSUME NEW n \in Names, NEW role \in Roles
  PROVE  LET r == CreateReq(n, role)
         IN  r \in Request /\ r.op = "create" /\ r.name = n /\ r.role = role
<1> DEFINE r1 == [Free EXCEPT !.op = "create"]
           r2 == [r1 EXCEPT !.name = n]
           r3 == [r2 EXCEPT !.role = role]
<1>1. r1 \in Request /\ r1.op = "create"
  BY FreeTyped, OpReplaced DEF Ops
<1> HIDE DEF r1
<1>2. r2 \in Request /\ r2.op = "create" /\ r2.name = n
  BY <1>1, NameReplaced
<1> HIDE DEF r2
<1>3. r3 \in Request /\ r3.op = "create" /\ r3.name = n /\ r3.role = role
  BY <1>2, RoleReplaced
<1> HIDE DEF r3
<1>4. CreateReq(n, role) = r3
  BY DEF r1, r2, r3, CreateReq
<1> QED
  BY <1>3, <1>4

LEMMA UpdateRequest ==
  ASSUME NEW id \in Ids, NEW n \in Names \cup {Same}, NEW role \in Roles \cup {Same}
  PROVE  LET r == UpdateReq(id, n, role)
         IN  r \in Request /\ r.op = "update" /\ r.id = id
<1> DEFINE r1 == [Free EXCEPT !.op = "update"]
           r2 == [r1 EXCEPT !.id = id]
           r3 == [r2 EXCEPT !.name = n]
           r4 == [r3 EXCEPT !.role = role]
<1>1. r1 \in Request /\ r1.op = "update"
  BY FreeTyped, OpReplaced DEF Ops
<1> HIDE DEF r1
<1>2. r2 \in Request /\ r2.op = "update" /\ r2.id = id
  BY <1>1, IdReplaced
<1> HIDE DEF r2
<1>3. r3 \in Request /\ r3.op = "update" /\ r3.id = id
  BY <1>2, NameReplaced
<1> HIDE DEF r3
<1>4. r4 \in Request /\ r4.op = "update" /\ r4.id = id
  BY <1>3, RoleReplaced
<1> HIDE DEF r4
<1>5. UpdateReq(id, n, role) = r4
  BY DEF r1, r2, r3, r4, UpdateReq
<1> QED
  BY <1>4, <1>5

LEMMA PlainRequest ==
  ASSUME NEW op \in {"delete", "logout", "password"}, NEW id \in Ids
  PROVE  LET r == PlainReq(op, id)
         IN  r \in Request /\ r.op = op /\ r.id = id
<1> DEFINE r1 == [Free EXCEPT !.op = op]
           r2 == [r1 EXCEPT !.id = id]
<1>4. op \in Ops
  BY DEF Ops
<1>1. r1 \in Request /\ r1.op = op
  BY <1>4, FreeTyped, OpReplaced
<1> HIDE DEF r1
<1>2. r2 \in Request /\ r2.op = op /\ r2.id = id
  BY <1>1, IdReplaced
<1> HIDE DEF r2
<1>3. PlainReq(op, id) = r2
  BY DEF r1, r2, PlainReq
<1> QED
  BY <1>2, <1>3

(* The row that a request writes back is a row, and newer than the one it  *)
(* read.                                                                   *)
LEMMA EditedTyped ==
  ASSUME NEW r \in Request, NEW row \in Row
  PROVE  Edited(r, row) \in Row /\ Edited(r, row).epoch = row.epoch + 1
<1>1. /\ row.name \in Names /\ row.role \in Roles /\ row.must \in BOOLEAN /\ row.epoch \in Nat
      /\ r.name \in Names \cup {Same} /\ r.role \in Roles \cup {Same}
  BY DEF Row, Request
<1>2. (row.must /\ r.op # "password") \in BOOLEAN
  OBVIOUS
<1>3. (IF r.name = Same THEN row.name ELSE r.name) \in Names
  BY <1>1
<1>4. (IF r.role = Same THEN row.role ELSE r.role) \in Roles
  BY <1>1
<1> QED
  BY <1>1, <1>2, <1>3, <1>4 DEF Edited, Row

(* Whatever is of the past of an account's row still is.                   *)
Advances(id) ==
  \A e \in Nat, role \in Roles : Past(e, role, users[id]) => Past(e, role, users'[id])

(* The frame of the steps of a request.                                    *)
LEMMA Frame ==
  ASSUME AInv, NEW t \in Threads,
         NEW l \in Places, pc' = [pc EXCEPT ![t] = l],
         NEW r \in Request, req' = [req EXCEPT ![t] = r],
         users' \in [Ids -> Row \cup {NoRow}], want' \in [Ids -> Row \cup {NoRow}],
         used \subseteq used', used' \subseteq Ids,
         \A id \in Ids : users'[id] # NoRow => id \in used',
         tokens' \subseteq Token, raced \subseteq raced', raced' \subseteq Ids,
         torn' \subseteq used', faults' \in 0 .. MaxFaults,
         disturbed' \subseteq Threads, requests' \in 0 .. MaxRequests,
         UpdatesKept',
         \A id \in used \ raced' : Advances(id),
         \A tok \in tokens' \ tokens :
           tok.id \in used' /\ (tok.id \notin raced' => Past(tok.epoch, tok.role, users'[tok.id])),
         Shaped(l, r)',
         l = "issue" /\ r.id \notin raced' => Past(r.row.epoch, r.row.role, users'[r.id])
  PROVE  AInv'
<1>1. /\ pc' \in [Threads -> Places] /\ pc'[t] = l
      /\ req' \in [Threads -> Request] /\ req'[t] = r
      /\ \A u \in Threads \ {t} : pc'[u] = pc[u] /\ req'[u] = req[u]
  BY DEF AInv, TypeOK, Places
<1>2. TypeOK'
  BY <1>1 DEF TypeOK, Places, Exists
<1>3. ASSUME NEW u \in Threads PROVE Shaped(pc[u], req[u])'
  <2>1. CASE u = t
    BY <1>1, <2>1 DEF Shaped
  <2>2. CASE u # t
    BY <1>1, <2>2 DEF AInv, Shaped
  <2> QED
    BY <2>1, <2>2
<1>4. ASSUME NEW tok \in tokens'
      PROVE  tok.id \in used' /\ (tok.id \notin raced' => Past(tok.epoch, tok.role, users'[tok.id]))
  <2>1. CASE tok \in tokens
    <3>1. tok.id \in used /\ tok.epoch \in Nat /\ tok.role \in Roles
      BY <2>1 DEF AInv, TypeOK, Token
    <3>2. ASSUME tok.id \notin raced' PROVE Past(tok.epoch, tok.role, users'[tok.id])
      <4>1. Past(tok.epoch, tok.role, users[tok.id])
        BY <2>1, <3>2 DEF AInv
      <4> QED
        BY <3>1, <3>2, <4>1 DEF Advances
    <3> QED
      BY <3>1, <3>2
  <2>2. CASE tok \notin tokens
    BY <1>4, <2>2
  <2> QED
    BY <2>1, <2>2
<1>5. ASSUME NEW u \in Threads, pc'[u] = "issue", req'[u].id \notin raced'
      PROVE  Past(req'[u].row.epoch, req'[u].row.role, users'[req'[u].id])
  <2>1. CASE u = t
    BY <1>1, <1>5, <2>1
  <2>2. CASE u # t
    <3>1. pc[u] = "issue" /\ req'[u] = req[u] /\ req[u].id \notin raced
      BY <1>1, <1>5, <2>2
    <3>2. /\ req[u].row \in Row /\ req[u].id \in used
          /\ Past(req[u].row.epoch, req[u].row.role, users[req[u].id])
      BY <3>1 DEF AInv, Shaped
    <3>3. req[u].row.epoch \in Nat /\ req[u].row.role \in Roles
      BY <3>2 DEF Row
    <3> QED
      BY <1>5, <3>1, <3>2, <3>3 DEF Advances
  <2> QED
    BY <2>1, <2>2
<1> QED
  BY <1>2, <1>3, <1>4, <1>5 DEF AInv

(* A step that leaves the accounts and the tokens as they are.             *)
LEMMA LocalStep ==
  ASSUME AInv, NEW t \in Threads,
         NEW l \in Places, pc' = [pc EXCEPT ![t] = l],
         NEW r \in Request, req' = [req EXCEPT ![t] = r],
         UNCHANGED <<users, used, tokens, want, raced, torn>>, faults' \in 0 .. MaxFaults,
         disturbed' \subseteq Threads, requests' \in 0 .. MaxRequests,
         Shaped(l, r),
         l = "issue" /\ r.id \notin raced => Past(r.row.epoch, r.row.role, users[r.id])
  PROVE  AInv'
<1>1. /\ users' \in [Ids -> Row \cup {NoRow}] /\ want' \in [Ids -> Row \cup {NoRow}]
      /\ used \subseteq used' /\ used' \subseteq Ids
      /\ \A id \in Ids : users'[id] # NoRow => id \in used'
      /\ tokens' \subseteq Token /\ raced \subseteq raced' /\ raced' \subseteq Ids
      /\ torn' \subseteq used'
  BY DEF AInv, TypeOK, Exists
<1>2. UpdatesKept' /\ \A id \in used \ raced' : Advances(id)
  BY DEF AInv, UpdatesKept, Advances
<1>3. tokens' \ tokens = {}
  OBVIOUS
<1>4. Shaped(l, r)'
  BY DEF Shaped
<1> QED
  BY <1>1, <1>2, <1>3, <1>4, Frame

LEMMA FirstTyped == ASSUME NEW m \in BOOLEAN PROVE FirstRow(m) \in Row /\ FirstRow(m).name # "none"
BY AccountsAssumption DEF FirstRow, Row, Roles

LEMMA InitKeeps == Init => AInv
<1> SUFFICES ASSUME Init PROVE AInv
  OBVIOUS
<1>1. PICK id \in Ids, m \in BOOLEAN :
        /\ users = [i \in Ids |-> IF i = id THEN FirstRow(m) ELSE NoRow]
        /\ used = {id} /\ tokens = {}
        /\ pc = [t \in Threads |-> "idle"] /\ req = [t \in Threads |-> Free]
        /\ requests = 0 /\ faults = 0
        /\ want = users /\ raced = {} /\ torn = {} /\ disturbed = {}
  BY DEF Init
<1>2. FirstRow(m) \in Row
  BY FirstTyped
<1>3. users \in [Ids -> Row \cup {NoRow}]
  BY <1>1, <1>2
<1>4. TypeOK
  BY <1>1, <1>3, FreeTyped, AccountsAssumption DEF TypeOK, Exists
<1>5. \A t \in Threads : Shaped(pc[t], req[t])
  BY <1>1 DEF Shaped, Free
<1> QED
  BY <1>1, <1>4, <1>5 DEF AInv, UpdatesKept


-----------------------------------------------------------------------------

LEMMA BeginKeeps ==
  ASSUME AInv, NEW t \in Threads, NEW l \in Places, NEW r \in Request, Begin(t, r, l),
         Shaped(l, r),
         l = "issue" /\ r.id \notin raced => Past(r.row.epoch, r.row.role, users[r.id])
  PROVE  AInv'
<1>1. disturbed' \subseteq Threads /\ requests' \in 0 .. MaxRequests /\ faults' \in 0 .. MaxFaults
  BY AccountsAssumption DEF Begin, AInv, TypeOK
<1> QED
  BY <1>1, LocalStep DEF Begin

LEMMA ArriveKeeps == ASSUME AInv, NEW t \in Threads, Arrive(t) PROVE AInv'
<1>1. ASSUME NEW id \in Ids, Login(t, id) PROVE AInv'
  <2> DEFINE r == LoginReq(id, users[id])
  <2>1. users[id] \in Row /\ id \in used
    BY <1>1 DEF Login, Exists, AInv, TypeOK
  <2>3. Begin(t, r, "issue")
    BY <1>1 DEF Login, LoginReq
  <2>2. r \in Request /\ r.op = "login" /\ r.id = id /\ r.row = users[id]
    BY <2>1, LoginRequest
  <2> HIDE DEF r
  <2>4. Shaped("issue", r) /\ "issue" \in Places
    BY <2>1, <2>2 DEF Shaped, Places
  <2>5. Past(r.row.epoch, r.row.role, users[r.id])
    BY <2>1, <2>2 DEF Past, Row
  <2> QED
    BY <2>2, <2>3, <2>4, <2>5, BeginKeeps
<1>2. ASSUME NEW n \in Names, NEW role \in Roles, Create(t, n, role) PROVE AInv'
  <2> DEFINE r == CreateReq(n, role)
  <2>2. Begin(t, r, "name")
    BY <1>2 DEF Create, CreateReq
  <2>1. r \in Request /\ r.op = "create" /\ r.name \in Names /\ r.role \in Roles
    BY CreateRequest
  <2> HIDE DEF r
  <2>3. Shaped("name", r) /\ "name" \in Places
    BY <2>1 DEF Shaped, Places
  <2> QED
    BY <2>1, <2>2, <2>3, BeginKeeps
<1>3. ASSUME NEW id \in Ids, NEW n \in Names \cup {Same}, NEW role \in Roles \cup {Same},
             Update(t, id, n, role)
      PROVE  AInv'
  <2> DEFINE r == UpdateReq(id, n, role)
  <2>2. Begin(t, r, "target")
    BY <1>3 DEF Update, UpdateReq
  <2>1. r \in Request /\ r.op = "update" /\ r.id = id
    BY UpdateRequest
  <2> HIDE DEF r
  <2>3. Shaped("target", r) /\ "target" \in Places
    BY <2>1 DEF Shaped, Places
  <2> QED
    BY <2>1, <2>2, <2>3, BeginKeeps
<1>4. ASSUME NEW id \in Ids, NEW op \in {"delete", "logout", "password"},
             NEW l \in {"target", "read"}, Begin(t, [Free EXCEPT !.op = op, !.id = id], l)
      PROVE  AInv'
  <2> DEFINE r == PlainReq(op, id)
  <2>2. Begin(t, r, l)
    BY <1>4 DEF PlainReq
  <2>1. r \in Request /\ r.op = op /\ r.id = id
    BY PlainRequest
  <2> HIDE DEF r
  <2>3. Shaped(l, r) /\ l \in Places /\ l # "issue"
    BY <2>1 DEF Shaped, Places
  <2> QED
    BY <2>1, <2>2, <2>3, BeginKeeps
<1>5. ASSUME NEW id \in Ids, Delete(t, id) \/ Logout(t, id) \/ ChangePassword(t, id) PROVE AInv'
  BY <1>4, <1>5 DEF Delete, Logout, ChangePassword
<1> QED
  BY <1>1, <1>2, <1>3, <1>5 DEF Arrive

(* Steps to another place, or to the end of the request.                   *)
LEMMA GotoKeeps ==
  ASSUME AInv, NEW t \in Threads, NEW l \in Places, Goto(t, l), Shaped(l, req[t]), l # "issue",
         UNCHANGED <<users, used, tokens, faults, history>>
  PROVE  AInv'
<1>1. req[t] \in Request /\ req' = [req EXCEPT ![t] = req[t]]
  BY DEF Goto, AInv, TypeOK
<1>2. pc' = [pc EXCEPT ![t] = l] /\ UNCHANGED <<users, used, tokens, want, raced, torn>>
  BY DEF Goto, history
<1>3. /\ disturbed' \subseteq Threads /\ requests' \in 0 .. MaxRequests
      /\ faults' \in 0 .. MaxFaults
  BY DEF Goto, history, AInv, TypeOK
<1> QED
  BY <1>1, <1>2, <1>3, LocalStep

LEMMA ReturnKeeps ==
  ASSUME AInv, NEW t \in Threads, Return(t), UNCHANGED <<users, used, tokens, history>>,
         faults' \in 0 .. MaxFaults
  PROVE  AInv'
<1>1. /\ pc' = [pc EXCEPT ![t] = "idle"] /\ req' = [req EXCEPT ![t] = Free]
      /\ UNCHANGED <<users, used, tokens, want, raced, torn>>
      /\ disturbed' \subseteq Threads /\ requests' \in 0 .. MaxRequests
  BY DEF Return, history, AInv, TypeOK
<1>2. Shaped("idle", Free) /\ "idle" \in Places
  BY DEF Shaped, Places, Free
<1> QED
  BY <1>1, <1>2, FreeTyped, LocalStep

(* A step that takes a row in hand.                                        *)
LEMMA RowKeeps ==
  ASSUME AInv, NEW t \in Threads, NEW l \in Places, NEW row \in Row \cup {NoRow},
         pc' = [pc EXCEPT ![t] = l], req' = [req EXCEPT ![t].row = row],
         UNCHANGED <<users, used, tokens, faults, history, requests>>,
         l # "insert", pc[t] \in {"target", "read", "reread"},
         l \in {"replace", "issue"} => row \in Row /\ row = users[req[t].id]
  PROVE  AInv'
<1> DEFINE r == [req[t] EXCEPT !.row = row]
<1>1. /\ r \in Request /\ r.op = req[t].op /\ r.id = req[t].id /\ r.row = row
      /\ r.name = req[t].name /\ r.role = req[t].role
  BY RowReplaced DEF AInv, TypeOK
<1>6. Shaped(pc[t], req[t]) /\ req[t].id \in Ids
  BY DEF AInv, Shaped
<1>2. req' = [req EXCEPT ![t] = r]
  OBVIOUS
<1> HIDE DEF r
<1>3. ASSUME l \in {"replace", "issue"}
      PROVE  r.id \in used /\ Past(r.row.epoch, r.row.role, users[r.id])
  BY <1>1, <1>3, <1>6, NoRowIsNone DEF AInv, TypeOK, Exists, Past, Row
<1>4. Shaped(l, r)
  BY <1>1, <1>3, <1>6 DEF Shaped
<1>5. /\ UNCHANGED <<users, used, tokens, want, raced, torn>>
      /\ disturbed' \subseteq Threads /\ requests' \in 0 .. MaxRequests
      /\ faults' \in 0 .. MaxFaults
  BY DEF history, AInv, TypeOK
<1> QED
  BY <1>1, <1>2, <1>3, <1>4, <1>5, LocalStep

LEMMA LooksKeep ==
  ASSUME AInv, NEW t \in Threads,
         Refuse(t) \/ Target(t) \/ Count(t) \/ Name(t) \/ StillThere(t) \/ Read(t) \/ Reread(t)
  PROVE  AInv'
<1> DEFINE id == req[t].id
           row == users[id]
<1>1. Shaped(pc[t], req[t]) /\ (id \in Ids => row \in Row \cup {NoRow})
  BY DEF AInv, TypeOK
<1>10. faults' \in 0 .. MaxFaults
  BY DEF Refuse, Target, Count, Name, StillThere, Read, Reread, AInv, TypeOK
<1>2. \A r, w : Onward(r, w) \in {"exists", "name", "read"}
  BY DEF Onward
<1>3. CASE Refuse(t)
  BY <1>3, <1>10, ReturnKeeps DEF Refuse
<1>4. CASE Target(t)
  <2>1. pc[t] = "target" /\ id \in Ids /\ UNCHANGED <<users, used, tokens, faults, history>>
    BY <1>1, <1>4 DEF Target, Shaped
  <2>2. CASE row = NoRow
    BY <1>4, <2>1, <2>2, <1>10, ReturnKeeps DEF Target
  <2>3. CASE row # NoRow
    <3> DEFINE l == IF Demotes(req[t], row) THEN "count" ELSE Onward(req[t], row)
    <3>1. /\ pc' = [pc EXCEPT ![t] = l] /\ req' = [req EXCEPT ![t].row = row]
          /\ UNCHANGED requests
      BY <1>4, <2>3 DEF Target
    <3>2. l \in {"count", "exists", "name", "read"}
      BY <1>2
    <3> HIDE DEF l
    <3>3. l \in Places
      BY <3>2 DEF Places
    <3> QED
      BY <1>1, <2>1, <3>1, <3>2, <3>3, RowKeeps
  <2> QED
    BY <2>2, <2>3
<1>5. CASE Count(t)
  <2>1. pc[t] = "count" /\ id \in Ids /\ UNCHANGED <<users, used, tokens, faults, history>>
    BY <1>1, <1>5 DEF Count, Shaped
  <2> DEFINE l == Onward(req[t], req[t].row)
  <2>2. Return(t) \/ Goto(t, l)
    BY <1>5 DEF Count
  <2>3. l \in {"exists", "name", "read"}
    BY <1>2
  <2> HIDE DEF l
  <2>4. l \in Places /\ Shaped(l, req[t])
    BY <1>1, <2>1, <2>3 DEF Places, Shaped
  <2> QED
    BY <2>1, <2>2, <2>3, <2>4, <1>10, ReturnKeeps, GotoKeeps
<1>6. CASE Name(t)
  <2>1. pc[t] = "name" /\ UNCHANGED <<users, used, tokens, faults, history>>
    BY <1>6 DEF Name
  <2>2. Return(t) \/ (req[t].op = "create" /\ Goto(t, "insert"))
                 \/ (req[t].op # "create" /\ Goto(t, "read"))
    BY <1>6 DEF Name
  <2>3. /\ "insert" \in Places /\ (req[t].op = "create" => Shaped("insert", req[t]))
        /\ "read" \in Places /\ (req[t].op # "create" => Shaped("read", req[t]))
    BY <1>1, <2>1 DEF Places, Shaped
  <2> QED
    BY <2>1, <2>2, <2>3, <1>10, ReturnKeeps, GotoKeeps
<1>7. CASE StillThere(t)
  <2>1. pc[t] = "exists" /\ id \in Ids /\ UNCHANGED <<users, used, tokens, faults, history>>
    BY <1>1, <1>7 DEF StillThere, Shaped
  <2>2. Return(t) \/ Goto(t, "delete")
    BY <1>7 DEF StillThere
  <2>3. "delete" \in Places /\ Shaped("delete", req[t])
    BY <1>1, <2>1 DEF Places, Shaped
  <2> QED
    BY <2>1, <2>2, <2>3, <1>10, ReturnKeeps, GotoKeeps
<1>8. CASE Read(t)
  <2>1. pc[t] = "read" /\ id \in Ids /\ UNCHANGED <<users, used, tokens, faults, history>>
    BY <1>1, <1>8 DEF Read, Shaped
  <2>2. CASE row = NoRow
    BY <1>8, <2>1, <2>2, <1>10, ReturnKeeps DEF Read
  <2>3. CASE row # NoRow
    <3>1. /\ pc' = [pc EXCEPT ![t] = "replace"] /\ req' = [req EXCEPT ![t].row = row]
          /\ UNCHANGED requests
      BY <1>8, <2>3 DEF Read
    <3>2. "replace" \in Places /\ row \in Row
      BY <1>1, <2>1, <2>3 DEF Places
    <3> QED
      BY <2>1, <3>1, <3>2, RowKeeps
  <2> QED
    BY <2>2, <2>3
<1>9. CASE Reread(t)
  <2>1. pc[t] = "reread" /\ id \in Ids /\ UNCHANGED <<users, used, tokens, faults, history>>
    BY <1>1, <1>9 DEF Reread, Shaped
  <2>2. CASE row = NoRow
    BY <1>9, <2>1, <2>2, <1>10, ReturnKeeps DEF Reread
  <2>3. CASE row # NoRow
    <3>1. /\ pc' = [pc EXCEPT ![t] = "issue"] /\ req' = [req EXCEPT ![t].row = row]
          /\ UNCHANGED requests
      BY <1>9, <2>3 DEF Reread
    <3>2. "issue" \in Places /\ row \in Row
      BY <1>1, <2>1, <2>3 DEF Places
    <3> QED
      BY <2>1, <3>1, <3>2, RowKeeps
  <2> QED
    BY <2>2, <2>3
<1> QED
  BY <1>3, <1>4, <1>5, <1>6, <1>7, <1>8, <1>9

LEMMA IssueKeeps == ASSUME AInv, NEW t \in Threads, Issue(t) PROVE AInv'
<1> DEFINE tok == [id |-> req[t].id, role |-> req[t].row.role, epoch |-> req[t].row.epoch]
<1>1. pc[t] = "issue" /\ tokens' = tokens \cup {tok} /\ Return(t)
      /\ UNCHANGED <<users, used, faults, want, raced, torn, disturbed>>
  BY DEF Issue, history
<1>2. req[t].id \in Ids /\ req[t].id \in used /\ req[t].row \in Row
  BY <1>1 DEF AInv, Shaped
<1>3. tok \in Token
  BY <1>2 DEF Token, Row
<1>4. /\ pc' = [pc EXCEPT ![t] = "idle"] /\ req' = [req EXCEPT ![t] = Free]
      /\ requests' \in 0 .. MaxRequests
  BY <1>1 DEF Return, AInv, TypeOK
<1>5. /\ users' \in [Ids -> Row \cup {NoRow}] /\ want' \in [Ids -> Row \cup {NoRow}]
      /\ used \subseteq used' /\ used' \subseteq Ids
      /\ \A id \in Ids : users'[id] # NoRow => id \in used'
      /\ raced \subseteq raced' /\ raced' \subseteq Ids /\ disturbed' \subseteq Threads
      /\ torn' \subseteq used' /\ faults' \in 0 .. MaxFaults
  BY <1>1 DEF AInv, TypeOK, Exists
<1>6. tokens' \subseteq Token
  BY <1>1, <1>3 DEF AInv, TypeOK
<1>7. UpdatesKept' /\ \A id \in used \ raced' : Advances(id)
  BY <1>1 DEF AInv, UpdatesKept, Advances
<1>8. \A k \in tokens' \ tokens : k = tok
  BY <1>1
<1>9. tok.id = req[t].id /\ tok.role = req[t].row.role /\ tok.epoch = req[t].row.epoch
  OBVIOUS
<1> HIDE DEF tok
<1>10. \A k \in tokens' \ tokens :
         k.id \in used' /\ (k.id \notin raced' => Past(k.epoch, k.role, users'[k.id]))
  BY <1>1, <1>2, <1>8, <1>9 DEF AInv
<1>11. Shaped("idle", Free)' /\ "idle" \in Places
  BY DEF Shaped, Places, Free
<1> QED
  BY <1>4, <1>5, <1>6, <1>7, <1>10, <1>11, FreeTyped, Frame

LEMMA InsertKeeps == ASSUME AInv, NEW t \in Threads, Insert(t) PROVE AInv'
<1> DEFINE row == [name |-> req[t].name, role |-> req[t].role, must |-> FALSE, epoch |-> 0]
<1>0. UNCHANGED faults /\ faults' \in 0 .. MaxFaults
  BY DEF Insert, AInv, TypeOK
<1>1. CASE UNCHANGED <<users, used, history>>
  BY <1>0, <1>1, ReturnKeeps DEF Insert
<1>2. ASSUME NEW id \in Ids \ used,
             users' = [users EXCEPT ![id] = row], want' = [want EXCEPT ![id] = row],
             used' = used \cup {id}, Disturbs(t), UNCHANGED <<raced, torn>>
      PROVE  AInv'
  <2>1. pc[t] = "insert" /\ Return(t) /\ UNCHANGED tokens
    BY DEF Insert
  <2>2. req[t].name \in Names /\ req[t].role \in Roles
    BY <2>1 DEF AInv, Shaped
  <2>3. row \in Row
    BY <2>2 DEF Row
  <2> HIDE DEF row
  <2>4. /\ pc' = [pc EXCEPT ![t] = "idle"] /\ req' = [req EXCEPT ![t] = Free]
        /\ requests' \in 0 .. MaxRequests
    BY <2>1 DEF Return, AInv, TypeOK
  <2>5. /\ users' \in [Ids -> Row \cup {NoRow}] /\ want' \in [Ids -> Row \cup {NoRow}]
        /\ used \subseteq used' /\ used' \subseteq Ids
        /\ \A i \in Ids : users'[i] # NoRow => i \in used'
        /\ raced \subseteq raced' /\ raced' \subseteq Ids /\ torn' \subseteq used'
    BY <1>2, <2>3 DEF AInv, TypeOK, Exists
  <2>6. tokens' \subseteq Token /\ disturbed' \subseteq Threads
    BY <1>2, <2>1 DEF AInv, TypeOK, Disturbs
  <2>7. UpdatesKept' /\ \A i \in used \ raced' : Advances(i)
    BY <1>2 DEF AInv, TypeOK, UpdatesKept, Advances
  <2>8. tokens' \ tokens = {}
    BY <2>1
  <2>9. Shaped("idle", Free)' /\ "idle" \in Places
    BY DEF Shaped, Places, Free
  <2> QED
    BY <1>0, <2>4, <2>5, <2>6, <2>7, <2>8, <2>9, FreeTyped, Frame
<1> QED
  BY <1>1, <1>2 DEF Insert

LEMMA RemoveKeeps == ASSUME AInv, NEW t \in Threads, Remove(t) PROVE AInv'
<1>1. /\ pc[t] = "delete" /\ Return(t) /\ UNCHANGED <<used, tokens, faults, raced, torn>> /\ Disturbs(t)
      /\ users' = [users EXCEPT ![req[t].id] = NoRow]
      /\ want' = [want EXCEPT ![req[t].id] = NoRow]
  BY DEF Remove
<1>2. req[t].id \in Ids
  BY <1>1 DEF AInv, Shaped
<1>3. /\ pc' = [pc EXCEPT ![t] = "idle"] /\ req' = [req EXCEPT ![t] = Free]
      /\ requests' \in 0 .. MaxRequests
  BY <1>1 DEF Return, AInv, TypeOK
<1>4. /\ users' \in [Ids -> Row \cup {NoRow}] /\ want' \in [Ids -> Row \cup {NoRow}]
      /\ used \subseteq used' /\ used' \subseteq Ids
      /\ \A i \in Ids : users'[i] # NoRow => i \in used'
      /\ raced \subseteq raced' /\ raced' \subseteq Ids
      /\ torn' \subseteq used' /\ faults' \in 0 .. MaxFaults
  BY <1>1, <1>2 DEF AInv, TypeOK, Exists
<1>5. tokens' \subseteq Token /\ disturbed' \subseteq Threads /\ tokens' \ tokens = {}
  BY <1>1 DEF AInv, TypeOK, Disturbs
<1>6. UpdatesKept' /\ \A i \in used \ raced' : Advances(i)
  BY <1>1, <1>2 DEF AInv, TypeOK, UpdatesKept, Advances, Past
<1>7. Shaped("idle", Free)' /\ "idle" \in Places
  BY DEF Shaped, Places, Free
<1> QED
  BY <1>3, <1>4, <1>5, <1>6, <1>7, FreeTyped, Frame

(* What a replacement leaves: unless the account was written meanwhile, the *)
(* row is newer than any before it.                                         *)
LEMMA ReplaceAdvances ==
  ASSUME AInv, NEW t \in Threads, Replace(t)
  PROVE  /\ req[t].id \in Ids /\ req[t].id \in used
         /\ Replaced(t) \in Row
         /\ users' = [users EXCEPT ![req[t].id] = Replaced(t)]
         /\ raced' \subseteq Ids /\ raced \subseteq raced'
         /\ req[t].id \notin raced' =>
               /\ users[req[t].id] = req[t].row /\ users[req[t].id] \in Row
               /\ req[t].id \notin torn /\ want'[req[t].id] = Replaced(t)
               /\ Replaced(t).epoch = users[req[t].id].epoch + 1
<1> DEFINE id == req[t].id
           new == Replaced(t)
<1>1. /\ pc[t] = "replace"
      /\ users' = [users EXCEPT ![id] = new]
      /\ want' = [want EXCEPT ![id] = IF @ = NoRow THEN NoRow ELSE Edited(req[t], @)]
      /\ raced' = IF users[id] = req[t].row THEN raced ELSE raced \cup {id}
  BY DEF Replace
<1>2. req[t] \in Request /\ req[t].row \in Row /\ id \in Ids /\ id \in used
  BY <1>1 DEF AInv, TypeOK, Shaped
<1>3. new = Edited(req[t], req[t].row)
  BY DEF Replaced
<1>4. new \in Row /\ new.epoch = req[t].row.epoch + 1
  BY <1>2, <1>3, EditedTyped
<1>5. raced' \subseteq Ids /\ raced \subseteq raced'
  BY <1>1, <1>2 DEF AInv, TypeOK
<1>6. ASSUME id \notin raced'
      PROVE  /\ users[id] = req[t].row /\ users[id] \in Row /\ id \notin torn
             /\ want'[id] = new /\ new.epoch = users[id].epoch + 1
  <2>1. users[id] = req[t].row /\ id \notin raced
    BY <1>1, <1>6
  <2>2. want[id] = users[id] /\ id \notin torn
    BY <1>2, <2>1, NoRowIsNone DEF AInv, UpdatesKept
  <2>3. want'[id] = IF want[id] = NoRow THEN NoRow ELSE Edited(req[t], want[id])
    BY <1>1, <1>2 DEF AInv, TypeOK
  <2> HIDE DEF new
  <2>4. want'[id] = new
    BY <1>2, <1>3, <2>1, <2>2, <2>3, NoRowIsNone
  <2> QED
    BY <1>2, <1>4, <2>1, <2>2, <2>4
<1> QED
  BY <1>1, <1>2, <1>4, <1>5, <1>6

LEMMA ReplaceKeeps == ASSUME AInv, NEW t \in Threads, Replace(t) PROVE AInv'
<1> DEFINE id == req[t].id
           new == Replaced(t)
<1>1. /\ id \in Ids /\ id \in used /\ new \in Row
      /\ users' = [users EXCEPT ![id] = new]
      /\ raced' \subseteq Ids /\ raced \subseteq raced'
  BY ReplaceAdvances
<1>2. id \notin raced' =>
        /\ users[id] \in Row /\ want'[id] = new /\ id \notin torn
        /\ new.epoch = users[id].epoch + 1
  BY ReplaceAdvances
<1>3. /\ want' = [want EXCEPT ![id] = IF @ = NoRow THEN NoRow ELSE Edited(req[t], @)]
      /\ Disturbs(t) /\ (Goto(t, "reread") \/ Return(t))
      /\ UNCHANGED <<used, tokens, faults, torn>>
  BY DEF Replace
<1> HIDE DEF new
<1>4. /\ users' \in [Ids -> Row \cup {NoRow}]
      /\ used \subseteq used' /\ used' \subseteq Ids
      /\ \A i \in Ids : users'[i] # NoRow => i \in used'
      /\ tokens' \subseteq Token /\ disturbed' \subseteq Threads /\ tokens' \ tokens = {}
      /\ requests' \in 0 .. MaxRequests
      /\ torn' \subseteq used' /\ faults' \in 0 .. MaxFaults
  <2>1. users' \in [Ids -> Row \cup {NoRow}]
    BY <1>1 DEF AInv, TypeOK
  <2>2. \A i \in Ids : users'[i] # NoRow => i \in used
    BY <1>1 DEF AInv, TypeOK, Exists
  <2>3. /\ used \subseteq Ids /\ tokens \subseteq Token /\ disturbed' \subseteq Threads
        /\ torn \subseteq used /\ faults \in 0 .. MaxFaults
    BY <1>3 DEF AInv, TypeOK, Disturbs
  <2>4. requests' \in 0 .. MaxRequests
    BY <1>3 DEF AInv, TypeOK, Goto, Return
  <2> QED
    BY <1>3, <2>1, <2>2, <2>3, <2>4
<1>5. want' \in [Ids -> Row \cup {NoRow}]
  <2>1. want[id] \in Row \cup {NoRow} /\ req[t] \in Request
    BY <1>1 DEF AInv, TypeOK
  <2>2. (IF want[id] = NoRow THEN NoRow ELSE Edited(req[t], want[id])) \in Row \cup {NoRow}
    BY <2>1, EditedTyped
  <2> QED
    BY <1>1, <1>3, <2>2 DEF AInv, TypeOK
<1>6. UpdatesKept'
  <2>1. ASSUME NEW i \in Ids \ raced'
        PROVE  users'[i] = IF i \in torn' THEN NoRow ELSE want'[i]
    <3>1. CASE i = id
      BY <1>1, <1>2, <1>3, <2>1, <3>1 DEF AInv, TypeOK
    <3>2. CASE i # id
      BY <1>1, <1>3, <2>1, <3>2 DEF AInv, TypeOK, UpdatesKept
    <3> QED
      BY <3>1, <3>2
  <2> QED
    BY <2>1 DEF UpdatesKept
<1>7. ASSUME NEW i \in used \ raced' PROVE Advances(i)
  <2>1. CASE i = id
    <3>1. users'[i] = new /\ users[i] \in Row /\ new.epoch = users[i].epoch + 1
      BY <1>1, <1>2, <1>7, <2>1 DEF AInv, TypeOK
    <3>2. users[i].epoch \in Nat /\ users[i] # NoRow
      BY <3>1, NoRowIsNone DEF Row
    <3> QED
      BY <3>1, <3>2 DEF Advances, Past
  <2>2. CASE i # id
    BY <1>1, <1>7, <2>2 DEF AInv, TypeOK, Advances
  <2> QED
    BY <2>1, <2>2
<1>8. CASE Goto(t, "reread")
  <2>1. pc' = [pc EXCEPT ![t] = "reread"] /\ req' = [req EXCEPT ![t] = req[t]] /\ req[t] \in Request
    BY <1>8 DEF Goto, AInv, TypeOK
  <2>2. Shaped(pc[t], req[t])
    BY DEF AInv
  <2>3. "reread" \in Places /\ Shaped("reread", req[t])
    BY <1>1, <2>2 DEF Places, Shaped
  <2>4. ASSUME NEW r, r = req[t] PROVE Shaped("reread", r)'
    BY <2>3, <2>4 DEF Shaped
  <2> QED
    BY <1>1, <1>4, <1>5, <1>6, <1>7, <2>1, <2>3, <2>4, Frame
<1>9. CASE Return(t)
  <2>1. pc' = [pc EXCEPT ![t] = "idle"] /\ req' = [req EXCEPT ![t] = Free]
    BY <1>9 DEF Return
  <2>2. Shaped("idle", Free)' /\ "idle" \in Places
    BY DEF Shaped, Places, Free
  <2> QED
    BY <1>1, <1>4, <1>5, <1>6, <1>7, <2>1, <2>2, FreeTyped, Frame
<1> QED
  BY <1>3, <1>8, <1>9

(* The row a request that nobody disturbs inserts clashes with no other:   *)
(* the row it read is still there, names are apart, and a new name is free. *)
LEMMA AloneDoesNotClash ==
  ASSUME AInv, AloneInv, NEW t \in Threads \ disturbed, pc[t] = "replace"
  PROVE  ~ Clashes(t)
<1> DEFINE r == req[t]
           id == r.id
<1>1. /\ id \in Ids /\ r.row = users[id] /\ r.row # NoRow /\ NameFree(users, r)
      /\ NamesApart(users)
  BY DEF AInv, Shaped, AloneInv, Cleared
<1>2. \A i \in Ids \ {id} : users[i].name # Edited(r, r.row).name
  BY <1>1 DEF NameFree, NamesApart, Edited
<1> QED
  BY <1>2 DEF Clashes, Replaced

(* A DELETE without its INSERT, where it is excused.                       *)
LEMMA TearKeeps ==
  ASSUME AInv, NEW t \in Threads, Tear(t, TRUE), faults' \in 0 .. MaxFaults
  PROVE  AInv'
<1>1. /\ pc[t] = "replace" /\ Return(t) /\ Disturbs(t)
      /\ users' = [users EXCEPT ![req[t].id] = NoRow]
      /\ torn' = torn \cup {req[t].id}
      /\ UNCHANGED <<used, tokens, want, raced>>
  BY DEF Tear
<1>2. req[t].id \in Ids /\ req[t].id \in used
  BY <1>1 DEF AInv, Shaped
<1>3. /\ pc' = [pc EXCEPT ![t] = "idle"] /\ req' = [req EXCEPT ![t] = Free]
      /\ requests' \in 0 .. MaxRequests
  BY <1>1 DEF Return, AInv, TypeOK
<1>4. /\ users' \in [Ids -> Row \cup {NoRow}] /\ want' \in [Ids -> Row \cup {NoRow}]
      /\ used \subseteq used' /\ used' \subseteq Ids
      /\ \A i \in Ids : users'[i] # NoRow => i \in used'
      /\ raced \subseteq raced' /\ raced' \subseteq Ids /\ torn' \subseteq used'
  BY <1>1, <1>2 DEF AInv, TypeOK, Exists
<1>5. tokens' \subseteq Token /\ disturbed' \subseteq Threads /\ tokens' \ tokens = {}
  BY <1>1 DEF AInv, TypeOK, Disturbs
<1>6. UpdatesKept' /\ \A i \in used \ raced' : Advances(i)
  BY <1>1, <1>2 DEF AInv, TypeOK, UpdatesKept, Advances, Past
<1>7. Shaped("idle", Free)' /\ "idle" \in Places
  BY DEF Shaped, Places, Free
<1> QED
  BY <1>3, <1>4, <1>5, <1>6, <1>7, FreeTyped, Frame

LEMMA FaultCounted == ASSUME AInv, Fault PROVE faults' \in 0 .. MaxFaults /\ faults' # faults
<1>1. faults \in 0 .. MaxFaults /\ MaxFaults \in Nat
  BY AccountsAssumption DEF AInv, TypeOK
<1> QED
  BY <1>1 DEF Fault

(* Every way in which a request ends with an exception from the database.  *)
LEMMA FailuresKeep ==
  ASSUME AInv, AloneInv, NEW t \in Threads, Clash(t) \/ InsertFails(t) \/ StatementFails(t)
  PROVE  AInv'
<1>1. faults' \in 0 .. MaxFaults
  BY FaultCounted DEF Clash, InsertFails, StatementFails, AInv, TypeOK
<1>2. CASE Clash(t)
  <2>1. pc[t] = "replace" /\ Clashes(t) /\ Tear(t, t \in disturbed)
    BY <1>2 DEF Clash, Tear
  <2>2. t \in disturbed
    BY <2>1, AloneDoesNotClash
  <2>3. Tear(t, TRUE)
    BY <2>1, <2>2 DEF Tear
  <2> QED
    BY <1>1, <2>3, TearKeeps
<1>3. CASE InsertFails(t)
  BY <1>1, <1>3, TearKeeps DEF InsertFails
<1>4. CASE StatementFails(t)
  BY <1>1, <1>4, ReturnKeeps DEF StatementFails
<1> QED
  BY <1>2, <1>3, <1>4

(* The rows a death leaves, and a table that ensure_superadmin has seen.   *)
Left(lost) == [id \in Ids |-> IF id \in lost THEN NoRow ELSE users[id]]

LEMMA DieLeaves ==
  ASSUME AInv, Die
  PROVE  \E lost \in SUBSET used :
           /\ EnsureSuperadmin(Left(lost)) /\ torn' = torn \cup lost
           /\ \A id \in lost : \E t \in Threads : pc[t] = "replace" /\ req[t].id = id
<1>1. PICK lost \in {{}} \cup {{req[t].id} : t \in {u \in Threads : pc[u] = "replace"}} :
        EnsureSuperadmin(Left(lost)) /\ torn' = torn \cup lost
  BY DEF Die, Left
<1>2. \A id \in lost : \E t \in Threads : pc[t] = "replace" /\ req[t].id = id
  OBVIOUS
<1>3. lost \subseteq used
  BY <1>2 DEF AInv, Shaped
<1> QED
  BY <1>1, <1>2, <1>3

(* What the start leaves of the rows that were left: all, or one new one.  *)
LEMMA Started ==
  ASSUME AInv, NEW lost \in SUBSET used, EnsureSuperadmin(Left(lost))
  PROVE  /\ users' \in [Ids -> Row \cup {NoRow}] /\ want' \in [Ids -> Row \cup {NoRow}]
         /\ used \subseteq used' /\ used' \subseteq Ids
         /\ \A id \in Ids : users'[id] # NoRow => id \in used'
         /\ \A id \in used : users'[id] = Left(lost)[id] /\ want'[id] = want[id]
         /\ \A id \in Ids \ used : users'[id] # users[id] => users'[id] = want'[id]
         /\ \A id \in Ids \ used : users'[id] = users[id] => want'[id] = want[id]
<1>1. Left(lost) \in [Ids -> Row \cup {NoRow}]
  BY DEF Left, AInv, TypeOK
<1>2. \A id \in Ids \ used : Left(lost)[id] = users[id] /\ users[id] = NoRow
  BY DEF Left, AInv, TypeOK, Exists
<1>3. \A id \in Ids : Left(lost)[id] # NoRow => id \in used
  BY <1>2
<1> DEFINE left == Left(lost)
<1>4. left \in [Ids -> Row \cup {NoRow}] /\ EnsureSuperadmin(left)
  BY <1>1
<1>5. \A id \in Ids \ used : left[id] = users[id] /\ users[id] = NoRow
  BY <1>2
<1> HIDE DEF left
<1>6. CASE users' = left /\ UNCHANGED <<used, want>>
  BY <1>4, <1>5, <1>6 DEF AInv, TypeOK, left
<1>7. ASSUME NEW new \in Ids \ used, NEW must \in BOOLEAN,
             users' = [left EXCEPT ![new] = FirstRow(must)],
             want' = [want EXCEPT ![new] = FirstRow(must)], used' = used \cup {new}
      PROVE  /\ users' \in [Ids -> Row \cup {NoRow}] /\ want' \in [Ids -> Row \cup {NoRow}]
             /\ used \subseteq used' /\ used' \subseteq Ids
             /\ \A id \in Ids : users'[id] # NoRow => id \in used'
             /\ \A id \in used : users'[id] = left[id] /\ want'[id] = want[id]
             /\ \A id \in Ids \ used : users'[id] # users[id] => users'[id] = want'[id]
             /\ \A id \in Ids \ used : users'[id] = users[id] => want'[id] = want[id]
  <2> DEFINE row == FirstRow(must)
  <2>1. row \in Row /\ row # NoRow
    BY FirstTyped, NoRowIsNone
  <2> HIDE DEF row
  <2>2. users' = [left EXCEPT ![new] = row] /\ want' = [want EXCEPT ![new] = row]
    BY <1>7 DEF row
  <2> QED
    BY <1>4, <1>5, <1>7, <2>1, <2>2 DEF AInv, TypeOK
<1>8. \/ users' = left /\ UNCHANGED <<used, want>>
      \/ \E new \in Ids \ used, must \in BOOLEAN :
           /\ users' = [left EXCEPT ![new] = FirstRow(must)]
           /\ want' = [want EXCEPT ![new] = FirstRow(must)] /\ used' = used \cup {new}
  BY <1>4 DEF EnsureSuperadmin
<1> QED
  BY <1>6, <1>7, <1>8 DEF left

LEMMA DieKeeps == ASSUME AInv, Die PROVE AInv'
<1>1. PICK lost \in SUBSET used : EnsureSuperadmin(Left(lost)) /\ torn' = torn \cup lost
  BY DieLeaves
<1>2. /\ users' \in [Ids -> Row \cup {NoRow}] /\ want' \in [Ids -> Row \cup {NoRow}]
      /\ used \subseteq used' /\ used' \subseteq Ids
      /\ \A id \in Ids : users'[id] # NoRow => id \in used'
      /\ \A id \in used : users'[id] = Left(lost)[id] /\ want'[id] = want[id]
      /\ \A id \in Ids \ used : users'[id] # users[id] => users'[id] = want'[id]
      /\ \A id \in Ids \ used : users'[id] = users[id] => want'[id] = want[id]
  BY <1>1, Started
<1>3. /\ pc' = [t \in Threads |-> "idle"] /\ req' = [t \in Threads |-> Free]
      /\ UNCHANGED <<tokens, requests, raced, disturbed>> /\ faults' \in 0 .. MaxFaults
  BY AccountsAssumption DEF Die, Fault, AInv, TypeOK
<1>4. torn' \subseteq used' /\ torn \subseteq used
  BY <1>1, <1>2 DEF AInv
<1>5. TypeOK'
  <2>1. pc' \in [Threads -> Places] /\ req' \in [Threads -> Request]
    BY <1>3, FreeTyped DEF Places
  <2> QED
    BY <1>2, <1>3, <1>4, <2>1 DEF AInv, TypeOK, Exists, Places
<1>6. \A id \in used : users'[id] = users[id] \/ (id \in lost /\ users'[id] = NoRow)
  BY <1>2 DEF Left, AInv, TypeOK
<1>7. UpdatesKept'
  <2>1. ASSUME NEW id \in Ids \ raced PROVE users'[id] = IF id \in torn' THEN NoRow ELSE want'[id]
    <3>1. users[id] = IF id \in torn THEN NoRow ELSE want[id]
      BY <2>1 DEF AInv, UpdatesKept
    <3>2. CASE id \in used
      BY <1>1, <1>2, <1>6, <3>1, <3>2 DEF Left, AInv, TypeOK
    <3>3. CASE id \notin used
      BY <1>1, <1>2, <1>4, <3>1, <3>3
    <3> QED
      BY <3>2, <3>3
  <2> QED
    BY <1>3, <2>1 DEF UpdatesKept
<1>8. \A t \in Threads : Shaped(pc[t], req[t])'
  BY <1>3 DEF Shaped, Free
<1>9. ASSUME NEW tok \in tokens'
      PROVE  tok.id \in used' /\ (tok.id \notin raced' => Past(tok.epoch, tok.role, users'[tok.id]))
  <2>1. tok.id \in used /\ (tok.id \notin raced => Past(tok.epoch, tok.role, users[tok.id]))
    BY <1>3, <1>9 DEF AInv
  <2> QED
    BY <1>2, <1>3, <1>6, <2>1 DEF Past
<1>10. \A t \in Threads : pc'[t] # "issue"
  BY <1>3
<1> QED
  BY <1>4, <1>5, <1>7, <1>8, <1>9, <1>10 DEF AInv

(* The last superadmin, and names.                                        *)

LEMMA InitAlone == Init => AloneInv
<1> SUFFICES ASSUME Init PROVE AloneInv
  OBVIOUS
<1>1. PICK id \in Ids, m \in BOOLEAN :
        /\ users = [i \in Ids |-> IF i = id THEN FirstRow(m) ELSE NoRow]
        /\ used = {id} /\ pc = [t \in Threads |-> "idle"]
  BY DEF Init
<1>2. NamesApart(users)
  BY <1>1, FirstTyped DEF NamesApart, NoRow
<1>3. IsFiniteSet(used)
  BY <1>1, FS_Singleton
<1>4. \A t \in Threads \ disturbed : Cleared(users, pc[t], req[t])
  BY <1>1 DEF Cleared
<1> QED
  BY <1>2, <1>3, <1>4 DEF AloneInv

(* A step of t: the others find the table as it was, or are disturbed.     *)
LEMMA AloneFrame ==
  ASSUME AInv, AloneInv, NEW t \in Threads,
         NEW l, pc' = [pc EXCEPT ![t] = l], NEW r, req' = [req EXCEPT ![t] = r],
         NamesApart(users'), IsFiniteSet(used'),
         \/ users' = users /\ disturbed \ {t} \subseteq disturbed'
         \/ Threads \ {t} \subseteq disturbed',
         t \notin disturbed' => Cleared(users', l, r)
  PROVE  AloneInv'
<1>1. /\ pc'[t] = l /\ req'[t] = r
      /\ \A u \in Threads \ {t} : pc'[u] = pc[u] /\ req'[u] = req[u]
  BY DEF AInv, TypeOK
<1>2. ASSUME NEW u \in Threads \ disturbed' PROVE Cleared(users', pc'[u], req'[u])
  <2>1. CASE u = t
    BY <1>1, <1>2, <2>1
  <2>2. CASE u # t
    <3>1. users' = users /\ u \notin disturbed
      BY <1>2, <2>2
    <3>2. Cleared(users, pc[u], req[u])
      BY <1>2, <3>1 DEF AloneInv
    <3> QED
      BY <1>1, <2>2, <3>1, <3>2
  <2> QED
    BY <2>1, <2>2
<1> QED
  BY <1>2 DEF AloneInv

(* A step that writes nothing.                                             *)
LEMMA LookFrame ==
  ASSUME AInv, AloneInv, NEW t \in Threads,
         NEW l, pc' = [pc EXCEPT ![t] = l], NEW r, req' = [req EXCEPT ![t] = r],
         UNCHANGED <<users, used>>, disturbed \ {t} \subseteq disturbed',
         t \notin disturbed' => Cleared(users, l, r)
  PROVE  AloneInv'
BY AloneFrame DEF AloneInv

LEMMA ReturnAlone ==
  ASSUME AInv, AloneInv, NEW t \in Threads, Return(t), UNCHANGED <<users, used, disturbed>>
  PROVE  AloneInv'
<1>1. pc' = [pc EXCEPT ![t] = "idle"] /\ req' = [req EXCEPT ![t] = Free]
  BY DEF Return
<1>2. Cleared(users, "idle", Free)
  BY DEF Cleared
<1> QED
  BY <1>1, <1>2, LookFrame

LEMMA GotoAlone ==
  ASSUME AInv, AloneInv, NEW t \in Threads, NEW l, Goto(t, l),
         UNCHANGED <<users, used, disturbed>>,
         t \notin disturbed => Cleared(users, l, req[t])
  PROVE  AloneInv'
<1>1. pc' = [pc EXCEPT ![t] = l] /\ req' = [req EXCEPT ![t] = req[t]]
  BY DEF Goto, AInv, TypeOK
<1> QED
  BY <1>1, LookFrame

LEMMA BeginAlone ==
  ASSUME AInv, AloneInv, NEW t \in Threads, NEW l, NEW r, Begin(t, r, l), Cleared(users, l, r)
  PROVE  AloneInv'
<1>1. /\ pc' = [pc EXCEPT ![t] = l] /\ req' = [req EXCEPT ![t] = r]
      /\ UNCHANGED <<users, used>> /\ disturbed \ {t} \subseteq disturbed'
  BY DEF Begin
<1> QED
  BY <1>1, LookFrame

LEMMA ArriveAlone == ASSUME AInv, AloneInv, NEW t \in Threads, Arrive(t) PROVE AloneInv'
<1>1. ASSUME NEW r, NEW l \in {"issue", "target"}, Begin(t, r, l) PROVE AloneInv'
  <2>1. Cleared(users, l, r)
    BY DEF Cleared
  <2> QED
    BY <1>1, <2>1, BeginAlone
<1>2. ASSUME NEW n \in Names, NEW role \in Roles, Create(t, n, role) PROVE AloneInv'
  <2>1. Begin(t, CreateReq(n, role), "name")
    BY <1>2 DEF Create, CreateReq
  <2>2. CreateReq(n, role).op = "create"
    BY CreateRequest
  <2>3. Cleared(users, "name", CreateReq(n, role))
    BY <2>2 DEF Cleared
  <2> QED
    BY <2>1, <2>3, BeginAlone
<1>3. ASSUME NEW id \in Ids, Logout(t, id) PROVE AloneInv'
  <2> DEFINE r == PlainReq("logout", id)
  <2>1. Begin(t, r, "read")
    BY <1>3 DEF Logout, PlainReq
  <2>2. r.op = "logout" /\ r.name = Same /\ r.role = Same
    BY DEF PlainReq, Free
  <2> HIDE DEF r
  <2>3. Cleared(users, "read", r)
    BY <2>2 DEF Cleared, Spared, Demotes, NameFree
  <2> QED
    BY <2>1, <2>3, BeginAlone
<1>4. ASSUME NEW id \in Ids, Login(t, id) \/ Delete(t, id) \/ ChangePassword(t, id)
      PROVE  AloneInv'
  BY <1>1, <1>4 DEF Login, Delete, ChangePassword
<1>5. ASSUME NEW id \in Ids, NEW n, NEW role, Update(t, id, n, role) PROVE AloneInv'
  BY <1>1, <1>5 DEF Update
<1> QED
  BY <1>2, <1>3, <1>4, <1>5 DEF Arrive

(* Who passes the check may go on: the name it keeps is nobody else's.     *)
LEMMA OnwardCleared ==
  ASSUME AInv, NamesApart(users), NEW r \in Request, r.id \in Ids, users[r.id] # NoRow,
         Spared(users, r)
  PROVE  Cleared(users, Onward(r, users[r.id]), r)
<1>1. ASSUME r.name = users[r.id].name PROVE NameFree(users, r)
  BY <1>1 DEF NameFree, NamesApart
<1>2. ASSUME r.name = Same PROVE NameFree(users, r)
  BY <1>2 DEF NameFree
<1>3. CASE r.op = "delete"
  BY <1>3 DEF Onward, Cleared
<1>4. CASE r.op # "delete" /\ r.name \notin {Same, users[r.id].name}
  BY <1>4 DEF Onward, Cleared
<1>5. CASE r.op # "delete" /\ r.name \in {Same, users[r.id].name}
  BY <1>1, <1>2, <1>5 DEF Onward, Cleared
<1> QED
  BY <1>3, <1>4, <1>5

LEMMA CountFindsAnother ==
  ASSUME AInv, AloneInv, ~ (Cardinality(Superadmins) <= 1), NEW id
  PROVE  \E i \in SuperIn(users) : i # id
<1>1. Superadmins = SuperIn(users) /\ Superadmins \subseteq used
  BY DEF Superadmins, SuperIn, AInv, TypeOK, Exists, NoRow
<1>2. IsFiniteSet(Superadmins)
  BY <1>1, FS_Subset DEF AloneInv
<1>3. Superadmins # {} /\ Superadmins # {id}
  <2>1. ASSUME Superadmins = {} PROVE FALSE
    <3>1. Cardinality(Superadmins) = 0
      BY <2>1, FS_EmptySet
    <3> QED
      BY <3>1
  <2>2. ASSUME Superadmins = {id} PROVE FALSE
    <3>1. Cardinality(Superadmins) = 1
      BY <2>2, FS_Singleton
    <3> QED
      BY <3>1
  <2> QED
    BY <2>1, <2>2
<1> QED
  BY <1>1, <1>3

LEMMA LooksAlone ==
  ASSUME AInv, AloneInv, NEW t \in Threads,
         \/ Issue(t) \/ Refuse(t) \/ Target(t) \/ Count(t) \/ Name(t) \/ StillThere(t)
         \/ Read(t) \/ Reread(t)
  PROVE  AloneInv'
<1> DEFINE id == req[t].id
           row == users[id]
<1>1. /\ Shaped(pc[t], req[t]) /\ req[t] \in Request /\ NamesApart(users)
      /\ t \notin disturbed => Cleared(users, pc[t], req[t])
  BY DEF AInv, TypeOK, AloneInv
<1>2. UNCHANGED <<users, used, disturbed>>
  BY DEF Issue, Refuse, Target, Count, Name, StillThere, Read, Reread, history
<1>3. ASSUME Return(t) PROVE AloneInv'
  BY <1>2, <1>3, ReturnAlone
<1>4. CASE Target(t) /\ row # NoRow
  <2> DEFINE r == [req[t] EXCEPT !.row = row]
             l == IF Demotes(req[t], row) THEN "count" ELSE Onward(req[t], row)
  <2>1. id \in Ids /\ row \in Row \cup {NoRow}
    BY <1>1, <1>4 DEF Target, Shaped, AInv, TypeOK
  <2>2. /\ r \in Request /\ r.op = req[t].op /\ r.id = id /\ r.row = row
        /\ r.name = req[t].name /\ r.role = req[t].role
    BY <1>1, <2>1, RowReplaced
  <2>3. pc' = [pc EXCEPT ![t] = l] /\ req' = [req EXCEPT ![t] = r]
    BY <1>4 DEF Target
  <2> HIDE DEF r
  <2>4. l = IF Demotes(r, users[r.id]) THEN "count" ELSE Onward(r, users[r.id])
    BY <2>2 DEF Demotes, Onward
  <2> HIDE DEF l
  <2>5. Cleared(users, l, r)
    <3>1. CASE Demotes(r, users[r.id])
      BY <1>4, <2>2, <2>4, <3>1 DEF Cleared
    <3>2. CASE ~ Demotes(r, users[r.id])
      BY <1>1, <1>4, <2>1, <2>2, <2>4, <3>2, OnwardCleared DEF Spared
    <3> QED
      BY <3>1, <3>2
  <2> QED
    BY <1>2, <2>3, <2>5, LookFrame
<1>5. CASE Count(t) /\ ~ (Cardinality(Superadmins) <= 1)
  <2>1. pc[t] = "count" /\ id \in Ids /\ Goto(t, Onward(req[t], req[t].row))
    BY <1>1, <1>5 DEF Count, Shaped
  <2>2. ASSUME t \notin disturbed PROVE Cleared(users, Onward(req[t], req[t].row), req[t])
    <3>1. req[t].row = row /\ row # NoRow
      BY <1>1, <2>1, <2>2 DEF Cleared
    <3>2. Spared(users, req[t])
      BY <1>5, CountFindsAnother DEF Spared
    <3> QED
      BY <1>1, <2>1, <3>1, <3>2, OnwardCleared
  <2> QED
    BY <1>2, <2>1, <2>2, GotoAlone
<1>6. CASE Name(t) /\ ~ Taken(req[t].name)
  <2>1. pc[t] = "name" /\ Goto(t, IF req[t].op = "create" THEN "insert" ELSE "read")
    BY <1>6 DEF Name
  <2>2. NameFree(users, req[t])
    BY <1>6 DEF NameFree, Taken
  <2>3. t \notin disturbed =>
          Cleared(users, IF req[t].op = "create" THEN "insert" ELSE "read", req[t])
    BY <1>1, <2>1, <2>2 DEF Cleared
  <2> QED
    BY <1>2, <2>1, <2>3, GotoAlone
<1>7. CASE StillThere(t) /\ Exists(id)
  <2>1. pc[t] = "exists" /\ Goto(t, "delete")
    BY <1>7 DEF StillThere
  <2>2. t \notin disturbed => Cleared(users, "delete", req[t])
    BY <1>1, <2>1 DEF Cleared
  <2> QED
    BY <1>2, <2>1, <2>2, GotoAlone
<1>8. ASSUME NEW l \in {"replace", "issue"}, pc' = [pc EXCEPT ![t] = l],
             req' = [req EXCEPT ![t].row = row], row # NoRow, id \in Ids,
             l = "replace" => pc[t] = "read"
      PROVE  AloneInv'
  <2> DEFINE r == [req[t] EXCEPT !.row = row]
  <2>1. row \in Row \cup {NoRow}
    BY <1>8 DEF AInv, TypeOK
  <2>2. /\ r.op = req[t].op /\ r.id = id /\ r.row = row
        /\ r.name = req[t].name /\ r.role = req[t].role /\ req' = [req EXCEPT ![t] = r]
    BY <1>1, <1>8, <2>1, RowReplaced
  <2> HIDE DEF r
  <2>3. t \notin disturbed => Cleared(users, l, r)
    BY <1>1, <1>8, <2>2 DEF Cleared, Spared, NameFree, Demotes
  <2> QED
    BY <1>2, <1>8, <2>2, <2>3, LookFrame
<1>9. CASE (Read(t) \/ Reread(t)) /\ row # NoRow
  <2>1. /\ pc' = [pc EXCEPT ![t] = IF pc[t] = "read" THEN "replace" ELSE "issue"]
        /\ req' = [req EXCEPT ![t].row = row] /\ pc[t] \in {"read", "reread"}
    BY <1>9 DEF Read, Reread
  <2>2. id \in Ids
    BY <1>1, <2>1 DEF Shaped
  <2> QED
    BY <1>8, <1>9, <2>1, <2>2
<1> QED
  BY <1>3, <1>4, <1>5, <1>6, <1>7, <1>9
     DEF Issue, Refuse, Target, Count, Name, StillThere, Read, Reread

LEMMA InsertAlone == ASSUME AInv, AloneInv, NEW t \in Threads, Insert(t) PROVE AloneInv'
<1>1. CASE UNCHANGED <<users, used, history>>
  BY <1>1, ReturnAlone DEF Insert, history
<1>2. ASSUME ~ Taken(req[t].name), NEW id \in Ids, NEW row,
             row.name = req[t].name, row # NoRow,
             users' = [users EXCEPT ![id] = row],
             used' = used \cup {id}, Disturbs(t), Return(t)
      PROVE  AloneInv'
  <2>1. pc' = [pc EXCEPT ![t] = "idle"] /\ req' = [req EXCEPT ![t] = Free]
    BY <1>2 DEF Return
  <2>2. NamesApart(users')
    BY <1>2 DEF NamesApart, Taken, AloneInv, AInv, TypeOK
  <2>3. IsFiniteSet(used') /\ Threads \ {t} \subseteq disturbed'
    BY <1>2, FS_AddElement DEF AloneInv, Disturbs
  <2>4. Cleared(users', "idle", Free)
    BY DEF Cleared
  <2> QED
    BY <2>1, <2>2, <2>3, <2>4, AloneFrame
<1>3. ASSUME NEW id \in Ids, NEW row,
             row = [name |-> req[t].name, role |-> req[t].role, must |-> FALSE, epoch |-> 0]
      PROVE  row.name = req[t].name /\ row # NoRow
  <2>1. req[t].role \in Roles
    BY DEF Insert, AInv, Shaped
  <2> QED
    BY <1>3, <2>1 DEF NoRow, Roles
<1> QED
  BY <1>1, <1>2, <1>3 DEF Insert

(* A row gives way to none, or to one with a name of its own.              *)
LEMMA WriteApart ==
  ASSUME AInv, AloneInv, NEW id \in Ids, NEW new,
         new # NoRow => \A i \in Ids \ {id} : users[i].name # new.name,
         users' = [users EXCEPT ![id] = new]
  PROVE  NamesApart(users')
<1>1. users'[id] = new /\ \A i \in Ids \ {id} : users'[i] = users[i]
  BY DEF AInv, TypeOK
<1>2. ASSUME NEW i \in Ids, NEW j \in Ids, users'[i] # NoRow, users'[i].name = users'[j].name
      PROVE  i = j
  <2>1. CASE i = id /\ j # id
    BY <1>1, <1>2, <2>1
  <2>2. CASE i # id /\ j # id
    BY <1>1, <1>2, <2>2 DEF AloneInv, NamesApart
  <2>3. CASE i # id /\ j = id
    <3>1. users[i] \in Row /\ users[i].name \in Names
      BY <1>1, <1>2, <2>3 DEF AInv, TypeOK, Row
    <3>2. new # NoRow
      BY <1>1, <1>2, <2>3, <3>1, AccountsAssumption DEF NoRow
    <3> QED
      BY <1>1, <1>2, <2>3, <3>2
  <2> QED
    BY <2>1, <2>2, <2>3
<1> QED
  BY <1>2 DEF NamesApart

LEMMA WritesAlone ==
  ASSUME AInv, AloneInv, NEW t \in Threads, Replace(t) \/ Remove(t)
  PROVE  AloneInv'
<1> DEFINE id == req[t].id
           new == users'[id]
<1>1. /\ id \in Ids /\ UNCHANGED used /\ Disturbs(t)
      /\ users' = [users EXCEPT ![id] = new]
  BY DEF Replace, Remove, AInv, TypeOK, Shaped
<1>2. new # NoRow => \A i \in Ids \ {id} : users[i].name # new.name
  BY <1>1 DEF Replace, Remove, Clashes, AInv, TypeOK
<1>3. NamesApart(users') /\ IsFiniteSet(used')
  BY <1>1, <1>2, WriteApart DEF AloneInv
<1>4. Threads \ {t} \subseteq disturbed'
  BY <1>1 DEF Disturbs
<1>5. CASE Return(t)
  <2>1. pc' = [pc EXCEPT ![t] = "idle"] /\ req' = [req EXCEPT ![t] = Free]
    BY <1>5 DEF Return
  <2>2. Cleared(users', "idle", Free)
    BY DEF Cleared
  <2> QED
    BY <1>3, <1>4, <2>1, <2>2, AloneFrame
<1>6. CASE Goto(t, "reread")
  <2>1. pc' = [pc EXCEPT ![t] = "reread"] /\ req' = [req EXCEPT ![t] = req[t]]
    BY <1>6 DEF Goto, AInv, TypeOK
  <2>2. Cleared(users', "reread", req[t])
    BY DEF Cleared
  <2> QED
    BY <1>3, <1>4, <2>1, <2>2, AloneFrame
<1> QED
  BY <1>5, <1>6 DEF Replace, Remove

LEMMA FailuresAlone ==
  ASSUME AInv, AloneInv, NEW t \in Threads, Clash(t) \/ InsertFails(t) \/ StatementFails(t)
  PROVE  AloneInv'
<1>1. CASE StatementFails(t)
  BY <1>1, ReturnAlone DEF StatementFails, history
<1>2. ASSUME NEW excused, Tear(t, excused) PROVE AloneInv'
  <2>1. /\ pc[t] = "replace" /\ Return(t) /\ Disturbs(t) /\ UNCHANGED used
        /\ users' = [users EXCEPT ![req[t].id] = NoRow]
    BY <1>2 DEF Tear
  <2>2. req[t].id \in Ids
    BY <2>1 DEF AInv, Shaped
  <2>3. NamesApart(users') /\ IsFiniteSet(used')
    BY <2>1, <2>2, WriteApart DEF AloneInv
  <2>4. pc' = [pc EXCEPT ![t] = "idle"] /\ req' = [req EXCEPT ![t] = Free]
    BY <2>1 DEF Return
  <2>5. Cleared(users', "idle", Free) /\ Threads \ {t} \subseteq disturbed'
    BY <2>1 DEF Cleared, Disturbs
  <2> QED
    BY <2>3, <2>4, <2>5, AloneFrame
<1> QED
  BY <1>1, <1>2 DEF Clash, InsertFails

LEMMA DieAlone == ASSUME AInv, AloneInv, Die PROVE AloneInv'
<1>1. PICK lost \in SUBSET used : EnsureSuperadmin(Left(lost))
  BY DieLeaves
<1>2. /\ Left(lost) \in [Ids -> Row \cup {NoRow}]
      /\ \A id \in Ids : Left(lost)[id] # NoRow => Left(lost)[id] = users[id]
  BY DEF Left, AInv, TypeOK
<1>3. NamesApart(Left(lost))
  <2>1. \A i, j \in Ids : Left(lost)[i] # NoRow /\ Left(lost)[i].name = Left(lost)[j].name
          => Left(lost)[j] # NoRow
    BY <1>2, AccountsAssumption DEF Row, NoRow
  <2> QED
    BY <1>2, <2>1 DEF AloneInv, NamesApart
<1> DEFINE left == Left(lost)
<1>4. left \in [Ids -> Row \cup {NoRow}] /\ NamesApart(left) /\ EnsureSuperadmin(left)
  BY <1>1, <1>2, <1>3
<1> HIDE DEF left
<1>5. ASSUME users' = left, used' = used PROVE NamesApart(users') /\ IsFiniteSet(used')
  BY <1>4, <1>5 DEF AloneInv
<1>6. ASSUME NEW new \in Ids, NEW must \in BOOLEAN, \A id \in Ids : left[id] = NoRow,
             users' = [left EXCEPT ![new] = FirstRow(must)], used' = used \cup {new}
      PROVE  NamesApart(users') /\ IsFiniteSet(used')
  <2>1. IsFiniteSet(used')
    BY <1>6, FS_AddElement DEF AloneInv
  <2> DEFINE row == FirstRow(must)
  <2>2. row.name # NoRow.name
    BY FirstTyped DEF NoRow
  <2> HIDE DEF row
  <2>3. users'[new] = row /\ \A id \in Ids \ {new} : users'[id] = NoRow
    BY <1>4, <1>6 DEF row
  <2> QED
    BY <2>1, <2>2, <2>3 DEF NamesApart
<1>7. NamesApart(users') /\ IsFiniteSet(used')
  BY <1>4, <1>5, <1>6 DEF EnsureSuperadmin, AloneInv
<1>8. \A t \in Threads : Cleared(users', pc'[t], req'[t])
  BY DEF Die, Cleared
<1> QED
  BY <1>7, <1>8 DEF AloneInv

LEMMA AloneKept == AInv /\ AloneInv /\ [Next]_vars => AloneInv'
<1> SUFFICES ASSUME AInv, AloneInv, [Next]_vars PROVE AloneInv'
  OBVIOUS
<1>1. CASE UNCHANGED vars
  BY <1>1 DEF vars, locals, history, AloneInv
<1>2. ASSUME NEW t \in Threads, Arrive(t) \/ Step(t) PROVE AloneInv'
  BY <1>2, ArriveAlone, LooksAlone, InsertAlone, WritesAlone, FailuresAlone DEF Step
<1> QED
  BY <1>1, <1>2, DieAlone DEF Next

LEMMA NextKeeps == AInv /\ AloneInv /\ [Next]_vars => AInv'
<1> SUFFICES ASSUME AInv, AloneInv, [Next]_vars PROVE AInv'
  OBVIOUS
<1>1. CASE UNCHANGED vars
  BY <1>1 DEF vars, locals, history, AInv, TypeOK, UpdatesKept, Shaped, Past, Exists
<1>2. ASSUME NEW t \in Threads, Arrive(t) \/ Step(t) PROVE AInv'
  BY <1>2, ArriveKeeps, LooksKeep, IssueKeeps, InsertKeeps, ReplaceKeeps, RemoveKeeps,
     FailuresKeep DEF Step
<1> QED
  BY <1>1, <1>2, DieKeeps DEF Next

-----------------------------------------------------------------------------
(* The invariant of the accounts table: types, no update lost, and tokens  *)
(* of the past of the rows they name.                                      *)
THEOREM AccountsKept == Spec => [](AInv /\ AloneInv)
<1>1. Init => AInv /\ AloneInv
  BY InitKeeps, InitAlone
<1>2. AInv /\ AloneInv /\ [Next]_vars => (AInv /\ AloneInv)'
  BY NextKeeps, AloneKept
<1> QED
  BY <1>1, <1>2, PTL DEF Spec

(* Every account is what it would be had each request been one step, but   *)
(* for accounts written over a row nobody had read, or lost as a whole to  *)
(* a fault or to a name that another request took meanwhile.               *)
THEOREM UpdatesAreKept == Spec => []UpdatesKept
<1>1. AInv => UpdatesKept
  BY DEF AInv
<1> QED
  BY <1>1, AccountsKept, PTL

(* A token that is accepted carries its user's role of today, unless the   *)
(* account was raced.                                                      *)
THEOREM RolesAreCurrent == Spec => []RolesCurrent
<1>1. AInv => RolesCurrent
  <2> SUFFICES ASSUME AInv, NEW tok \in tokens, Valid(tok), tok.id \notin raced
               PROVE  tok.role = users[tok.id].role
    BY DEF RolesCurrent
  <2> QED
    BY DEF AInv, Valid, Exists, Past
<1> QED
  BY <1>1, AccountsKept, PTL

(* One request steps at a time.                                            *)
LEMMA StepsAlone ==
  ASSUME NEW u \in Threads, Arrive(u) \/ Step(u)
  PROVE  \E l : pc' = [pc EXCEPT ![u] = l]
<1>1. CASE Arrive(u)
  BY <1>1 DEF Arrive, Login, Create, Update, Delete, Logout, ChangePassword, Begin
<1>2. CASE Issue(u) \/ Refuse(u) \/ Insert(u) \/ Remove(u)
  BY <1>2 DEF Issue, Refuse, Insert, Remove, Return
<1>3. CASE Target(u) \/ Read(u) \/ Reread(u)
  BY <1>3 DEF Target, Read, Reread, Return
<1>4. CASE Count(u) \/ Name(u) \/ StillThere(u)
  BY <1>4 DEF Count, Name, StillThere, Return, Goto
<1>5. CASE Replace(u) \/ Clash(u) \/ InsertFails(u) \/ StatementFails(u)
  BY <1>5 DEF Replace, Clash, InsertFails, StatementFails, Tear, Return, Goto
<1> QED
  BY <1>1, <1>2, <1>3, <1>4, <1>5 DEF Step

(* What a replacement that has been tried leaves of the account.           *)
LEMMA TriedKeeps ==
  ASSUME AInv, Next, NEW t \in Threads, Replaces(t), req[t].id \notin raced'
  PROVE  /\ req[t].id \in Ids
         /\ \/ users'[req[t].id] = NoRow
            \/ /\ users[req[t].id] \in Row /\ raced \subseteq raced'
               /\ users'[req[t].id].epoch = users[req[t].id].epoch + 1
<1>1. pc[t] = "replace" /\ pc'[t] # "replace" /\ faults' = faults /\ faults \in Nat
  BY DEF Replaces, AInv, TypeOK
<1>2. ~ Die
  BY <1>1 DEF Die, Fault
<1>3. PICK u \in Threads : Arrive(u) \/ Step(u)
  BY <1>2 DEF Next
<1>4. ~ Arrive(u) /\ u = t
  <2>1. \E l : pc' = [pc EXCEPT ![u] = l]
    BY <1>3, StepsAlone
  <2>2. u = t
    BY <1>1, <2>1 DEF AInv, TypeOK
  <2> QED
    BY <1>1, <2>2 DEF Arrive, Login, Create, Update, Delete, Logout, ChangePassword, Begin
<1>5. req[t].id \in Ids
  BY <1>1 DEF AInv, Shaped
<1>6. CASE Replace(t)
  BY <1>5, <1>6, ReplaceAdvances DEF AInv, TypeOK
<1>7. CASE Clash(t)
  BY <1>5, <1>7 DEF Clash, Tear, AInv, TypeOK
<1>8. ~ InsertFails(t) /\ ~ StatementFails(t)
  BY <1>1, FaultCounted DEF InsertFails, StatementFails
<1>9. Replace(t) \/ Clash(t)
  BY <1>1, <1>3, <1>4, <1>8 DEF Step, Issue, Refuse, Target, Count, Name, StillThere, Read,
     Insert, Reread, Remove
<1> QED
  BY <1>5, <1>6, <1>7, <1>9

(* A replacement shuts out every token issued before, unless the account   *)
(* was raced (bump_token_epoch, update_user, change_own_password).         *)
THEOREM RevocationsHold == Spec => RevokesUnlessRaced
<1> DEFINE A == \A t \in Threads : Replaces(t) =>
                  \/ req[t].id \in raced'
                  \/ \A tok \in tokens : tok.id = req[t].id => ~ Valid(tok)'
<1>1. AInv /\ [Next]_vars => [A]_vars
  <2> SUFFICES ASSUME AInv, Next, NEW t \in Threads, Replaces(t), req[t].id \notin raced',
                      NEW tok \in tokens, tok.id = req[t].id
               PROVE  ~ Valid(tok)'
    BY DEF A
  <2>1. CASE users'[req[t].id] = NoRow
    BY <2>1 DEF Valid, Exists
  <2>2. CASE /\ users[req[t].id] \in Row /\ raced \subseteq raced'
             /\ users'[req[t].id].epoch = users[req[t].id].epoch + 1
    <3>1. tok.epoch <= users[req[t].id].epoch /\ tok.epoch \in Nat
      BY <2>2, NoRowIsNone DEF AInv, TypeOK, Past, Token
    <3>2. users[req[t].id].epoch \in Nat
      BY <2>2 DEF Row
    <3> QED
      BY <2>2, <3>1, <3>2 DEF Valid, Exists
  <2> QED
    BY <2>1, <2>2, TriedKeeps
<1> QED
  BY <1>1, AccountsKept, PTL DEF Spec, RevokesUnlessRaced

-----------------------------------------------------------------------------
(* The last superadmin: who has found another one still does, unless       *)
(* somebody else wrote.                                                    *)

(* Nobody's row is taken away or demoted but with another superadmin left. *)
LEMMA SuperadminStays ==
  ASSUME AInv, AloneInv, NEW t \in Threads \ disturbed, Replace(t) \/ Remove(t), Superadmin
  PROVE  Superadmin'
<1> DEFINE r == req[t]
           id == r.id
<1>1. /\ id \in Ids /\ r \in Request /\ Shaped(pc[t], r) /\ Cleared(users, pc[t], r)
      /\ \A i \in Ids \ {id} : users'[i] = users[i]
  BY DEF Replace, Remove, AInv, TypeOK, Shaped, AloneInv
<1>2. CASE \E i \in SuperIn(users) : i # id
  BY <1>1, <1>2 DEF SuperIn, Superadmin, Superadmins
<1>3. CASE ~ \E i \in SuperIn(users) : i # id
  <2>1. users[id].role = "superadmin"
    BY <1>3 DEF SuperIn, Superadmin, Superadmins
  <2>2. ~ Demotes(r, users[id])
    BY <1>1, <1>3 DEF Replace, Remove, Cleared, Spared
  <2>3. r.op # "delete" /\ r.role \in {Same, "superadmin"}
    BY <2>1, <2>2 DEF Demotes
  <2>4. Replace(t) /\ pc[t] = "replace"
    BY <1>1, <2>3 DEF Remove, Replace, Cleared
  <2>5. users'[id] = Replaced(t)
    BY <1>1, <2>4 DEF Replace, AInv, TypeOK
  <2>6. r.row = users[id] /\ Edited(r, r.row).role = "superadmin"
    BY <1>1, <2>1, <2>3, <2>4 DEF Cleared, Edited
  <2> QED
    BY <1>1, <2>5, <2>6 DEF Replaced, Superadmin, Superadmins
<1> QED
  BY <1>2, <1>3

(* Every step of a request that can take a superadmin away.                *)
LEMMA SuperadminLost ==
  ASSUME AInv, AloneInv, NEW t \in Threads, Arrive(t) \/ Step(t), Superadmin, ~ Superadmin'
  PROVE  \/ pc[t] \in {"replace", "delete"} /\ pc'[t] # pc[t] /\ t \in disturbed
         \/ InsertFails(t)
<1>1. users' # users
  BY DEF Superadmin, Superadmins
<1>2. Insert(t) \/ Replace(t) \/ Clash(t) \/ Remove(t) \/ InsertFails(t)
  BY <1>1 DEF Arrive, Login, Create, Update, Delete, Logout, ChangePassword, Begin,
     Step, Issue, Refuse, Target, Count, Name, StillThere, Read, Reread, StatementFails
<1>3. ~ Insert(t)
  <2> SUFFICES ASSUME Insert(t) PROVE FALSE
    OBVIOUS
  <2>1. PICK i \in Ids : users[i].role = "superadmin"
    BY DEF Superadmin, Superadmins
  <2>2. i \in used
    BY <2>1 DEF AInv, TypeOK, Exists, NoRow
  <2>3. users'[i] = users[i]
    BY <1>1, <2>2 DEF Insert, AInv, TypeOK
  <2> QED
    BY <2>1, <2>3 DEF Superadmin, Superadmins
<1>4. CASE Replace(t) \/ Clash(t) \/ Remove(t)
  <2>1. pc[t] \in {"replace", "delete"} /\ pc'[t] # pc[t]
    BY <1>4 DEF Replace, Clash, Tear, Remove, Return, Goto, AInv, TypeOK
  <2>2. t \in disturbed
    BY <1>4, SuperadminStays, AloneDoesNotClash DEF Clash, Tear
  <2> QED
    BY <2>1, <2>2
<1> QED
  BY <1>2, <1>3, <1>4

(* What a fault takes is an account it tears.                              *)
LEMMA FaultTears ==
  ASSUME AInv, Die \/ (\E t \in Threads : InsertFails(t)), Superadmin, ~ Superadmin'
  PROVE  faults' # faults /\ \E id \in Superadmins \cap torn' : ~ Exists(id)'
<1>1. faults' # faults
  BY FaultCounted DEF Die, InsertFails
<1>2. PICK id \in Ids : users[id].role = "superadmin"
  BY DEF Superadmin, Superadmins
<1>3. id \in used
  BY <1>2 DEF AInv, TypeOK, Exists, NoRow
<1>4. users'[id] # users[id]
  BY <1>2 DEF Superadmin, Superadmins
<1>5. id \in torn' /\ users'[id] = NoRow
  <2>1. CASE Die
    <3>1. PICK lost \in SUBSET used : EnsureSuperadmin(Left(lost)) /\ torn' = torn \cup lost
      BY <2>1, DieLeaves
    <3>2. users'[id] = Left(lost)[id]
      BY <1>3, <3>1, Started
    <3> QED
      BY <1>4, <3>1, <3>2 DEF Left
  <2>2. ASSUME NEW t \in Threads, InsertFails(t) PROVE id \in torn' /\ users'[id] = NoRow
    BY <1>4, <2>2 DEF InsertFails, Tear, AInv, TypeOK
  <2> QED
    BY <2>1, <2>2
<1> QED
  BY <1>1, <1>2, <1>5 DEF Superadmins, Exists

(* The last superadmin goes only to a request that another one disturbed,  *)
(* or to a fault between the two statements that replace its row           *)
(* (update_user, delete_user, change_own_password, bump_token_epoch).      *)
THEOREM SuperadminsRemain == Spec => AloneKeepsSuperadmin
<1> DEFINE A == Superadmin /\ ~ Superadmin' =>
                  \/ \E t \in disturbed : pc[t] \in {"replace", "delete"} /\ pc'[t] # pc[t]
                  \/ faults' # faults /\ \E id \in Superadmins \cap torn' : ~ Exists(id)'
<1>1. AInv /\ AloneInv /\ [Next]_vars => [A]_vars
  <2> SUFFICES ASSUME AInv, AloneInv, Next, Superadmin, ~ Superadmin'
               PROVE  \/ \E t \in disturbed : pc[t] \in {"replace", "delete"} /\ pc'[t] # pc[t]
                      \/ faults' # faults /\ \E id \in Superadmins \cap torn' : ~ Exists(id)'
    BY DEF A
  <2> QED
    BY SuperadminLost, FaultTears DEF Next
<1> QED
  BY <1>1, AccountsKept, PTL DEF Spec, AloneKeepsSuperadmin

-----------------------------------------------------------------------------
(* Login throttling. *)

(* The entry e is the account of the attempts ts, the last no later than   *)
(* now.                                                                    *)
Account(e, ts, now) ==
  /\ e.count = Len(ts)
  /\ e.count > 0 => e.last_seen = ts[Len(ts)] /\ e.last_seen <= now
  /\ e.locked_until = IF e.count >= MAX_ATTEMPTS THEN e.last_seen + Backoff(e.count) ELSE 0

Spaced(ts) ==
  \A i \in MAX_ATTEMPTS .. Len(ts) - 1 : ts[i + 1] >= ts[i] + Backoff(i)

LInv ==
  /\ LockoutTypeOK
  /\ \A k \in Keys : Account(failures[k], times[k], clock) /\ Spaced(times[k])

-----------------------------------------------------------------------------

LEMMA BackoffBounded ==
  ASSUME NEW n
  PROVE  Backoff(n) \in 0 .. MAX_BACKOFF_SECONDS /\ Backoff(n) \in Nat
<1>1. Backoff(n) \in 0 .. MAX_BACKOFF_SECONDS
  BY ConstantsAssumption DEF Backoff
<1> QED
  BY <1>1, ConstantsAssumption

LEMMA EmptyAccount ==
  ASSUME NEW now \in Nat
  PROVE  NoEntry \in Entry /\ <<>> \in Seq(Nat) /\ Account(NoEntry, <<>>, now) /\ Spaced(<<>>)
BY ConstantsAssumption DEF NoEntry, Entry, Account, Spaced

(* One more attempt, on an entry that is not locked, keeps the books.      *)
LEMMA NotedAccount ==
  ASSUME NEW e \in Entry, NEW ts \in Seq(Nat), NEW now \in Nat,
         Account(e, ts, now), Spaced(ts), ~ (e.locked_until > now)
  PROVE  /\ Noted(e, now) \in Entry /\ Append(ts, now) \in Seq(Nat)
         /\ Account(Noted(e, now), Append(ts, now), now)
         /\ Spaced(Append(ts, now))
<1> DEFINE us == Append(ts, now)
           f  == Noted(e, now)
<1>1. e.count \in Nat /\ e.locked_until \in Nat /\ e.last_seen \in Nat /\ e.count = Len(ts)
  BY DEF Entry, Account
<1>2. /\ us \in Seq(Nat) /\ Len(us) = Len(ts) + 1 /\ us[Len(us)] = now
      /\ \A i \in 1 .. Len(ts) : us[i] = ts[i]
  BY <1>1
<1>3. \A n : Backoff(n) \in Nat
  BY BackoffBounded
<1>4. /\ f.count = e.count + 1 /\ f.last_seen = now
      /\ f.locked_until = IF e.count + 1 >= MAX_ATTEMPTS THEN now + Backoff(e.count + 1)
                                                         ELSE e.locked_until
  BY DEF Noted
<1>5. f \in Entry
  BY <1>1, <1>3, ConstantsAssumption DEF Noted, Entry
<1>6. Account(f, us, now)
  <2>1. e.count + 1 < MAX_ATTEMPTS => e.locked_until = 0
    BY <1>1, ConstantsAssumption DEF Account
  <2> QED
    BY <1>1, <1>2, <1>4, <2>1, ConstantsAssumption DEF Account
<1>7. Spaced(us)
  <2> SUFFICES ASSUME NEW i \in MAX_ATTEMPTS .. Len(us) - 1
               PROVE  us[i + 1] >= us[i] + Backoff(i)
    BY DEF Spaced
  <2>1. i \in Nat /\ i >= 1 /\ i <= Len(ts)
    BY <1>1, <1>2, ConstantsAssumption
  <2>2. CASE i < Len(ts)
    <3>1. i \in MAX_ATTEMPTS .. Len(ts) - 1 /\ i + 1 \in 1 .. Len(ts) /\ i \in 1 .. Len(ts)
      BY <1>1, <2>1, <2>2, ConstantsAssumption
    <3> QED
      BY <1>2, <3>1 DEF Spaced
  <2>3. CASE i = Len(ts)
    <3>1. e.count >= MAX_ATTEMPTS /\ e.locked_until = ts[i] + Backoff(i)
      BY <1>1, <2>1, <2>3, ConstantsAssumption DEF Account
    <3>2. us[i + 1] = now /\ us[i] = ts[i]
      BY <1>2, <2>1, <2>3
    <3> QED
      BY <1>1, <3>1, <3>2
  <2> QED
    BY <1>1, <2>1, <2>2, <2>3
<1> QED
  BY <1>2, <1>5, <1>6, <1>7

(* An entry that has been idle for longer than the cap is not locked.      *)
LEMMA StaleIsUnlocked ==
  ASSUME NEW e \in Entry, NEW ts, NEW now \in Nat, Account(e, ts, now), Stale(e, now)
  PROVE  ~ (e.locked_until > now)
<1>1. Backoff(e.count) \in 0 .. MAX_BACKOFF_SECONDS
  BY BackoffBounded
<1>2. e.last_seen \in Nat /\ e.count \in Nat
  BY DEF Entry
<1> QED
  BY <1>1, <1>2, ConstantsAssumption DEF Stale, Account

-----------------------------------------------------------------------------

LEMMA InitLInv == LockoutInit => LInv
<1> SUFFICES ASSUME LockoutInit PROVE LInv
  OBVIOUS
<1>1. clock \in Nat /\ \A k \in Keys : failures[k] = NoEntry /\ times[k] = <<>>
  BY DEF LockoutInit
<1>2. LockoutTypeOK
  BY <1>1, EmptyAccount DEF LockoutInit, LockoutTypeOK
<1> QED
  BY <1>1, <1>2, EmptyAccount DEF LInv

LEMMA TickKeeps ==
  ASSUME LInv, Tick
  PROVE  LInv'
<1>1. /\ clock \in Nat /\ clock' = clock + 1 /\ failures' = failures /\ times' = times
      /\ LockoutTypeOK'
  BY DEF LInv, Tick, LockoutTypeOK
<1>2. \A k \in Keys : failures[k].last_seen \in Nat
  BY DEF LInv, LockoutTypeOK, Entry
<1> QED
  BY <1>1, <1>2 DEF LInv, Account

LEMMA AttemptKeeps ==
  ASSUME LInv, NEW t \in LoginThreads, NEW k \in Keys, Attempt(t, k)
  PROVE  LInv'
<1>1. clock \in Nat /\ clock' = clock
  BY DEF LInv, LockoutTypeOK, Attempt
<1>2. \A j \in Keys : /\ failures'[j] \in Entry /\ times'[j] \in Seq(Nat)
                      /\ Account(failures'[j], times'[j], clock) /\ Spaced(times'[j])
  <2> TAKE j \in Keys
  <2>1. /\ failures[j] \in Entry /\ times[j] \in Seq(Nat)
        /\ Account(failures[j], times[j], clock) /\ Spaced(times[j])
    BY DEF LInv, LockoutTypeOK
  <2>2. CASE j = k
    <3>1. failures'[j] = Noted(failures[j], clock) /\ times'[j] = Append(times[j], clock)
      BY <2>2 DEF Attempt
    <3>2. ~ (failures[j].locked_until > clock)
      BY <2>2 DEF Attempt, Locked
    <3> QED
      BY <1>1, <2>1, <3>1, <3>2, NotedAccount
  <2>3. CASE j # k /\ Stale(failures[j], clock)
    <3>1. failures'[j] = NoEntry /\ times'[j] = <<>>
      BY <2>3 DEF Attempt
    <3> QED
      BY <1>1, <3>1, EmptyAccount
  <2>4. CASE j # k /\ ~ Stale(failures[j], clock)
    <3>1. failures'[j] = failures[j] /\ times'[j] = times[j]
      BY <2>4 DEF Attempt
    <3> QED
      BY <2>1, <3>1
  <2> QED
    BY <2>2, <2>3, <2>4
<1>3. LockoutTypeOK'
  BY <1>1, <1>2 DEF LInv, LockoutTypeOK, Attempt
<1> QED
  BY <1>1, <1>2, <1>3 DEF LInv

LEMMA AcceptKeeps ==
  ASSUME LInv, NEW t \in LoginThreads, Accept(t)
  PROVE  LInv'
<1>1. clock \in Nat /\ clock' = clock /\ key[t] \in Keys
  BY DEF LInv, LockoutTypeOK, Accept
<1>2. \A j \in Keys : \/ failures'[j] = failures[j] /\ times'[j] = times[j]
                      \/ failures'[j] = NoEntry /\ times'[j] = <<>>
  BY DEF LInv, LockoutTypeOK, Accept
<1>3. LockoutTypeOK'
  BY <1>1, EmptyAccount DEF LInv, LockoutTypeOK, Accept
<1> QED
  BY <1>1, <1>2, <1>3, EmptyAccount DEF LInv

(* The books are kept throughout.                                          *)
THEOREM BooksKept == LockoutSpec => []LInv
<1>1. LInv /\ [LockoutNext]_lockoutVars => LInv'
  <2> SUFFICES ASSUME LInv, [LockoutNext]_lockoutVars PROVE LInv'
    OBVIOUS
  <2>1. ASSUME NEW t \in LoginThreads, Reject(t) PROVE LInv'
    BY <2>1 DEF LInv, LockoutTypeOK, Reject
  <2>2. ASSUME NEW t \in LoginThreads, LockoutStep(t) PROVE LInv'
    BY <2>1, <2>2, AttemptKeeps, AcceptKeeps DEF LockoutStep
  <2>3. CASE UNCHANGED lockoutVars
    BY <2>3 DEF lockoutVars, LInv, LockoutTypeOK
  <2> QED
    BY <2>2, <2>3, TickKeeps DEF LockoutNext
<1> QED
  BY <1>1, InitLInv, PTL DEF LockoutSpec

-----------------------------------------------------------------------------
(* The results. *)

(* Every admitted attempt past the limit waited out the one before it.     *)
THEOREM SpacingHolds == LockoutSpec => []AttemptsSpaced
<1>1. LInv => AttemptsSpaced
  BY DEF LInv, Spaced, AttemptsSpaced
<1> QED
  BY <1>1, BooksKept, PTL

(* Locks rest on enough failures and never outlast the cap.                *)
THEOREM LocksAreJustified == LockoutSpec => []LocksJustified
<1>1. LInv => LocksJustified
  <2> SUFFICES ASSUME LInv, NEW k \in Keys, Locked(k)
               PROVE  /\ Len(times[k]) >= MAX_ATTEMPTS
                      /\ failures[k].locked_until <= clock + MAX_BACKOFF_SECONDS
    BY DEF LocksJustified
  <2> DEFINE e == failures[k]
  <2>1. clock \in Nat /\ e \in Entry /\ Account(e, times[k], clock)
    BY DEF LInv, LockoutTypeOK
  <2>2. e.count \in Nat /\ e.last_seen \in Nat /\ e.locked_until > clock
    BY <2>1 DEF Entry, Locked
  <2>3. e.count >= MAX_ATTEMPTS
    BY <2>1, <2>2 DEF Account
  <2>4. e.last_seen <= clock /\ e.locked_until = e.last_seen + Backoff(e.count)
    BY <2>1, <2>2, <2>3, ConstantsAssumption DEF Account
  <2>5. Backoff(e.count) \in 0 .. MAX_BACKOFF_SECONDS
    BY BackoffBounded
  <2> QED
    BY <2>1, <2>2, <2>3, <2>4, <2>5, ConstantsAssumption DEF Account
<1> QED
  BY <1>1, BooksKept, PTL

(* The sweep removes no entry that still matters.                          *)
THEOREM EvictionIsHarmless == LockoutSpec => EvictionHarmless
<1> DEFINE Harmless ==
      \A k \in Keys : Dropped(k) =>
        \/ \E t \in LoginThreads : key[t] = k /\ stage[t] = "verify" /\ stage'[t] = "idle"
        \/ clock - failures[k].last_seen > MAX_BACKOFF_SECONDS /\ ~ Locked(k)
<1>1. LInv /\ [LockoutNext]_lockoutVars => [Harmless]_lockoutVars
  <2> SUFFICES ASSUME LInv, [LockoutNext]_lockoutVars, NEW k \in Keys, Dropped(k)
               PROVE  \/ \E t \in LoginThreads : key[t] = k /\ stage[t] = "verify" /\ stage'[t] = "idle"
                      \/ clock - failures[k].last_seen > MAX_BACKOFF_SECONDS /\ ~ Locked(k)
    OBVIOUS
  <2>1. clock \in Nat /\ failures[k] \in Entry /\ Account(failures[k], times[k], clock)
    BY DEF LInv, LockoutTypeOK
  <2>2. ASSUME NEW t \in LoginThreads, NEW j \in Keys, Attempt(t, j)
        PROVE  clock - failures[k].last_seen > MAX_BACKOFF_SECONDS /\ ~ Locked(k)
    <3>1. j # k
      BY <2>1, <2>2 DEF Attempt, Noted, Dropped, Entry
    <3>2. Stale(failures[k], clock)
      BY <2>2, <3>1 DEF Attempt, Dropped
    <3>3. ~ Locked(k)
      BY <2>1, <3>2, StaleIsUnlocked DEF Locked
    <3> QED
      BY <3>2, <3>3 DEF Stale
  <2>3. ASSUME NEW t \in LoginThreads, Accept(t)
        PROVE  key[t] = k /\ stage[t] = "verify" /\ stage'[t] = "idle"
    BY <2>3 DEF Accept, Dropped, LInv, LockoutTypeOK
  <2>4. ASSUME NEW t \in LoginThreads, Reject(t) PROVE FALSE
    BY <2>1, <2>4 DEF Reject, Dropped, Entry
  <2>5. ~ Tick /\ ~ UNCHANGED lockoutVars
    BY <2>1 DEF Tick, lockoutVars, Dropped, Entry
  <2> QED
    BY <2>2, <2>3, <2>4, <2>5 DEF LockoutNext, LockoutStep
<1> QED
  BY <1>1, BooksKept, PTL DEF LockoutSpec, EvictionHarmless

(* A lock-out is never made longer while it lasts.                         *)
THEOREM LocksNotExtended == LockoutSpec => LockNotExtended
<1> DEFINE Kept ==
      \A k \in Keys : Locked(k) => failures'[k].locked_until <= failures[k].locked_until
<1>1. LInv /\ [LockoutNext]_lockoutVars => [Kept]_lockoutVars
  <2> SUFFICES ASSUME LInv, [LockoutNext]_lockoutVars, NEW k \in Keys, Locked(k)
               PROVE  failures'[k].locked_until <= failures[k].locked_until
    OBVIOUS
  <2>1. clock \in Nat /\ failures[k].locked_until \in Nat /\ NoEntry.locked_until = 0
    BY DEF LInv, LockoutTypeOK, Entry, NoEntry
  <2>2. ASSUME NEW t \in LoginThreads, NEW j \in Keys, Attempt(t, j)
        PROVE  failures'[k] \in {failures[k], NoEntry}
    BY <2>2 DEF Attempt, LInv, LockoutTypeOK
  <2>3. ASSUME NEW t \in LoginThreads, Accept(t)
        PROVE  failures'[k] \in {failures[k], NoEntry}
    BY <2>3 DEF Accept, LInv, LockoutTypeOK
  <2>4. failures'[k] \in {failures[k], NoEntry}
    BY <2>2, <2>3 DEF LockoutNext, LockoutStep, Tick, Reject, lockoutVars
  <2> QED
    BY <2>1, <2>4
<1> QED
  BY <1>1, BooksKept, PTL DEF LockoutSpec, LockNotExtended

=============================================================================
