------------------------------ MODULE Accounts ------------------------------
(***************************************************************************)
(* User accounts and the tokens that name them: app/users/router.py,       *)
(* app/auth_router.py, app/auth.py over the users table of                 *)
(* app/storage/duckdb_store.py.                                            *)
(*                                                                         *)
(* Every request runs on a thread of its own.  The database lock is held   *)
(* for one statement, or for the DELETE + INSERT that stands for an        *)
(* UPDATE, but never from the read of a row to the write that is built     *)
(* from it; so a request is a sequence of steps here, one for each time it *)
(* takes the lock.  The two statements of a replacement commit one by one: *)
(* nobody looks in between, but an INSERT that raises (the UNIQUE          *)
(* constraint on username, or anything else) and a process that dies leave *)
(* the row deleted.  A process that has died is started again, which makes *)
(* a superadmin if it finds no account at all.                             *)
(*                                                                         *)
(* Left out: password hashes (they travel with the row as role and name    *)
(* do), expiry of tokens, and the role "admin", which no endpoint modelled *)
(* here tells from "analyst".  Throttling of logins is module Lockout.     *)
(***************************************************************************)
EXTENDS Integers, FiniteSets

CONSTANTS
  Threads,      (* request threads                                         *)
  Ids,          (* user ids (uuid4)                                        *)
  Names,        (* usernames                                               *)
  Admin,        (* "admin", the name ensure_superadmin gives               *)
  MaxRequests,  (* bound: requests explored                                *)
  MaxFaults     (* bound: statements that raise, and deaths of the process *)

(* A row that is not there (NoRow) has the name of nobody.                 *)
ASSUME AccountsAssumption ==
  /\ MaxRequests \in Nat /\ MaxFaults \in Nat
  /\ Admin \in Names /\ "none" \notin Names

VARIABLES
  users,      (* the table: a row, or NoRow, for every id                  *)
  used,       (* ids ever handed out                                       *)
  tokens,     (* the tokens issued                                         *)
  pc, req,    (* where each request is, its arguments and what it has read *)
  requests,   (* number of requests so far                                 *)
  faults,     (* number of faults so far                                   *)
  \* History, read by no action.
  want,       (* the table as if each request had been one step, or none   *)
  raced,      (* ids for which a row was written over one nobody had read  *)
  torn,       (* ids whose DELETE was not followed by the INSERT           *)
  disturbed   (* requests during which another request wrote the table     *)

locals  == <<pc, req, requests>>
history == <<want, raced, torn, disturbed>>
vars    == <<users, used, tokens, locals, faults, history>>

-----------------------------------------------------------------------------

Roles == {"analyst", "superadmin"}
Row   == [name : Names, role : Roles, must : BOOLEAN, epoch : Nat]
NoRow == [name |-> "none", role |-> "none", must |-> FALSE, epoch |-> 0]
Same  == "unchanged"   (* an optional field that a request does not give    *)
Token == [id : Ids, role : Roles, epoch : Nat]
Ops   == {"none", "login", "create", "update", "delete", "logout", "password"}
Request == [op : Ops, id : Ids \cup {"none"}, name : Names \cup {Same},
            role : Roles \cup {Same}, row : Row \cup {NoRow}]
Free  == [op |-> "none", id |-> "none", name |-> Same, role |-> Same, row |-> NoRow]

Exists(id)  == users[id] # NoRow
Superadmins == {id \in Ids : users[id].role = "superadmin"}
Taken(n)    == \E id \in Ids : users[id].name = n

(* require_auth: the user is there and the epochs agree; the role is the   *)
(* token's; a forced password change shuts all but the exempt paths.       *)
Valid(tok)   == Exists(tok.id) /\ users[tok.id].epoch = tok.epoch
Allowed(tok) == Valid(tok) /\ ~ users[tok.id].must

(* Mutated form of Edited: the epoch stays.                                *)
EditedSameEpoch(r, row) ==
  [name |-> IF r.name = Same THEN row.name ELSE r.name,
   role |-> IF r.role = Same THEN row.role ELSE r.role,
   must |-> row.must /\ r.op # "password", epoch |-> row.epoch]

(* The row a request writes back: what it read, with its own fields.       *)
Edited(r, row) ==
  [name  |-> IF r.name = Same THEN row.name ELSE r.name,
   role  |-> IF r.role = Same THEN row.role ELSE r.role,
   must  |-> row.must /\ r.op # "password",
   epoch |-> row.epoch + 1]

-----------------------------------------------------------------------------

(* ensure_superadmin: the row it makes, and the table it leaves, where the *)
(* database was left with the rows of left.                                *)
FirstRow(must) == [name |-> Admin, role |-> "superadmin", must |-> must, epoch |-> 0]

EnsureSuperadmin(left) ==
  \/ /\ \E id \in Ids : left[id] # NoRow
     /\ users' = left /\ UNCHANGED <<used, want>>
  \/ /\ \A id \in Ids : left[id] = NoRow
     /\ \E id \in Ids \ used, must \in BOOLEAN :
          /\ users' = [left EXCEPT ![id] = FirstRow(must)]
          /\ want' = [want EXCEPT ![id] = FirstRow(must)]
          /\ used' = used \cup {id}

(* The first start, on an empty database.                                  *)
Init ==
  \E id \in Ids, must \in BOOLEAN :
    /\ users = [i \in Ids |-> IF i = id THEN FirstRow(must) ELSE NoRow]
    /\ used = {id} /\ tokens = {}
    /\ pc = [t \in Threads |-> "idle"] /\ req = [t \in Threads |-> Free]
    /\ requests = 0 /\ faults = 0
    /\ want = users /\ raced = {} /\ torn = {} /\ disturbed = {}

Goto(t, where) == pc' = [pc EXCEPT ![t] = where] /\ UNCHANGED <<req, requests>>

(* A request ends, with a response or with an exception.                   *)
Return(t) ==
  /\ pc' = [pc EXCEPT ![t] = "idle"] /\ req' = [req EXCEPT ![t] = Free]
  /\ UNCHANGED requests

Begin(t, r, where) ==
  /\ pc[t] = "idle" /\ requests < MaxRequests
  /\ requests' = requests + 1
  /\ pc' = [pc EXCEPT ![t] = where] /\ req' = [req EXCEPT ![t] = r]
  /\ disturbed' = disturbed \ {t}
  /\ UNCHANGED <<users, used, tokens, faults, want, raced, torn>>

(* login reads the row by name; then bcrypt runs.                          *)
Login(t, id) ==
  /\ Exists(id)
  /\ Begin(t, [Free EXCEPT !.op = "login", !.id = id, !.row = users[id]], "issue")

Create(t, n, role) ==
  /\ \E tok \in tokens : Allowed(tok) /\ tok.role = "superadmin"
  /\ Begin(t, [Free EXCEPT !.op = "create", !.name = n, !.role = role], "name")

Update(t, id, n, role) ==
  /\ \E tok \in tokens : Allowed(tok) /\ tok.role = "superadmin"
  /\ Begin(t, [Free EXCEPT !.op = "update", !.id = id, !.name = n, !.role = role], "target")

Delete(t, id) ==
  /\ \E tok \in tokens : Allowed(tok) /\ tok.role = "superadmin"
  /\ Begin(t, [Free EXCEPT !.op = "delete", !.id = id], "target")

(* /auth/logout and /auth/change-password stay open under a forced change. *)
Logout(t, id) ==
  /\ \E tok \in tokens : tok.id = id /\ Valid(tok)
  /\ Begin(t, [Free EXCEPT !.op = "logout", !.id = id], "read")

ChangePassword(t, id) ==
  /\ \E tok \in tokens : tok.id = id /\ Valid(tok)
  /\ Begin(t, [Free EXCEPT !.op = "password", !.id = id], "target")

(* The password is right: a token is made from the row read before.        *)
Issue(t) ==
  /\ pc[t] = "issue"
  /\ tokens' = tokens \cup
       {[id |-> req[t].id, role |-> req[t].row.role, epoch |-> req[t].row.epoch]}
  /\ Return(t)
  /\ UNCHANGED <<users, used, faults, history>>

(* A wrong current password.                                               *)
Refuse(t) ==
  /\ <<pc[t], req[t].op>> \in {<<"issue", "login">>, <<"target", "password">>}
  /\ Return(t)
  /\ UNCHANGED <<users, used, tokens, faults, history>>

(* Mutated: only deletions count as losing a superadmin.                   *)
DemotesByDeletion(r, row) == row.role = "superadmin" /\ r.op = "delete"

Demotes(r, row) ==
  /\ row.role = "superadmin"
  /\ r.op = "delete" \/ r.role \notin {Same, "superadmin"}

(* Where a request goes once its last superadmin check is behind it.       *)
Onward(r, row) ==
  IF r.op = "delete" THEN "exists"
  ELSE IF r.name \notin {Same, row.name} THEN "name" ELSE "read"

(* get_user_by_id, the handler's own read.                                 *)
Target(t) ==
  LET r == req[t]  row == users[r.id] IN
  /\ pc[t] = "target"
  /\ IF row = NoRow THEN Return(t)
     ELSE /\ pc' = [pc EXCEPT ![t] = IF Demotes(r, row) THEN "count" ELSE Onward(r, row)]
          /\ req' = [req EXCEPT ![t].row = row]
          /\ UNCHANGED requests
  /\ UNCHANGED <<users, used, tokens, faults, history>>

(* count_superadmins                                                       *)
Count(t) ==
  /\ pc[t] = "count"
  /\ IF Cardinality(Superadmins) <= 1 THEN Return(t)
                                      ELSE Goto(t, Onward(req[t], req[t].row))
  /\ UNCHANGED <<users, used, tokens, faults, history>>

(* get_user_by_username: 409 if somebody has the name.                     *)
Name(t) ==
  /\ pc[t] = "name"
  /\ IF Taken(req[t].name) THEN Return(t)
     ELSE Goto(t, IF req[t].op = "create" THEN "insert" ELSE "read")
  /\ UNCHANGED <<users, used, tokens, faults, history>>

(* delete_user looks once more.                                            *)
StillThere(t) ==
  /\ pc[t] = "exists"
  /\ IF Exists(req[t].id) THEN Goto(t, "delete") ELSE Return(t)
  /\ UNCHANGED <<users, used, tokens, faults, history>>

(* The SELECT of update_user, bump_token_epoch and change_own_password.    *)
Read(t) ==
  LET row == users[req[t].id] IN
  /\ pc[t] = "read"
  /\ IF row = NoRow THEN Return(t)
     ELSE /\ pc' = [pc EXCEPT ![t] = "replace"]
          /\ req' = [req EXCEPT ![t].row = row]
          /\ UNCHANGED requests
  /\ UNCHANGED <<users, used, tokens, faults, history>>

Disturbs(t) == disturbed' = disturbed \cup (Threads \ {t})

(* INSERT of a new user; a name taken since the check raises.              *)
Insert(t) ==
  LET r == req[t] IN
  /\ pc[t] = "insert"
  /\ \/ Taken(r.name) /\ UNCHANGED <<users, used, history>>
     \/ /\ ~ Taken(r.name)
        /\ \E id \in Ids \ used :
             LET row == [name |-> r.name, role |-> r.role, must |-> FALSE, epoch |-> 0] IN
             /\ users' = [users EXCEPT ![id] = row]
             /\ want' = [want EXCEPT ![id] = row]
             /\ used' = used \cup {id}
        /\ Disturbs(t) /\ UNCHANGED <<raced, torn>>
  /\ Return(t)
  /\ UNCHANGED <<tokens, faults>>

(* Mutated: the INSERT leaves out must_change_password, FALSE by default.  *)
ReplacedByDefault(t) == [Edited(req[t], req[t].row) EXCEPT !.must = FALSE]

(* The row a request inserts where it has deleted one.                     *)
Replaced(t) == Edited(req[t], req[t].row)

(* Somebody else has the name it is inserted with.                         *)
Clashes(t) == \E i \in Ids \ {req[t].id} : users[i].name = Replaced(t).name

(* DELETE + INSERT.  A password change then reads the row once more, for   *)
(* the token it returns.                                                   *)
Replace(t) ==
  LET r == req[t] IN
  /\ pc[t] = "replace" /\ ~ Clashes(t)
  /\ users' = [users EXCEPT ![r.id] = Replaced(t)]
  /\ want' = [want EXCEPT ![r.id] = IF @ = NoRow THEN NoRow ELSE Edited(r, @)]
  /\ raced' = IF users[r.id] = r.row THEN raced ELSE raced \cup {r.id}
  /\ Disturbs(t)
  /\ IF r.op = "password" THEN Goto(t, "reread") ELSE Return(t)
  /\ UNCHANGED <<used, tokens, faults, torn>>

(* The DELETE has committed and the INSERT raises: the request answers     *)
(* 500, and what it should have left alone is gone.  The history excuses   *)
(* it if the name was taken by somebody who wrote during the request, or   *)
(* if the database failed.                                                 *)
Tear(t, excused) ==
  /\ pc[t] = "replace"
  /\ users' = [users EXCEPT ![req[t].id] = NoRow]
  /\ torn' = IF excused THEN torn \cup {req[t].id} ELSE torn
  /\ Disturbs(t)
  /\ Return(t)
  /\ UNCHANGED <<used, tokens, want, raced>>

Clash(t) == Clashes(t) /\ Tear(t, t \in disturbed) /\ UNCHANGED faults

Fault == faults < MaxFaults /\ faults' = faults + 1

InsertFails(t) == Fault /\ Tear(t, TRUE)

(* A statement that raises before anything is written.                     *)
StatementFails(t) ==
  /\ pc[t] \notin {"idle", "issue"} /\ Fault
  /\ Return(t)
  /\ UNCHANGED <<users, used, tokens, history>>

(* The process dies, between two statements of some replacement or not,    *)
(* and is started again; tokens stay good, for their secret is configured. *)
Die ==
  /\ Fault
  /\ \E lost \in {{}} \cup {{req[t].id} : t \in {u \in Threads : pc[u] = "replace"}} :
       /\ EnsureSuperadmin([id \in Ids |-> IF id \in lost THEN NoRow ELSE users[id]])
       /\ torn' = torn \cup lost
  /\ pc' = [t \in Threads |-> "idle"] /\ req' = [t \in Threads |-> Free]
  /\ UNCHANGED <<tokens, requests, raced, disturbed>>

Reread(t) ==
  LET row == users[req[t].id] IN
  /\ pc[t] = "reread"
  /\ IF row = NoRow THEN Return(t)
     ELSE /\ pc' = [pc EXCEPT ![t] = "issue"]
          /\ req' = [req EXCEPT ![t].row = row]
          /\ UNCHANGED requests
  /\ UNCHANGED <<users, used, tokens, faults, history>>

Remove(t) ==
  /\ pc[t] = "delete"
  /\ users' = [users EXCEPT ![req[t].id] = NoRow]
  /\ want' = [want EXCEPT ![req[t].id] = NoRow]
  /\ Disturbs(t)
  /\ Return(t)
  /\ UNCHANGED <<used, tokens, faults, raced, torn>>

Arrive(t) ==
  \/ \E id \in Ids : Login(t, id) \/ Delete(t, id) \/ Logout(t, id) \/ ChangePassword(t, id)
  \/ \E n \in Names, role \in Roles : Create(t, n, role)
  \/ \E id \in Ids, n \in Names \cup {Same}, role \in Roles \cup {Same} : Update(t, id, n, role)

Step(t) ==
  \/ Issue(t) \/ Refuse(t) \/ Target(t) \/ Count(t) \/ Name(t) \/ StillThere(t)
  \/ Read(t) \/ Insert(t) \/ Replace(t) \/ Clash(t) \/ Reread(t) \/ Remove(t)
  \/ InsertFails(t) \/ StatementFails(t)

Next == Die \/ \E t \in Threads : Arrive(t) \/ Step(t)

Spec == Init /\ [][Next]_vars

-----------------------------------------------------------------------------
(* Types of the state; no row under an id that was never handed out.       *)
TypeOK ==
  /\ users \in [Ids -> Row \cup {NoRow}] /\ want \in [Ids -> Row \cup {NoRow}]
  /\ used \subseteq Ids /\ \A id \in Ids : Exists(id) => id \in used
  /\ tokens \subseteq Token
  /\ pc \in [Threads -> {"idle", "target", "count", "name", "exists", "read", "insert",
                         "replace", "reread", "delete", "issue"}]
  /\ req \in [Threads -> Request]
  /\ requests \in 0 .. MaxRequests /\ faults \in 0 .. MaxFaults
  /\ raced \subseteq Ids /\ torn \subseteq Ids /\ disturbed \subseteq Threads

(* An account is what it would be had every request been one step, or none *)
(* where it failed, although a row is read by a SELECT and later replaced  *)
(* by a DELETE and an INSERT (update_user, bump_token_epoch,               *)
(* change_own_password).  Two exceptions.  An account written over by one  *)
(* who had read another row of it keeps only the later write.  And an      *)
(* account is lost, wholly, when a fault comes between DELETE and INSERT,  *)
(* or when the new name, free at the request's check, has been taken by    *)
(* another request before the INSERT; never by a request that nothing and  *)
(* nobody disturbs, whatever was torn or written over before.              *)
UpdatesKept ==
  \A id \in Ids \ raced : users[id] = IF id \in torn THEN NoRow ELSE want[id]

(* A request that was at its replacement has tried it.                     *)
Replaces(t) == pc[t] = "replace" /\ pc'[t] # "replace" /\ faults' = faults

(* A logout, a password change or an update leaves no earlier token valid,  *)
(* but for accounts whose row was once written over unread.                 *)
RevokesUnlessRaced ==
  [][\A t \in Threads : Replaces(t) =>
       \/ req[t].id \in raced'
       \/ \A tok \in tokens : tok.id = req[t].id => ~ Valid(tok)']_vars

(* A token that is accepted carries the role its user has now, although the *)
(* role is read from the token (require_auth) and a login makes it from a   *)
(* row read before the slow password check: a change of role changes the    *)
(* epoch, too.  Again but for accounts written over unread.                 *)
RolesCurrent ==
  \A tok \in tokens :
    (Valid(tok) /\ tok.id \notin raced) => tok.role = users[tok.id].role

Superadmin == Superadmins # {}

(* The last superadmin is not taken away, by a demotion, a deletion or      *)
(* otherwise, but by a request during which another one wrote the table, or *)
(* by a fault between the DELETE and the INSERT of that superadmin's row.   *)
AloneKeepsSuperadmin ==
  [][Superadmin /\ ~ Superadmin' =>
       \/ \E t \in disturbed : pc[t] \in {"replace", "delete"} /\ pc'[t] # pc[t]
       \/ faults' # faults /\ \E id \in Superadmins \cap torn' : ~ Exists(id)']_vars

=============================================================================
