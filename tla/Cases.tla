------------------------------- MODULE Cases -------------------------------
(***************************************************************************)
(* Cases, with their links, system comments and playbook steps:            *)
(* app/cases/router.py over app/cases/store.py.                            *)
(*                                                                         *)
(* A handler takes the database lock several times: to look the case up,   *)
(* to do what it was asked, and once for each system comment it adds.      *)
(* Between these, other handlers run; the case may change or disappear.    *)
(* A system comment is what it tells of: one text for each creation, new   *)
(* status, link and removed link; who did it, times, the old status and    *)
(* the words are left out.  So are the fields of a case that no other      *)
(* field depends on, the bodies of notes (and with them editing one), and  *)
(* the audit log.                                                          *)
(***************************************************************************)
EXTENDS Integers, Sequences, FiniteSets, SequencesExt

CONSTANTS
  Threads,      (* threads that handle requests                            *)
  CaseIds,      (* case ids; a UUID is given out once                      *)
  Items,        (* alerts and events that can be linked                    *)
  Given,        (* alert_ids of a creation: sequences, also the empty one  *)
  Lists,        (* alert_ids or event_ids of a link request                *)
  Notes,        (* comment ids of analysts' comments; given out once       *)
  Steps,        (* playbook steps, as (rule_name, step_id)                 *)
  Resolutions,  (* _VALID_RESOLUTIONS                                      *)
  Unset,        (* no value: None, or a field the body leaves out          *)
  Other,        (* a resolution that is not among them                     *)
  MaxRequests   (* bound: requests explored                                *)

Statuses == {"open", "investigating", "resolved"}

(* A row that is not there yet, and one that was deleted.                  *)
Unused == [status |-> "unused"]
Gone   == [status |-> "gone"]

ASSUME InputsAssumption ==
  /\ Unset \notin CaseIds /\ Gone \notin CaseIds /\ Unset \notin Statuses
  /\ Given \subseteq Seq(Items) /\ Lists \subseteq Seq(Items)
  /\ IsFiniteSet(Threads)
  /\ Unset \notin Resolutions /\ Other \notin Resolutions /\ Unset # Other
ASSUME BoundAssumption == MaxRequests \in Nat

VARIABLES
  cases,     (* the cases table                                            *)
  comments,  (* case_comments of the system: how often each text is there  *)
  notes,     (* case_comments of analysts: the case of each                *)
  links,     (* case_alerts and case_events                                *)
  steps,     (* case_playbook_steps                                        *)
  pc,        (* what each thread does next                                 *)
  call,      (* what it found and has yet to do                            *)
  served,    (* requests so far                                            *)
  \* History, read by no action.
  cut,       (* cases for which a request stopped halfway                  *)
  given,     (* (case, alert) of alert_ids at creation                     *)
  raced      (* cases deleted while a request had found them               *)

vars == <<cases, comments, notes, links, steps, pc, call, served, cut, given, raced>>

-----------------------------------------------------------------------------

CaseRow == [status : Statuses, resolution : Resolutions \cup {Unset, Other}]

(* What system comments tell of.                                           *)
Created     == <<"created", Unset>>
Became(s)   == <<"status", s>>
Linked(i)   == <<"linked", i>>
Unlinked(i) == <<"unlinked", i>>
Texts == {Created} \cup {Became(s) : s \in Statuses}
           \cup {Linked(i) : i \in Items} \cup {Unlinked(i) : i \in Items}
NoTexts == [text \in Texts |-> 0]

Exists(c) == cases[c].status \in Statuses

(* A request: its case as it found it, comments to add, alerts to link,    *)
(* or the comment to delete.                                               *)
Request(c, found, todo, toLink, note) ==
  [case |-> c, found |-> found, todo |-> todo, toLink |-> toLink, note |-> note]
Idle == Request(Unset, Unused, <<>>, <<>>, Unset)
Labels == {"idle", "patch", "link", "unlink", "note", "unnote", "step", "unstep",
           "given", "tell"}

-----------------------------------------------------------------------------

Init ==
  /\ cases = [c \in CaseIds |-> Unused]
  /\ comments = [c \in CaseIds |-> NoTexts]
  /\ notes = [n \in Notes |-> Unset]
  /\ links = {} /\ steps = {}
  /\ pc = [t \in Threads |-> "idle"] /\ call = [t \in Threads |-> Idle]
  /\ served = 0 /\ cut = {} /\ given = {} /\ raced = {}

Arrives == served < MaxRequests /\ served' = served + 1

Goto(t, label) == pc' = [pc EXCEPT ![t] = label]

Return(t) == Goto(t, "idle") /\ call' = [call EXCEPT ![t] = Idle]

(* The comments that t has left to add; with none, it answers.             *)
Tells(t, todo) ==
  IF todo = <<>> THEN Return(t)
  ELSE Goto(t, "tell") /\ call' = [call EXCEPT ![t].todo = todo]

(* POST /cases, up to the case's row.                                      *)
Create(t, c, list) ==
  /\ pc[t] = "idle" /\ Arrives
  /\ cases[c] = Unused
  /\ cases' = [cases EXCEPT ![c] = [status |-> "open", resolution |-> Unset]]
  /\ call' = [call EXCEPT ![t] = Request(c, Unused, <<Created>>, list, Unset)]
  /\ Goto(t, "tell")
  /\ given' = given \cup ({c} \X ToSet(list))
  /\ UNCHANGED <<comments, notes, links, steps, cut, raced>>

(* A request for a case looks it up; without one, it is answered with 404. *)
Find(t, c, label) ==
  /\ pc[t] = "idle" /\ Arrives
  /\ label \in {"patch", "link", "unlink", "note", "step", "unstep"}
  /\ Exists(c)
  /\ call' = [call EXCEPT ![t] = Request(c, cases[c], <<>>, <<>>, Unset)]
  /\ Goto(t, label)
  /\ UNCHANGED <<cases, comments, notes, links, steps, cut, given, raced>>

(* DELETE of a comment looks the comment up, and whose it is.              *)
FindNote(t, n) ==
  /\ pc[t] = "idle" /\ Arrives
  /\ notes[n] \in CaseIds
  /\ call' = [call EXCEPT ![t] = Request(notes[n], Unused, <<>>, <<>>, n)]
  /\ Goto(t, "unnote")
  /\ UNCHANGED <<cases, comments, notes, links, steps, cut, given, raced>>

-----------------------------------------------------------------------------

(* The resolution that patch_case closes the case with: the one it was     *)
(* given or else the one the case had when it was looked up.               *)
Closing(t, resolution) ==
  IF resolution # Unset THEN resolution ELSE call[t].found.resolution

(* The columns that are written: those with a value in the body.           *)
Updated(row, status, resolution) ==
  [status     |-> IF status = Unset THEN row.status ELSE status,
   resolution |-> IF resolution = Unset THEN row.resolution ELSE resolution]

(* Whether a comment follows: the status asked for is not the one found.   *)
(* Mutated form: only closing is announced.                                *)
AnnouncesClosing(t, status) == status = "resolved"
Announces(t, status) == status \notin {Unset, call[t].found.status}

(* PATCH: the row is updated if it is still there; the comment follows     *)
(* either way.                                                             *)
Patch(t, status, resolution) ==
  /\ pc[t] = "patch"
  /\ LET c   == call[t].case
         set == IF status = "resolved" THEN Closing(t, resolution) ELSE resolution
     IN  /\ status = "resolved" => set \in Resolutions
         /\ cases' = IF Exists(c) THEN [cases EXCEPT ![c] = Updated(@, status, set)]
                     ELSE cases
  /\ Tells(t, IF Announces(t, status) THEN <<Became(status)>> ELSE <<>>)
  /\ UNCHANGED <<comments, notes, links, steps, served, cut, given, raced>>

(* 422 for a closing without a valid resolution.                           *)
Refuse(t, resolution) ==
  /\ pc[t] = "patch" /\ Closing(t, resolution) \notin Resolutions
  /\ Return(t)
  /\ UNCHANGED <<cases, comments, notes, links, steps, served, cut, given, raced>>

(* Of a list of items, those not linked to c yet, each once.  Mutated      *)
(* form: the list as it came.                                              *)
All(c, list) == list
New(c, list) == SetToSeq({i \in ToSet(list) : <<c, i>> \notin links})

TellLinked(list) == [k \in DOMAIN list |-> Linked(list[k])]

(* POST of alerts or events to a case.                                     *)
Link(t, list) ==
  /\ pc[t] = "link"
  /\ links' = links \cup ({call[t].case} \X ToSet(list))
  /\ Tells(t, TellLinked(New(call[t].case, list)))
  /\ UNCHANGED <<cases, comments, notes, steps, served, cut, given, raced>>

(* The links of a creation: a comment for each alert in the list.          *)
LinkGiven(t) ==
  /\ pc[t] = "given"
  /\ links' = links \cup ({call[t].case} \X ToSet(call[t].toLink))
  /\ Goto(t, "tell")
  /\ call' = [call EXCEPT ![t] = Request(@.case, @.found, TellLinked(@.toLink), <<>>, @.note)]
  /\ UNCHANGED <<cases, comments, notes, steps, served, cut, given, raced>>

Unlink(t, i) ==
  /\ pc[t] = "unlink"
  /\ links' = links \ {<<call[t].case, i>>}
  /\ Tells(t, IF <<call[t].case, i>> \in links THEN <<Unlinked(i)>> ELSE <<>>)
  /\ UNCHANGED <<cases, comments, notes, steps, served, cut, given, raced>>

AddNote(t, n) ==
  /\ pc[t] = "note" /\ notes[n] = Unset
  /\ notes' = [notes EXCEPT ![n] = call[t].case]
  /\ Return(t)
  /\ UNCHANGED <<cases, comments, links, steps, served, cut, given, raced>>

(* The comment's id is its own: another request may have deleted it.       *)
RemoveNote(t) ==
  /\ pc[t] = "unnote"
  /\ notes' = [notes EXCEPT ![call[t].note] = Gone]
  /\ Return(t)
  /\ UNCHANGED <<cases, comments, links, steps, served, cut, given, raced>>

CompleteStep(t, s) ==
  /\ pc[t] = "step"
  /\ steps' = steps \cup {<<call[t].case, s>>}
  /\ Return(t)
  /\ UNCHANGED <<cases, comments, notes, links, served, cut, given, raced>>

UncompleteStep(t, s) ==
  /\ pc[t] = "unstep"
  /\ steps' = steps \ {<<call[t].case, s>>}
  /\ Return(t)
  /\ UNCHANGED <<cases, comments, notes, links, served, cut, given, raced>>

(* insert_comment for the first comment that is left; a creation links its *)
(* alerts after the first.                                                 *)
Tell(t) ==
  /\ pc[t] = "tell"
  /\ comments' = [comments EXCEPT ![call[t].case][Head(call[t].todo)] = @ + 1]
  /\ IF call[t].toLink = <<>> THEN Tells(t, Tail(call[t].todo))
     ELSE Goto(t, "given") /\ call' = [call EXCEPT ![t].todo = Tail(@)]
  /\ UNCHANGED <<cases, notes, links, steps, served, cut, given, raced>>

(* The links that stay when c is deleted.  Mutated form: all.              *)
KeptAll(c) == links
Kept(c) == {l \in links : l[1] # c}

(* DELETE of a case; the steps completed for it stay.                      *)
DeleteCase(c) ==
  /\ Arrives
  /\ Exists(c)
  /\ cases' = [cases EXCEPT ![c] = Gone]
  /\ comments' = [comments EXCEPT ![c] = NoTexts]
  /\ notes' = [n \in Notes |-> IF notes[n] = c THEN Gone ELSE notes[n]]
  /\ links' = Kept(c)
  /\ raced' = IF \E t \in Threads : call[t].case = c THEN raced \cup {c} ELSE raced
  /\ UNCHANGED <<steps, pc, call, cut, given>>

(* A request stops between two critical sections: the process ends, or the *)
(* first statement of the next one raises.                                 *)
Abort(t) ==
  /\ pc[t] # "idle"
  /\ cut' = IF call[t].todo # <<>> THEN cut \cup {call[t].case} ELSE cut
  /\ Return(t)
  /\ UNCHANGED <<cases, comments, notes, links, steps, served, given, raced>>

(* It stops after some of the statements that link or delete: each commits *)
(* by itself.  Of the links of a deleted case, alerts go before events;    *)
(* which items are alerts is left open.                                    *)
LinkBreaks(t, list) ==
  /\ pc[t] \in {"link", "given"} /\ (pc[t] = "given" => list = call[t].toLink)
  /\ \E k \in 1 .. Len(list) :
       links' = links \cup ({call[t].case} \X ToSet(SubSeq(list, 1, k)))
  /\ cut' = cut \cup {call[t].case}
  /\ Return(t)
  /\ UNCHANGED <<cases, comments, notes, steps, served, given, raced>>

DeleteBreaks(c) ==
  /\ Arrives
  /\ Exists(c)
  /\ comments' = [comments EXCEPT ![c] = NoTexts]
  /\ notes' = [n \in Notes |-> IF notes[n] = c THEN Gone ELSE notes[n]]
  /\ \E alerts \in SUBSET Items : links' = links \ ({c} \X alerts)
  /\ cut' = cut \cup {c}
  /\ UNCHANGED <<cases, steps, pc, call, given, raced>>

Step(t) ==
  \/ \E c \in CaseIds : \E list \in Given : Create(t, c, list)
  \/ \E c \in CaseIds, label \in Labels : Find(t, c, label)
  \/ \E n \in Notes : FindNote(t, n) \/ AddNote(t, n)
  \/ \E r \in Resolutions \cup {Unset, Other} :
       (\E s \in Statuses \cup {Unset} : Patch(t, s, r)) \/ Refuse(t, r)
  \/ \E list \in Lists : Link(t, list)
  \/ \E list \in Lists \cup Given : LinkBreaks(t, list)
  \/ \E i \in Items : Unlink(t, i)
  \/ \E s \in Steps : CompleteStep(t, s) \/ UncompleteStep(t, s)
  \/ RemoveNote(t) \/ LinkGiven(t) \/ Tell(t) \/ Abort(t)

Next ==
  \/ \E t \in Threads : Step(t)
  \/ \E c \in CaseIds : DeleteCase(c) \/ DeleteBreaks(c)

Spec == Init /\ [][Next]_vars

-----------------------------------------------------------------------------

(* How often the timeline of c has the text, or will have: the comments    *)
(* that requests of the threads T have yet to add count, too.              *)
Positions(todo, text) == {k \in DOMAIN todo : todo[k] = text}
Untold(calls, T, c, text) ==
  UNION {{t} \X Positions(calls[t].todo, text) : t \in {u \in T : calls[u].case = c}}
Told(c, text) == comments[c][text] + Cardinality(Untold(call, Threads, c, text))

(* The timeline of c has the text, or a request has yet to add it.         *)
IsTold(c, text) ==
  \/ comments[c][text] > 0
  \/ \E t \in Threads : call[t].case = c /\ text \in ToSet(call[t].todo)

(* The timeline accounts for the links: whatever requests link and unlink  *)
(* one item at a time, its linked and unlinked comments differ by one when *)
(* it is linked and are as many when it is not.  Alerts given at creation  *)
(* may have more linked comments, as create_case adds one for each without *)
(* asking what link_alerts linked.                                         *)
LinksTold ==
  \A c \in CaseIds \ cut, i \in Items : Exists(c) =>
    LET balance == Told(c, Linked(i)) - Told(c, Unlinked(i))
        expected == IF <<c, i>> \in links THEN 1 ELSE 0
    IN  IF <<c, i>> \in given THEN balance >= expected ELSE balance = expected

(* No case is investigated or resolved without a comment that says so,     *)
(* although patch_case decides about the comment from a status it read     *)
(* before the update, which others may have changed since.                 *)
StatusTold ==
  \A c \in CaseIds \ cut :
    Exists(c) => cases[c].status = "open" \/ IsTold(c, Became(cases[c].status))

(* delete_case leaves no link and no comment behind: only a request that   *)
(* had found the case before, or created it, can add some afterwards.      *)
NothingLeftBehind ==
  \A c \in CaseIds \ raced : cases[c] = Gone =>
    /\ \A l \in links : l[1] # c
    /\ \A text \in Texts : comments[c][text] = 0
    /\ \A n \in Notes : notes[n] # c

=============================================================================
