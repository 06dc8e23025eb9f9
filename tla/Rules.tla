------------------------------- MODULE Rules -------------------------------
(***************************************************************************)
(* Rule files, the list that load_rules makes of them, and the walk of     *)
(* evaluate() over it (app/rules/router.py, app/rules/engine.py).          *)
(*                                                                         *)
(* load_rules names a new, empty list and appends to whatever list is      *)
(* named when it has read a file; it takes no lock.  evaluate walks the    *)
(* list that was named when it began.  Files are written in place: opened, *)
(* which empties them, and then written.  A document is abstracted to what *)
(* its validation and the walk ask of it; backtests, listings and the AI's *)
(* drafts read only and are left out, as are the conditions of rules.      *)
(***************************************************************************)
EXTENDS Exceptions, Sequences, SequencesExt

CONSTANTS
  Builtin,     (* names of the built-in rules, numbers in their order      *)
  Documents,   (* YAML that administrators send                            *)
  Matrix,      (* technique -> its tactics: the MITRE data, if they can be *)
               (* read; a sub-technique stands for its technique           *)
  Workers,     (* threads that ingest events                               *)
  MaxEvents    (* bound: events evaluated                                  *)

(* A file that is not there, and one that was opened and not yet written.  *)
NoFile == [kind |-> "none"]
Blank  == [kind |-> "blank"]

(* A document: its version, whether it is a mapping with all the required  *)
(* keys and a known severity, its MITRE fields ("" when absent), the ids   *)
(* of its playbook steps (0 for none), whether its condition is a mapping. *)
Document(doc) ==
  /\ doc.kind = "rule" /\ doc.version \in Nat /\ {doc.tactic, doc.technique} \subseteq STRING
  /\ {doc.complete, doc.severity, doc.mapping} \subseteq BOOLEAN
  /\ doc.steps \in Seq(Nat)

ASSUME RulesAssumption ==
  /\ Builtin \subseteq RuleNames /\ IsFiniteSet(Builtin) /\ RuleNames \subseteq Nat /\ MaxEvents \in Nat
  /\ \A doc \in Documents : Document(doc)
  /\ \A t \in DOMAIN Matrix : Matrix[t] \subseteq STRING \ {""}

VARIABLES
  files,    (* custom/*.yaml                                               *)
  rules,    (* the list that _rules names                                  *)
  job,      (* what a handler of rule files works on                       *)
  walk,     (* where each ingest thread is                                 *)
  events,   (* events so far                                               *)
  torn      (* history: files whose write failed                           *)

ruleVars == <<files, rules, job, walk, events, torn>>

-----------------------------------------------------------------------------

(* validate_mitre: neither field, or a technique that has the tactic.      *)
ValidMitre(doc) ==
  \/ doc.tactic = "" /\ doc.technique = ""
  \/ doc.technique \in DOMAIN Matrix /\ doc.tactic \in Matrix[doc.technique]

(* _validate_rule_yaml and _validate_playbook.                             *)
Acceptable(doc) ==
  /\ doc.complete /\ doc.severity /\ ValidMitre(doc)
  /\ 0 \notin ToSet(doc.steps) /\ IsInjective(doc.steps)

(* An entry of the list: a file's name, where it lies and what it says.    *)
Rule(name, custom, doc) == [name |-> name, custom |-> custom, doc |-> doc]
BuiltinDoc == [kind |-> "rule", version |-> 0, mapping |-> TRUE]

InOrder(names) ==
  CHOOSE s \in [1 .. Cardinality(names) -> names] :
    \A i, j \in DOMAIN s : i < j => s[i] < s[j]
CustomNames == {n \in RuleNames : files[n] # NoFile}

(* What a load finds that nobody disturbs: built-in rules, then custom     *)
(* ones, also when they have the name of a built-in one.                   *)
Files ==
  LET b == InOrder(Builtin)  c == InOrder(CustomNames)
  IN  [i \in DOMAIN b |-> Rule(b[i], FALSE, BuiltinDoc)]
        \o [i \in DOMAIN c |-> Rule(c[i], TRUE, files[c[i]])]

Job(name, doc) == [name |-> name, doc |-> doc, todo |-> <<>>, custom |-> FALSE, read |-> <<>>]
NoJob == Job(0, NoFile)

(* A walk is along the list that _rules names, or along one that it no     *)
(* longer names and nobody appends to.                                     *)
Along(w) == IF walk[w].named THEN rules ELSE walk[w].list
Resting == [named |-> FALSE, list |-> <<>>, at |-> 0, whole |-> FALSE, base |-> <<>>,
            state |-> "rest"]

RulesInit ==
  /\ files = [n \in RuleNames |-> NoFile]
  /\ rules = Files
  /\ job = [a \in Admins |-> NoJob]
  /\ walk = [w \in Workers |-> Resting] /\ events = 0 /\ torn = {}

-----------------------------------------------------------------------------

(* POST /rules: refused when the custom file exists.                       *)
CreateRule(a, n, doc) ==
  /\ Arrive(a, "open")
  /\ Acceptable(doc) /\ files[n] = NoFile
  /\ job' = [job EXCEPT ![a] = Job(n, doc)]
  /\ UNCHANGED <<files, rules, walk, events, torn>>

(* PUT: only of a custom rule.                                             *)
UpdateRule(a, n, doc) ==
  /\ Arrive(a, "open")
  /\ Acceptable(doc) /\ files[n] # NoFile
  /\ job' = [job EXCEPT ![a] = Job(n, doc)]
  /\ UNCHANGED <<files, rules, walk, events, torn>>

DeleteRule(a, n) ==
  /\ Arrive(a, "unlink")
  /\ files[n] # NoFile
  /\ job' = [job EXCEPT ![a] = Job(n, NoFile)]
  /\ UNCHANGED <<files, rules, walk, events, torn>>

(* write_text opens the file and so empties or makes it ...                *)
OpenFile(a) ==
  /\ At(a, "open") /\ Goto(a, "write")
  /\ files' = [files EXCEPT ![job[a].name] = Blank]
  /\ UNCHANGED <<rules, job, walk, events, torn>>

(* ... and writes it.  What is written to a file that was unlinked in the  *)
(* meantime goes nowhere.  Mutated form: no load follows.                  *)
Lost(a) == job[a].doc = NoFile
WriteFileOnly(a) ==
  /\ At(a, "write") /\ Goto(a, "idle")
  /\ files' = IF Lost(a) THEN files ELSE [files EXCEPT ![job[a].name] = job[a].doc]
  /\ torn' = IF Lost(a) THEN torn ELSE torn \ {job[a].name}
  /\ job' = [job EXCEPT ![a] = NoJob]
  /\ UNCHANGED <<rules, walk, events>>
WriteFile(a) ==
  /\ At(a, "write") /\ Goto(a, "clear")
  /\ files' = IF Lost(a) THEN files ELSE [files EXCEPT ![job[a].name] = job[a].doc]
  /\ torn' = IF Lost(a) THEN torn ELSE torn \ {job[a].name}
  /\ job' = [job EXCEPT ![a] = NoJob]
  /\ UNCHANGED <<rules, walk, events>>

(* The disk is full: the request fails, the rules are not loaded.          *)
WriteFails(a) ==
  /\ At(a, "write") /\ Goto(a, "idle")
  /\ torn' = IF Lost(a) THEN torn ELSE torn \cup {job[a].name}
  /\ job' = [job EXCEPT ![a] = NoJob]
  /\ UNCHANGED <<files, rules, walk, events>>

(* unlink raises when another request has deleted the file.  Who has the   *)
(* file open keeps it, without a name.                                     *)
Unlink(a) ==
  LET n == job[a].name IN
  /\ At(a, "unlink")
  /\ IF files[n] = NoFile THEN Goto(a, "idle") ELSE Goto(a, "clear")
  /\ files' = [files EXCEPT ![n] = NoFile]
  /\ torn' = torn \ {n}
  /\ job' = [b \in Admins |-> IF b = a THEN NoJob
                             ELSE IF At(b, "write") /\ job[b].name = n THEN Job(n, NoFile)
                             ELSE job[b]]
  /\ UNCHANGED <<rules, walk, events>>

-----------------------------------------------------------------------------

(* load_rules names a new list and looks up the built-in files.  Mutated   *)
(* form: it empties the list in place.                                     *)
ClearInPlace(a) ==
  /\ At(a, "clear") /\ Goto(a, "load")
  /\ rules' = <<>>
  /\ job' = [job EXCEPT ![a].todo = InOrder(Builtin)]
  /\ UNCHANGED <<files, walk, events, torn>>
Clear(a) ==
  /\ At(a, "clear") /\ Goto(a, "load")
  /\ rules' = <<>>
  /\ walk' = [w \in Workers |-> [walk[w] EXCEPT !.list = Along(w), !.named = FALSE]]
  /\ job' = [job EXCEPT ![a].todo = InOrder(Builtin)]
  /\ UNCHANGED <<files, events, torn>>

(* A file is opened and read; one that is gone by now is skipped.          *)
ReadFile(a) ==
  /\ At(a, "load") /\ job[a].todo # <<>>
  /\ LET n == Head(job[a].todo)
         skip == job[a].custom /\ files[n] = NoFile
         rule == Rule(n, job[a].custom, IF job[a].custom THEN files[n] ELSE BuiltinDoc)
     IN  /\ job' = [job EXCEPT ![a].todo = Tail(@),
                               ![a].read = IF skip THEN <<>> ELSE <<rule>>]
         /\ Goto(a, IF skip THEN "load" ELSE "append")
  /\ UNCHANGED <<files, rules, walk, events, torn>>

(* What it says is appended to the list that is named now.                 *)
AppendRule(a) ==
  /\ At(a, "append") /\ Goto(a, "load")
  /\ rules' = rules \o job[a].read
  /\ job' = [job EXCEPT ![a].read = <<>>]
  /\ UNCHANGED <<files, walk, events, torn>>

(* After the built-in files the custom ones are looked up.                 *)
GlobCustom(a) ==
  /\ At(a, "load") /\ job[a].todo = <<>> /\ ~job[a].custom
  /\ Goto(a, "load")
  /\ job' = [job EXCEPT ![a].todo = InOrder(CustomNames), ![a].custom = TRUE]
  /\ UNCHANGED <<files, rules, walk, events, torn>>

Loaded(a) ==
  /\ At(a, "load") /\ job[a].todo = <<>> /\ job[a].custom
  /\ Goto(a, "idle")
  /\ job' = [job EXCEPT ![a] = NoJob]
  /\ UNCHANGED <<files, rules, walk, events, torn>>

RulesStep(a) ==
  \/ \E n \in RuleNames, doc \in Documents : CreateRule(a, n, doc) \/ UpdateRule(a, n, doc)
  \/ \E n \in RuleNames : DeleteRule(a, n)
  \/ OpenFile(a) \/ WriteFile(a) \/ WriteFails(a) \/ Unlink(a)
  \/ Clear(a) \/ ReadFile(a) \/ AppendRule(a) \/ GlobCustom(a) \/ Loaded(a)

-----------------------------------------------------------------------------

(* evaluate begins with the list that _rules names.  History: whether no   *)
(* request was in progress, and the list as it was.                        *)
Begin(w) ==
  /\ walk[w].state = "rest" /\ events < MaxEvents
  /\ events' = events + 1
  /\ walk' = [walk EXCEPT ![w] = [named |-> TRUE, list |-> <<>>, at |-> 0, whole |-> Quiet,
                                  base |-> IF Quiet THEN rules ELSE <<>>,
                                  state |-> "walk"]]
  /\ UNCHANGED <<files, rules, job, torn>>

(* The rule it comes to next.  What was read from a blank file is no rule, *)
(* and asking it for its name raises; so does asking a condition that is   *)
(* no mapping for its type, unless the rule is excepted.  Either ends the  *)
(* walk and fails the request.                                             *)
NextRule(w) == Along(w)[walk[w].at + 1]
Raises(rule) ==
  \/ rule.doc = Blank
  \/ ~rule.doc.mapping /\ rule.name \notin exceptions
Walk(w) ==
  /\ walk[w].state = "walk" /\ walk[w].at < Len(Along(w))
  /\ walk' = [walk EXCEPT ![w] = IF Raises(NextRule(w)) THEN Resting ELSE [walk[w] EXCEPT !.at = walk[w].at + 1]]
  /\ UNCHANGED <<files, rules, job, events, torn>>

(* It ends when there is no next rule, at that time.                       *)
End(w) ==
  /\ walk[w].state = "walk" /\ walk[w].at = Len(Along(w))
  /\ walk' = [walk EXCEPT ![w] = [Resting EXCEPT !.state = "check"]]
  /\ UNCHANGED <<files, rules, job, events, torn>>

EvaluateStep(w) == Begin(w) \/ Walk(w) \/ End(w)

RulesRestart ==
  /\ rules' = Files /\ job' = [a \in Admins |-> NoJob]
  /\ walk' = [w \in Workers |-> Resting] /\ torn' = {}
  /\ UNCHANGED <<files, events>>

-----------------------------------------------------------------------------

(* However loads overlap, when all are done every rule file is in the list *)
(* with what it says now (overlapping loads may add others beside it: a    *)
(* rule twice, its older version, or one that has been deleted); unless    *)
(* they overlapped, the list is the files.  A file whose write failed is   *)
(* out of step until the next load.                                        *)
RulesComplete ==
  Quiet /\ torn = {} =>
    /\ ToSet(Files) \subseteq ToSet(rules)
    /\ ~overlap => rules = Files

(* A reload disturbs no evaluation: one that began when none was under way *)
(* walks the list of that time to its end, whatever is loaded meanwhile.   *)
UndisturbedByReload ==
  \A w \in Workers : walk[w].whole => Along(w) = walk[w].base

=============================================================================
