----------------------------- MODULE Watchlists -----------------------------
(***************************************************************************)
(* Watchlists: the watchlist_entries table, the matcher's cache of active  *)
(* entries, and the match of an event (app/watchlists/).                   *)
(*                                                                         *)
(* A handler changes entries one critical section at a time and then       *)
(* reloads the cache once: it reads the table under the database lock and  *)
(* swaps the matcher's tables under the matcher's.  The number of entries  *)
(* is capped, by a count taken in a critical section before the insert.    *)
(* List names, severities and notes are left out; an indicator is a value  *)
(* with its type.  The CSV import adds its rows as the bulk request does.  *)
(***************************************************************************)
EXTENDS Requests, Sequences, FiniteSets, SequencesExt

CONSTANTS
  Indicators,   (* values, each with a type                                *)
  TypeOf,       (* indicator -> its type                                   *)
  Batches,      (* what requests add: sequences of indicators              *)
  Cap           (* _MAX_ENTRIES                                            *)

(* The types in the order in which _match looks at them; all others are    *)
(* refused by add_entry.                                                   *)
Kinds == <<"ip", "cidr", "user_agent_substring", "uri_substring">>

ASSUME WatchlistAssumption ==
  /\ DOMAIN TypeOf = Indicators /\ Batches \subseteq Seq(Indicators) /\ Cap \in Nat

VARIABLES
  entries,       (* the watchlist_entries table                            *)
  entriesGiven,  (* ids given out so far: as UUIDs, none twice             *)
  matcher,       (* the matcher's tables: active entries                   *)
  task,          (* what a handler has left to add, and entries it read    *)
  watchSince     (* history: see Catalogue!since                           *)

watchVars == <<entries, entriesGiven, matcher, task, watchSince>>

Entry == [id : Nat, value : Indicators, active : BOOLEAN]
Task(items, bulk, read) == [items |-> items, bulk |-> bulk, read |-> read]
NoTask == Task(<<>>, FALSE, {})
Active(rows) == {e \in rows : e.active}

(* History: after a change that leaves `rows`.                             *)
WatchChanged(a, rows) ==
  watchSince' = [b \in Admins |-> IF b = a THEN {Active(rows)}
                                  ELSE IF watchSince[b] = {} THEN {}
                                  ELSE watchSince[b] \cup {Active(rows)}]

-----------------------------------------------------------------------------

WatchInit ==
  /\ entries = {} /\ entriesGiven = 0 /\ matcher = {}
  /\ task = [a \in Admins |-> NoTask] /\ watchSince = [a \in Admins |-> {}]

(* POST /watchlists (one item), /bulk or /import (several).                *)
AddEntries(a, items, bulk) ==
  /\ Arrive(a, IF items = <<>> THEN "reload" ELSE "count")
  /\ bulk \/ Len(items) = 1
  /\ task' = [task EXCEPT ![a] = Task(items, bulk, {})]
  /\ UNCHANGED <<entries, entriesGiven, matcher, watchSince>>

(* The next item, or after the last the reload.                            *)
AfterItem(a) ==
  /\ Goto(a, IF Len(task[a].items) > 1 THEN "count" ELSE "reload")
  /\ task' = [task EXCEPT ![a].items = Tail(@)]

(* add_entry checks the type and takes the lock to count.                  *)
Admissible(a) ==
  TypeOf[Head(task[a].items)] \in ToSet(Kinds) /\ Cardinality(entries) < Cap

Count(a) ==
  /\ At(a, "count") /\ Admissible(a)
  /\ Goto(a, "insert")
  /\ UNCHANGED watchVars

(* A refused item: the end of a single request, an error of a bulk one.    *)
Refuse(a) ==
  /\ At(a, "count") /\ ~Admissible(a)
  /\ IF task[a].bulk THEN AfterItem(a)
     ELSE Goto(a, "idle") /\ task' = [task EXCEPT ![a] = NoTask]
  /\ UNCHANGED <<entries, entriesGiven, matcher, watchSince>>

Insert(a) ==
  /\ At(a, "insert")
  /\ entriesGiven' = entriesGiven + 1
  /\ entries' = entries \cup {[id |-> entriesGiven', value |-> Head(task[a].items), active |-> TRUE]}
  /\ WatchChanged(a, entries')
  /\ AfterItem(a)
  /\ UNCHANGED matcher

(* PATCH of an entry: it is looked up and updated under one lock.          *)
Toggle(a, e, active) ==
  /\ Arrive(a, "reload")
  /\ entries' = (entries \ {e}) \cup {[e EXCEPT !.active = active]}
  /\ WatchChanged(a, entries')
  /\ UNCHANGED <<entriesGiven, matcher, task>>

Delete(a, e) ==
  /\ Arrive(a, "reload")
  /\ entries' = entries \ {e}
  /\ WatchChanged(a, entries')
  /\ UNCHANGED <<entriesGiven, matcher, task>>

(* reload_cache reads the active entries.                                  *)
ReadEntries(a) ==
  /\ At(a, "reload") /\ Goto(a, "swap")
  /\ task' = [task EXCEPT ![a] = Task(<<>>, FALSE, Active(entries))]
  /\ IF watchSince[a] = {} THEN WatchChanged(a, entries) ELSE UNCHANGED watchSince
  /\ UNCHANGED <<entries, entriesGiven, matcher>>

(* ... and swaps the matcher's tables.  Mutated form: it adds to them.     *)
SwapAdds(a) ==
  /\ At(a, "swap") /\ Goto(a, "idle")
  /\ matcher' = matcher \cup task[a].read
  /\ task' = [task EXCEPT ![a] = NoTask]
  /\ watchSince' = [watchSince EXCEPT ![a] = {}]
  /\ UNCHANGED <<entries, entriesGiven>>
Swap(a) ==
  /\ At(a, "swap") /\ Goto(a, "idle")
  /\ matcher' = task[a].read
  /\ task' = [task EXCEPT ![a] = NoTask]
  /\ watchSince' = [watchSince EXCEPT ![a] = {}]
  /\ UNCHANGED <<entries, entriesGiven>>

(* At startup the cache is made anew.                                      *)
WatchRestart ==
  /\ matcher' = Active(entries) /\ task' = [a \in Admins |-> NoTask]
  /\ watchSince' = [a \in Admins |-> {}]
  /\ UNCHANGED <<entries, entriesGiven>>

WatchStep(a) ==
  \/ \E items \in Batches, bulk \in BOOLEAN : AddEntries(a, items, bulk)
  \/ Count(a) \/ Refuse(a) \/ Insert(a)
  \/ \E e \in entries : Delete(a, e) \/ \E active \in BOOLEAN : Toggle(a, e, active)
  \/ ReadEntries(a) \/ Swap(a)

WatchNext == (\E a \in Admins : WatchStep(a)) \/ (RequestsRestart /\ WatchRestart)

WatchSpec == RequestsInit /\ WatchInit /\ [][WatchNext]_<<requestVars, watchVars>>

-----------------------------------------------------------------------------

(* The entries that an event may be reported for: those it meets, of the   *)
(* first type that has one.  Of several the matcher names one.             *)
Rank(e) == CHOOSE i \in DOMAIN Kinds : Kinds[i] = TypeOf[e.value]
Match(met) ==
  LET hits == {e \in matcher : e.value \in met}
  IN  {e \in hits : \A f \in hits : Rank(e) <= Rank(f)}

-----------------------------------------------------------------------------

(* The matcher is refreshed after every change with the active entries as  *)
(* they were then or later; a bulk request with its last change.           *)
WatchCatalogue ==
  INSTANCE Catalogue WITH Writers <- Admins, Tables <- SUBSET Entry,
                          table <- Active(entries), cached <- matcher,
                          since <- watchSince
WatchlistFresh == WatchCatalogue!Spec

=============================================================================
