----------------------------- MODULE Catalogue -----------------------------
(***************************************************************************)
(* What a cache beside a table promises, with no word of how it is kept:   *)
(* every change is followed by a refresh of the cache, and the refresh     *)
(* installs the table as it was at some time since that change.            *)
(*                                                                         *)
(* A writer alone therefore leaves the cache equal to the table.  When     *)
(* writers overlap, the cache may end with a table that is older, but with *)
(* none that is older than the change of the writer that refreshed last.   *)
(* The rule exceptions (Exceptions) and the watchlist (Watchlists)         *)
(* implement this.                                                         *)
(***************************************************************************)
CONSTANTS
  Writers,   (* who changes the table                                      *)
  Tables     (* what the table may hold                                    *)

VARIABLES
  table,    (* the table                                                   *)
  cached,   (* what its readers are served with                            *)
  since     (* the tables there were since a writer's change, if it has    *)
            (* yet to refresh; else none                                   *)

vars == <<table, cached, since>>

Init == table \in Tables /\ cached = table /\ since = [w \in Writers |-> {}]

(* A writer changes the table, or finds that there is nothing to change.   *)
Change(w) ==
  /\ table' \in Tables
  /\ since' = [v \in Writers |-> IF v = w THEN {table'}
                                 ELSE IF since[v] = {} THEN {}
                                 ELSE since[v] \cup {table'}]
  /\ UNCHANGED cached

(* The writer refreshes the cache.                                         *)
Refresh(w) ==
  /\ cached' \in since[w]
  /\ since' = [since EXCEPT ![w] = {}]
  /\ UNCHANGED table

(* All writers are gone and the cache is made anew.                        *)
Restart == cached' = table /\ since' = [w \in Writers |-> {}] /\ UNCHANGED table

Next == (\E w \in Writers : Change(w) \/ Refresh(w)) \/ Restart

Spec == Init /\ [][Next]_vars

=============================================================================
