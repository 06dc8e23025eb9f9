---------------------------- MODULE Suppression ----------------------------
(***************************************************************************)
(* The firing gate of the rule engine: what happens between "a rule's      *)
(* condition holds for this event" and "a line is in the alert log".       *)
(*                                                                         *)
(* app/rules/engine.py::_maybe_fire runs on whatever thread ingests the    *)
(* event (request workers, the event loop, the syslog executor), so        *)
(* several calls for one key overlap.  A call reads the monotonic clock    *)
(* BEFORE it takes _suppression_lock, decides under the lock, and writes   *)
(* the alert AFTER releasing it; the write can fail and is then only       *)
(* logged.  The three steps are separate actions here.                     *)
(*                                                                         *)
(* A key is a pair (rule name, source_ip).  suppress_seconds belongs to    *)
(* the rule and may be edited between two firings, so every firing brings  *)
(* its own value; 0 means "no suppression" and goes round the gate.        *)
(***************************************************************************)
EXTENDS Integers, Sequences, FiniteSets

CONSTANTS
  Threads,     (* the threads that ingest events                           *)
  Keys,        (* (rule name, source_ip) pairs                             *)
  Quiet,       (* values of suppress_seconds that rules carry              *)
  MaxClock,    (* bound: clock ticks explored                              *)
  MaxFirings,  (* bound: firings explored                                  *)
  MaxBoots     (* bound: process starts explored                           *)

ASSUME QuietAssumption == Quiet \subseteq Nat
ASSUME BoundsAssumption ==
  MaxClock \in Nat /\ MaxFirings \in Nat /\ MaxBoots \in Nat

VARIABLES
  clock,    (* time.monotonic()                                            *)
  boot,     (* number of the running process; its tables start empty       *)
  until,    (* _suppression_until: 0.0 for a key that is not in the dict   *)
  pending,  (* _suppressed_counts: 0 for a key that is not in the dict     *)
  pc,       (* where each thread is in _maybe_fire                         *)
  call,     (* its arguments and locals                                    *)
  alerts,   (* the alert lines written                                     *)
  \* History, read by no action.
  firings,  (* every firing, in the order the calls read the clock         *)
  held,     (* per key, the firings suppressed since the gate last opened  *)
  lost,     (* alerts whose write failed or that died with the process     *)
  dropped   (* other firings that died with the process                    *)

memory  == <<until, pending>>
history == <<firings, held, lost, dropped>>
vars    == <<clock, boot, memory, pc, call, alerts, history>>

-----------------------------------------------------------------------------
(* One call.  now: line 78.  suppressed: the count popped on line 84.      *)
(* covers: the firings that count stands for (history).                    *)

Call == [id : Nat, key : Keys, quiet : Nat, now : Nat, boot : Nat,
         suppressed : Nat, covers : SUBSET Nat]

Idle == [id |-> 0, quiet |-> 0, now |-> 0, boot |-> 0,
         suppressed |-> 0, covers |-> {}]

PCs == {"idle", "gate", "write"}

(* The firings an alert line speaks for: its own and those it counts.      *)
Claims(c) == {c.id} \cup c.covers

AtGate  == {t \in Threads : pc[t] = "gate"}
Writing == {t \in Threads : pc[t] = "write"}

(* The three expressions of the locked section: is the call inside its      *)
(* key's window, what count does it take along, how long is its own window. *)
OpenAtDecision(c) == clock >= until[c.key]          \* mutated: a second look at the clock
Open(c) == c.now >= until[c.key]

CountedWithItself(c) == pending[c.key] + 1          \* mutated: off by one
Counted(c) == pending[c.key]

WindowFromDecision(c) == clock + c.quiet            \* mutated: a second look at the clock
WindowEnd(c) == c.now + c.quiet

(* Every call that passed the gate, whatever became of it.                 *)
Passed == alerts \cup lost \cup {call[t] : t \in Writing}

-----------------------------------------------------------------------------

Init ==
  /\ clock = 0 /\ boot = 1
  /\ until = [k \in Keys |-> 0]
  /\ pending = [k \in Keys |-> 0]
  /\ pc = [t \in Threads |-> "idle"]
  /\ call = [t \in Threads |-> Idle]
  /\ alerts = {}
  /\ firings = <<>>
  /\ held = [k \in Keys |-> {}]
  /\ lost = {} /\ dropped = {}

Tick ==
  /\ clock < MaxClock
  /\ clock' = clock + 1
  /\ UNCHANGED <<boot, memory, pc, call, alerts, history>>

(* A rule's condition holds: _maybe_fire is entered.  With suppression off *)
(* the call goes straight to write_alert, else it has read its clock.      *)
Fire(t, k, q) ==
  /\ pc[t] = "idle" /\ Len(firings) < MaxFirings
  /\ firings' = Append(firings, [key |-> k, now |-> clock])
  /\ call' = [call EXCEPT ![t] =
                [id |-> Len(firings) + 1, key |-> k, quiet |-> q, now |-> clock,
                 boot |-> boot, suppressed |-> 0, covers |-> {}]]
  /\ pc' = [pc EXCEPT ![t] = IF q = 0 THEN "write" ELSE "gate"]
  /\ UNCHANGED <<clock, boot, memory, alerts, held, lost, dropped>>

Return(t) ==
  /\ pc' = [pc EXCEPT ![t] = "idle"]
  /\ call' = [call EXCEPT ![t] = Idle]

(* Mutated forms of Suppress: the count is forgotten, the return is.       *)
SuppressSilently(t) ==
  LET c == call[t] IN
  /\ pc[t] = "gate" /\ ~ Open(c)
  /\ Return(t)
  /\ UNCHANGED <<clock, boot, memory, alerts, history>>

(* Under the lock, inside the window: count the firing and return.         *)
Suppress(t) ==
  LET c == call[t] IN
  /\ pc[t] = "gate" /\ ~ Open(c)
  /\ pending' = [pending EXCEPT ![c.key] = @ + 1]
  /\ held' = [held EXCEPT ![c.key] = @ \cup {c.id}]
  /\ Return(t)
  /\ UNCHANGED <<clock, boot, until, alerts, firings, lost, dropped>>

(* Under the lock, outside the window: take the count, open a new window.  *)
Pass(t) ==
  LET c == call[t] IN
  /\ pc[t] = "gate" /\ Open(c)
  /\ call' = [call EXCEPT ![t].suppressed = Counted(c),
                          ![t].covers = held[c.key]]
  /\ pending' = [pending EXCEPT ![c.key] = 0]
  /\ held' = [held EXCEPT ![c.key] = {}]
  /\ until' = [until EXCEPT ![c.key] = WindowEnd(c)]
  /\ pc' = [pc EXCEPT ![t] = "write"]
  /\ UNCHANGED <<clock, boot, alerts, firings, lost, dropped>>

(* write_alert appends the line ...                                        *)
Write(t) ==
  /\ pc[t] = "write"
  /\ alerts' = alerts \cup {call[t]}
  /\ Return(t)
  /\ UNCHANGED <<clock, boot, memory, history>>

(* ... or fails: the error is logged, the window stays open.               *)
WriteFails(t) ==
  /\ pc[t] = "write"
  /\ lost' = lost \cup {call[t]}
  /\ Return(t)
  /\ UNCHANGED <<clock, boot, memory, alerts, firings, held, dropped>>

(* The process dies and starts again: both tables were only in memory.     *)
Crash ==
  /\ boot < MaxBoots
  /\ boot' = boot + 1
  /\ until' = [k \in Keys |-> 0]
  /\ pending' = [k \in Keys |-> 0]
  /\ pc' = [t \in Threads |-> "idle"]
  /\ call' = [t \in Threads |-> Idle]
  /\ lost' = lost \cup {call[t] : t \in Writing}
  /\ dropped' = dropped \cup {call[t].id : t \in AtGate}
                        \cup UNION {held[k] : k \in Keys}
  /\ held' = [k \in Keys |-> {}]
  /\ UNCHANGED <<clock, alerts, firings>>

Step(t) ==
  \/ \E k \in Keys, q \in Quiet : Fire(t, k, q)
  \/ Suppress(t)
  \/ Pass(t)
  \/ Write(t)
  \/ WriteFails(t)

Next == Tick \/ Crash \/ \E t \in Threads : Step(t)

Spec == Init /\ [][Next]_vars

-----------------------------------------------------------------------------
(* Types of the state; a thread inside a call holds a complete call record. *)
TypeOK ==
  /\ clock \in Nat /\ boot \in Nat
  /\ until \in [Keys -> Nat] /\ pending \in [Keys -> Nat]
  /\ pc \in [Threads -> PCs]
  /\ call \in [Threads -> Call \cup {Idle}]
  /\ \A t \in Threads : pc[t] # "idle" => call[t] \in Call
  /\ alerts \subseteq Call /\ lost \subseteq Call
  /\ firings \in Seq([key : Keys, now : Nat])
  /\ held \in [Keys -> SUBSET Nat]
  /\ dropped \subseteq Nat

(* Two alerts of one rule and source IP that went through the gate in one  *)
(* process come from firings at least the first one's suppress_seconds     *)
(* apart, however the calls interleave between reading the clock, deciding *)
(* and writing, and whatever the rule's value was edited to in between     *)
(* (_maybe_fire, lines 78-85).                                             *)
QuietWindows ==
  \A a, b \in alerts :
    (a # b /\ a.key = b.key /\ a.boot = b.boot /\ a.quiet > 0 /\ b.quiet > 0)
      => \/ a.now + a.quiet <= b.now
         \/ b.now + b.quiet <= a.now

(* The suppressed_count of an alert line is exactly the number of firings  *)
(* it stands for, each a firing of the same rule and source IP that came   *)
(* before the alert's own (docs/api-reference.md, suppressed_count): a     *)
(* slow call cannot slip into, or be counted by, a window that it does not *)
(* belong to.                                                              *)
SuppressedCountExact ==
  \A a \in alerts :
    /\ a.suppressed = Cardinality(a.covers)
    /\ \A i \in a.covers : i < a.id /\ firings[i].key = a.key

(* No firing is reported twice: neither by two alert lines, nor by a line  *)
(* and by a count that some later line will carry.                         *)
CountedOnce ==
  /\ \A a, b \in Passed : a # b => Claims(a) \cap Claims(b) = {}
  /\ \A a \in Passed, k \in Keys : Claims(a) \cap held[k] = {}
  /\ \A j, k \in Keys : j # k => held[j] \cap held[k] = {}

(* No firing disappears: it is in a line, in a count still to be reported, *)
(* in a running call, or it went with a failed write or a dead process.    *)
NothingForgotten ==
  \A i \in 1 .. Len(firings) :
    \/ \E a \in Passed : i \in Claims(a)
    \/ \E k \in Keys : i \in held[k]
    \/ \E t \in AtGate : i = call[t].id
    \/ i \in dropped

(* A key is mute only because of a firing of its own in this process, and  *)
(* no longer than that firing's suppress_seconds ask for.                  *)
MutedByOwnFiring ==
  \A k \in Keys : until[k] > 0 =>
    \E a \in Passed : /\ a.key = k /\ a.boot = boot /\ a.quiet > 0
                      /\ until[k] = a.now + a.quiet

=============================================================================
