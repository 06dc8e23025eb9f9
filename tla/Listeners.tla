------------------------------ MODULE Listeners ------------------------------
(***************************************************************************)
(* Lines that come without a client that waits: syslog by UDP and TCP      *)
(* (app/listeners/syslog.py) and Filebeat's bulk requests, whose answer is *)
(* not looked at here.                                                     *)
(*                                                                         *)
(* Each line of a socket is handed to a pool of threads, so that lines of  *)
(* one connection overtake each other.                                     *)
(***************************************************************************)
EXTENDS Ingest

CONSTANTS
  Connections,  (* TCP connections                                         *)
  Arrivals,     (* what comes in by socket: lines in their order           *)
  Bulk,         (* the lines of a bulk request                             *)
  BulkSource

Accepted(arrival) == arrival.size = "fits" /\ arrival.allowed

(* A line: how it comes, whether it is longer than the limit, or than a    *)
(* StreamReader holds (64 KiB; no datagram is), whether its sender is      *)
(* among the networks allowed, and its format's source.                    *)
Ways == {"udp"} \cup Connections
Arrival == [by : Ways, line : Lines, size : {"fits", "long", "huge"}, allowed : BOOLEAN,
            source : Sources]

(* Lines that are accepted are told apart, so that copies can be counted.  *)
ASSUME ListenersAssumption ==
  /\ BulkSource \in Sources /\ Bulk \in Seq(Lines) \ {<<>>} /\ IsInjective(Bulk)
  /\ "udp" \notin Connections /\ Arrivals \in Seq(Arrival)
  /\ \A i \in DOMAIN Arrivals : Arrivals[i].size = "huge" => Arrivals[i].by # "udp"
  /\ \A i, j \in DOMAIN Arrivals :
       Accepted(Arrivals[i]) /\ Accepted(Arrivals[j]) /\ Arrivals[i].line = Arrivals[j].line
         => i = j

VARIABLES
  arrived,         (* number of lines that came in                         *)
  closed,          (* the connections that the listener has closed         *)
  droppedCounts,   (* _dropped_counts                                      *)
  taken            (* history: lines handed to the pool                    *)

listenVars == <<arrived, closed, droppedCounts, taken>>

ListenersInit ==
  /\ arrived = 0 /\ closed = {}
  /\ droppedCounts = [size |-> 0, cidr |-> 0] /\ taken = {}

-----------------------------------------------------------------------------

Arriving == Arrivals[arrived + 1]
Arrives(by) ==
  /\ Runs("socket") /\ arrived < Len(Arrivals) /\ Arriving.by = by
  /\ by \notin closed
  /\ arrived' = arrived + 1

Counted(reason) == droppedCounts' = [droppedCounts EXCEPT ![reason] = @ + 1]

(* A line that is too long is dropped and counted; by TCP before it is     *)
(* asked where it comes from, which closes the connection.                 *)
Close(by) == closed' = closed \cup ({by} \cap Connections)

DropLong(by) ==
  /\ Arrives(by) /\ Arriving.size = "long" /\ Counted("size")
  /\ UNCHANGED <<ingestVars, closed, taken>>

DropForeign(by) ==
  /\ Arrives(by) /\ Arriving.size = "fits" /\ ~Arriving.allowed /\ Counted("cidr")
  /\ Close(by)
  /\ UNCHANGED <<ingestVars, taken>>

(* At a line that the StreamReader cannot hold readline raises: the        *)
(* connection is closed with it and what follows, and nothing is counted.  *)
Overrun(by) ==
  /\ Arrives(by) /\ Arriving.size = "huge" /\ Close(by)
  /\ UNCHANGED <<ingestVars, droppedCounts, taken>>

(* run_in_executor: a thread of the pool takes the line.                   *)
HandOver(by) ==
  /\ Arrives(by) /\ Accepted(Arriving)
  /\ \E k \in Slots \ {0} :
       /\ \A j \in 1 .. k - 1 : ~On(j, "free")
       /\ Submit(k, Call("syslog", Arriving.source, <<Arriving.line>>))
  /\ taken' = taken \cup {Arriving.line}
  /\ UNCHANGED <<closed, droppedCounts>>

(* POST /ingest/beats; a document that is no JSON is an error of its own   *)
(* and left out.                                                           *)
SendBulk ==
  /\ Runs("beats") /\ taken = {}
  /\ Submit(1, Call("beats", BulkSource, Bulk))
  /\ taken' = ToSet(Bulk)
  /\ UNCHANGED <<arrived, closed, droppedCounts>>

Listen ==
  \/ SendBulk
  \/ \E by \in Ways : DropLong(by) \/ DropForeign(by) \/ Overrun(by) \/ HandOver(by)

ListenersRestart ==
  /\ droppedCounts' = [size |-> 0, cidr |-> 0]
  /\ UNCHANGED <<arrived, closed, taken>>

-----------------------------------------------------------------------------

(* A line that was taken is stored once, whether a decoder takes it or     *)
(* not, unless its insertion raised or a restart ended it.                 *)
TakenAreStored ==
  (\A k \in Slots : On(k, "free")) =>
    \A l \in taken : l \notin broken =>
      Cardinality({i \in DOMAIN stored : stored[i] = l}) = 1

=============================================================================
