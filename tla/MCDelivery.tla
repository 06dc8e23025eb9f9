----------------------------- MODULE MCDelivery -----------------------------
EXTENDS Delivery, TLC

(* Line 0 is the header of the CSV file, lines 8 and 9 are the halves of   *)
(* line 3; lines 4 and 5 are those that no decoder takes, at 5 the decoder *)
(* of CSV rows raises.                                                     *)
MCLines == {0, 1, 2, 3, 4, 5, 8, 9}
Decoder(source, type, takes) ==
  [kind |-> "decoder", source |-> source, type |-> type, complete |-> TRUE,
   nested |-> FALSE, takes |-> takes, raises |-> {}]
MCBuiltin == <<Decoder("ufw", "regex", {1, 3, 8, 9})>>
MCCustom ==
  1 :> [Decoder("csv", "csv", {1, 3, 8}) EXCEPT !.raises = {5}]
  @@ 2 :> [Decoder("ufw", "regex", {4}) EXCEPT !.nested = TRUE]
MCDocs == {Decoder("ufw", "regex", {1, 2, 3})}
MCFile == <<1, 4, 5, 3>>
MCPieces == [l \in MCLines |-> IF l = 3 THEN <<8, 9>> ELSE <<l>>]
MCArrivals ==
  LET arrival(by, line, size, allowed) ==
        [by |-> by, line |-> line, size |-> size, allowed |-> allowed, source |-> "ufw"]
  IN  <<arrival("udp", 1, "fits", TRUE), arrival("udp", 8, "long", FALSE),
        arrival("udp", 8, "fits", FALSE),
        arrival("foreign", 8, "long", FALSE), arrival("foreign", 8, "fits", FALSE),
        arrival("own", 2, "fits", TRUE), arrival("own", 3, "fits", TRUE),
        arrival("own", 8, "huge", TRUE), arrival("own", 9, "fits", TRUE)>>
MCBulk == <<1, 4>>
Explore(program, requests, errors, written, files) ==
  [program |-> program, requests |-> requests, faults |-> errors, written |-> written,
   logs |-> files]
MCScenarios ==
  {Explore("none", 3, 0, 0, 0),
   Explore("syslog", 0, 1, 2, 3), Explore("syslog", 0, 3, 1, 2), Explore("syslog", 1, 1, 1, 1),
   Explore("auth", 0, 1, 2, 2), Explore("upload", 0, 3, 0, 0), Explore("upload", 1, 1, 0, 0),
   Explore("socket", 0, 1, 0, 0), Explore("auth", 1, 0, 1, 1), Explore("socket", 1, 0, 0, 0), Explore("beats", 1, 1, 0, 0)}
=============================================================================
