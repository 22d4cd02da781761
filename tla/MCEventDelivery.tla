--------------------------- MODULE MCEventDelivery ---------------------------
EXTENDS EventDelivery, TLC

CONSTANTS p1, p2

Overflow == {"drop_oldest", "drop_newest", "error", "block"}

Lengths(m, n) == [p \in Producer |-> IF p = p1 THEN m ELSE n]

Configurations(logs, stricts, replies, overflows, lengths, bound_on_faults) ==
    [log : logs, strict : stricts, immediate : replies, overflow : overflows, length : {lengths},
     faults : {bound_on_faults}]

\* Without a buffered history, two producers that fill the live buffer under
\* every overflow policy.  With one, a producer that fills a batch, one that
\* also reaches the next, and two whose flushes overlap.
EveryConfig ==
    Configurations({"none"}, {FALSE}, {FALSE}, Overflow, Lengths(4, 2), 1)
    \cup Configurations({"none"}, {FALSE}, {TRUE}, {"drop_oldest", "block"}, Lengths(2, 2), 2)
    \cup Configurations({"memory"}, {FALSE}, BOOLEAN, {"block"}, Lengths(2, 1), 2)
    \cup Configurations({"buffered"}, {FALSE}, BOOLEAN, Overflow, Lengths(2, 0), 1)
    \cup Configurations({"buffered"}, {TRUE}, BOOLEAN, {"error"}, Lengths(2, 0), 1)
    \cup Configurations({"buffered"}, {FALSE}, {FALSE}, {"drop_oldest"}, Lengths(3, 0), 1)
    \cup Configurations({"buffered"}, {FALSE}, {TRUE}, {"block"}, Lengths(1, 1), 1)
=============================================================================
