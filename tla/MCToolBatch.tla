---------------------------- MODULE MCToolBatch ----------------------------
\* A resolver, a read-only tool that takes a name, a write, and compact.  The
\* two codes are about the same thing; a result may be filed under either query.
EXTENDS ToolBatch, TLC

CONSTANTS spot, perp, q1, q2

MCSymbol == {spot, perp}
MCBaseOf == (spot :> "btc") @@ (perp :> "btc")

Search     == [tool |-> "search", symbols |-> {}, query |-> q1]
Prices(s)  == [tool |-> "prices", symbols |-> {s}]
WriteFile  == [tool |-> "write_file", symbols |-> {}]
CompactNow == [tool |-> "compact", symbols |-> {}]

MCCall == {Search, Prices(spot), WriteFile, CompactNow}
MCReadOnly == {"search", "prices"}
MCRepeatable == {"write_file"}
=============================================================================
