------------------------------- MODULE MCDesk -------------------------------
EXTENDS Desk, TLC

MCBaselineSources == <<"nginx", "ufw">>
CONSTANTS a1, a2, a3   (* the threads; a3 is the one of the MCP tool *)
Symm == Permutations({a1, a2})
=============================================================================
