--------------------------- MODULE AuditLedgerMC ---------------------------
(* A CLI session that writes and an MCP session with two clients.          *)
EXTENDS AuditLedger

CONSTANTS cli, mcp, c1, m1, m2

MCSessions == {cli, mcp}
MCCallers == {c1, m1, m2}
MCHome == [c \in MCCallers |-> IF c = c1 THEN cli ELSE mcp]
MCWriters == {c1}
=============================================================================
