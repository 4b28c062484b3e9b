--------------------------- MODULE MCP9Connection ---------------------------
EXTENDS P9Connection

CONSTANTS t1, t2, t3, c1, c2, r1, r2, r3, h1, h2, h3, h4

OneConn == [t \in {t1, t2, t3} |-> c1]
=============================================================================
