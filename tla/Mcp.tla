-------------------------------- MODULE Mcp --------------------------------
(* The registry of MCP servers, agent/mcp.py. Every operation holds its     *)
(* lock to the end, requests to servers included.                           *)

CONSTANT ServerNames

VARIABLE servers

(* A client remembers the tools of its server once it got any.              *)
MCPClient == [name : ServerNames, transport : {"http", "stdio"}, listed : BOOLEAN]

RegisterServer(name, transport) ==
    servers' = IF \E c \in servers : c.name = name THEN servers
               ELSE servers \cup {[name |-> name, transport |-> transport, listed |-> FALSE]}

UnregisterServer(name) == servers' = {c \in servers : c.name # name}

(* An HTTP request has a time limit; the answer of a program has none.      *)
MayHang(name) == \E c \in servers : c.name = name /\ c.transport = "stdio"

MayHangListing == \E c \in servers : c.transport = "stdio" /\ ~c.listed

(* Each server answers with tools, with none, or not at all, and only an    *)
(* answer with tools is kept.                                               *)
ListTools ==
    \E answered \in SUBSET servers :
        servers' = (servers \ answered) \cup {[c EXCEPT !.listed = TRUE] : c \in answered}
=============================================================================
