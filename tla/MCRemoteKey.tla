----------------------------- MODULE MCRemoteKey -----------------------------
(***************************************************************************)
(* Small instances of RemoteKey for TLC: the packets an operator's client  *)
(* would send for one or two elements, with the history it repeats.        *)
(***************************************************************************)
EXTENDS RemoteKey

Down(ts) == [ts_us |-> ts, down |-> TRUE]
Up(ts)   == [ts_us |-> ts, down |-> FALSE]
Pkt(id, rst, es) == [session_id |-> id, reset |-> rst, edges |-> es]

\* A key-down and its key-up, and a restarted client that is still holding
\* its key, with a smaller clock.
TwoSessions == { Pkt(1, FALSE, <<Down(5)>>),
                 Pkt(1, FALSE, <<Down(5), Up(6)>>),
                 Pkt(2, TRUE,  <<Down(2)>>) }

\* A key-down and its key-up, in one packet each and in one packet.
OneElement == { Pkt(1, FALSE, <<Down(5)>>), Pkt(1, FALSE, <<Down(5), Up(6)>>) }

\* An empty keepalive, and a key-down whose key-up is lost.
Keepalive == { Pkt(1, FALSE, <<>>), Pkt(1, FALSE, <<Down(5)>>) }
=============================================================================
