------------------------- MODULE MCConntrackListener -------------------------
(* Instances of ConntrackListener for TLC: five networks.                   *)
EXTENDS ConntrackListener

CONSTANTS f1, f2, c1, c2, p1, p2, t1, t2

\* A WAN that comes and goes with two addresses, a station client, a
\* connection of the device, and a driver that refuses tables, their deletion, and rules.
Changing == [clients |-> {c1}, natClients |-> {c1}, pubIps |-> {p1, p2},
             target |-> [f \in {f1, f2} |-> t1], algFlows |-> {}, deviceFlows |-> {f2},
             staTargets |-> {t1}, failing |-> {"table", "untable", "add"}, maxTemp |-> 1,
             mayWanDown |-> TRUE, threadStarts |-> {FALSE}]

\* Two NATed clients with two peers, one of them a station client.
Steady == [clients |-> {c1, c2}, natClients |-> {c1, c2}, pubIps |-> {p1},
           target |-> [f \in {f1, f2} |-> IF f = f1 THEN t1 ELSE t2],
           algFlows |-> {}, deviceFlows |-> {}, staTargets |-> {t2}, failing |-> {},
           maxTemp |-> 2, mayWanDown |-> FALSE, threadStarts |-> {FALSE}]

\* A client that is not NATed, the device and the time stamp thread.
Mixed == [clients |-> {c1, c2}, natClients |-> {c1}, pubIps |-> {p1},
          target |-> [f \in {f1, f2} |-> t1], algFlows |-> {}, deviceFlows |-> {f2},
          staTargets |-> {}, failing |-> {}, maxTemp |-> 1,
          mayWanDown |-> FALSE, threadStarts |-> {FALSE, TRUE}]

\* A connection on an ALG port.
Alg == [Steady EXCEPT !.algFlows = {f2}]

\* A driver that refuses to delete rules.
Refusing == [Changing EXCEPT !.failing = {"del"}, !.pubIps = {p1}]

MCScenes == {Changing, Steady, Mixed, Alg, Refusing}
=============================================================================
