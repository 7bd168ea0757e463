---------------------------- MODULE MCLocEngine -----------------------------
(* LocEngine for TLC: each scene explores a few calls of the framework with *)
(* what the modem may do about them.                                        *)
EXTENDS LocEngine

Requests == Items \cup {"register", "start", "stop", "delete", "olddelete", "messages", "aon",
                        "batching", "breach", "features", "xtraservers"}
MCNoFate == [req |-> "none", result |-> "none"]
Fails(reqs, results) == {[req |-> r, result |-> x] : r \in reqs, x \in results}

\* A scene in which the modem knows and performs every request.
Plain(calls, max) ==
  [calls |-> calls, max |-> max, fresh |-> FALSE, modes |-> {"msb"}, recurrences |-> {"periodic"},
   fixes |-> {}, measures |-> {}, asks |-> {}, reports |-> 0, crashes |-> 0, fates |-> {}, faults |-> 0,
   dead |-> "phone_offline", able |-> Requests]

Crashing == [Plain({"start", "stop"}, 3) EXCEPT !.crashes = 1]
Twice    == [Plain({"start", "stop"}, 2) EXCEPT !.crashes = 2, !.dead = "internal"]
Single   == [Plain({"start", "stop", "mode"}, 3) EXCEPT
               !.recurrences = {"single"}, !.fixes = {"partial", "final", "failed"}, !.reports = 2]
Muted    == [Plain({"start", "stop"}, 2) EXCEPT
               !.asks = {"ni", "sv"}, !.fixes = {"final"}, !.reports = 2]
Refused1 == [Plain({"start", "stop", "mode"}, 3) EXCEPT !.faults = 1,
               !.fates = Fails({"mode"}, {"unacked", "timeout", "badind", "busy"})
                         \cup Fails({"start", "stop", "register"}, {"unacked", "busy"})]
Deleting == [Plain({"start", "stop", "delete"}, 3) EXCEPT !.crashes = 1,
               !.faults = 1, !.fates = Fails({"delete"}, {"internal", "busy"})]
Old      == [Plain({"start", "delete"}, 3) EXCEPT !.able = Requests \ {"delete"},
               !.faults = 1, !.fates = Fails({"olddelete"}, {"badind", "internal"})]
Changing == [Plain({"config", "cleanup", "reinit", "start"}, 3) EXCEPT !.crashes = 1,
               !.faults = 1, !.fates = Fails({"supl"}, {"internal"})]
Starting == [Plain({"config", "server", "agps", "start"}, 3) EXCEPT !.fresh = TRUE, !.crashes = 1]
Giving   == [Plain({"time", "location", "xtrainit", "xtra", "askxtra", "cert"}, 2) EXCEPT !.crashes = 1,
               !.asks = {"xtra", "time", "location"}, !.reports = 1, !.faults = 1,
               !.fates = Fails({"xtra1", "xtraservers", "cert", "time"}, {"badind", "internal"})]
Servers  == [Plain({"server", "agps"}, 3) EXCEPT !.crashes = 1]
Measured == [Plain({"measure", "start"}, 3) EXCEPT !.crashes = 1, !.faults = 1,
               !.measures = {"gps", "glonass", "none"}, !.reports = 1,
               !.fates = Fails({"constellation", "register"}, {"internal"})]
Clocks   == [Plain({"measure", "start"}, 2) EXCEPT !.crashes = 1,
               !.measures = {"gps", "untimed"}, !.reports = 3]
Sessions == [Plain({"measure", "start", "stop"}, 4) EXCEPT !.measures = {"gps"}, !.reports = 2]

MCScenes == {Crashing, Twice, Single, Muted, Refused1, Deleting, Old, Changing, Starting, Giving,
             Servers, Measured, Clocks, Sessions}
MCConf == [inject |-> TRUE, generateNmea |-> FALSE, intermediateFix |-> FALSE, walks |-> TRUE,
           AGPS_CERT_WRITABLE_MASK |-> {1, 3}]
MCXtraServers == <<"", "own2", "">>
=============================================================================
