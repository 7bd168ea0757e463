------------------------------ MODULE LocEngine ------------------------------
(* The GPS HAL at work: calls of the framework, which mostly post a message; *)
(* the worker thread, which handles one message after the other; the thread  *)
(* of the QMI library, which posts what the modem reports and hears when it  *)
(* goes away; and the modem, which runs sessions, may refuse a request, and  *)
(* crashes and comes back (external).                                        *)
EXTENDS LocEng

CONSTANTS
  Scenes,       \* what is explored together: [calls |-> calls of the framework, max |-> bound
                \* of them, fresh |-> the HAL is not initialised
                \* yet, modes, recurrences |-> of sessions, fixes |-> kinds of position
                \* reports, measures |-> of measurement reports, asks |-> requests of the
                \* modem and whether it reports satellites, fates |-> requests that the modem
                \* may not simply perform, crashes, faults, reports |-> bounds, able |->
                \* requests the modem knows]
  MaxPosted,    \* more messages than loc_init leads to
  NoFate        \* no request of the step fails

VARIABLES
  eng,      \* loc_eng_data with its adapter
  api,      \* LocApiV02
  queue,    \* messages of the worker
  modem,    \* the modem
  fw,       \* what the framework wants, and was told
  pc,       \* a call of the framework, and the callback of the QMI library, between two steps
  seen      \* the scene, counts of bounded events, requests refused, and what happened so far

vars == <<eng, api, queue, modem, fw, pc, seen>>

Step(fate) ==
  [e |-> eng, p |-> api, q |-> queue, m |-> modem, f |-> fw, x |-> seen, res |-> "success",
   fate |-> fate, dead |-> seen.scene.dead, hit |-> FALSE]

Quiet == Step(NoFate)

\* The adapter is a client of the service as it runs now.
Connected == Alive(Quiet)

Becomes(w) ==
  /\ eng' = w.e /\ api' = w.p /\ queue' = w.q /\ modem' = w.m /\ fw' = w.f /\ seen' = w.x

Odd(w, what) == [w EXCEPT !.x.odd = @ \cup {what}]

(***************************************************************************)
(* Calls of the framework.                                                 *)
(***************************************************************************)
Called(call) ==
  /\ pc.hal = "idle" /\ call \in seen.scene.calls /\ seen.calls < seen.scene.max

Counted(w) == [w EXCEPT !.x.calls = @ + 1]

Call(call, w) ==
  /\ Called(call) /\ eng.adapter
  /\ Becomes(Counted(w)) /\ UNCHANGED pc

AllEvents == {"position", "measurement", "request", "status"}

\* loc_eng_init, then the rest of loc_init; after loc_cleanup the engine is still there.
loc_eng_init(w) ==
  IF w.e.adapter THEN w
  ELSE SendAll([w EXCEPT !.e.adapter = TRUE, !.e.mEvtMask = AllEvents, !.f.callbacks = TRUE],
               << <<"Open", AllEvents>>, <<"Init">> >>)

loc_init_finish(w) ==
  sendMsg([w EXCEPT !.e.mSupportsAgpsRequests = TRUE, !.e.mPowerVote = TRUE, !.f.lock = "none"],
          <<"GpsLock", {}>>)

loc_init ==
  /\ pc.hal = "idle" /\ seen.calls < seen.scene.max
  /\ \/ ~eng.adapter
     \/ "reinit" \in seen.scene.calls /\ ~fw.callbacks
  /\ Becomes(Counted(loc_eng_init(Quiet))) /\ pc' = [pc EXCEPT !.hal = "init"]

loc_init_rest ==
  /\ pc.hal = "init"
  /\ Becomes([loc_init_finish(Quiet) EXCEPT !.f.callbacks = TRUE])
  /\ pc' = [pc EXCEPT !.hal = "idle"]

\* The session a start asks for is stopped, if the engine is in one already.
loc_eng_cleanup(w) == IF w.e.mNavigating THEN sendMsg(w, <<"StopFix">>) ELSE w

loc_cleanup ==
  LET a == sendMsg([Quiet EXCEPT !.e.mPowerVote = FALSE, !.f.callbacks = FALSE, !.f.wish = "none",
                                 !.f.lock = convertGpsLockMask(eng.gps_conf.GPS_LOCK)],
                   <<"GpsLock", eng.gps_conf.GPS_LOCK>>)
      b == loc_eng_cleanup(a)
  IN Call("cleanup", IF ~eng.mNavigating /\ \E i \in DOMAIN queue : queue[i] = <<"StartFix">>
                     THEN Odd(b, "left") ELSE b)

\* The framework starts one session at a time.
loc_start ==
  /\ fw.wish = "none"
  /\ Call("start", sendMsg([Quiet EXCEPT !.f.wish = fw.criteria.recurrence], <<"StartFix">>))
loc_stop  == Call("stop", sendMsg([Quiet EXCEPT !.f.wish = "none"], <<"StopFix">>))

\* Without MSB and MSA every session is standalone.
loc_set_position_mode ==
  \E mode \in seen.scene.modes, recurrence \in seen.scene.recurrences :
    LET params == [mode |-> IF eng.gps_conf.CAPABILITIES \cap {"msb", "msa"} = {}
                            THEN "standalone" ELSE mode,
                   recurrence |-> recurrence] IN
    Call("mode", sendMsg([Quiet EXCEPT !.f.criteria = params,
                                       !.f.wish = IF @ = "none" THEN @ ELSE recurrence],
                         <<"PositionMode", params>>))

loc_delete_aiding_data ==
  \E f \in {{"ephemeris"}, {"position"}} :
    Call("delete", sendMsg([Quiet EXCEPT !.f.deletions = @ \cup f], <<"DelAidData", f>>))

Given(item, value) == [Quiet EXCEPT !.f.given[item] = value]

loc_inject_time     == Call("time", sendMsg(Given("time", 1), <<"SetTime", 1>>))
loc_inject_location ==
  Call("location", IF eng.mSupportsAgpsRequests
                   THEN sendMsg(Given("position", 1), <<"InjectLocation", 1>>) ELSE Quiet)

loc_xtra_init == Call("xtrainit", [Quiet EXCEPT !.e.xtra_module_data = eng.mSupportsAgpsRequests])
loc_xtra_request_server == Call("askxtra", sendMsg(Quiet, <<"RequestXtraServer">>))
loc_xtra_inject_data ==
  Call("xtra", sendMsg([Quiet EXCEPT !.f.given["xtra1"] = "a", !.f.given["xtra2"] = "b"],
                       <<"InjectXtraData", <<"a", "b">> >>))

\* At most as many certificates as slots; an empty one may be among them.
loc_agps_install_certificates ==
  \E certs \in {<<"c1">>, <<"c1", "c2">>, <<"empty", "c1">>} :
    LET slots == Conf.AGPS_CERT_WRITABLE_MASK IN
    Call("cert", IF Cardinality(slots) < Len(certs) THEN Quiet
                 ELSE sendMsg([Quiet EXCEPT !.f.certs = certs], <<"InstallAGpsCert", certs>>))

\* The status callback is set once.
loc_agps_init ==
  Call("agps", IF eng.agps_status_cb THEN Quiet
               ELSE loc_eng_agps_reinit([Quiet EXCEPT !.e.agps_status_cb = TRUE]))

\* The server is kept for the next restart; it goes out at once if the engine is there.
loc_eng_set_server_proxy(w, type, hostname) ==
  LET a == IF type = "supl" THEN [w EXCEPT !.e.supl_host = hostname]
           ELSE [w EXCEPT !.e.c2k_host = hostname]
  IN IF a.e.adapter THEN loc_eng_set_server(a, type, hostname) ELSE a

loc_agps_set_server ==
  /\ Called("server")
  /\ \E type \in {"supl", "c2k"}, hostname \in {"host", "NONE", "unknown"} :
       Becomes(Counted(loc_eng_set_server_proxy(Quiet, type, hostname)))
  /\ UNCHANGED pc

loc_gps_measurement_init ==
  LET mask == eng.mEvtMask \cup {"measurement"} IN
  Call("measure", IF eng.gnss_measurement_cb THEN Quiet
                  ELSE sendMsg([Quiet EXCEPT !.e.mEvtMask = mask, !.e.gnss_measurement_cb = TRUE],
                               <<"Open", mask>>))

loc_gps_measurement_close ==
  LET mask == eng.mEvtMask \ {"measurement"} IN
  Call("measure", sendMsg([Quiet EXCEPT !.e.mEvtMask = mask, !.e.gnss_measurement_cb = FALSE],
                          <<"Open", mask>>))

\* loc_configuration_update: gps_conf is copied, changed and the differences are posted;
\* then all but a few members are written back from the copy.
Updates == {[SUPL_VER |-> "2.0.2", GPS_LOCK |-> {"mo"}], [SUPL_VER |-> "3.0", GPS_LOCK |-> {}]}

Update(w, u) ==
  LET a == [w EXCEPT !.e.gps_conf.SUPL_VER = u.SUPL_VER, !.e.gps_conf.GPS_LOCK = u.GPS_LOCK,
                     !.f.lock = IF w.e.mPowerVote THEN "none" ELSE convertGpsLockMask(u.GPS_LOCK)]
      b == IF u.SUPL_VER = w.e.gps_conf.SUPL_VER THEN a
           ELSE sendMsg(a, <<"SuplVer", u.SUPL_VER>>)
  IN sendMsg(b, <<"GpsLock", IF w.e.mPowerVote THEN {} ELSE u.GPS_LOCK>>)

loc_configuration_update ==
  /\ Called("config") /\ eng.adapter
  /\ \E u \in Updates : Becomes(Counted(Update(Quiet, u)))
  /\ pc' = [pc EXCEPT !.hal = "config", !.copy = eng.gps_conf.CAPABILITIES]

\* The same while the worker, in loc_eng_reinit, has read the version and not yet posted it.
UpdateRacesReinit ==
  /\ Called("config") /\ eng.adapter /\ queue # <<>> /\ queue[1][1] \in {"Init", "Up"}
  /\ \E u \in Updates :
       LET v == Update([Quiet EXCEPT !.q = Tail(@)], u)
           w == Handle([v EXCEPT !.e.gps_conf.SUPL_VER = eng.gps_conf.SUPL_VER], queue[1])
       IN /\ u.SUPL_VER # eng.gps_conf.SUPL_VER
          /\ Becomes(Odd(Counted([w EXCEPT !.e.gps_conf.SUPL_VER = u.SUPL_VER]), "outdated"))
  /\ pc' = [pc EXCEPT !.hal = "config", !.copy = eng.gps_conf.CAPABILITIES]

loc_configuration_update_rest ==
  /\ pc.hal = "config"
  /\ LET a == [Quiet EXCEPT !.e.gps_conf.CAPABILITIES = pc.copy] IN
     Becomes(IF pc.copy = eng.gps_conf.CAPABILITIES THEN a ELSE Odd(a, "rewritten"))
  /\ pc' = [pc EXCEPT !.hal = "idle", !.copy = {}]

Framework ==
  \/ loc_init \/ loc_init_rest \/ loc_cleanup \/ loc_start \/ loc_stop \/ loc_set_position_mode
  \/ loc_delete_aiding_data \/ loc_inject_time \/ loc_inject_location \/ loc_xtra_init
  \/ loc_xtra_inject_data \/ loc_xtra_request_server \/ loc_agps_install_certificates \/ loc_agps_init
  \/ loc_agps_set_server \/ loc_gps_measurement_init \/ loc_gps_measurement_close
  \/ loc_configuration_update \/ UpdateRacesReinit \/ loc_configuration_update_rest

\* What is sent to the modem once, and not again when it is back.
Once == {"DelAidData", "GpsLock", "InstallAGpsCert"}

(***************************************************************************)
(* The worker.  It waits for the service where the adapter is opened, or   *)
(* gives up in the end.                                                    *)
(***************************************************************************)
Opens(msg) ==
  \/ msg[1] = "Ssr"
  \/ msg[1] = "Open" /\ api.clientHandle = InvalidHandle

\* The events after which the code does not keep what the properties promise.
Happened(msg, w) ==
  LET waiting == eng.aiding_data_for_deletion
      notes == [
        \* the engine is on, which the adapter has not heard yet when it stops
        unheard |-> /\ msg[1] = "StopFix" /\ eng.mNavigating
                    /\ \E i \in DOMAIN queue : queue[i] = <<"UpdateEngineState", TRUE>>,
        \* the begin of a session comes when another is not yet started
        withheld |-> msg[1] = "ReportStatus" /\ msg[2] = "session begin" /\ ~eng.mNavigating,
        \* a change of the engine is handled when the modem has crashed; what it is posted
        \* as comes after the message of the crash
        overtaken |-> msg[1] = "UpdateEngineState" /\ ~Connected,
        \* only the end of the engine is reported when the modem crashes, or when the end of
        \* a session comes after the next one is started
        unended |-> /\ fw.session = "session begin"
                    /\ \/ msg[1] = "Down"
                       \/ msg = <<"ReportStatus", "session end">> /\ eng.mNavigating,
        \* the engine was on when the modem crashed, and is for the adapter
        stale |-> msg[1] = "Ssr" /\ api.mEngineOn,
        \* a position found before the framework asked for a single one is taken for it
        mistaken |-> /\ msg[1] = "ReportPosition" /\ msg[2] # "intermediate"
                     /\ eng.mNavigating /\ ~w.e.mNavigating /\ modem.session # "none",
        \* the modem is not told to start, or says no, and the engine takes it for a success
        unstarted |-> /\ msg[1] \in {"StartFix", "PositionMode", "Up"} /\ Connected
                      /\ w.e.mNavigating /\ w.m.session # w.e.mFixCriteria.recurrence,
        \* a session that is muted is to be muted once more
        remuted |-> msg[1] = "RequestNi" /\ w.e.mute_session_state = "wait" /\ eng.mute_session_state = "in session",
        \* the service does not come back while the adapter waits for it
        unopened |-> Opens(msg) /\ w.p.clientHandle = InvalidHandle,
        \* a deletion takes the place of one that still waits
        overwritten |-> msg[1] = "DelAidData" /\ ~(waiting \subseteq msg[2]),
        \* data are to be deleted, or something is given to the modem, while it is away
        lost |-> ~Connected /\ msg[1] # "Ssr"
                 /\ (w.e.aiding_data_for_deletion # waiting \/ msg[1] \in Once)]
  IN {n \in DOMAIN notes : notes[n]}

Fates == IF seen.faults < seen.scene.faults THEN seen.scene.fates \cup {NoFate} ELSE {NoFate}

Worker ==
  /\ queue # <<>>
  /\ Opens(queue[1]) => modem.up \/ seen.faults < seen.scene.faults
  /\ \E fate \in Fates :
     \E w \in {Handle([Step(fate) EXCEPT !.q = Tail(@)], queue[1])} :
        LET lost == Opens(queue[1]) /\ ~modem.up IN
        /\ fate # NoFate => w.hit
        /\ Becomes([w EXCEPT !.x.faults = IF w.hit \/ lost THEN @ + 1 ELSE @,
                             !.x.odd = @ \cup Happened(queue[1], w)])
  /\ UNCHANGED pc

(***************************************************************************)
(* The modem, and the thread of the QMI library.                           *)
(***************************************************************************)
\* An event that the client has registered for goes into the queue.
Emit(w, event, arg) ==
  IF Connected /\ EventMask[event] \in modem.reg THEN eventCb(w, event, arg) ELSE w

Modem(w) == pc.qmi = "idle" /\ modem.up /\ Becomes(w) /\ UNCHANGED pc

EngineOn ==
  /\ modem.session # "none" /\ ~modem.engine
  /\ Modem(Emit([Quiet EXCEPT !.m.engine = TRUE], "engine", "on"))

EngineOff ==
  /\ modem.session = "none" /\ modem.engine
  /\ Modem(Emit([Quiet EXCEPT !.m.engine = FALSE], "engine", "off"))

\* A single session is over with a position, unless it is an intermediate one.
Fix ==
  /\ modem.session # "none" /\ modem.engine /\ seen.reports < seen.scene.reports
  /\ \E fix \in seen.scene.fixes :
       Modem(Emit([Quiet EXCEPT !.x.reports = @ + 1,
                                !.m.session = IF @ = "single" /\ fix # "partial" THEN "none"
                                              ELSE @],
                  "position", fix))

\* Reports that end nothing, and requests to the framework.
Satellites == << [system |-> "galileo", id |-> 305, tracked |-> TRUE, snr |-> 20, data |-> "eph"],
                 [system |-> "none", id |-> 4, tracked |-> TRUE, snr |-> 20, data |-> "eph"],
                 [system |-> "gps", id |-> 7, tracked |-> TRUE, snr |-> 0, data |-> "alm"] >>

Observe ==
  /\ modem.session # "none" /\ modem.engine /\ seen.reports < seen.scene.reports
  /\ "sv" \in seen.scene.asks
  /\ Modem(Emit([Quiet EXCEPT !.x.reports = @ + 1], "sv", Satellites))

\* The clock of the modem goes on, or starts again, which it counts, with the same or
\* another time; its number tells one from the other.
Ticked(clock) ==
  {[clock EXCEPT !.refFCount = @ + 1]}
    \cup {[refFCount |-> n, resets |-> clock.resets + 1, clock |-> clock.clock + 1] : n \in 1 .. 2}

Tracked == << [svid |-> 7, status |-> {"bit edge", "sub bit"}],
              [svid |-> 9, status |-> {"ms", "fine"}] >>

Measure ==
  /\ modem.session # "none" /\ modem.engine /\ seen.reports < seen.scene.reports
  /\ \E time \in Ticked(modem.clock), kind \in seen.scene.measures :
       Modem(Emit([Quiet EXCEPT !.x.reports = @ + 1, !.m.clock = time],
                  "measurement",
                  [system |-> IF kind = "glonass" THEN kind ELSE "gps",
                   measurements |-> IF kind = "none" THEN <<>> ELSE Tracked,
                   timed |-> kind # "untimed", time |-> time]))

\* Requests of the network, with some of what may come with them.
NiRequests ==
  {[kind |-> "supl", emergency |-> FALSE, scheme |-> "utf8", type |-> "override"],
   [kind |-> "umts", emergency |-> FALSE, scheme |-> "unspecified", type |-> "allow"],
   [kind |-> "other", emergency |-> FALSE, scheme |-> "utf8", type |-> "override"]}

Arguments(event) ==
  CASE event = "ni" -> NiRequests
    [] event = "xtra" -> {modem.servers}
    [] OTHER -> {0}

Request ==
  /\ seen.reports < seen.scene.reports /\ Connected
  /\ \E event \in {"xtra", "time", "location", "ni"} \cap seen.scene.asks :
     \E arg \in Arguments(event) :
       Modem(Emit([Quiet EXCEPT !.x.reports = @ + 1], event, arg))

Items == {"constellation", "time", "position", "xtra1", "xtra2", "xtra3", "slp", "pde", "supl",
          "nmea", "lpp", "sensors", "walks", "perf", "glonass", "lppecp", "lppeup",
          "xtracheck", "lock", "mode", "cert"}

Blank == [i \in Items |-> CASE i = "cert" -> [s \in 1 .. CertSlots |-> "none"]
                            [] i = "constellation" -> {}
                            [] OTHER -> "none"]

\* What the modem keeps over a restart is the lock, the servers and the certificates.
Kept == {"lock", "slp", "pde", "cert"}

Crash ==
  /\ seen.crashes < seen.scene.crashes
  /\ pc.qmi = "idle" /\ modem.up
  /\ LET a == [Quiet EXCEPT !.m.up = FALSE, !.m.session = "none", !.m.engine = FALSE, !.m.reg = {},
                            !.m.clock = [refFCount |-> 0, resets |-> 0, clock |-> @.clock + 1],
                            !.m.cfg = [i \in DOMAIN @ |-> IF i \in Kept THEN @[i] ELSE Blank[i]],
                            !.x.crashes = @ + 1] IN
     IF Connected
     THEN Becomes(sendMsg(a, <<"Down">>)) /\ pc' = [pc EXCEPT !.qmi = "down"]
     ELSE Becomes(a) /\ UNCHANGED pc

\* The rest of errorCb.
errorCb ==
  /\ pc.qmi = "down"
  /\ Becomes(SendAll([Quiet EXCEPT !.p.mGnssMeasurementSupported = "unknown"],
                     << <<"Ssr">>, <<"Up">> >>))
  /\ pc' = [pc EXCEPT !.qmi = "idle"]

Return ==
  /\ ~modem.up
  /\ Becomes([Quiet EXCEPT !.m.up = TRUE, !.m.gen = @ + 1])
  /\ UNCHANGED pc

ModemSteps ==
  \/ EngineOn \/ EngineOff \/ Fix \/ Observe \/ Measure \/ Request \/ Crash \/ errorCb \/ Return

(***************************************************************************)
(* The beginning: nothing has been opened, or all of loc_init is done.     *)
(***************************************************************************)
NewEng == [
  adapter |-> FALSE, mNavigating |-> FALSE,
  mFixCriteria |-> [mode |-> "invalid", recurrence |-> "periodic"], mEvtMask |-> {},
  mSupportsAgpsRequests |-> FALSE, mPowerVote |-> FALSE, mute_session_state |-> "none",
  engine_status |-> "none", aiding_data_for_deletion |-> {}, gnss_measurement_cb |-> FALSE,
  gps_conf |-> [SUPL_VER |-> "2.0", LPP_PROFILE |-> "lpp", A_GLONASS_POS_PROTOCOL_SELECT |-> "rrlp",
                GPS_LOCK |-> {"mo", "mt"}, CAPABILITIES |-> {"msb", "on demand time"}],
  year_of_hw |-> 2015, xtra_module_data |-> FALSE, agps_status_cb |-> FALSE,
  supl_host |-> "unset", c2k_host |-> "unset"]

NewApi == [
  clientHandle |-> InvalidHandle, mMask |-> {}, mQmiMask |-> {}, mInSession |-> FALSE,
  mEngineOn |-> FALSE, mGnssMeasurementSupported |-> "unknown", isNewApiSupported |-> TRUE,
  mMeasurementsStarted |-> FALSE, clock |-> [refFCount |-> 0, resets |-> 0, count |-> 0],
  isCheckedAlready |-> FALSE, checked |-> {}, supported |-> {}]

XtraServers == <<"xtra1.gpsonextra.net", "xtra2">>

NewModem(able) == [
  up |-> TRUE, gen |-> 1, able |-> able, reg |-> {}, session |-> "none", engine |-> FALSE,
  cfg |-> Blank,
  deleted |-> {}, servers |-> XtraServers,
  clock |-> [refFCount |-> 0, resets |-> 0, clock |-> 1]]

NewFw == [
  callbacks |-> FALSE, engine |-> "none", session |-> "none", svs |-> <<>>, notified |-> FALSE,
  servers |-> <<>>, measured |-> [count |-> 0, clock |-> 0, time_ns |-> 0, broken |-> FALSE],
  asked |-> {}, capabilities |-> {}, year_of_hw |-> 0, wish |-> "none",
  criteria |-> [mode |-> "invalid", recurrence |-> "periodic"], deletions |-> {},
  given |-> [i \in {"time", "position", "xtra1", "xtra2"} |-> "none"], certs |-> <<>>,
  lock |-> "none"]

NewSeen(scene) == [
  scene |-> scene, calls |-> 0, faults |-> 0, crashes |-> 0, reports |-> 0, refused |-> {},
  odd |-> {}]

Fresh(scene) ==
  [e |-> NewEng, p |-> NewApi, q |-> <<>>, m |-> NewModem(scene.able), f |-> NewFw,
   x |-> NewSeen(scene), res |-> "success", fate |-> NoFate, dead |-> scene.dead, hit |-> FALSE]

\* The worker handles all that has been posted.
Settled(w) ==
  LET After[n \in Nat] ==
        IF n = 0 THEN w
        ELSE LET v == After[n - 1] IN
             IF v.q = <<>> THEN v ELSE Handle([v EXCEPT !.q = Tail(@)], v.q[1])
  IN After[MaxPosted]

Init ==
  \E scene \in Scenes :
  \E w \in {IF scene.fresh THEN Fresh(scene)
            ELSE Settled(loc_init_finish(loc_eng_init(Fresh(scene))))} :
    /\ eng = w.e /\ api = w.p /\ queue = w.q /\ modem = w.m /\ fw = w.f /\ seen = w.x
    /\ pc = [hal |-> "idle", qmi |-> "idle", copy |-> {}]

Next == Framework \/ Worker \/ ModemSteps

Spec == Init /\ [][Next]_vars

(***************************************************************************)
(* Properties.  Where the code does not keep a promise, the event after    *)
(* which it does not is named in Happened, and is an exception here; so is *)
(* a request that the modem has refused.  README tells the stories.        *)
(***************************************************************************)
AtRest == queue = <<>> /\ pc.hal = "idle" /\ pc.qmi = "idle" /\ Connected

Met(notes)    == seen.odd \cap notes # {}
Refused(reqs) == seen.refused \cap reqs # {}

\* When all messages are handled, the modem sends the events the HAL waits for: all of
\* them in a session, and none that wake the processor up when neither a session nor
\* the engine is on, over any order of starts, stops, engine states and restarts.
EventsFollow ==
  AtRest /\ ~Refused({"register"}) =>
    /\ eng.mNavigating => modem.reg = api.mQmiMask
    /\ ~api.mInSession /\ ~modem.engine /\ ~Met({"stale", "unheard"}) =>
         modem.reg = adjustMaskForNoSession(api.mQmiMask)
    /\ eng.mEvtMask \subseteq api.mMask /\ api.mQmiMask = convertMask(api.mMask)

\* The modem is in the session the framework asked for, and in none it did not ask for.
SessionWanted ==
  /\ ~Refused({"mode", "start"}) /\ ~Met({"left", "unopened"}) =>
       (eng.mNavigating <=> fw.wish # "none")
  /\ ~Refused({"stop"}) /\ ~Met({"mistaken", "unstarted"}) =>
       modem.session = IF eng.mNavigating THEN fw.criteria.recurrence ELSE "none"

\* The framework was told what the engine does, unless the session is muted.
StatusTold ==
  \/ eng.mute_session_state = "in session"
  \/ Met({"unheard", "overtaken", "remuted"})
  \/ Refused({"register", "stop"})
  \/ /\ fw.engine = "engine on" <=> modem.engine
     /\ modem.engine /\ modem.session # "none" /\ ~Met({"withheld"}) =>
          fw.session = "session begin"
     /\ ~modem.engine /\ modem.session = "none" /\ ~Met({"unended", "unstarted"}) =>
          fw.session # "session begin"

\* At any time, the measurements with one discontinuity count have later and later times of
\* one clock, over sessions, resets of the clock and restarts of the modem.
ClockTold == ~fw.measured.broken

\* When all messages are handled, framework, HAL and modem agree on the session, also
\* after a restart of the modem in the middle of one (loc_eng_handle_engine_up).
SessionFollows == ClockTold /\ (AtRest => SessionWanted /\ StatusTold)

\* What loc_eng_reinit and loc_eng_agps_reinit send, by the request, and the lock.
Wanted == [
  supl |-> SuplVersion(eng.gps_conf.SUPL_VER), lpp |-> eng.gps_conf.LPP_PROFILE,
  glonass |-> eng.gps_conf.A_GLONASS_POS_PROTOCOL_SELECT,
  sensors |-> "sap", perf |-> "sap", lppecp |-> "lppecp", lppeup |-> "lppeup",
  xtracheck |-> "auto", lock |-> fw.lock,
  slp |-> IF eng.supl_host = "NONE" THEN "" ELSE eng.supl_host, pde |-> eng.c2k_host]

\* Servers are sent from loc_agps_init on; one that is not found is not sent.
Due(i) ==
  CASE i = "slp" -> eng.agps_status_cb /\ eng.supl_host # "unset"
    [] i = "pde" -> eng.agps_status_cb /\ eng.c2k_host \notin {"unset", "unknown"}
    [] OTHER -> TRUE

ConfigurationFollows ==
  \A i \in DOMAIN Wanted :
    \/ ~Due(i) \/ Refused({i}) \/ Met({"unopened"})
    \/ i = "lock" /\ Met({"lost"})
    \/ i = "supl" /\ Met({"outdated"})
    \/ modem.cfg[i] = Wanted[i]

\* What the framework wants deleted is deleted, or waits for the engine to go off.
DeletionsFollow ==
  Refused({"delete", "olddelete"}) \/ Met({"overwritten", "lost"})
    \/ fw.deletions \subseteq modem.deleted \cup eng.aiding_data_for_deletion

\* The certificates are in the slots that may be written, and nothing else is there.
CertificatesFollow ==
  LET cert == modem.cfg["cert"] IN
  fw.certs = <<>> \/ "empty" \in ToSet(fw.certs) \/ Refused({"cert"}) \/ Met({"lost"})
    \/ ToSet(fw.certs) = {cert[s] : s \in Conf.AGPS_CERT_WRITABLE_MASK} \ {"none"}

\* That the modem can report measurements is a capability once it is known.
CapabilityKept ==
  eng.year_of_hw = 2016 /\ ~Met({"rewritten"}) => "measurements" \in eng.gps_conf.CAPABILITIES

\* When all messages are handled, the modem is configured as gps.conf and the framework
\* ask for, whatever was changed while it was being configured or away, and no data that
\* were to be deleted are left.
ModemConfigured ==
  AtRest => ConfigurationFollows /\ DeletionsFollow /\ CertificatesFollow /\ CapabilityKept
=============================================================================
