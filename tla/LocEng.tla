------------------------------- MODULE LocEng -------------------------------
(* The GPS engine of the HAL (loc_eng.cpp) and its adapter: what each        *)
(* message does when the worker thread takes it from the queue.  A step w is *)
(* that of LocApiV02; e is loc_eng_data with its adapter, f what the         *)
(* framework was told.  There is no ULP library: its proxy declines          *)
(* everything, and each call goes on as a message.                           *)
EXTENDS LocApiV02

CONSTANT Conf       \* gps.conf and sap.conf as far as nothing changes them: [inject |->
                    \* AGPS_CONFIG_INJECT, generateNmea |-> the HAL makes the NMEA sentences,
                    \* intermediateFix |-> intermediate positions wanted, walks |-> a sensor
                    \* property is configured, AGPS_CERT_WRITABLE_MASK |-> slots]

\* What is read from gps_conf when a message is made.
Value(w, name) == w.e.gps_conf[name]

SendAll(w, msgs) == [w EXCEPT !.q = @ \o msgs]

(***************************************************************************)
(* Status, and the deletion of aiding data while the engine is off.        *)
(***************************************************************************)
\* Mutant: what waits is forgotten while the engine is on.
update_aiding_data_for_deletion_bug(w) ==
  LET done == IF w.e.engine_status = "engine on" \/ w.e.aiding_data_for_deletion = {} THEN w
              ELSE deleteAidingData(w, w.e.aiding_data_for_deletion)
  IN [done EXCEPT !.e.aiding_data_for_deletion = {}]

update_aiding_data_for_deletion(w) ==
  IF w.e.engine_status = "engine on" \/ w.e.aiding_data_for_deletion = {} THEN w
  ELSE [deleteAidingData(w, w.e.aiding_data_for_deletion)
          EXCEPT !.e.aiding_data_for_deletion = {}]

loc_inform_gps_status(w, status) ==
  [w EXCEPT !.f.engine = IF status \in {"engine on", "engine off"} THEN status ELSE @,
            !.f.session = IF status \in {"session begin", "session end"} THEN status ELSE @]

\* A session that is muted begins with the next sign of one, and is over with the first
\* sign that it has ended, which is told already.
loc_eng_report_status(w, status) ==
  LET begins == status \in {"session begin", "engine on"}
      ends   == status \in {"session end", "engine off"}
      mute   == w.e.mute_session_state
      now    == CASE begins /\ mute = "wait" -> "in session"
                  [] ends /\ mute = "in session" -> "none"
                  [] OTHER -> mute
      heard  == /\ status # "none"
                /\ ~(status = "session end" /\ w.e.mNavigating)
                /\ ~(status = "session begin" /\ ~w.e.mNavigating)
                /\ now # "in session"
      a == IF heard THEN loc_inform_gps_status(w, status) ELSE w
  IN [a EXCEPT !.e.mute_session_state = now,
               !.e.engine_status = IF status \in {"engine on", "engine off"} THEN status ELSE @]

ReportStatus(w, status) ==
  update_aiding_data_for_deletion(loc_eng_report_status(w, status))

\* A second deletion takes the place of one that still waits.
DelAidData(w, f) == update_aiding_data_for_deletion([w EXCEPT !.e.aiding_data_for_deletion = f])

(***************************************************************************)
(* Sessions.                                                               *)
(***************************************************************************)
\* LocApiV02 is told as well, and does nothing about it.
setInSession(w, inSession) ==
  [w EXCEPT !.e.mNavigating = inSession,
            !.e.mFixCriteria.mode = IF inSession THEN @ ELSE "invalid"]

loc_eng_start_handler(w) ==
  LET r == startFix(w, w.e.mFixCriteria) IN
  IF w.e.mNavigating THEN w
  ELSE IF r.res \in {"success", "phone_offline", "internal"} THEN setInSession(r, TRUE)
  ELSE r

loc_eng_stop_handler(w) ==
  IF w.e.mNavigating THEN setInSession(stopFix(w), FALSE) ELSE w

\* Time goes to the modem only when the HAL supports it, as it does requests.
InjectTime(w, time) == IF w.e.mSupportsAgpsRequests THEN setTime(w, time) ELSE w

PositionMode(w, posMode) == setPositionMode([w EXCEPT !.e.mFixCriteria = posMode], posMode)

\* A position of a muted session is dropped.  A single session is over with the first
\* position that is reported, a failure included; at an intermediate one the modem is
\* stopped.  (The framework, which wanted one position, has it, or none will come.)
ReportPosition(w, status) ==
  IF \/ w.e.mute_session_state = "in session"
     \/ status \notin {"failure", "success"} /\ ~Conf.intermediateFix
     \/ w.e.mFixCriteria.recurrence # "single"
  THEN w
  ELSE LET a == IF status = "intermediate" THEN stopFix(w) ELSE w IN
       [setInSession(a, FALSE) EXCEPT
          !.f.wish = IF @ = "single" /\ w.e.mNavigating THEN "none" ELSE @]

ReportSv(w, svs) ==
  IF w.e.mute_session_state = "in session" THEN w ELSE [w EXCEPT !.f.svs = svs]

\* What the framework has of them is the last time of the modem; broken once a later time
\* under the same count was not a later one of the same clock.
ReportGnssMeasurement(w, data) ==
  LET last == w.f.measured
      goes_on == last.clock = data.clock /\ last.time_ns < data.time_ns IN
  IF w.e.mute_session_state = "in session" \/ ~w.e.gnss_measurement_cb \/ data.count = 0 THEN w
  ELSE [w EXCEPT !.f.measured = [count |-> data.count, clock |-> data.clock,
                                 time_ns |-> data.time_ns,
                                 broken |-> last.broken \/ (last.count = data.count /\ ~goes_on)]]

(***************************************************************************)
(* Requests of the modem that the framework answers.                       *)
(***************************************************************************)
RequestTime(w) ==
  IF "on demand time" \in w.e.gps_conf.CAPABILITIES
  THEN [w EXCEPT !.f.asked = @ \cup {"time"}] ELSE w

RequestXtra(w) ==
  IF w.e.xtra_module_data THEN [w EXCEPT !.f.asked = @ \cup {"xtra"}] ELSE w

ReportXtraServer(w, servers) ==
  IF w.e.xtra_module_data THEN [w EXCEPT !.f.servers = servers] ELSE w

\* The user is notified; a request that overrides the user's privacy mutes the next session.
\* (NiSession has the rest; there, a request that finds its session busy changes nothing.)
RequestNi(w, notif) ==
  [w EXCEPT !.f.notified = TRUE,
            !.e.mute_session_state = IF notif.notify_flags = {"privacy override"} THEN "wait"
                                     ELSE @]

(***************************************************************************)
(* Configuration of the modem.                                             *)
(***************************************************************************)
IfInject(w, done) == IF Conf.inject THEN done ELSE w

SetServerIpv4(w, address)    == IfInject(w, setServer(w, address))
SetServerUrl(w, url)         == IfInject(w, setServerUrl(w, url))
AGlonassProtocol(w, protocol) == IfInject(w, setAGLONASSProtocol(w, protocol))
SuplVer(w, version)          == IfInject(w, setSUPLVersion(w, version))
LppConfig(w, profile)        == IfInject(w, setLPPConfig(w, profile))
InstallAGpsCert(w, certs)    == installAGpsCert(w, certs, Conf.AGPS_CERT_WRITABLE_MASK)

\* A modem that can be asked for measurements is of 2016, an older one of 2015.
GnssConstellationConfig(w) ==
  IF gnssConstellationConfig(w)
  THEN [w EXCEPT !.e.gps_conf.CAPABILITIES = @ \cup {"measurements"}, !.e.year_of_hw = 2016]
  ELSE [w EXCEPT !.e.year_of_hw = 2015]

SetCapabilities(w) == [w EXCEPT !.f.capabilities = w.e.gps_conf.CAPABILITIES]
SetSystemInfo(w)   == [w EXCEPT !.f.year_of_hw = w.e.year_of_hw]

\* Posted at the start, and again when the modem is back.
loc_eng_reinit(w) ==
  SendAll(w,
    << <<"GnssConstellationConfig">>, <<"SuplVer", Value(w, "SUPL_VER")>>,
       <<"LppConfig", Value(w, "LPP_PROFILE")>>, <<"SensorControlConfig", "sap">>,
       <<"AGlonassProtocol", Value(w, "A_GLONASS_POS_PROTOCOL_SELECT")>>,
       <<"LPPeProtocol", <<"lppecp", "lppeup">> >> >>
    \o (IF Conf.generateNmea THEN <<>> ELSE << <<"SetNmeaTypes", "all">> >>)
    \o (IF Conf.walks THEN << <<"SensorProperties", "sap">> >> ELSE <<>>)
    \o << <<"SensorPerfControlConfig", "sap">>, <<"EnableData">>,
          <<"SetXtraVersionCheck", "auto">> >>)

EngInit(w) == SendAll(loc_eng_reinit(w), << <<"SetCapabilities">>, <<"SetSystemInfo">> >>)

\* For SUPL the name is passed on with its port; a C2K server is looked up first, and one
\* that is not found is dropped.
loc_eng_set_server(w, type, hostname) ==
  CASE type = "supl" -> sendMsg(w, <<"SetServerUrl", IF hostname = "NONE" THEN "" ELSE hostname>>)
    [] type = "c2k" /\ hostname # "unknown" -> sendMsg(w, <<"SetServerIpv4", hostname>>)
    [] OTHER -> w

loc_eng_agps_reinit(w) ==
  LET a == IF w.e.supl_host = "unset" THEN w ELSE loc_eng_set_server(w, "supl", w.e.supl_host)
  IN IF a.e.c2k_host = "unset" THEN a ELSE loc_eng_set_server(a, "c2k", a.e.c2k_host)

(***************************************************************************)
(* The modem goes down and comes back.                                     *)
(***************************************************************************)
loc_eng_handle_engine_down(w) == loc_eng_report_status(w, "engine off")

\* Mutant: the engine is still in its session when it is to start it again.
loc_eng_handle_engine_up_bug(w) ==
  LET a == loc_eng_reinit(w)
      b == IF a.e.agps_status_cb THEN loc_eng_agps_reinit(a) ELSE a
  IN IF b.e.mNavigating THEN loc_eng_start_handler(b) ELSE b

loc_eng_handle_engine_up(w) ==
  LET a == loc_eng_reinit(w)
      b == IF a.e.agps_status_cb THEN loc_eng_agps_reinit(a) ELSE a
  IN IF b.e.mNavigating THEN loc_eng_start_handler(setInSession(b, FALSE)) ELSE b

\* LocSsrMsg.
Ssr(w) == open(close(w), w.e.mEvtMask)

(***************************************************************************)
(* The worker takes a message.                                             *)
(***************************************************************************)
ProcSession(w, type, arg) ==
  CASE type = "StartFix"       -> loc_eng_start_handler(w)
    [] type = "StopFix"        -> loc_eng_stop_handler(w)
    [] type = "PositionMode"   -> PositionMode(w, arg)
    [] type = "SetTime"        -> InjectTime(w, arg)
    [] type = "InjectLocation" -> injectPosition(w, arg)

ProcXtra(w, type, arg) ==
  CASE type = "RequestXtraServer"   -> requestXtraServer(w)
    [] type = "InjectXtraData"      -> setXtraData(w, arg)
    [] type = "SetXtraVersionCheck" -> setXtraVersionCheck(w, arg)

ProcAgps(w, type, arg) ==
  CASE type = "SetServerIpv4"    -> SetServerIpv4(w, arg)
    [] type = "SetServerUrl"     -> SetServerUrl(w, arg)
    [] type = "AGlonassProtocol" -> AGlonassProtocol(w, arg)
    [] type = "LPPeProtocol"     -> setLPPeProtocol(w, arg[1], arg[2])
    [] type = "SuplVer"          -> SuplVer(w, arg)
    [] type = "SetNmeaTypes"     -> setNMEATypes(w, arg)
    [] type = "LppConfig"        -> LppConfig(w, arg)

ProcSensors(w, type, arg) ==
  CASE type = "SensorControlConfig"     -> setSensorControlConfig(w, arg)
    [] type = "SensorProperties"        -> setSensorProperties(w, arg)
    [] type = "SensorPerfControlConfig" -> setSensorPerfControlConfig(w, arg)

ProcReport(w, type, arg) ==
  CASE type = "ReportPosition"   -> ReportPosition(w, arg)
    [] type = "ReportSv"         -> ReportSv(w, arg)
    [] type = "ReportStatus"     -> ReportStatus(w, arg)
    [] type = "ReportGnssMeasurement" -> ReportGnssMeasurement(w, arg)
    [] type = "RequestNi"        -> RequestNi(w, arg)
    [] type = "RequestXtra"      -> RequestXtra(w)
    [] type = "RequestTime"      -> RequestTime(w)
    [] type = "ReportXtraServer" -> ReportXtraServer(w, arg)

ProcEngine(w, type) ==
  CASE type = "Down" -> loc_eng_handle_engine_down(w)
    [] type = "Up"   -> loc_eng_handle_engine_up(w)
    [] type = "Init" -> EngInit(w)
    [] type = "GnssConstellationConfig" -> GnssConstellationConfig(w)
    [] type = "SetCapabilities" -> SetCapabilities(w)
    [] type = "SetSystemInfo"   -> SetSystemInfo(w)

ProcOf == [
  session |-> {"StartFix", "StopFix", "PositionMode", "SetTime", "InjectLocation"},
  xtra    |-> {"RequestXtraServer", "InjectXtraData", "SetXtraVersionCheck"},
  agps    |-> {"SetServerIpv4", "SetServerUrl", "AGlonassProtocol", "LPPeProtocol", "SuplVer",
               "SetNmeaTypes", "LppConfig"},
  sensors |-> {"SensorControlConfig", "SensorProperties", "SensorPerfControlConfig"},
  report  |-> {"ReportPosition", "ReportSv", "ReportStatus", "ReportGnssMeasurement", "RequestNi",
               "RequestXtra", "RequestTime", "ReportXtraServer"},
  engine  |-> {"Down", "Up", "Init", "GnssConstellationConfig", "SetCapabilities", "SetSystemInfo"}]

Handle(w, msg) ==
  LET type == msg[1]
      arg == msg[2] IN
  CASE type \in ProcOf.session -> ProcSession(w, type, arg)
    [] type \in ProcOf.xtra    -> ProcXtra(w, type, arg)
    [] type \in ProcOf.agps    -> ProcAgps(w, type, arg)
    [] type \in ProcOf.sensors -> ProcSensors(w, type, arg)
    [] type \in ProcOf.report  -> ProcReport(w, type, arg)
    [] type \in ProcOf.engine  -> ProcEngine(w, type)
    [] type = "Open" -> open(w, arg)
    [] type = "Ssr"  -> Ssr(w)
    [] type = "UpdateEngineState" -> MsgUpdateEngineState(w, arg)
    [] type = "GpsLock"           -> setGpsLock(w, arg)
    [] type = "InstallAGpsCert" -> InstallAGpsCert(w, arg)
    [] type = "DelAidData"      -> DelAidData(w, arg)
    [] type = "EnableData"      -> w    \* data calls are not the adapter's to allow
=============================================================================
