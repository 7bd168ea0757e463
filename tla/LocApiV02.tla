------------------------------ MODULE LocApiV02 ------------------------------
(* LocApiV02, the adapter of the GPS HAL to the QMI location service of the  *)
(* modem, and the client library below it.  A step w carries the members of  *)
(* the adapter (p), the queue of the HAL's worker thread (q), the modem as   *)
(* the requests show it (m, external), the result of the last request (res), *)
(* and which request of this step the modem does not simply perform (fate;   *)
(* hit once that was met).                                                   *)
(* Events are sets of groups: "position" stands for the position, satellite  *)
(* and NMEA reports, "engine" for the engine state ("status" in the masks    *)
(* of the HAL), "measurement", and "request" for what the modem asks for.    *)
EXTENDS Integers, Sequences, SequencesExt, FiniteSets

CONSTANTS CertSlots,    \* AGPS_CERTIFICATE_MAX_SLOTS
          XTRA_SERVER   \* the servers of gps.conf, "" where there is none

InvalidHandle == 0

sendMsg(w, msg) == [w EXCEPT !.q = Append(@, msg)]

(***************************************************************************)
(* The client.  A handle is the instance of the service that it was opened *)
(* at: after a crash the modem offers a new one.  Of its tables, what the  *)
(* adapter uses; a request stands for all that set one thing.              *)
(***************************************************************************)
\* The group of events in which the service is to send an event.
EventMask == [position |-> "position", sv |-> "position", engine |-> "engine",
              measurement |-> "measurement", ni |-> "request", time |-> "request",
              xtra |-> "request", location |-> "request"]

\* Requests whose content the client knows, and those whose answer it does.
SessionRequests == {"register", "start", "stop", "mode", "time", "position", "xtra1", "xtra2",
                    "xtra3", "lock", "nmea", "slp", "pde", "olddelete"}
AgpsRequests    == {"supl", "lpp", "glonass", "lppecp", "lppeup", "sensors", "walks", "perf", "cert"}
LaterRequests   == {"xtracheck", "constellation", "aon"}
validateRequest(req) ==
  req \in SessionRequests \cup AgpsRequests \cup LaterRequests
            \cup {"features", "delete", "messages", "xtraservers"}

SessionAnswers == {"mode", "time", "position", "xtra1", "xtra2", "xtra3", "xtraservers", "lock",
                   "nmea", "slp", "pde", "olddelete"}
AgpsAnswers    == {"supl", "lpp", "glonass", "lppecp", "lppeup", "sensors", "walks", "perf", "cert",
                   "xtracheck"}
LaterAnswers   == {"constellation", "aon", "features", "delete"}
Answered(req)  == req \in SessionAnswers \cup AgpsAnswers \cup LaterAnswers

\* Their answer is the acknowledgement.
Unanswered == {"register", "start", "stop", "messages"}

Alive(w) == w.m.up /\ w.p.clientHandle = w.m.gen

\* What becomes of a request.  "timeout": performed, the indication comes too late;
\* "unacked": performed, and not acknowledged in time, which is an internal failure;
\* "badind": acknowledged, and the indication says that it failed.
Fate(w, req) ==
  CASE w.p.clientHandle = InvalidHandle -> "invalid_handle"
    [] w.p.clientHandle # InvalidHandle /\ ~validateRequest(req) -> "invalid_parameter"
    [] validateRequest(req) /\ w.p.clientHandle # InvalidHandle /\ ~Alive(w) -> w.dead
    [] validateRequest(req) /\ Alive(w) /\ req \notin w.m.able -> "unsupported"
    [] OTHER -> IF w.fate.req = req THEN w.fate.result
                ELSE IF req \in Unanswered \/ Answered(req) THEN "success" ELSE "timeout"

Performed(fate) == fate \in {"success", "timeout", "unacked"}

\* locClientSendReq, and loc_sync_send_req when an indication follows; arg becomes what
\* the modem has for the request, if it is one that it keeps.
Sent(w, req, arg, fate) ==
  LET done == Performed(fate) IN
  [w EXCEPT !.res = IF fate = "unacked" THEN "internal" ELSE fate,
            !.m.cfg = IF done /\ req \in DOMAIN @ THEN [@ EXCEPT ![req] = arg] ELSE @,
            !.m.session = CASE done /\ req = "start" -> arg
                            [] done /\ req = "stop" -> "none"
                            [] OTHER -> @,
            !.m.reg = IF done /\ req = "register" THEN arg ELSE @,
            !.x.refused = IF Alive(w) /\ ~done /\ req \in w.m.able THEN @ \cup {req} ELSE @,
            !.hit = \/ @
                    \/ Alive(w) /\ w.fate.req = req]

Send(w, req, arg) == Sent(w, req, arg, Fate(w, req))

locClientRegisterEventMask(w, mask) == Send(w, "register", mask)

\* The indication's status is not part of the result.
convertErr(res) == IF res = "badind" THEN "success" ELSE res

(***************************************************************************)
(* Events wanted from the modem.                                           *)
(***************************************************************************)
convertMask(mask) ==
  (mask \cap {"position", "measurement", "request"})
    \cup {"engine" : e \in mask \cap {"status"}}

adjustMaskForNoSession(qmiMask) == qmiMask \ {"position", "engine", "measurement"}

registerEventMask(w, qmiMask) ==
  locClientRegisterEventMask(w, IF w.p.mInSession THEN qmiMask
                                ELSE adjustMaskForNoSession(qmiMask))

setSvMeasurementConstellation(w, constellations) == Send(w, "constellation", constellations)

\* The probe asks for reports of GPS only.
cacheGnssMeasurementSupport(w) ==
  IF w.p.mGnssMeasurementSupported # "unknown" \/ "position" \notin w.p.mQmiMask THEN w
  ELSE LET r == Send(w, "constellation", {"gps"}) IN
       [r EXCEPT !.p.mGnssMeasurementSupported = IF r.res = "success" THEN "yes" ELSE "no"]

gnssConstellationConfig(w) == w.p.mGnssMeasurementSupported = "yes"

locClientClose(w) == [w EXCEPT !.p.clientHandle = InvalidHandle]

\* The client waits for the service; here, not for ever.
locClientQmiCtrlPointInit(w) ==
  IF w.m.up THEN [w EXCEPT !.p.clientHandle = w.m.gen, !.res = "success"]
  ELSE [w EXCEPT !.res = "internal"]

\* One of the tries of locClientOpen; the last one, when it fails.
OrClose(r) == IF r.res = "success" THEN r ELSE [locClientClose(r) EXCEPT !.res = "internal"]
Register(i, mask) ==
  IF i.res = "success" THEN OrClose(locClientRegisterEventMask(i, mask)) ELSE i
locClientOpenInstance(w, mask) == Register(locClientQmiCtrlPointInit(w), mask)

\* Which of the messages that the adapter asks for the service knows; what was heard once
\* holds for as long as the process runs.
Messages == {"batching", "breach", "tracking"}
checkQmiMsgsSupported(w) == Messages \cap w.m.able

Heard(r, messages) ==
  [r EXCEPT !.p.isCheckedAlready = r.res = "success",
            !.p.checked = IF r.res = "success" THEN messages ELSE {}]
locClientSupportMsgCheck(w) ==
  IF w.p.isCheckedAlready THEN w ELSE Heard(Send(w, "messages", 0), checkQmiMsgsSupported(w))

\* Every kind of batching counts as supported if the modem says of any whether it is: the
\* mask of each is added to the answer, not looked for in it.
Batching(r) ==
  IF r.res = "success"
  THEN [r EXCEPT !.p.supported = @ \cup {"adaptive batching", "distance batching", "update"}]
  ELSE r
QueryAonConfig(w) ==
  IF "batching" \in w.p.supported THEN Batching(Send(w, "aon", 0)) ELSE w

\* What the adapter learns of a service that it has just opened; none of it decides
\* whether it is open.
SupportedMsgs(w) == QueryAonConfig([w EXCEPT !.p.supported = w.p.checked])
Learn(w) == Send(SupportedMsgs(locClientSupportMsgCheck(w)), "features", 0)

\* The reduced mask is registered; without a service the masks are cleared.
Opened(o, newMask, qmiMask) ==
  IF o.res = "success"
  THEN [Learn([o EXCEPT !.p.mMask = newMask, !.p.mQmiMask = qmiMask]) EXCEPT !.res = "success"]
  ELSE [o EXCEPT !.p.mMask = {}, !.p.mQmiMask = {}, !.res = "failure"]
Connect(w, newMask, qmiMask) ==
  Opened(locClientOpenInstance(w, adjustMaskForNoSession(qmiMask)), newMask, qmiMask)

open(w, mask) ==
  LET newMask == w.p.mMask \cup mask
      qmiMask == convertMask(newMask)
      r  == registerEventMask(w, qmiMask)
      o  == IF w.p.clientHandle = InvalidHandle THEN Connect(w, newMask, qmiMask)
            ELSE IF newMask = w.p.mMask THEN [w EXCEPT !.res = "success"]
            ELSE IF r.res # "success" THEN [r EXCEPT !.res = "failure"]
            ELSE [r EXCEPT !.p.mMask = newMask, !.p.mQmiMask = qmiMask]
      c  == IF "measurement" \in qmiMask
            THEN setSvMeasurementConstellation(o, {"gps", "glonass"}) ELSE o
  IN IF o.res = "success" THEN cacheGnssMeasurementSupport(c) ELSE c

close(w) == [locClientClose(w) EXCEPT !.p.mMask = {}]

(***************************************************************************)
(* Sessions.                                                               *)
(***************************************************************************)
\* An indication that comes too late does not keep the session from being started; one
\* that says no does, and counts as success.
startFix(w, fixCriteria) ==
  LET a == registerEventMask([w EXCEPT !.p.mInSession = TRUE, !.p.mMeasurementsStarted = TRUE],
                             w.p.mQmiMask)
      b == Send(a, "mode", IF fixCriteria.mode \in {"msb", "msa"} THEN fixCriteria.mode
                           ELSE "standalone")
  IN IF b.res \in {"success", "timeout"} THEN Send(b, "start", fixCriteria.recurrence)
     ELSE [b EXCEPT !.res = convertErr(b.res)]

stopFix(w) ==
  LET a == [Send(w, "stop", 0) EXCEPT !.p.mInSession = FALSE]
      b == IF a.p.mEngineOn THEN a ELSE registerEventMask(a, a.p.mQmiMask)
  IN [b EXCEPT !.res = a.res]

\* Only while a session is on; it starts the session again.
setPositionMode(w, posMode) ==
  IF w.e.mNavigating THEN startFix(w, posMode) ELSE [w EXCEPT !.res = "success"]

(***************************************************************************)
(* Data for the modem.                                                     *)
(***************************************************************************)
Inject(w, req, arg) == LET r == Send(w, req, arg) IN [r EXCEPT !.res = convertErr(r.res)]

setTime(w, time)           == Inject(w, "time", time)
injectPosition(w, position) == Inject(w, "position", position)

\* Deletions: the service request, unless it was once found unsupported; the request of
\* the old interface if it is.
DeleteServiceData(w, f) ==
  IF w.p.isNewApiSupported
  THEN LET r == Send(w, "delete", f) IN
       [r EXCEPT !.m.deleted = IF Performed(Fate(w, "delete")) THEN @ \cup f ELSE @]
  ELSE [w EXCEPT !.res = "unsupported"]

DeleteAssistData(w, f) ==
  LET r == Send(w, "olddelete", f) IN
  [r EXCEPT !.p.isNewApiSupported = FALSE,
            !.m.deleted = IF Performed(Fate(w, "olddelete")) THEN @ \cup f ELSE @]

deleteAidingData(w, f) ==
  LET r == DeleteServiceData(w, f)
      s == IF r.res \in {"unsupported", "internal"} THEN DeleteAssistData(r, f) ELSE r
  IN [s EXCEPT !.res = convertErr(s.res)]

\* Part n of the data goes out with the data that follow what was injected so far: after
\* a part that failed the numbers and the data no longer agree.
XtraPart == <<"xtra1", "xtra2", "xtra3">>

setXtraData(w, data) ==
  LET Part[n \in 0 .. Len(data)] ==
        IF n = 0 THEN [w |-> w, injected |-> 0]
        ELSE LET before == Part[n - 1]
                 r == Send(before.w, XtraPart[n], data[before.injected + 1])
             IN [w |-> r, injected |-> before.injected + (IF r.res = "success" THEN 1 ELSE 0)]
      all == Part[Len(data)].w
  IN [all EXCEPT !.res = convertErr(@)]

\* A certificate for each writable slot in turn.  An empty one does not use up its place
\* in the list; a slot for which there is none left is filled with a dummy and emptied.
installAGpsCert(w, certs, slotBitMask) ==
  LET Slot[s \in 0 .. CertSlots] ==
        IF s = 0 THEN [w |-> w, next |-> 1]
        ELSE LET before == Slot[s - 1]
                 given  == before.next <= Len(certs) /\ certs[before.next] # "empty"
                 store(cert) == [before.w.m.cfg["cert"] EXCEPT ![s] = cert]
             IN IF s \notin slotBitMask THEN before
                ELSE IF given
                THEN [w |-> Send(before.w, "cert", store(certs[before.next])),
                      next |-> before.next + 1]
                ELSE [w |-> Send(Send(before.w, "cert", store("dummy")), "cert", store("none")),
                      next |-> before.next]
  IN Slot[CertSlots].w

(***************************************************************************)
(* Configuration.                                                          *)
(***************************************************************************)
setServerUrl(w, url)            == Inject(w, "slp", url)
setServer(w, address)           == Inject(w, "pde", address)
SuplVersion(version) == IF version \in {"2.0", "2.0.2"} THEN version ELSE "1.0"
setSUPLVersion(w, version)      == Inject(w, "supl", SuplVersion(version))
setNMEATypes(w, typesMask)      == Inject(w, "nmea", typesMask)
setLPPConfig(w, profile)        == Inject(w, "lpp", profile)
setSensorControlConfig(w, conf) == Inject(w, "sensors", conf)
setSensorProperties(w, conf)    == Inject(w, "walks", conf)
setSensorPerfControlConfig(w, conf)   == Inject(w, "perf", conf)
setAGLONASSProtocol(w, protocol)      == Inject(w, "glonass", protocol)
setLPPeProtocol(w, lppeCP, lppeUP)    == Inject(Inject(w, "lppecp", lppeCP), "lppeup", lppeUP)

\* Only the status of the request, or of its indication, makes this one a failure.
setXtraVersionCheck(w, check) ==
  LET r == Send(w, "xtracheck", IF check \in {"auto", "xtra2", "xtra3"} THEN check
                                ELSE "disabled")
  IN [r EXCEPT !.res = IF r.res = "success" THEN r.res ELSE "general"]

\* A lock is a set of session kinds: network initiated (MT), mobile originated (MO).
convertGpsLockMask(lockMask) ==
  CASE lockMask = {"mo", "mt"} -> "all"
    [] lockMask = {"mo"} -> "mi"
    [] lockMask = {"mt"} -> "mt"
    [] lockMask = {} -> "none"

setGpsLock(w, lockMask) == Send(w, "lock", convertGpsLockMask(lockMask))

(***************************************************************************)
(* Events of the modem, on the thread of the QMI library.                  *)
(***************************************************************************)
Report(w, status) == sendMsg(w, <<"ReportStatus", status>>)

\* Mutant: the mask is not reduced when the engine goes off after the session.
MsgUpdateEngineState_bug(w, on) ==
  LET b == [w EXCEPT !.p.mEngineOn = on] IN
  CASE on /\ b.p.mInSession -> Report(Report(b, "engine on"), "session begin")
    [] on /\ ~b.p.mInSession -> b
    [] ~on -> Report(Report(b, "session end"), "engine off")

\* Runs on the worker.  The mask is reduced when the engine goes off after the session.
MsgUpdateEngineState(w, on) ==
  LET a == IF w.p.mEngineOn /\ ~w.p.mInSession /\ ~on
           THEN registerEventMask(w, w.p.mQmiMask) ELSE w
      b == [a EXCEPT !.p.mEngineOn = on]
  IN CASE on /\ b.p.mInSession -> Report(Report(b, "engine on"), "session begin")
       [] on /\ ~b.p.mInSession -> b
       [] ~on -> Report(Report(b, "session end"), "engine off")

reportEngineState(w, state) ==
  CASE state = "on"  -> sendMsg(w, <<"UpdateEngineState", TRUE>>)
    [] state = "off" -> sendMsg(w, <<"UpdateEngineState", FALSE>>)
    [] OTHER -> Report(w, "none")

\* A fix or an intermediate position without coordinates is not reported at all; the
\* report of a fix says what it was found with.
SessionStatus(fix) ==
  CASE fix \in {"zero", "failed"} -> "failure"
    [] fix = "partial" -> "intermediate"
    [] fix = "cell"    -> "network"
    [] fix = "final"   -> "success"

reportPosition(w, fix) ==
  IF fix = "blank" THEN w ELSE sendMsg(w, <<"ReportPosition", SessionStatus(fix)>>)

\* A satellite without system or number is left out; Galileo's and BeiDou's are numbered
\* from 301 and 201 in the modem.  One is used in the fix when it is tracked with a signal
\* and its ephemeris or almanac is known.
reportSv(w, svs) ==
  LET known == SelectSeq(svs, LAMBDA sv : sv.system # "none" /\ sv.id # 0)
      svid(sv) == sv.id - (CASE sv.system = "galileo" -> 300
                             [] sv.system = "beidou" -> 200
                             [] OTHER -> 0)
      used(sv) == sv.tracked /\ sv.snr > 0 /\ sv.data # "none"
  IN sendMsg(w, <<"ReportSv", [i \in DOMAIN known |-> <<svid(known[i]), used(known[i])>>]>>)

\* Requests of the modem are passed on only when the HAL supports them.
Ask(w, msg) == IF w.e.mSupportsAgpsRequests THEN sendMsg(w, msg) ELSE w

\* How far a satellite is tracked, by the flags of its measurement, and which of the two
\* speeds the framework is to take.
convertGnssMeasurements(meas) ==
  LET status == meas.status
      bitSync == {"bit edge", "sub bit"} \subseteq status IN
  [svid |-> meas.svid,
   state |-> CASE "ms" \in status -> "decoded"
               [] "ms" \notin status /\ bitSync -> "bit sync"
               [] "ms" \notin status /\ ~bitSync /\ "sub ms" \in status -> "code lock"
               [] OTHER -> "unknown",
   speed |-> IF "fine" \in status THEN "fine" ELSE "coarse"]

\* The clock of the modem starts again when it says so, when its time has not gone on, and
\* with a session.  The framework takes times under one count for times of one clock.
convertGnssClock(w, time) ==
  LET clock == w.p.clock
      again == \/ w.p.mMeasurementsStarted
               \/ clock.resets # time.resets
               \/ time.refFCount <= clock.refFCount
  IN [w EXCEPT !.p.mMeasurementsStarted = FALSE,
               !.p.clock = [refFCount |-> time.refFCount, resets |-> time.resets,
                            count |-> IF again THEN clock.count + 1 ELSE clock.count]]

\* Only measurements of GPS, and at least one; without the modem's time they are reported
\* under count 0.  The clock itself goes along as what the framework cannot see.
reportGnssMeasurementData(w, report) ==
  LET timed == report.timed
      a == IF timed THEN convertGnssClock(w, report.time) ELSE w
      data == [measurements |-> [i \in DOMAIN report.measurements |->
                                   convertGnssMeasurements(report.measurements[i])],
               count |-> IF timed THEN a.p.clock.count ELSE 0,
               time_ns |-> IF timed THEN report.time.refFCount ELSE 0, clock |-> report.time.clock]
  IN IF report.system # "gps" \/ report.measurements = <<>> THEN w
     ELSE sendMsg(a, <<"ReportGnssMeasurement", data>>)

convertNiEncoding(scheme) ==
  CASE scheme \in {"utf8", "ucs2"} -> scheme
    [] scheme \in {"gsm", "unspecified"} -> "gsm"
    [] OTHER -> "unknown"

\* What the user is asked, and what holds if the user says nothing.
convertNiNotifyVerifyType == [
  silent   |-> [notify_flags |-> {}, default_response |-> "NORESP"],
  notify   |-> [notify_flags |-> {"notify"}, default_response |-> "NORESP"],
  allow    |-> [notify_flags |-> {"notify", "verify"}, default_response |-> "ACCEPT"],
  deny     |-> [notify_flags |-> {"notify", "verify"}, default_response |-> "DENY"],
  override |-> [notify_flags |-> {"privacy override"}, default_response |-> "NORESP"]]

\* A request comes from the network in one of three ways; SUPL may say that it is about an
\* emergency, and may leave the encoding out.
reportNiRequest(w, req) ==
  LET kind == CASE req.kind = "supl" -> IF req.emergency THEN "emergency" ELSE "supl"
                [] req.kind \in {"voice", "umts"} -> req.kind
      encoding == IF req.kind = "voice" THEN "none" ELSE convertNiEncoding(req.scheme)
      type == convertNiNotifyVerifyType[req.type]
  IN IF req.kind = "other" THEN w
     ELSE Ask(w, <<"RequestNi", [ni_type |-> kind, text_encoding |-> encoding,
                                 notify_flags |-> type.notify_flags,
                                 default_response |-> type.default_response]>>)

\* Up to three servers; places that are left are empty.
Three(urls) == [i \in 1 .. 3 |-> IF i <= Len(urls) THEN urls[i] ELSE ""]

\* A server of gps.conf takes the place of one of the modem; one that is no longer run is
\* left out, and those behind it move up.
ReportedServers(urls) ==
  LET known == [i \in 1 .. 3 |-> IF XTRA_SERVER[i] = "" THEN urls[i] ELSE XTRA_SERVER[i]]
  IN Three(SelectSeq(known, LAMBDA url : url # "xtra1.gpsonextra.net"))

reportXtraServerUrl(w, urls) == Ask(w, <<"ReportXtraServer", ReportedServers(Three(urls))>>)

requestXtraServer(w) ==
  LET r == Send(w, "xtraservers", 0)
      s == IF r.res = "success" /\ w.m.servers # <<>> THEN reportXtraServerUrl(r, w.m.servers)
           ELSE r
  IN [s EXCEPT !.res = convertErr(@)]

eventCb(w, event, arg) ==
  CASE event = "position" -> reportPosition(w, arg)
    [] event = "sv"       -> reportSv(w, arg)
    [] event = "engine"   -> reportEngineState(w, arg)
    [] event = "xtra"     -> Ask(reportXtraServerUrl(w, arg), <<"RequestXtra">>)
    [] event = "ni"       -> reportNiRequest(w, arg)
    [] event = "time"     -> Ask(w, <<"RequestTime">>)
    [] event = "location" -> w
    [] event = "measurement" -> reportGnssMeasurementData(w, arg)
=============================================================================
