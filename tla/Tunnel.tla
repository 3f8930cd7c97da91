-------------------------------- MODULE Tunnel --------------------------------
(***************************************************************************)
(* A snapshot of the network camera: the worker task starts a session of   *)
(* WssRtspTunnel over a new TLS client, pumps it until it has finished or  *)
(* the job's time is over, stops it and asks whether it went well.  Inside *)
(* a session the server greets, challenges, accepts or refuses, opens the  *)
(* camera, sends it data and closes.  Server, camera and network are       *)
(* external and may do anything at any moment; a frame whose header is cut *)
(* by poll is one more frame the server might have sent.                   *)
(***************************************************************************)
EXTENDS Integers

CONSTANTS
  JobTimeout,     \* timeoutMs of a job
  TunnelTimeout,  \* tunnelTimeoutMs
  HeaderMax       \* bound on the pieces of a first request, RTSP_HDR_MAX

ASSUME TunnelAssumption ==
  /\ JobTimeout \in Nat \ {0}
  /\ TunnelTimeout \in Nat \ {0}
  /\ HeaderMax \in Nat \ {0}

VARIABLES
  job,       \* of the worker: "none", "start" or "pump"
  jobAge,    \* time since the job was taken
  state,     \* _state
  tunAge,    \* time since _startedAt
  stopping, authed,
  nonce,     \* a challenge was answered
  up,        \* the web socket's _up
  tls,       \* the TLS client of this job is connected
  cam,       \* the camera is connected: _camConnected and the client
  bytesUp,   \* _bytesUp # 0
  header,    \* _rtspHdrLen, or -1 once a request was accepted
  ok,        \* the last job was reported as a success
  got,       \* history: what this job has got: nothing, bytes of the camera, or
             \* the server's close
  stale,     \* history: this job was started on the remains of another
  wasted     \* history: the job before it was

tunnelVars == <<job, jobAge, state, tunAge, stopping, authed, nonce, up, tls, cam, bytesUp,
                header, ok, got, stale, wasted>>

Finished == state \in {"DONE", "ERROR"}

\* camStop, disconnect and the new state.
Close(end) ==
  /\ cam' = FALSE
  /\ tls' = FALSE
  /\ up' = FALSE
  /\ state' = end

Same == UNCHANGED <<job, jobAge, tunAge, stopping, ok, stale, wasted>>

-----------------------------------------------------------------------------
(* The worker *)

\* taskMain takes a job and asks for two new clients.
TakeJob ==
  /\ job = "none"
  /\ job' = "start"
  /\ jobAge' = 0
  /\ tls' = FALSE
  /\ cam' = FALSE
  /\ got' = "nothing"
  /\ wasted' = stale
  /\ stale' = FALSE
  /\ UNCHANGED <<state, tunAge, stopping, authed, nonce, up, bytesUp, header, ok>>

\* startSnapshot without a network, or whose connection or HELLO fails.
StartFails ==
  /\ job = "start"
  /\ job' = "none"
  /\ ok' = FALSE
  /\ state' = "ERROR"
  /\ \/ UNCHANGED <<tunAge, stopping, authed, nonce, up, bytesUp, header>>  \* no network
     \/ /\ state \notin {"WSS_CONNECTING", "TUNNELING"}
        /\ tunAge' = 0 /\ header' = 0
        /\ stopping' = FALSE /\ authed' = FALSE /\ nonce' = FALSE
        /\ up' = FALSE /\ bytesUp' = FALSE
  /\ UNCHANGED <<jobAge, tls, cam, got, stale, wasted>>

\* Slip: the bytes of the session before still count.
StartFreshKeepsBytes ==
  /\ job = "start"
  /\ state \notin {"WSS_CONNECTING", "TUNNELING"}
  /\ job' = "pump"
  /\ state' = "WSS_CONNECTING"
  /\ tunAge' = 0 /\ header' = 0
  /\ stopping' = FALSE /\ authed' = FALSE /\ nonce' = FALSE
  /\ up' = TRUE /\ tls' = TRUE
  /\ UNCHANGED <<jobAge, bytesUp, cam, ok, got, stale, wasted>>

\* startSnapshot: a new session, up to HELLO.
StartFresh ==
  /\ job = "start"
  /\ state \notin {"WSS_CONNECTING", "TUNNELING"}
  /\ job' = "pump"
  /\ state' = "WSS_CONNECTING"
  /\ tunAge' = 0 /\ header' = 0
  /\ stopping' = FALSE /\ authed' = FALSE /\ nonce' = FALSE /\ bytesUp' = FALSE
  /\ up' = TRUE /\ tls' = TRUE
  /\ UNCHANGED <<jobAge, cam, ok, got, stale, wasted>>

\* startSnapshot on a state that was left over says TRUE and does nothing.
StartStale ==
  /\ job = "start"
  /\ state \in {"WSS_CONNECTING", "TUNNELING"}
  /\ job' = "pump"
  /\ stale' = TRUE
  /\ UNCHANGED <<jobAge, state, tunAge, stopping, authed, nonce, up, tls, cam, bytesUp, header,
                 ok, got, wasted>>

Pumping == job = "pump" /\ ~Finished /\ jobAge < JobTimeout

\* Slip: the time of the job is not looked at.
JobIsOverWhenFinished == job = "pump" /\ Finished

\* A job is over when the session is, or its time.
JobIsOver == job = "pump" /\ (Finished \/ jobAge >= JobTimeout)

\* isOk.
IsOk == state = "DONE" \/ (bytesUp /\ state = "ERROR")

\* stop leaves the state as it is, and does nothing a second time.
Report ==
  /\ JobIsOver
  /\ job' = "none"
  /\ IF stopping
     THEN UNCHANGED <<stopping, cam, tls, up>>
     ELSE stopping' = TRUE /\ cam' = FALSE /\ tls' = FALSE /\ up' = FALSE
  /\ ok' = IsOk
  /\ UNCHANGED <<jobAge, state, tunAge, authed, nonce, bytesUp, header, got, stale, wasted>>

\* The remains of another job are found at once: startSnapshot returns, and the
\* first call of loop finds the new client not connected.
FindsRemains ==
  \/ job = "start" /\ state \in {"WSS_CONNECTING", "TUNNELING"}
  \/ Pumping /\ stale

\* Time goes by, in a session and between two; ages are kept up to a bound.
TunnelTick ==
  /\ job = "pump" => jobAge < JobTimeout
  /\ ~FindsRemains
  /\ jobAge' = IF jobAge < JobTimeout THEN jobAge + 1 ELSE jobAge
  /\ tunAge' = IF tunAge <= TunnelTimeout THEN tunAge + 1 ELSE tunAge
  /\ <<jobAge, tunAge>>' # <<jobAge, tunAge>>
  /\ UNCHANGED <<job, state, stopping, authed, nonce, up, tls, cam, bytesUp, header, ok,
                 got, stale, wasted>>

-----------------------------------------------------------------------------
(* loop: the time, the connection, and one frame *)

Unchanged == UNCHANGED <<authed, nonce, bytesUp, header, got>>

TimesOut ==
  /\ Pumping
  /\ tunAge > TunnelTimeout
  /\ Close("ERROR")
  /\ Same /\ Unchanged

\* The connection is gone: only the camera is stopped.
Disconnected ==
  /\ Pumping
  /\ ~tls
  /\ tunAge <= TunnelTimeout
  /\ cam' = FALSE
  /\ state' = "ERROR"
  /\ Same /\ Unchanged
  /\ UNCHANGED <<tls, up>>

\* The network drops the connection, or poll does: a close frame, a frame of
\* 64-bit length, a frame that is not completed in time.
ConnectionLost ==
  /\ Pumping
  /\ tls
  /\ tls' = FALSE
  /\ up' \in {up, FALSE}
  /\ Same /\ Unchanged
  /\ UNCHANGED <<state, cam>>

Frame == Pumping /\ tls /\ up /\ tunAge <= TunnelTimeout

\* CHAL: signed and answered, or the signature fails.
Challenge ==
  /\ Frame
  /\ \/ nonce' = TRUE /\ UNCHANGED <<state, cam, tls, up>>
     \/ Close("ERROR") /\ UNCHANGED nonce
  /\ Same
  /\ UNCHANGED <<authed, bytesUp, header, got>>

AuthOk ==
  /\ Frame
  /\ authed' = TRUE
  /\ Same
  /\ UNCHANGED <<state, nonce, up, tls, cam, bytesUp, header, got>>

AuthFail == Frame /\ Close("ERROR") /\ Same /\ Unchanged

\* Slip: OPEN is not refused before AUTH_OK.
OpenUnasked ==
  /\ Frame
  /\ \/ cam' = TRUE /\ state' = "TUNNELING" /\ UNCHANGED <<tls, up>>
     \/ Close("ERROR")
  /\ Same /\ Unchanged

\* OPEN: refused before AUTH_OK; the camera is connected anew, or does not
\* answer.
Open ==
  /\ Frame
  /\ \/ authed /\ cam' = TRUE /\ state' = "TUNNELING" /\ UNCHANGED <<tls, up>>
     \/ Close("ERROR")
  /\ Same /\ Unchanged

\* CLOSE.
ServerCloses ==
  /\ Frame
  /\ Close("DONE")
  /\ got' = "close"
  /\ Same
  /\ UNCHANGED <<authed, nonce, bytesUp, header>>

\* Data for the camera: the first request is looked at until it is complete,
\* and what there is of it is written.
Data ==
  /\ Frame
  /\ authed
  /\ state = "TUNNELING"
  /\ cam
  /\ \/ /\ header # -1
        /\ \/ header + 1 < HeaderMax /\ header' = header + 1 /\ UNCHANGED <<state, cam, tls, up>>
           \/ header' = -1 /\ UNCHANGED <<state, cam, tls, up>>
           \/ Close("ERROR") /\ UNCHANGED header
     \/ header = -1 /\ UNCHANGED <<header, state, cam, tls, up>>
  /\ Same
  /\ UNCHANGED <<authed, nonce, bytesUp, got>>

\* sendCamToServer, after a frame or none, and after a poll that has just
\* dropped the connection: what was read is counted before it is sent, and
\* nobody looks at what sendBin returns.  Whether it was sent, nobody knows.
CamToServer ==
  /\ Pumping
  /\ state = "TUNNELING" /\ authed /\ cam
  /\ bytesUp' = TRUE
  /\ got' = "bytes"
  /\ Same
  /\ UNCHANGED <<state, authed, nonce, up, tls, cam, header>>

\* The camera hangs up; the tunnel is not told.
CameraGone ==
  /\ cam
  /\ cam' = FALSE
  /\ UNCHANGED <<job, jobAge, state, tunAge, stopping, authed, nonce, up, tls, bytesUp, header,
                 ok, got, stale, wasted>>

TunnelRestart ==
  /\ job' = "none" /\ jobAge' = 0 /\ state' = "IDLE" /\ tunAge' = 0
  /\ stopping' = FALSE /\ authed' = FALSE /\ nonce' = FALSE
  /\ up' = FALSE /\ tls' = FALSE /\ cam' = FALSE
  /\ bytesUp' = FALSE /\ header' = 0
  /\ ok' = FALSE /\ got' = "nothing" /\ stale' = FALSE /\ wasted' = FALSE

TunnelFresh ==
  /\ job = "none" /\ jobAge = 0 /\ state = "IDLE" /\ tunAge = 0
  /\ stopping = FALSE /\ authed = FALSE /\ nonce = FALSE
  /\ up = FALSE /\ tls = FALSE /\ cam = FALSE
  /\ bytesUp = FALSE /\ header = 0
  /\ ok = FALSE /\ got = "nothing" /\ stale = FALSE /\ wasted = FALSE

TunnelStep ==
  \/ TakeJob \/ StartFails \/ StartFresh \/ StartStale \/ Report \/ TunnelTick
  \/ TimesOut \/ Disconnected \/ ConnectionLost \/ Challenge \/ AuthOk \/ AuthFail
  \/ Open \/ ServerCloses \/ Data \/ CamToServer \/ CameraGone

-----------------------------------------------------------------------------
(* Properties *)

TunnelTypeOK ==
  /\ job \in {"none", "start", "pump"}
  /\ jobAge \in 0 .. JobTimeout
  /\ state \in {"IDLE", "WSS_CONNECTING", "TUNNELING", "DONE", "ERROR"}
  /\ tunAge \in 0 .. TunnelTimeout + 1
  /\ {stopping, authed, nonce, up, tls, cam, bytesUp, ok, stale, wasted} \subseteq BOOLEAN
  /\ header \in -1 .. HeaderMax
  /\ got \in {"nothing", "bytes", "close"}

\* The camera is connected only in a session that runs, whose server accepted
\* the device in this session, and every connection is closed when the worker
\* waits for its next job: through seven ends of a session, a second stop that
\* does nothing and states that are left over (loop, stop, startSnapshot).
CameraOnlyInSession ==
  /\ cam => job = "pump" /\ authed /\ tunAge <= jobAge
  /\ job = "none" => ~cam /\ ~tls

\* A job is reported as a success only if the camera gave bytes in this job, or
\* the server closed it: counters and states left by another job never count.
\* That the bytes were sent is not said.  Excepted is a job started on the
\* remains of another, which reports what that one did (isOk, startSnapshot).
OkIsOfThisJob == (job = "none" /\ ok /\ ~stale) => got # "nothing"

\* A session whose time was over costs one job more: the next one finds its
\* remains and ends at once, and the one after it is a session of its own.
OneJobWasted == ~(stale /\ wasted)

\* The worker always comes back for its next job, whatever the server does.
JobEnds == job = "pump" ~> job = "none"
=============================================================================
