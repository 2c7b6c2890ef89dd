-------------------------------- MODULE Relay --------------------------------
(***************************************************************************)
(* One battle relay (HandleRelay, runtime/lobbyws): the goroutines that    *)
(* carry datagrams between a client's WebSocket and the UDP socket of the  *)
(* match's battle server, and that follow the allocation to the endpoint   *)
(* the agent reports.                                                      *)
(*                                                                         *)
(* connMu covers one redial and one close of the socket; a goroutine takes *)
(* the current socket under it and uses it without.                        *)
(***************************************************************************)
EXTENDS Integers, FiniteSets

CONSTANTS
    Registry,       \* the endpoint the registry gives the allocation
    Reported,       \* endpoints the agent may report, one per process it starts
    NoEndpoint,
    MaxDialFails    \* bound on endpoints that cannot be resolved or dialled

ASSUME RelayAssumptions ==
    /\ IsFiniteSet(Reported)
    /\ Registry \notin Reported
    /\ NoEndpoint \notin Reported \cup {Registry}
    /\ MaxDialFails \in Nat

VARIABLES
    endpoint,   \* the allocation's Endpoint; NoEndpoint without an allocation
    created,    \* the match is in the memory of this process (s.matches)
    reports,    \* the endpoints reported so far; EndpointReported when not {}
    local,      \* matchEntry.endpoint of a process the lobby spawned
    stage,      \* HandleRelay: "waiting", "open", "refused" or "returned"
    socket,     \* udpConn with dialedEndpoint; NoEndpoint before the dial
    open,       \* the sockets that are open, by endpoint
    done,       \* the channel done is closed
    stopping,   \* stop is between close(done) and the close of the socket
    reader,     \* [at, on]: the goroutine that reads UDP, and on which socket
    poller,     \* the goroutine of the 500 ms ticker
    writer,     \* the loop of the handler itself
    call,       \* where each of the three is in its call of redial
    recent,     \* lastRedialAttempt is less than 250 ms ago
    dialFails,  \* how many dials failed
    client      \* "on" or "gone"

allocation == <<endpoint, created, reports, local>>
redialing == <<call, recent, dialFails>>
relayVars == <<allocation, stage, socket, open, done, stopping, reader, poller, writer, redialing, client>>

Endpoints == Reported \cup {Registry}
Callers == {"reader", "poller", "writer"}

(* BindBattleEndpoint: the agent reports the endpoint of a new process,     *)
(* whichever; a lobby that restarted has its allocation back with that.     *)
AgentReports(e) ==
    /\ local = NoEndpoint
    /\ e \notin reports
    /\ e = CHOOSE x \in Reported : x \notin reports
    /\ reports' = reports \cup {e}
    /\ endpoint' = e
    /\ UNCHANGED <<created, local, stage, socket, open, done, stopping, reader, poller, writer, redialing, client>>

(* expireStaleAllocationsLocked: the allocation of a match that is not in   *)
(* memory goes.                                                             *)
AllocationGoes ==
    /\ ~created
    /\ endpoint # NoEndpoint
    /\ endpoint' = NoEndpoint
    /\ UNCHANGED <<created, reports, local, stage, socket, open, done, stopping, reader, poller, writer, redialing, client>>

ClientGoes ==
    /\ client = "on"
    /\ client' = "gone"
    /\ UNCHANGED <<allocation, stage, socket, open, done, stopping, reader, poller, writer, redialing>>

(* The dial, the upgrade and the three goroutines; or an error instead: no  *)
(* endpoint, one that cannot be dialled, a client that does not upgrade.    *)
DialFails == dialFails < MaxDialFails /\ dialFails' = dialFails + 1
OpenOn(e) ==
    /\ stage = "waiting"
    /\ \/ /\ e # NoEndpoint /\ client = "on"
          /\ stage' = "open"
          /\ socket' = e
          /\ open' = {e}
          /\ reader' = [at |-> "top", on |-> NoEndpoint]
          /\ poller' = "ticking"
          /\ writer' = "reading"
          /\ UNCHANGED dialFails
       \/ /\ \/ e = NoEndpoint /\ UNCHANGED dialFails
             \/ e # NoEndpoint /\ DialFails
             \/ client = "gone" /\ UNCHANGED dialFails
          /\ stage' = "refused"
          /\ UNCHANGED <<socket, open, reader, poller, writer>>
    /\ UNCHANGED <<allocation, done, stopping, call, recent, client>>

(* The endpoint of a local process, the one the agent reported, or after    *)
(* battleEndpointReportWait whatever the allocation has.                    *)
OpenLocal == local # NoEndpoint /\ OpenOn(local)
OpenReported == local = NoEndpoint /\ reports # {} /\ endpoint # NoEndpoint /\ OpenOn(endpoint)
OpenAnyway == local = NoEndpoint /\ (reports = {} \/ endpoint = NoEndpoint) /\ OpenOn(endpoint)

(* redial: the rate limit its three callers share.  lastRedialAttempt is    *)
(* read and written outside of connMu, so that two callers may both pass.   *)
RedialChecks(g) ==
    /\ call[g] = "check"
    /\ call' = [call EXCEPT ![g] = IF recent THEN "none" ELSE "stamp"]
    /\ UNCHANGED <<allocation, stage, socket, open, done, stopping, reader, poller, writer, recent, dialFails, client>>
RedialStamps(g) ==
    /\ call[g] = "stamp"
    /\ call' = [call EXCEPT ![g] = "dial"]
    /\ recent' = TRUE
    /\ UNCHANGED <<allocation, stage, socket, open, done, stopping, reader, poller, writer, dialFails, client>>
LimitOver ==
    /\ recent
    /\ recent' = FALSE
    /\ UNCHANGED <<allocation, stage, socket, open, done, stopping, reader, poller, writer, call, dialFails, client>>

(* redial, under connMu: nothing to follow, an endpoint that cannot be      *)
(* resolved or dialled, or the new socket in place of the old one.          *)
(* Mutant: a relay of a reported endpoint stays with it.                    *)
RedialOnce ==
    \/ /\ endpoint \in {NoEndpoint, socket} \/ socket # Registry
       /\ UNCHANGED <<socket, open, dialFails>>
    \/ /\ endpoint \notin {NoEndpoint, socket} /\ socket = Registry
       /\ socket' = endpoint
       /\ open' = (open \ {socket}) \cup {endpoint}
       /\ UNCHANGED dialFails
Redial ==
    \/ /\ endpoint \in {NoEndpoint, socket}
       /\ UNCHANGED <<socket, open, dialFails>>
    \/ /\ endpoint \notin {NoEndpoint, socket}
       /\ DialFails
       /\ UNCHANGED <<socket, open>>
    \/ /\ endpoint \notin {NoEndpoint, socket}
       /\ socket' = endpoint
       /\ open' = (open \ {socket}) \cup {endpoint}
       /\ UNCHANGED dialFails
RedialDials(g) ==
    /\ call[g] = "dial"
    /\ call' = [call EXCEPT ![g] = "none"]
    /\ Redial
    /\ UNCHANGED <<allocation, stage, done, stopping, reader, poller, writer, recent, client>>

Calls(g) == call' = [call EXCEPT ![g] = "check"] /\ UNCHANGED <<recent, dialFails>>
Returned(g) == call[g] = "none"

(* stop: once.Do, with close(done) first; a second caller waits for it.     *)
Stops == done' = TRUE /\ stopping' = (stopping \/ ~done)

(* stop, the rest: the socket that is current now is closed, and the        *)
(* WebSocket with it.                                                       *)
StopCloses ==
    /\ stopping
    /\ stopping' = FALSE
    /\ open' = open \ {socket}
    /\ client' = "gone"
    /\ UNCHANGED <<allocation, stage, socket, done, reader, poller, writer, redialing>>

(* The reader goroutine: the top of its loop.                               *)
ReaderTakes ==
    /\ reader.at = "top"
    /\ reader' = IF done THEN [reader EXCEPT !.at = "ended"] ELSE [at |-> "reading", on |-> NoEndpoint]
    /\ UNCHANGED <<allocation, stage, socket, open, done, stopping, poller, writer, redialing, client>>
ReaderConn ==
    /\ reader = [at |-> "reading", on |-> NoEndpoint]
    /\ reader' = [reader EXCEPT !.on = socket]
    /\ UNCHANGED <<allocation, stage, socket, open, done, stopping, poller, writer, redialing, client>>
(* A datagram comes: it is written to the client.  When that fails, for a   *)
(* client that is gone or a write deadline that is over (see LobbyConn),    *)
(* stop is called.                                                          *)
ReaderGets ==
    /\ reader.at = "reading" /\ reader.on \in open
    /\ \/ client = "on" /\ reader' = [reader EXCEPT !.at = "top"] /\ UNCHANGED <<done, stopping>>
       \/ reader' = [reader EXCEPT !.at = "ended"] /\ Stops
    /\ UNCHANGED <<allocation, stage, socket, open, poller, writer, redialing, client>>
(* Read fails, because the socket is closed or nobody listens at its end.   *)
ReaderFails ==
    /\ reader.at = "reading" /\ reader.on # NoEndpoint
    /\ IF done
       THEN reader' = [reader EXCEPT !.at = "ended"] /\ UNCHANGED redialing
       ELSE reader' = [reader EXCEPT !.at = "redial"] /\ Calls("reader")
    /\ UNCHANGED <<allocation, stage, socket, open, done, stopping, poller, writer, client>>
ReaderRedials ==
    /\ reader.at = "redial"
    /\ Returned("reader")
    /\ reader' = [reader EXCEPT !.at = "top"]
    /\ UNCHANGED <<allocation, stage, socket, open, done, stopping, poller, writer, redialing, client>>

(* The ticker of the poller: the select, and redial after it.               *)
PollerWakes ==
    /\ poller = "ticking"
    /\ IF done
       THEN poller' = "ended" /\ UNCHANGED redialing
       ELSE poller' = "redial" /\ Calls("poller")
    /\ UNCHANGED <<allocation, stage, socket, open, done, stopping, reader, writer, client>>
PollerRedials ==
    /\ poller = "redial"
    /\ Returned("poller")
    /\ poller' = "ticking"
    /\ UNCHANGED <<allocation, stage, socket, open, done, stopping, reader, writer, redialing, client>>

(* The handler's loop: a frame whose write fails, and the redial after it.  *)
WriteFails ==
    /\ writer = "reading" /\ client = "on" /\ ~done
    /\ writer' = "redial"
    /\ Calls("writer")
    /\ UNCHANGED <<allocation, stage, socket, open, done, stopping, reader, poller, client>>
WriterRedials ==
    /\ writer = "redial"
    /\ Returned("writer")
    /\ writer' = "reading"
    /\ UNCHANGED <<allocation, stage, socket, open, done, stopping, reader, poller, redialing, client>>
(* ReadMessage fails: the client is gone, which the read deadline notices,  *)
(* or the WebSocket is closed; or the write failed on a relay that stopped. *)
(* The deferred stop runs.                                                  *)
HandlerReturns ==
    /\ writer = "reading" /\ (client = "gone" \/ done)
    /\ writer' = "ended"
    /\ stage' = "returned"
    /\ Stops
    /\ UNCHANGED <<allocation, socket, open, reader, poller, redialing, client>>
(* The ping goroutine: a ping that cannot be written.                       *)
PingFails ==
    /\ stage = "open" /\ client = "gone" /\ ~done
    /\ Stops
    /\ UNCHANGED <<allocation, stage, socket, open, reader, poller, writer, redialing, client>>

RelayInit ==
    /\ created \in BOOLEAN
    /\ endpoint = IF created THEN Registry ELSE NoEndpoint
    /\ reports = {}
    /\ local \in (IF created THEN {NoEndpoint, Registry} ELSE {NoEndpoint})
    /\ stage = "waiting"
    /\ socket = NoEndpoint
    /\ open = {}
    /\ done = FALSE
    /\ stopping = FALSE
    /\ reader = [at |-> "none", on |-> NoEndpoint]
    /\ poller = "none"
    /\ writer = "none"
    /\ call = [g \in Callers |-> "none"]
    /\ recent = FALSE
    /\ dialFails = 0
    /\ client = "on"

RelayNext ==
    \/ \E e \in Reported : AgentReports(e)
    \/ AllocationGoes
    \/ ClientGoes
    \/ OpenLocal \/ OpenReported \/ OpenAnyway
    \/ \E g \in Callers : RedialChecks(g) \/ RedialStamps(g) \/ RedialDials(g)
    \/ LimitOver
    \/ StopCloses
    \/ ReaderTakes \/ ReaderConn \/ ReaderGets \/ ReaderFails \/ ReaderRedials
    \/ PollerWakes \/ PollerRedials
    \/ WriteFails \/ WriterRedials \/ HandlerReturns \/ PingFails

RelaySpec == RelayInit /\ [][RelayNext]_relayVars

-----------------------------------------------------------------------------
(* Properties.                                                              *)

(* A relay has no socket open but the current one.                          *)
RelayTypeOK ==
    /\ endpoint \in Endpoints \cup {NoEndpoint}
    /\ created \in BOOLEAN
    /\ reports \subseteq Reported
    /\ local \in {NoEndpoint, Registry}
    /\ stage \in {"waiting", "open", "refused", "returned"}
    /\ socket \in Endpoints \cup {NoEndpoint}
    /\ open \subseteq {socket} \cap Endpoints
    /\ {done, stopping} \subseteq BOOLEAN
    /\ reader \in [at : {"none", "top", "reading", "redial", "ended"}, on : Endpoints \cup {NoEndpoint}]
    /\ poller \in {"none", "ticking", "redial", "ended"}
    /\ writer \in {"none", "reading", "redial", "ended"}
    /\ call \in [Callers -> {"none", "check", "stamp", "dial"}]
    /\ recent \in BOOLEAN
    /\ dialFails \in 0..MaxDialFails
    /\ client \in {"on", "gone"}

(* A relay that is open on another endpoint than the one the allocation has *)
(* now moves there, or stops: also when no datagram ever fails (the poller  *)
(* of HandleRelay), as often as the agent reports a new one, although its   *)
(* goroutines use up one rate limit among them, and after dials that        *)
(* failed.                                                                  *)
RelayFollows ==
    \A e \in Endpoints :
       (stage = "open" /\ endpoint = e /\ socket # e) ~> (socket = e \/ endpoint # e \/ done)
=============================================================================
