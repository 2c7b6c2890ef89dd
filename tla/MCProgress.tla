----------------------------- MODULE MCProgress -----------------------------
(* What must happen in the end, each in a part of its own: a match ends, a  *)
(* battle process ends, a relay follows its match to another endpoint.      *)
(* A behaviour moves one part and leaves the others where they started;     *)
(* the fairness of a part is assumed of the behaviours that move it.        *)
EXTENDS MatchLifecycle, Spawner, Relay, TLC

VARIABLE moving

progressVars == <<vars, spawnVars, relayVars, moving>>

ProgressInit ==
    /\ Init /\ SpawnInit /\ RelayInit
    /\ moving \in {"match", "process", "relay"}
    /\ (created /\ local = NoEndpoint) \/ moving = "relay"
ProgressNext ==
    /\ UNCHANGED moving
    /\ \/ moving = "match" /\ Next /\ UNCHANGED <<spawnVars, relayVars>>
       \/ moving = "process" /\ SpawnNext /\ UNCHANGED <<vars, relayVars>>
       \/ moving = "relay" /\ RelayNext /\ UNCHANGED <<vars, spawnVars>>

(* The battle agent polls on a ticker, and time passes; nothing else is     *)
(* promised: players and battle servers may stay silent for ever.           *)
MatchFairness ==
    /\ WF_vars(moving = "match" /\ Tick)
    /\ WF_vars(moving = "match" /\ BattleAgentAssignments)

(* The goroutine of startMatch runs on and its timers fire; so does Kill.   *)
(* Nothing is assumed of the processes: not that they print READY, obey     *)
(* SIGTERM or end by themselves.                                            *)
ProcessFairness ==
    /\ \A m \in SpawnMatches :
       /\ WF_spawnVars(moving = "process" /\ (NoProcess(m) \/ \E p \in Procs : StartProcess(m, p)))
       /\ WF_spawnVars(moving = "process" /\ TellRoom(m))
    /\ \A p \in Procs :
       /\ WF_spawnVars(moving = "process" /\ ReadyTimeout(p))
       /\ WF_spawnVars(moving = "process" /\ SpawnFailed(p))
       /\ WF_spawnVars(moving = "process" /\ Track(p))
       /\ WF_spawnVars(moving = "process" /\ TTLExpires(p))
       /\ WF_spawnVars(moving = "process" /\ Terminate(p))
       /\ WF_spawnVars(moving = "process" /\ HardKill(p))

(* The goroutines of HandleRelay run, the ticker fires and 250 ms pass;     *)
(* nothing is assumed of the client, the agent or the datagrams.            *)
RelayFairness ==
    /\ WF_relayVars(moving = "relay" /\ PollerWakes)
    /\ WF_relayVars(moving = "relay" /\ PollerRedials)
    /\ \A g \in Callers :
       WF_relayVars(moving = "relay" /\ (RedialChecks(g) \/ RedialStamps(g) \/ RedialDials(g)))
    /\ WF_relayVars(moving = "relay" /\ LimitOver)
    /\ WF_relayVars(moving = "relay" /\ HandlerReturns)
    /\ WF_relayVars(moving = "relay" /\ WriterRedials)
    /\ WF_relayVars(moving = "relay" /\ StopCloses)
    /\ WF_relayVars(moving = "relay" /\ ReaderTakes)
    /\ WF_relayVars(moving = "relay" /\ ReaderConn)
    /\ WF_relayVars(moving = "relay" /\ ReaderRedials)
    /\ WF_relayVars(moving = "relay" /\ reader.on \notin open /\ ReaderFails)

ProgressSpec ==
    /\ ProgressInit /\ [][ProgressNext]_progressVars
    /\ MatchFairness /\ ProcessFairness /\ RelayFairness

(* Types; and nothing is lost in transit: every process that runs is within *)
(* reach of the spawner, and a relay has no socket open but its current one.*)
NothingLeaks == SpawnTypeOK /\ RelayTypeOK /\ Reachable

(* Every match ends, in the behaviours that are about the match (see        *)
(* EventuallyEnds): the agent's poll ends it when its players and its       *)
(* battle server stay silent.                                               *)
MatchEnds == moving = "match" => EventuallyEnds
=============================================================================
