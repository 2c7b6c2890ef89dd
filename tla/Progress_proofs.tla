-------------------------- MODULE Progress_proofs --------------------------
(***************************************************************************)
(* Proofs about the battle processes of a lobby (Spawner) and about a      *)
(* battle relay (Relay), for any matches, processes and endpoints: no      *)
(* process that runs is out of reach, and a relay has no socket open but   *)
(* its current one; and so for the parts together, as MCProgress runs them. *)
(***************************************************************************)
EXTENDS MCProgress, TLAPS

-----------------------------------------------------------------------------
(* The spawner.                                                            *)

ProcessType == [match : SpawnMatches, run : {"new", "running", "exited"},
                spawn : {"none", "waiting", "ready", "tracked", "failed"},
                ttl : BOOLEAN, kill : {"none", "asked", "term", "grace"}]

SpawnInv == SpawnTypeOK /\ Reachable

(* Asking for a kill changes nothing but kill, and is never taken back.    *)
LEMMA AskKillFacts ==
    ASSUME NEW f \in [Procs -> ProcessType], NEW ps
    PROVE  /\ AskKill(f, ps) \in [Procs -> ProcessType]
           /\ \A p \in Procs :
                 /\ AskKill(f, ps)[p].match = f[p].match
                 /\ AskKill(f, ps)[p].run = f[p].run
                 /\ AskKill(f, ps)[p].spawn = f[p].spawn
                 /\ p \in ps \/ f[p].kill # "none" => AskKill(f, ps)[p].kill # "none"
<1>1. ASSUME NEW p \in Procs
      PROVE  /\ AskKill(f, ps)[p] \in ProcessType
             /\ AskKill(f, ps)[p].match = f[p].match
             /\ AskKill(f, ps)[p].run = f[p].run
             /\ AskKill(f, ps)[p].spawn = f[p].spawn
             /\ p \in ps \/ f[p].kill # "none" => AskKill(f, ps)[p].kill # "none"
  <2>1. f[p] \in ProcessType
    OBVIOUS
  <2>2. AskKill(f, ps)[p] =
           IF p \in ps /\ f[p].kill = "none" THEN [f[p] EXCEPT !.kill = "asked"] ELSE f[p]
    BY DEF AskKill
  <2>3. CASE p \in ps /\ f[p].kill = "none"
    BY <2>1, <2>2, <2>3 DEF ProcessType
  <2>4. CASE ~(p \in ps /\ f[p].kill = "none")
    BY <2>1, <2>2, <2>4
  <2> QED
    BY <2>3, <2>4
<1>2. AskKill(f, ps) \in [Procs -> ProcessType]
  <2>1. AskKill(f, ps) = [p \in Procs |-> AskKill(f, ps)[p]]
    BY DEF AskKill
  <2> QED
    BY <1>1, <2>1
<1> QED
  BY <1>1, <1>2

LEMMA SpawnInitInv == SpawnInit => SpawnInv
<1> SUFFICES ASSUME SpawnInit PROVE SpawnInv
  OBVIOUS
<1>1. (CHOOSE m \in SpawnMatches : TRUE) \in SpawnMatches
  BY SpawnerAssumptions
<1>2. process \in [Procs -> ProcessType] /\ \A p \in Procs : process[p].run = "new"
  BY <1>1 DEF SpawnInit, ProcessType
<1>3. SpawnTypeOK
  BY <1>2 DEF SpawnInit, SpawnTypeOK, ProcessType
<1>4. Reachable
  BY <1>2 DEF Reachable, Alive
<1> QED
  BY <1>3, <1>4 DEF SpawnInv

(* Steps of startMatch that touch no process.                              *)
LEMMA EntryStep ==
    ASSUME SpawnInv,
           entry' \in [SpawnMatches -> {"none", "starting", "spawning", "spawned", "started"}],
           boundTo' \in [SpawnMatches -> Procs \cup {NoProc}],
           UNCHANGED <<process, procs, closed>>
    PROVE  SpawnInv'
BY DEF SpawnInv, SpawnTypeOK, Reachable, Alive

(* Steps of one process that leave the table alone: the process stays      *)
(* within Spawn, or was in reach already, or is about to be killed.        *)
LEMMA OneProcessStep ==
    ASSUME SpawnInv, NEW p \in Procs, NEW pr \in ProcessType,
           process' = [process EXCEPT ![p] = pr],
           pr.run = "running" => \/ pr.spawn \in {"waiting", "ready"}
                                 \/ pr.match = process[p].match /\ procs[process[p].match] = p
                                 \/ pr.kill # "none",
           entry' \in [SpawnMatches -> {"none", "starting", "spawning", "spawned", "started"}],
           UNCHANGED <<boundTo, procs, closed>>
    PROVE  SpawnInv'
<1>1. process \in [Procs -> ProcessType]
  BY DEF SpawnInv, SpawnTypeOK, ProcessType
<1>2. process' \in [Procs -> ProcessType] /\ process'[p] = pr
      /\ \A q \in Procs : q # p => process'[q] = process[q]
  BY <1>1
<1>3. SpawnTypeOK'
  BY <1>2 DEF SpawnInv, SpawnTypeOK, ProcessType
<1>4. Reachable'
  BY <1>2 DEF SpawnInv, Reachable, Alive
<1> QED
  BY <1>3, <1>4 DEF SpawnInv

(* Whoever loses a place in the table is asked to end.                     *)
LEMMA TableStep ==
    ASSUME SpawnInv, NEW ps, process' = AskKill(process, ps),
           procs' \in [SpawnMatches -> Procs \cup {NoProc}],
           \A m \in SpawnMatches : procs[m] # procs'[m] => procs[m] \in ps \cup {NoProc},
           closed' \in BOOLEAN,
           UNCHANGED matchVars
    PROVE  SpawnInv'
<1>1. process \in [Procs -> ProcessType]
  BY DEF SpawnInv, SpawnTypeOK, ProcessType
<1>2. /\ process' \in [Procs -> ProcessType]
      /\ \A p \in Procs : /\ process'[p].match = process[p].match
                          /\ process'[p].run = process[p].run
                          /\ process'[p].spawn = process[p].spawn
                          /\ p \in ps \/ process[p].kill # "none" => process'[p].kill # "none"
  BY <1>1, AskKillFacts
<1>3. SpawnTypeOK'
  BY <1>2 DEF SpawnInv, SpawnTypeOK, ProcessType, matchVars
<1>4. Reachable'
  BY <1>1, <1>2, SpawnerAssumptions DEF SpawnInv, Reachable, Alive, ProcessType
<1> QED
  BY <1>3, <1>4 DEF SpawnInv

LEMMA TrackInv ==
    ASSUME SpawnInv, NEW p \in Procs, Track(p)
    PROVE  SpawnInv'
<1> DEFINE m == process[p].match
           f == [process EXCEPT ![p].spawn = "tracked"]
           ps == {procs[m]} \ {NoProc}
<1>1. process \in [Procs -> ProcessType]
  BY DEF SpawnInv, SpawnTypeOK, ProcessType
<1>2. /\ process' = AskKill(f, ps)
      /\ procs' = [procs EXCEPT ![m] = p]
      /\ entry' = [entry EXCEPT ![m] = "spawned"]
      /\ UNCHANGED <<boundTo, closed>>
  BY DEF Track
<1>3. m \in SpawnMatches
  BY <1>1 DEF ProcessType
<1>4. /\ f \in [Procs -> ProcessType]
      /\ \A q \in Procs : /\ f[q].match = process[q].match
                          /\ f[q].run = process[q].run
                          /\ f[q].kill = process[q].kill
                          /\ q # p => f[q].spawn = process[q].spawn
  <2>1. process[p] \in ProcessType
    BY <1>1
  <2>2. f = [process EXCEPT ![p] = [process[p] EXCEPT !.spawn = "tracked"]]
    BY <1>1
  <2>3. /\ [process[p] EXCEPT !.spawn = "tracked"] \in ProcessType
        /\ [process[p] EXCEPT !.spawn = "tracked"].match = process[p].match
        /\ [process[p] EXCEPT !.spawn = "tracked"].run = process[p].run
        /\ [process[p] EXCEPT !.spawn = "tracked"].kill = process[p].kill
    BY <2>1 DEF ProcessType
  <2> HIDE DEF f
  <2> QED
    BY <1>1, <2>2, <2>3
<1> HIDE DEF f
<1>5. /\ process' \in [Procs -> ProcessType]
      /\ \A q \in Procs : /\ process'[q].match = f[q].match
                          /\ process'[q].run = f[q].run
                          /\ process'[q].spawn = f[q].spawn
                          /\ q \in ps \/ f[q].kill # "none" => process'[q].kill # "none"
  BY <1>2, <1>4, AskKillFacts
<1>6. SpawnTypeOK'
  <2>1. /\ procs' \in [SpawnMatches -> Procs \cup {NoProc}]
        /\ entry' \in [SpawnMatches -> {"none", "starting", "spawning", "spawned", "started"}]
    BY <1>2, <1>3 DEF SpawnInv, SpawnTypeOK
  <2> QED
    BY <1>2, <1>5, <2>1 DEF SpawnInv, SpawnTypeOK, ProcessType
<1>7. Reachable'
  <2>1. procs'[m] = p /\ \A n \in SpawnMatches : n # m => procs'[n] = procs[n]
    BY <1>2, <1>3 DEF SpawnInv, SpawnTypeOK
  <2>2. \A q \in Procs : process[q].match \in SpawnMatches /\ q # NoProc
    BY <1>1, SpawnerAssumptions DEF ProcessType
  <2> QED
    BY <1>4, <1>5, <2>1, <2>2 DEF SpawnInv, Reachable, Alive
<1> QED
  BY <1>6, <1>7 DEF SpawnInv

LEMMA ProcessStepInv ==
    ASSUME SpawnInv, NEW p \in Procs,
           \/ SeesReady(p) \/ ReadyTimeout(p) \/ TTLExpires(p) \/ Terminate(p)
           \/ TermEnds(p) \/ EndsByItself(p) \/ HardKill(p)
    PROVE  SpawnInv'
<1>1. process[p] \in ProcessType /\ process \in [Procs -> ProcessType]
  BY DEF SpawnInv, SpawnTypeOK, ProcessType
<1>2. entry' \in [SpawnMatches -> {"none", "starting", "spawning", "spawned", "started"}]
      /\ UNCHANGED <<boundTo, procs, closed>>
  BY DEF SpawnInv, SpawnTypeOK, SeesReady, ReadyTimeout, TTLExpires, Terminate, TermEnds,
         EndsByItself, HardKill, matchVars
<1>3. \A g \in [Procs -> ProcessType] :
         AskKill(g, {p}) = [g EXCEPT ![p] =
            IF g[p].kill = "none" THEN [g[p] EXCEPT !.kill = "asked"] ELSE g[p]]
  BY DEF AskKill
<1>4. CASE SeesReady(p) \/ ReadyTimeout(p)
  <2> DEFINE pr == [process[p] EXCEPT !.spawn = "ready", !.ttl = TRUE]
             pf == [process[p] EXCEPT !.spawn = "failed"]
             pk == IF pf.kill = "none" THEN [pf EXCEPT !.kill = "asked"] ELSE pf
  <2>1. pr \in ProcessType /\ pr.spawn = "ready" /\ pf \in ProcessType
    BY <1>1 DEF ProcessType
  <2>2. pk \in ProcessType /\ pk.kill # "none"
    BY <2>1 DEF ProcessType
  <2>3. SeesReady(p) => process' = [process EXCEPT ![p] = pr]
    BY <1>1 DEF SeesReady
  <2>4. ReadyTimeout(p) => process' = [process EXCEPT ![p] = pk]
    <3>1. [process EXCEPT ![p].spawn = "failed"] = [process EXCEPT ![p] = pf]
      BY <1>1
    <3>2. [process EXCEPT ![p] = pf] \in [Procs -> ProcessType]
          /\ [process EXCEPT ![p] = pf][p] = pf
      BY <1>1, <2>1
    <3> HIDE DEF pf
    <3>3. AskKill([process EXCEPT ![p] = pf], {p}) = [[process EXCEPT ![p] = pf] EXCEPT ![p] = pk]
      BY <1>3, <3>2
    <3>4. [[process EXCEPT ![p] = pf] EXCEPT ![p] = pk] = [process EXCEPT ![p] = pk]
      <4> HIDE DEF pk
      <4> QED
        BY <1>1
    <3> HIDE DEF pk
    <3> QED
      BY <3>1, <3>3, <3>4 DEF ReadyTimeout, pf
  <2> HIDE DEF pr, pk
  <2> QED
    BY <1>2, <1>4, <2>1, <2>2, <2>3, <2>4, OneProcessStep
<1>5. CASE TTLExpires(p)
  <2> DEFINE pf == [process[p] EXCEPT !.ttl = FALSE]
             pk == IF pf.kill = "none" THEN [pf EXCEPT !.kill = "asked"] ELSE pf
  <2>1. pf \in ProcessType
    BY <1>1 DEF ProcessType
  <2>2. pk \in ProcessType /\ pk.kill # "none"
    BY <2>1 DEF ProcessType
  <2>3. [process EXCEPT ![p].ttl = FALSE] = [process EXCEPT ![p] = pf]
    BY <1>1
  <2>4. [process EXCEPT ![p] = pf] \in [Procs -> ProcessType] /\ [process EXCEPT ![p] = pf][p] = pf
    BY <1>1, <2>1
  <2> HIDE DEF pf
  <2>5. AskKill([process EXCEPT ![p] = pf], {p}) = [[process EXCEPT ![p] = pf] EXCEPT ![p] = pk]
    BY <1>3, <2>4
  <2> HIDE DEF pk
  <2>6. [[process EXCEPT ![p] = pf] EXCEPT ![p] = pk] = [process EXCEPT ![p] = pk]
    BY <1>1
  <2>7. process' = [process EXCEPT ![p] = pk]
    BY <1>5, <2>3, <2>5, <2>6 DEF TTLExpires
  <2> QED
    BY <1>2, <2>2, <2>7, OneProcessStep
<1>6. CASE Terminate(p)
  <2> DEFINE pr == [process[p] EXCEPT !.kill = "term", !.ttl = FALSE]
  <2>1. pr \in ProcessType /\ pr.kill = "term"
    BY <1>1 DEF ProcessType
  <2>2. process' = [process EXCEPT ![p] = pr]
    BY <1>1, <1>6 DEF Terminate
  <2> HIDE DEF pr
  <2> QED
    BY <1>2, <2>1, <2>2, OneProcessStep
<1>7. CASE TermEnds(p) \/ EndsByItself(p) \/ HardKill(p)
  <2> DEFINE pr == [process[p] EXCEPT !.run = "exited"]
             ph == [process[p] EXCEPT !.run = "exited", !.kill = "grace"]
  <2>1. pr \in ProcessType /\ pr.run = "exited" /\ ph \in ProcessType /\ ph.run = "exited"
    BY <1>1 DEF ProcessType
  <2>2. process' = [process EXCEPT ![p] = pr] \/ process' = [process EXCEPT ![p] = ph]
    BY <1>1, <1>7 DEF TermEnds, EndsByItself, HardKill
  <2> HIDE DEF pr, ph
  <2> QED
    BY <1>2, <2>1, <2>2, OneProcessStep
<1> QED
  BY <1>4, <1>5, <1>6, <1>7

LEMMA SpawnNextInv == SpawnInv /\ [SpawnNext]_spawnVars => SpawnInv'
<1> SUFFICES ASSUME SpawnInv, [SpawnNext]_spawnVars PROVE SpawnInv'
  OBVIOUS
<1>1. /\ entry \in [SpawnMatches -> {"none", "starting", "spawning", "spawned", "started"}]
      /\ boundTo \in [SpawnMatches -> Procs \cup {NoProc}]
      /\ procs \in [SpawnMatches -> Procs \cup {NoProc}]
      /\ process \in [Procs -> ProcessType]
      /\ closed \in BOOLEAN
  BY DEF SpawnInv, SpawnTypeOK, ProcessType
<1>2. CASE UNCHANGED spawnVars
  BY <1>1, <1>2, EntryStep DEF spawnVars
<1>3. ASSUME NEW m \in SpawnMatches, NEW p \in Procs, StartProcess(m, p) PROVE SpawnInv'
  <2> DEFINE pr == [match |-> m, run |-> "running", spawn |-> "waiting", ttl |-> FALSE, kill |-> "none"]
  <2>1. pr \in ProcessType /\ pr.spawn = "waiting"
    BY DEF ProcessType
  <2>2. process' = [process EXCEPT ![p] = pr] /\ UNCHANGED <<boundTo, procs, closed>>
    BY <1>3 DEF StartProcess
  <2>3. entry' \in [SpawnMatches -> {"none", "starting", "spawning", "spawned", "started"}]
    BY <1>1, <1>3 DEF StartProcess
  <2> HIDE DEF pr
  <2> QED
    BY <2>1, <2>2, <2>3, OneProcessStep
<1>4. ASSUME NEW m \in SpawnMatches, StartMatchAsync(m) \/ NoProcess(m) \/ TellRoom(m) PROVE SpawnInv'
  <2>1. /\ entry' \in [SpawnMatches -> {"none", "starting", "spawning", "spawned", "started"}]
        /\ boundTo' \in [SpawnMatches -> Procs \cup {NoProc}]
        /\ UNCHANGED <<process, procs, closed>>
    BY <1>1, <1>4 DEF StartMatchAsync, NoProcess, TellRoom
  <2> QED
    BY <2>1, EntryStep
<1>5. ASSUME NEW p \in Procs, SpawnFailed(p) PROVE SpawnInv'
  <2>1. /\ entry' \in [SpawnMatches -> {"none", "starting", "spawning", "spawned", "started"}]
        /\ UNCHANGED <<boundTo, process, procs, closed>>
    BY <1>1, <1>5 DEF SpawnFailed
  <2> QED
    BY <1>1, <2>1, EntryStep
<1>6. ASSUME NEW m \in SpawnMatches, HandleBattleResult(m) PROVE SpawnInv'
  <2> DEFINE ps == {procs[m]} \ {NoProc}
  <2>1. /\ process' = AskKill(process, ps)
        /\ procs' = [procs EXCEPT ![m] = NoProc]
        /\ UNCHANGED <<matchVars, closed>>
    BY <1>6 DEF HandleBattleResult, KillMatch
  <2>2. /\ procs' \in [SpawnMatches -> Procs \cup {NoProc}]
        /\ \A n \in SpawnMatches : procs[n] # procs'[n] => procs[n] \in ps \cup {NoProc}
    BY <1>1, <2>1
  <2> HIDE DEF ps
  <2> QED
    BY <1>1, <2>1, <2>2, TableStep
<1>7. CASE ServerClose
  <2> DEFINE ps == {procs[m] : m \in SpawnMatches} \ {NoProc}
  <2>1. /\ process' = AskKill(process, ps)
        /\ procs' = [m \in SpawnMatches |-> NoProc]
        /\ closed' = TRUE /\ UNCHANGED matchVars
    BY <1>7 DEF ServerClose, KillAll
  <2>2. /\ procs' \in [SpawnMatches -> Procs \cup {NoProc}]
        /\ \A n \in SpawnMatches : procs[n] # procs'[n] => procs[n] \in ps \cup {NoProc}
    BY <1>1, <2>1
  <2> HIDE DEF ps
  <2> QED
    BY <1>1, <2>1, <2>2, TableStep
<1> QED
  BY <1>2, <1>3, <1>4, <1>5, <1>6, <1>7, TrackInv, ProcessStepInv DEF SpawnNext

(* No battle process is leaked: one that runs is held by Spawn, sits in    *)
(* its match's place in the table, or is about to be killed.               *)
THEOREM ProcessesAreReachable == SpawnSpec => [](SpawnTypeOK /\ Reachable)
<1>1. SpawnInv => SpawnTypeOK /\ Reachable
  BY DEF SpawnInv
<1> QED
  BY <1>1, SpawnInitInv, SpawnNextInv, PTL DEF SpawnSpec

-----------------------------------------------------------------------------
(* The relay.  Before it opens, none of its goroutines runs and it has no  *)
(* socket.                                                                 *)
WaitingInv ==
    stage = "waiting" => /\ socket = NoEndpoint
                         /\ reader.at = "none" /\ poller = "none" /\ writer = "none"
                         /\ \A g \in Callers : call[g] = "none"

RelayInv == RelayTypeOK /\ WaitingInv

ReaderType == [at : {"none", "top", "reading", "redial", "ended"}, on : Endpoints \cup {NoEndpoint}]

LEMMA RelayInitInv == RelayInit => RelayInv
<1> SUFFICES ASSUME RelayInit PROVE RelayInv
  OBVIOUS
<1>1. reader = [at |-> "none", on |-> NoEndpoint]
  BY DEF RelayInit
<1>2. reader \in ReaderType /\ reader.at = "none"
  BY <1>1 DEF ReaderType
<1>3. call \in [Callers -> {"none", "check", "stamp", "dial"}] /\ \A g \in Callers : call[g] = "none"
  BY DEF RelayInit
<1>4. endpoint \in Endpoints \cup {NoEndpoint} /\ local \in {NoEndpoint, Registry} /\ dialFails \in 0..MaxDialFails
  BY RelayAssumptions DEF RelayInit, Endpoints
<1>5. RelayTypeOK
  BY <1>2, <1>3, <1>4 DEF RelayInit, RelayTypeOK, ReaderType
<1> QED
  BY <1>2, <1>3, <1>5 DEF RelayInit, RelayInv, WaitingInv

(* redial swaps the socket for the one that is current now, or leaves it.  *)
LEMMA RedialInv ==
    ASSUME RelayTypeOK, Redial
    PROVE  /\ socket' \in Endpoints \cup {NoEndpoint}
           /\ open' \subseteq {socket'} \cap Endpoints
           /\ dialFails' \in 0..MaxDialFails
<1>1. dialFails' \in 0..MaxDialFails
  BY RelayAssumptions DEF RelayTypeOK, Redial, DialFails
<1>2. CASE UNCHANGED <<socket, open>>
  BY <1>1, <1>2 DEF RelayTypeOK
<1>3. CASE /\ endpoint \notin {NoEndpoint, socket}
           /\ socket' = endpoint
           /\ open' = (open \ {socket}) \cup {endpoint}
  BY <1>1, <1>3 DEF RelayTypeOK
<1> QED
  BY <1>2, <1>3 DEF Redial

(* A step of the three callers within redial.                              *)
LEMMA RedialingInv ==
    ASSUME RelayInv, NEW g \in Callers, RedialChecks(g) \/ RedialStamps(g) \/ RedialDials(g)
    PROVE  RelayInv'
<1> USE DEF RelayInv
<1>1. /\ call' \in [Callers -> {"none", "check", "stamp", "dial"}]
      /\ recent' \in BOOLEAN
      /\ call[g] # "none"
  BY DEF RedialChecks, RedialStamps, RedialDials, RelayTypeOK
<1>2. stage # "waiting"
  BY <1>1 DEF WaitingInv
<1>3. UNCHANGED <<allocation, stage, done, stopping, reader, poller, writer, client>>
  BY DEF RedialChecks, RedialStamps, RedialDials
<1>4. /\ socket' \in Endpoints \cup {NoEndpoint}
      /\ open' \subseteq {socket'} \cap Endpoints
      /\ dialFails' \in 0..MaxDialFails
  <2>1. CASE RedialDials(g)
    BY <2>1, RedialInv DEF RedialDials
  <2>2. CASE RedialChecks(g) \/ RedialStamps(g)
    BY <2>2 DEF RedialChecks, RedialStamps, RelayTypeOK
  <2> QED
    BY <2>1, <2>2
<1> QED
  BY <1>1, <1>2, <1>3, <1>4 DEF allocation, RelayTypeOK, WaitingInv

LEMMA OpenOnInv ==
    ASSUME RelayInv, NEW e \in Endpoints \cup {NoEndpoint}, OpenOn(e)
    PROVE  RelayInv'
<1> USE DEF RelayInv
<1>1. open = {} /\ stage = "waiting"
  BY RelayAssumptions DEF RelayTypeOK, WaitingInv, OpenOn, Endpoints
<1>2. UNCHANGED <<allocation, done, stopping, call, recent, client>>
  BY DEF OpenOn
<1>3. dialFails' \in 0..MaxDialFails
  BY RelayAssumptions DEF OpenOn, DialFails, RelayTypeOK
<1>4. CASE stage' = "open"
  <2>1. /\ e # NoEndpoint /\ socket' = e /\ open' = {e}
        /\ reader' = [at |-> "top", on |-> NoEndpoint]
        /\ poller' = "ticking" /\ writer' = "reading"
    BY <1>4 DEF OpenOn
  <2>2. reader' \in ReaderType
    BY <2>1 DEF ReaderType
  <2> QED
    BY <1>2, <1>3, <1>4, <2>1, <2>2 DEF allocation, RelayTypeOK, WaitingInv, ReaderType
<1>5. CASE stage' = "refused"
  BY <1>1, <1>2, <1>3, <1>5 DEF OpenOn, allocation, RelayTypeOK, WaitingInv
<1> QED
  BY <1>4, <1>5 DEF OpenOn

(* The call of redial and what is left of it.                              *)
LEMMA CallsType ==
    ASSUME RelayTypeOK, NEW g \in Callers
    PROVE  Calls(g) => call' \in [Callers -> {"none", "check", "stamp", "dial"}]
BY DEF RelayTypeOK, Calls

LEMMA RelayNextInv == RelayInv /\ [RelayNext]_relayVars => RelayInv'
<1> SUFFICES ASSUME RelayInv, [RelayNext]_relayVars PROVE RelayInv'
  OBVIOUS
<1> USE DEF RelayInv
<1>1. CASE UNCHANGED relayVars
  BY <1>1 DEF relayVars, allocation, redialing, RelayTypeOK, WaitingInv
<1>2. ASSUME NEW e \in Reported, AgentReports(e) PROVE RelayInv'
  BY <1>2 DEF AgentReports, redialing, RelayTypeOK, WaitingInv, Endpoints
<1>3. CASE OpenLocal \/ OpenReported \/ OpenAnyway
  <2>1. PICK e \in Endpoints \cup {NoEndpoint} : OpenOn(e)
    BY <1>3 DEF OpenLocal, OpenReported, OpenAnyway, RelayTypeOK, Endpoints
  <2> QED
    BY <2>1, OpenOnInv
<1>4. CASE AllocationGoes \/ ClientGoes \/ LimitOver
  BY <1>4 DEF AllocationGoes, ClientGoes, LimitOver, allocation, redialing, RelayTypeOK, WaitingInv
<1>5. CASE StopCloses
  <2>1. /\ UNCHANGED <<allocation, stage, socket, done, reader, poller, writer, redialing>>
        /\ stopping' = FALSE /\ client' = "gone" /\ open' = open \ {socket}
    BY <1>5 DEF StopCloses
  <2>2. open' \subseteq {socket'} \cap Endpoints
    BY <2>1 DEF RelayTypeOK
  <2>3. {done', stopping'} \subseteq BOOLEAN
    BY <2>1 DEF RelayTypeOK
  <2> QED
    BY <2>1, <2>2, <2>3 DEF allocation, redialing, RelayTypeOK, WaitingInv
<1>6. CASE ReaderTakes \/ ReaderConn \/ ReaderRedials
  <2>1. reader' \in ReaderType /\ reader.at # "none"
    BY <1>6 DEF ReaderTakes, ReaderConn, ReaderRedials, RelayTypeOK, ReaderType
  <2>2. UNCHANGED <<allocation, stage, socket, open, done, stopping, poller, writer, redialing, client>>
    BY <1>6 DEF ReaderTakes, ReaderConn, ReaderRedials
  <2> QED
    BY <2>1, <2>2 DEF allocation, redialing, RelayTypeOK, WaitingInv, ReaderType
<1>7. CASE ReaderGets
  <2>1. reader' \in ReaderType /\ reader.at # "none"
    BY <1>7 DEF ReaderGets, RelayTypeOK, ReaderType
  <2>2. /\ UNCHANGED <<allocation, stage, socket, open, poller, writer, redialing, client>>
        /\ done' \in BOOLEAN /\ stopping' \in BOOLEAN
    BY <1>7 DEF ReaderGets, Stops, RelayTypeOK
  <2> QED
    BY <2>1, <2>2 DEF allocation, redialing, RelayTypeOK, WaitingInv, ReaderType
<1>8. CASE ReaderFails
  <2>1. reader' \in ReaderType /\ reader.at # "none"
    BY <1>8 DEF ReaderFails, RelayTypeOK, ReaderType
  <2>2. /\ UNCHANGED <<allocation, stage, socket, open, done, stopping, poller, writer, recent, dialFails, client>>
        /\ call' \in [Callers -> {"none", "check", "stamp", "dial"}]
    BY <1>8, CallsType DEF ReaderFails, Calls, redialing, RelayTypeOK, Callers
  <2> QED
    BY <2>1, <2>2 DEF allocation, RelayTypeOK, WaitingInv, ReaderType
<1>9. CASE PollerWakes \/ WriteFails
  <2>1. /\ UNCHANGED <<allocation, stage, socket, open, done, stopping, reader, recent, dialFails, client>>
        /\ call' \in [Callers -> {"none", "check", "stamp", "dial"}]
        /\ poller' \in {"none", "ticking", "redial", "ended"} /\ writer' \in {"none", "reading", "redial", "ended"}
        /\ poller # "none" \/ writer # "none"
    BY <1>9, CallsType DEF PollerWakes, WriteFails, Calls, redialing, RelayTypeOK, Callers
  <2> QED
    BY <2>1 DEF allocation, RelayTypeOK, WaitingInv
<1>10. CASE PollerRedials \/ WriterRedials
  BY <1>10 DEF PollerRedials, WriterRedials, allocation, redialing, RelayTypeOK, WaitingInv
<1>11. ASSUME NEW g \in Callers, RedialChecks(g) \/ RedialStamps(g) \/ RedialDials(g) PROVE RelayInv'
  BY <1>11, RedialingInv
<1>12. CASE HandlerReturns \/ PingFails
  <2>1. done' \in BOOLEAN /\ stopping' \in BOOLEAN
    BY <1>12 DEF HandlerReturns, PingFails, Stops, RelayTypeOK
  <2> QED
    BY <1>12, <2>1 DEF HandlerReturns, PingFails, allocation, redialing, RelayTypeOK, WaitingInv
<1> QED
  BY <1>1, <1>2, <1>3, <1>4, <1>5, <1>6, <1>7, <1>8, <1>9, <1>10, <1>11, <1>12 DEF RelayNext

(* However often the agent reports and the three goroutines redial, a      *)
(* relay has no socket open but the one it uses now.                       *)
THEOREM OneSocketPerRelay == RelaySpec => []RelayTypeOK
<1>1. RelayInv => RelayTypeOK
  BY DEF RelayInv
<1> QED
  BY <1>1, RelayInitInv, RelayNextInv, PTL DEF RelaySpec

-----------------------------------------------------------------------------
(* The parts together: a step moves one of them and leaves the others, so  *)
(* neither a process nor a socket is leaked.                               *)
THEOREM NothingIsLeaked == ProgressSpec => []NothingLeaks
<1>1. ProgressInit => SpawnInv /\ RelayInv
  BY SpawnInitInv, RelayInitInv DEF ProgressInit
<1>2. SpawnInv /\ RelayInv /\ [ProgressNext]_progressVars => (SpawnInv /\ RelayInv)'
  <2>1. [ProgressNext]_progressVars => [SpawnNext]_spawnVars /\ [RelayNext]_relayVars
    BY DEF ProgressNext, progressVars
  <2> QED
    BY <2>1, SpawnNextInv, RelayNextInv
<1>3. SpawnInv /\ RelayInv => NothingLeaks
  BY DEF SpawnInv, RelayInv, NothingLeaks
<1> QED
  BY <1>1, <1>2, <1>3, PTL DEF ProgressSpec
=============================================================================
