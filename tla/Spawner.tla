------------------------------- MODULE Spawner -------------------------------
(***************************************************************************)
(* The battle processes a lobby starts itself (runtime/battlespawn) and    *)
(* the goroutines that start and end them: startMatch, the result handler, *)
(* shutdown and the timers (runtime/lobbyws).                              *)
(*                                                                         *)
(* A match of a full room gets one goroutine, startMatch, which spawns its *)
(* process, binds the allocation and tells the players; a result may come  *)
(* in at any point of it.                                                  *)
(*                                                                         *)
(* Spawner.mu covers the table only.  Process.Kill runs outside of it and  *)
(* takes up to the grace period, so a process is for a while neither in    *)
(* the table nor gone.                                                     *)
(***************************************************************************)
EXTENDS Integers, FiniteSets

CONSTANTS
    SpawnMatches,
    Procs,          \* process identities, each used once
    NoProc,
    Stubborn        \* processes that ignore SIGTERM

ASSUME SpawnerAssumptions ==
    /\ SpawnMatches # {}
    /\ NoProc \notin Procs
    /\ Stubborn \subseteq Procs

VARIABLES
    entry,      \* Server.matches, and how far startMatch is: [Matches -> stages]
    boundTo,    \* matchEntry.endpoint, by its process
    process,    \* [Procs -> [match, run, spawn, ttl, kill]]
    procs,      \* Spawner.procs
    closed      \* Server.Close ran

matchVars == <<entry, boundTo>>
spawnVars == <<entry, boundTo, process, procs, closed>>

(* run: "new", "running" or "exited" (reaped).                              *)
(* spawn: where Spawn stands with it: "none", "waiting" for READY, "ready"  *)
(* (READY read, not in the table yet), "tracked" or "failed".               *)
(* ttl: the timer of time.AfterFunc is armed.                               *)
(* kill: Process.Kill: "none", "asked" (to be called), "term" or "grace".   *)
Fresh(p) == process[p].run = "new"
Alive(p) == process[p].run = "running"

(* Process.Kill is due: stopOnce lets one call through.                     *)
AskKill(f, ps) ==
    [p \in Procs |-> IF p \in ps /\ f[p].kill = "none" THEN [f[p] EXCEPT !.kill = "asked"] ELSE f[p]]

(* startMatchAsync: a match is started once.                                *)
StartMatchAsync(m) ==
    /\ entry[m] = "none"
    /\ entry' = [entry EXCEPT ![m] = "starting"]
    /\ UNCHANGED <<boundTo, process, procs, closed>>

(* Spawn up to the wait for READY.                                          *)
StartProcess(m, p) ==
    /\ entry[m] = "starting"
    /\ Fresh(p)
    /\ entry' = [entry EXCEPT ![m] = "spawning"]
    /\ process' = [process EXCEPT ![p] =
                     [match |-> m, run |-> "running", spawn |-> "waiting", ttl |-> FALSE, kill |-> "none"]]
    /\ UNCHANGED <<boundTo, procs, closed>>

(* There is no allocation, or the binary does not start.                    *)
NoProcess(m) ==
    /\ entry[m] = "starting"
    /\ entry' = [entry EXCEPT ![m] = "spawned"]
    /\ UNCHANGED <<boundTo, process, procs, closed>>

(* The READY line wins the select: the timer is armed.  The process may be  *)
(* gone already.                                                            *)
SeesReady(p) ==
    /\ process[p].spawn = "waiting"
    /\ process' = [process EXCEPT ![p].spawn = "ready", ![p].ttl = TRUE]
    /\ UNCHANGED <<matchVars, procs, closed>>

(* ReadyTimeout or the context of startMatch wins the select: Spawn calls   *)
(* Kill.                                                                    *)
(* Mutant: the process is left alone.                                       *)
ReadyTimeoutLeaving(p) ==
    /\ process[p].spawn = "waiting"
    /\ process' = [process EXCEPT ![p].spawn = "failed"]
    /\ UNCHANGED <<matchVars, procs, closed>>
ReadyTimeout(p) ==
    /\ process[p].spawn = "waiting"
    /\ process' = AskKill([process EXCEPT ![p].spawn = "failed"], {p})
    /\ UNCHANGED <<matchVars, procs, closed>>

(* Kill has seen the process end, and Spawn returns an error.               *)
SpawnFailed(p) ==
    /\ process[p].spawn = "failed" /\ process[p].run = "exited"
    /\ entry[process[p].match] = "spawning"
    /\ entry' = [entry EXCEPT ![process[p].match] = "spawned"]
    /\ UNCHANGED <<boundTo, process, procs, closed>>

(* track, and Spawn returns: the process takes the match's place and one    *)
(* that was there is killed.                                                *)
Track(p) ==
    LET m == process[p].match
    IN /\ process[p].spawn = "ready"
       /\ procs' = [procs EXCEPT ![m] = p]
       /\ process' = AskKill([process EXCEPT ![p].spawn = "tracked"], {procs[m]} \ {NoProc})
       /\ entry' = [entry EXCEPT ![m] = "spawned"]
       /\ UNCHANGED <<boundTo, closed>>

(* startMatch binds the allocation to the process Spawn returned, unless    *)
(* BindBattleServerAllocation refuses, and tells the room: a failed spawn   *)
(* does not keep the players from their match.                              *)
TellRoom(m) ==
    /\ entry[m] = "spawned"
    /\ entry' = [entry EXCEPT ![m] = "started"]
    /\ \/ UNCHANGED boundTo
       \/ \E p \in Procs : /\ process[p].match = m /\ process[p].spawn = "tracked"
                            /\ boundTo' = [boundTo EXCEPT ![m] = p]
    /\ UNCHANGED <<process, procs, closed>>

(* Spawner.Kill                                                             *)
KillMatch(m) ==
    /\ procs' = [procs EXCEPT ![m] = NoProc]
    /\ process' = AskKill(process, {procs[m]} \ {NoProc})

(* HandleBattleResult: the process of the match is killed for every result  *)
(* that is accepted, a repeated one too.  The caller is the process that    *)
(* still awaits the answer, and it may call before track.                   *)
HandleBattleResult(m) ==
    /\ \E p \in Procs : process[p].match = m /\ ~Fresh(p)
    /\ KillMatch(m)
    /\ UNCHANGED <<matchVars, closed>>

(* KillAll                                                                  *)
KillAll ==
    /\ procs' = [m \in SpawnMatches |-> NoProc]
    /\ process' = AskKill(process, {procs[m] : m \in SpawnMatches} \ {NoProc})

(* Server.Close: the connections, then the processes.                       *)
ServerClose ==
    /\ ~closed
    /\ closed' = TRUE
    /\ KillAll
    /\ UNCHANGED matchVars

(* The TTL timer calls Kill; the table keeps its entry.                     *)
(* Mutant: a process in the table is left to whoever holds the table.       *)
TTLExpiresUntracked(p) ==
    /\ process[p].ttl
    /\ procs[process[p].match] # p
    /\ process' = AskKill([process EXCEPT ![p].ttl = FALSE], {p})
    /\ UNCHANGED <<matchVars, procs, closed>>
TTLExpires(p) ==
    /\ process[p].ttl
    /\ process' = AskKill([process EXCEPT ![p].ttl = FALSE], {p})
    /\ UNCHANGED <<matchVars, procs, closed>>

(* Process.Kill: SIGTERM, and the timer is stopped.                         *)
Terminate(p) ==
    /\ process[p].kill = "asked"
    /\ process' = [process EXCEPT ![p].kill = "term", ![p].ttl = FALSE]
    /\ UNCHANGED <<matchVars, procs, closed>>

(* The process ends: of SIGTERM, or by itself when its match is over.       *)
TermEnds(p) ==
    /\ Alive(p) /\ process[p].kill = "term" /\ p \notin Stubborn
    /\ process' = [process EXCEPT ![p].run = "exited"]
    /\ UNCHANGED <<matchVars, procs, closed>>
EndsByItself(p) ==
    /\ Alive(p)
    /\ process' = [process EXCEPT ![p].run = "exited"]
    /\ UNCHANGED <<matchVars, procs, closed>>

(* Process.Kill: the grace period is over, SIGKILL.                         *)
HardKill(p) ==
    /\ Alive(p) /\ process[p].kill = "term"
    /\ process' = [process EXCEPT ![p].run = "exited", ![p].kill = "grace"]
    /\ UNCHANGED <<matchVars, procs, closed>>

SpawnInit ==
    /\ entry = [m \in SpawnMatches |-> "none"]
    /\ boundTo = [m \in SpawnMatches |-> NoProc]
    /\ process = [p \in Procs |->
                    [match |-> CHOOSE m \in SpawnMatches : TRUE, run |-> "new", spawn |-> "none", ttl |-> FALSE, kill |-> "none"]]
    /\ procs = [m \in SpawnMatches |-> NoProc]
    /\ closed = FALSE

SpawnNext ==
    \/ \E m \in SpawnMatches, p \in Procs : StartProcess(m, p)
    \/ \E p \in Procs : SeesReady(p) \/ ReadyTimeout(p) \/ SpawnFailed(p) \/ Track(p) \/ TTLExpires(p)
                        \/ Terminate(p) \/ TermEnds(p) \/ EndsByItself(p) \/ HardKill(p)
    \/ \E m \in SpawnMatches : StartMatchAsync(m) \/ NoProcess(m) \/ TellRoom(m) \/ HandleBattleResult(m)
    \/ ServerClose

SpawnSpec == SpawnInit /\ [][SpawnNext]_spawnVars

-----------------------------------------------------------------------------
(* Properties.                                                              *)

SpawnTypeOK ==
    /\ entry \in [SpawnMatches -> {"none", "starting", "spawning", "spawned", "started"}]
    /\ boundTo \in [SpawnMatches -> Procs \cup {NoProc}]
    /\ process \in [Procs -> [match : SpawnMatches, run : {"new", "running", "exited"},
                              spawn : {"none", "waiting", "ready", "tracked", "failed"},
                              ttl : BOOLEAN, kill : {"none", "asked", "term", "grace"}]]
    /\ procs \in [SpawnMatches -> Procs \cup {NoProc}]
    /\ closed \in BOOLEAN

(* A process that runs can be reached: Spawn still holds it, it has its     *)
(* match's place in the table, or somebody is about to kill it.  The        *)
(* comment on Spawn ("no process is leaked on failure"), whatever times     *)
(* out, reports its result early or closes meanwhile.                       *)
Reachable ==
    \A p \in Procs :
       Alive(p) => \/ process[p].spawn \in {"waiting", "ready"}
                   \/ procs[process[p].match] = p
                   \/ process[p].kill # "none"

(* Every process that was started ends, also one that never prints READY,   *)
(* whose result never arrives or that ignores SIGTERM: the timeout of       *)
(* Spawn, the TTL timer and SIGKILL see to it as long as the lobby lives.   *)
(* And every match that is started is announced to its room, with or        *)
(* without a process (startMatch).                                          *)
EveryProcessEnds ==
    /\ \A p \in Procs : Alive(p) ~> process[p].run = "exited"
    /\ \A m \in SpawnMatches : entry[m] = "starting" ~> entry[m] = "started"
=============================================================================
